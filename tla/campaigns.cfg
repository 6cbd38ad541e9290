SPECIFICATION FairSpec
CONSTANTS
  UserCount = 3
  CommunityCount = 3
  Links <- MCLinks
  CohortSize = 2
  CollectedBefore = {2}
  FreshBefore = {}
  Disturbances = {"transient", "fatal", "defer", "disk", "room", "crash", "pause", "supersede"}
  MaxDisturbances = 2
INVARIANTS
  TypeOK
  NoUserLeftBehind
  CompletedIsComplete
PROPERTIES
  PlannedOnce
  PausedPlansNothing
  LifecycleKept
  CampaignSettles
  GateOpens
CHECK_DEADLOCK FALSE
