SPECIFICATION FairSpec
CONSTANTS
  UserCount = 3
  CommunityCount = 3
  Links <- MCLinks
  CohortSize = 2
  CollectedBefore = {2}
  FreshBefore = {}
  Disturbances = {"disk"}
  MaxDisturbances = 1
PROPERTY ParkedCampaignResumes
CHECK_DEADLOCK FALSE
