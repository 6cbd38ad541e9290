SPECIFICATION Spec
CONSTANTS
  j1 = j1
  j2 = j2
  s1 = s1
  s2 = s2
  s3 = s3
  w1 = w1
  w2 = w2
  NoJob = NoJob
  Jobs <- TwoJobs
  BatchJobs <- TwoJobs
  DurableJobs = {}
  DiscoveringJobs <- TwoJobs
  Workers <- TwoWorkers
  Foreground = {w2}
  Slots <- ThreeSlots
  WorkerOf <- ThreeSlotsOf
  MaxAttempts = 2
  Disturbances = {"transient", "methodLimit", "miss", "forbidden", "tokens", "stop", "diskStop", "reject", "crash"}
  MaxDisturbances = 2
INVARIANTS
  SingleOwner
  AttemptAccounting
  NoEarlyFailure
  RunDoneSound
  CountersNeverAhead
PROPERTIES
  ImplementsLedger
CHECK_DEADLOCK FALSE
SYMMETRY Symmetry
