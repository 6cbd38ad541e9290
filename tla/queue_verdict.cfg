SPECIFICATION Spec
CONSTANTS
  j1 = j1
  j2 = j2
  s1 = s1
  s2 = s2
  s3 = s3
  w1 = w1
  w2 = w2
  NoJob = NoJob
  Jobs <- TwoJobs
  BatchJobs = {}
  DurableJobs = {}
  DiscoveringJobs = {}
  Workers <- TwoWorkers
  Foreground = {w2}
  Slots <- ThreeSlots
  WorkerOf <- ThreeSlotsOf
  MaxAttempts = 1
  Disturbances = {"transient"}
  MaxDisturbances = 1
INVARIANTS
  VerdictSound
CHECK_DEADLOCK FALSE
