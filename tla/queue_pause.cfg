SPECIFICATION Spec
CONSTANTS
  j1 = j1
  j2 = j2
  s1 = s1
  s2 = s2
  s3 = s3
  w1 = w1
  w2 = w2
  NoJob = NoJob
  Jobs <- TwoJobs
  BatchJobs = {}
  DurableJobs = {}
  DiscoveringJobs = {}
  Workers <- OneWorker
  Foreground = {}
  Slots <- TwoSlots
  WorkerOf <- OneWorkerOf
  MaxAttempts = 2
  Disturbances = {"transient", "pause"}
  MaxDisturbances = 2
PROPERTIES
  PauseHolds
CHECK_DEADLOCK FALSE
