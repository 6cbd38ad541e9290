SPECIFICATION FairSpec
CONSTANTS
  getMembers = getMembers
  usersGet = usersGet
  c1 = c1
  c2 = c2
  p1 = p1
  p2 = p2
  TokenCount = 2
  Methods <- TwoMethods
  Paced <- OneMethod
  Processes <- TwoProcesses
  Callers <- TwoCallers
  ProcessOf <- ProcessOfTwo
  Interval <- Intervals
  ProbationInterval = 2
  ProbationWindow = 4
  PoolInterval = 2
  FirstCooldown <- Cooldowns
  MaxCooldown = 6
  ProbeTime = 3
  TokenCooldown = 2
  EscalationWindow = 1
  EscalationMethods = 2
  MaxRetries = 1
  NoMethod = NoMethod
  LongAgo = 5
  MaxCalls = 2
  MaxFaults = 2
INVARIANTS
  TypeOK
  WakeupsHonest
PROPERTIES
  RatesKept
  ProbesSpaced
  CallsEnd
