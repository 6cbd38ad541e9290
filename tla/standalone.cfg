SPECIFICATION Spec
CONSTANTS
  PageRuns = {1, 2}
  PageLists <- FirstLists
  PageSpare = 6
  ListPageSize = 2
  ListMaximum = 3
  SampleSize = 2
  OldPosts = {4, 5}
  PinnedPosts = {5}
  MaxDisturbances = 3
  BatchEntities = {1, 2, 3}
  BatchTasks = {1, 2}
  OpenEntities = {1, 2}
  BatchSize = 2
  MaxBatchFaults = 2
  SearchCallers = {1, 2}
  SearchTotal <- FirstTotal
  SearchPageSize = 2
  MaxSearchRuns = 2
  MaxSearchFaults = 2
  PostCount = 5
  EncodeSize = 2
  SaveInterval = 3
  MaxEmbeddingFaults = 3
  Repeat = 2
  Stall = 2
  MaxChanges = 2
  MaxMonitorFaults = 1
  Planners = {1, 2}
  PlanEntities = {1, 2}
  MaxPlanRuns = 2
  MaxPlanChanges = 1
INVARIANTS
  LinksExact
  SampleOfAll
  PostsKept
  FinishedJobsAreDone
  BatchesDisjoint
  NothingSkipped
  CompletedRunIsThrough
  ResumedNotRestarted
  VectorsBelong
  RowsMatchPosts
  CompletedHasChunk
  NotPlannedTwice
  NotFlooded
  NoFalseStall
  DailyOnce
PROPERTIES
  LinksKept
  ChatConverges
CHECK_DEADLOCK FALSE
