----------------------------- MODULE Standalone -----------------------------
(***************************************************************************)
(* The components that share no state with another modelled one.  A        *)
(* behaviour is one of one component, chosen at the start, so that their   *)
(* state spaces add.  x1 to x15 are that component's variables.            *)
(***************************************************************************)
EXTENDS Integers

CONSTANTS
  PageRuns, PageLists, PageSpare, ListPageSize, ListMaximum, SampleSize, OldPosts,
  PinnedPosts, MaxDisturbances,
  BatchEntities, BatchTasks, OpenEntities, BatchSize, MaxBatchFaults,
  SearchCallers, SearchTotal, SearchPageSize, MaxSearchRuns, MaxSearchFaults,
  PostCount, EncodeSize, SaveInterval, MaxEmbeddingFaults,
  Repeat, Stall, MaxChanges, MaxMonitorFaults,
  Planners, PlanEntities, MaxPlanRuns, MaxPlanChanges

VARIABLES part, x1, x2, x3, x4, x5, x6, x7, x8, x9, x10, x11, x12, x13, x14, x15

all == <<part, x1, x2, x3, x4, x5, x6, x7, x8, x9, x10, x11, x12, x13, x14, x15>>

Pages == INSTANCE PageJobs WITH
    Runs <- PageRuns, Lists <- PageLists, Spare <- PageSpare, PageSize <- ListPageSize,
    Maximum <- ListMaximum, Old <- OldPosts, Pinned <- PinnedPosts,
    kind <- x1, list <- x2, row <- x3, job <- x4, found <- x5, state <- x6,
    begun <- x7, since <- x8, touched <- x9, disturbed <- x10

Batches == INSTANCE ProfileBatches WITH
    Entities <- BatchEntities, Tasks <- BatchTasks, Open <- OpenEntities,
    MaxFaults <- MaxBatchFaults,
    kind <- x1, job <- x2, profile <- x3, planned <- x4, pc <- x5, own <- x6,
    extras <- x7, answer <- x8, omitted <- x9, faults <- x10

Search == INSTANCE SearchRun WITH
    Callers <- SearchCallers, Total <- SearchTotal, PageSize <- SearchPageSize,
    MaxRuns <- MaxSearchRuns, MaxFaults <- MaxSearchFaults,
    status <- x1, progress <- x2, matched <- x3, pc <- x4, at <- x5, keyword <- x6,
    offset <- x7, overlapped <- x8, faults <- x9

Embeddings == INSTANCE EmbeddingRun WITH
    BatchSize <- EncodeSize, MaxFaults <- MaxEmbeddingFaults,
    chunk <- x1, completed <- x2, table <- x3, pc <- x4, next <- x5, batch <- x6,
    rest <- x7, vectors <- x8, successful <- x9, fresh <- x10, bufferVectors <- x11,
    bufferPosts <- x12, torn <- x13, faults <- x14

Monitor == INSTANCE TelegramMonitor WITH
    MaxFaults <- MaxMonitorFaults,
    world <- x1, quiet <- x2, saved <- x3, readable <- x4, memory <- x5, issues <- x6,
    todo <- x7, pc <- x8, due <- x9, told <- x10, message <- x11, reports <- x12,
    lossy <- x13, changes <- x14, faults <- x15

Plans == INSTANCE RunPlanning WITH
    Entities <- PlanEntities, MaxRuns <- MaxPlanRuns, MaxChanges <- MaxPlanChanges,
    kind <- x1, due <- x2, run <- x3, pc <- x4, chosen <- x5, evidence <- x6,
    overlapped <- x7, overlooked <- x8, changes <- x9

(* What the components assume of their constants.                           *)
ASSUME StandaloneAssumption ==
  /\ Pages!PagesAssumption /\ Batches!BatchAssumption /\ Search!SearchAssumption
  /\ Monitor!MonitorAssumption

Init ==
  \/ part = "plans" /\ Plans!Init
     /\ x10 = 0 /\ x11 = 0 /\ x12 = 0 /\ x13 = 0 /\ x14 = 0 /\ x15 = 0
  \/ part = "pages" /\ Pages!Init
     /\ x11 = 0 /\ x12 = 0 /\ x13 = 0 /\ x14 = 0 /\ x15 = 0
  \/ part = "batches" /\ Batches!Init
     /\ x11 = 0 /\ x12 = 0 /\ x13 = 0 /\ x14 = 0 /\ x15 = 0
  \/ part = "search" /\ Search!Init
     /\ x10 = 0 /\ x11 = 0 /\ x12 = 0 /\ x13 = 0 /\ x14 = 0 /\ x15 = 0
  \/ part = "embeddings" /\ Embeddings!Init
     /\ x15 = 0
  \/ part = "monitor" /\ Monitor!Init

Next ==
  /\ UNCHANGED part
  /\ \/ part = "pages" /\ Pages!Next /\ UNCHANGED <<x11, x12, x13, x14, x15>>
     \/ part = "plans" /\ Plans!Next /\ UNCHANGED <<x10, x11, x12, x13, x14, x15>>
     \/ part = "batches" /\ Batches!Next /\ UNCHANGED <<x11, x12, x13, x14, x15>>
     \/ part = "search" /\ Search!Next /\ UNCHANGED <<x10, x11, x12, x13, x14, x15>>
     \/ part = "embeddings" /\ Embeddings!Next /\ UNCHANGED <<x15>>
     \/ part = "monitor" /\ Monitor!Next

(* The timers and the process of the monitor are the ones that go on.       *)
MonitorDoes(A) == part = "monitor" /\ A /\ UNCHANGED part

Spec ==
  /\ Init /\ [][Next]_all
  /\ WF_all(MonitorDoes(Monitor!Period)) /\ WF_all(MonitorDoes(Monitor!CycleStep))
  /\ WF_all(MonitorDoes(Monitor!StartCycle("health")))

-----------------------------------------------------------------------------
(* The components' properties.                                              *)

LinksExact == part = "pages" => Pages!LinksExact
SampleOfAll == part = "pages" => Pages!SampleOfAll
PostsKept == part = "pages" => Pages!PostsKept
SampleAlwaysComplete == part = "pages" => Pages!SampleAlwaysComplete
FinishedJobsAreDone == part = "batches" => Batches!FinishedJobsAreDone
BatchesDisjoint == part = "batches" => Batches!BatchesDisjoint
NothingSkipped == part = "search" => Search!NothingSkipped
CompletedRunIsThrough == part = "search" => Search!CompletedRunIsThrough
ResumedNotRestarted == part = "search" => Search!ResumedNotRestarted
VectorsBelong == part = "embeddings" => Embeddings!VectorsBelong
RowsMatchPosts == part = "embeddings" => Embeddings!RowsMatchPosts
CompletedHasChunk == part = "embeddings" => Embeddings!CompletedHasChunk
NotPlannedTwice == part = "plans" => Plans!NotPlannedTwice
NotFlooded == part = "monitor" => Monitor!NotFlooded
NoFalseStall == part = "monitor" => Monitor!NoFalseStall
DailyOnce == part = "monitor" => Monitor!DailyOnce
LinksKept == [][part = "pages" => Pages!LinksStayMarked]_all
ChatConverges == <>[](part = "monitor" => Monitor!Converged)
=============================================================================
