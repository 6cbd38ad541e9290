-------------------------- MODULE StandaloneProofs --------------------------
(***************************************************************************)
(* Theorems about the specification that the standalone run checks, for    *)
(* any constants that StandaloneAssumption allows.  What a component keeps *)
(* true is proved in the module of its own; here it is carried over to the *)
(* behaviours of Standalone, whose part of a component is an instance of   *)
(* it.  For profile batches and planned runs the proof is here.            *)
(***************************************************************************)
EXTENDS Standalone, TLAPS, SequenceTheorems

PagesProofs == INSTANCE PageJobsProofs WITH
    Runs <- PageRuns, Lists <- PageLists, Spare <- PageSpare, PageSize <- ListPageSize,
    Maximum <- ListMaximum, Old <- OldPosts, Pinned <- PinnedPosts,
    kind <- x1, list <- x2, row <- x3, job <- x4, found <- x5, state <- x6,
    begun <- x7, since <- x8, touched <- x9, disturbed <- x10

SearchProofs == INSTANCE SearchRunProofs WITH
    Callers <- SearchCallers, Total <- SearchTotal, PageSize <- SearchPageSize,
    MaxRuns <- MaxSearchRuns, MaxFaults <- MaxSearchFaults,
    status <- x1, progress <- x2, matched <- x3, pc <- x4, at <- x5, keyword <- x6,
    offset <- x7, overlapped <- x8, faults <- x9

EmbeddingsProofs == INSTANCE EmbeddingRunProofs WITH
    BatchSize <- EncodeSize, MaxFaults <- MaxEmbeddingFaults,
    chunk <- x1, completed <- x2, table <- x3, pc <- x4, next <- x5, batch <- x6,
    rest <- x7, vectors <- x8, successful <- x9, fresh <- x10, bufferVectors <- x11,
    bufferPosts <- x12, torn <- x13, faults <- x14

MonitorProofs == INSTANCE TelegramMonitorProofs WITH
    MaxFaults <- MaxMonitorFaults,
    world <- x1, quiet <- x2, saved <- x3, readable <- x4, memory <- x5, issues <- x6,
    todo <- x7, pc <- x8, due <- x9, told <- x10, message <- x11, reports <- x12,
    lossy <- x13, changes <- x14, faults <- x15

-----------------------------------------------------------------------------
(* An instance of a component and the one of its proofs are the same.       *)

LEMMA SamePages ==
  /\ Pages!PagesAssumption = PagesProofs!PagesAssumption
  /\ Pages!Init = PagesProofs!Init
  /\ Pages!Next = PagesProofs!Next
  /\ Pages!LinksExact = PagesProofs!LinksExact
  /\ Pages!LinksStayMarked = PagesProofs!LinksStayMarked
  /\ Pages!SampleOfAll = PagesProofs!SampleOfAll
  /\ Pages!PostsKept = PagesProofs!PostsKept
<1> USE DEF
    Pages!InOrder, Pages!PagesAssumption, Pages!historyVars, Pages!Smaller,
    Pages!Items, Pages!Stored, Pages!Current, Pages!Busy, Pages!Init, Pages!Touch,
    Pages!Answers, Pages!Asked, Pages!Upsert, Pages!Retire, Pages!Running,
    Pages!WholeSnapshot, Pages!LinksPage, Pages!MembersPage, Pages!Sample,
    Pages!MembersStore, Pages!TopUp, Pages!WallPage, Pages!LatestPosts,
    Pages!Beyond, Pages!Fresh, Pages!UserWallPage, Pages!Start, Pages!AtMaximum,
    Pages!Conclude, Pages!Denied, Pages!Interrupt, Pages!Top, Pages!ListChanges,
    Pages!Next, Pages!Alone, Pages!LinksExact, Pages!LinksStayMarked,
    Pages!SampleOfAll, Pages!Visible, Pages!Newest, Pages!PostsKept, Pages!ToSet,
    Pages!Cardinality, Pages!InsertAt, Pages!RemoveAt, Pages!Front,
    PagesProofs!InOrder, PagesProofs!PagesAssumption, PagesProofs!historyVars,
    PagesProofs!Smaller, PagesProofs!Items, PagesProofs!Stored, PagesProofs!Current,
    PagesProofs!Busy, PagesProofs!Init, PagesProofs!Touch, PagesProofs!Answers,
    PagesProofs!Asked, PagesProofs!Upsert, PagesProofs!Retire, PagesProofs!Running,
    PagesProofs!WholeSnapshot, PagesProofs!LinksPage, PagesProofs!MembersPage,
    PagesProofs!Sample, PagesProofs!MembersStore, PagesProofs!TopUp,
    PagesProofs!WallPage, PagesProofs!LatestPosts, PagesProofs!Beyond,
    PagesProofs!Fresh, PagesProofs!UserWallPage, PagesProofs!Start,
    PagesProofs!AtMaximum, PagesProofs!Conclude, PagesProofs!Denied,
    PagesProofs!Interrupt, PagesProofs!Top, PagesProofs!ListChanges,
    PagesProofs!Next, PagesProofs!Alone, PagesProofs!LinksExact,
    PagesProofs!LinksStayMarked, PagesProofs!SampleOfAll, PagesProofs!Visible,
    PagesProofs!Newest, PagesProofs!PostsKept, PagesProofs!ToSet,
    PagesProofs!Cardinality, PagesProofs!InsertAt, PagesProofs!RemoveAt,
    PagesProofs!Front
<1>1. Pages!PagesAssumption = PagesProofs!PagesAssumption
  OBVIOUS
<1>2. Pages!Init = PagesProofs!Init
  OBVIOUS
<1>3. Pages!Next = PagesProofs!Next
  OBVIOUS
<1>4. Pages!LinksExact = PagesProofs!LinksExact
  OBVIOUS
<1>5. Pages!LinksStayMarked = PagesProofs!LinksStayMarked
  OBVIOUS
<1>6. Pages!SampleOfAll = PagesProofs!SampleOfAll
  OBVIOUS
<1>7. Pages!PostsKept = PagesProofs!PostsKept
  OBVIOUS
<1> QED BY <1>1, <1>2, <1>3, <1>4, <1>5, <1>6, <1>7

LEMMA SameSearch ==
  /\ Search!SearchAssumption = SearchProofs!SearchAssumption
  /\ Search!Init = SearchProofs!Init
  /\ Search!Next = SearchProofs!Next
  /\ Search!NothingSkipped = SearchProofs!NothingSkipped
  /\ Search!CompletedRunIsThrough = SearchProofs!CompletedRunIsThrough
  /\ Search!ResumedNotRestarted = SearchProofs!ResumedNotRestarted
<1> USE DEF
    Search!SearchAssumption, Search!Smaller, Search!Keywords, Search!Runs,
    Search!Created, Search!Init, Search!Resumable, Search!Free, Search!StartSelect,
    Search!StartCommit, Search!NextKeyword, Search!Consumed, Search!SavePage,
    Search!GoOn, Search!CompleteKeyword, Search!KeywordError, Search!Leave,
    Search!TokensUnavailable, Search!CompleteRun, Search!Die, Search!Next,
    Search!NothingSkipped, Search!CompletedRunIsThrough, Search!ResumedNotRestarted,
    Search!Cardinality,
    SearchProofs!SearchAssumption, SearchProofs!Smaller, SearchProofs!Keywords,
    SearchProofs!Runs, SearchProofs!Created, SearchProofs!Init,
    SearchProofs!Resumable, SearchProofs!Free, SearchProofs!StartSelect,
    SearchProofs!StartCommit, SearchProofs!NextKeyword, SearchProofs!Consumed,
    SearchProofs!SavePage, SearchProofs!GoOn, SearchProofs!CompleteKeyword,
    SearchProofs!KeywordError, SearchProofs!Leave, SearchProofs!TokensUnavailable,
    SearchProofs!CompleteRun, SearchProofs!Die, SearchProofs!Next,
    SearchProofs!NothingSkipped, SearchProofs!CompletedRunIsThrough,
    SearchProofs!ResumedNotRestarted, SearchProofs!Cardinality
<1>1. Search!SearchAssumption = SearchProofs!SearchAssumption
  OBVIOUS
<1>2. Search!Init = SearchProofs!Init
  OBVIOUS
<1>3. Search!Next = SearchProofs!Next
  OBVIOUS
<1>4. Search!NothingSkipped = SearchProofs!NothingSkipped
  OBVIOUS
<1>5. Search!CompletedRunIsThrough = SearchProofs!CompletedRunIsThrough
  OBVIOUS
<1>6. Search!ResumedNotRestarted = SearchProofs!ResumedNotRestarted
  OBVIOUS
<1> QED BY <1>1, <1>2, <1>3, <1>4, <1>5, <1>6

LEMMA SameEmbeddings ==
  /\ Embeddings!Init = EmbeddingsProofs!Init
  /\ Embeddings!Next = EmbeddingsProofs!Next
  /\ Embeddings!VectorsBelong = EmbeddingsProofs!VectorsBelong
  /\ Embeddings!CompletedHasChunk = EmbeddingsProofs!CompletedHasChunk
  /\ Embeddings!RowsMatchPosts = EmbeddingsProofs!RowsMatchPosts
<1> USE DEF
    Embeddings!files, Embeddings!memory, Embeddings!Posts, Embeddings!Init,
    Embeddings!Resume, Embeddings!Collect, Embeddings!Written,
    Embeddings!EncodeBatch, Embeddings!BatchIds, Embeddings!EncodeSingle,
    Embeddings!SingleId, Embeddings!Buffer, Embeddings!SameLength, Embeddings!Rows,
    Embeddings!Flush, Embeddings!Die, Embeddings!Next, Embeddings!VectorsBelong,
    Embeddings!CompletedHasChunk, Embeddings!ToSet,
    EmbeddingsProofs!files, EmbeddingsProofs!memory, EmbeddingsProofs!Posts,
    EmbeddingsProofs!Init, EmbeddingsProofs!Resume, EmbeddingsProofs!Collect,
    EmbeddingsProofs!Written, EmbeddingsProofs!EncodeBatch,
    EmbeddingsProofs!BatchIds, EmbeddingsProofs!EncodeSingle,
    EmbeddingsProofs!SingleId, EmbeddingsProofs!Buffer, EmbeddingsProofs!SameLength,
    EmbeddingsProofs!Rows, EmbeddingsProofs!Flush, EmbeddingsProofs!Die,
    EmbeddingsProofs!Next, EmbeddingsProofs!VectorsBelong,
    EmbeddingsProofs!CompletedHasChunk, EmbeddingsProofs!ToSet
<1>1. Embeddings!Init = EmbeddingsProofs!Init
  OBVIOUS
<1>2. Embeddings!Next = EmbeddingsProofs!Next
  OBVIOUS
<1>3. Embeddings!VectorsBelong = EmbeddingsProofs!VectorsBelong
  OBVIOUS
<1>4. Embeddings!CompletedHasChunk = EmbeddingsProofs!CompletedHasChunk
  OBVIOUS
<1>5. Embeddings!RowsMatchPosts = EmbeddingsProofs!RowsMatchPosts
  BY DEF Embeddings!RowsMatchPosts, EmbeddingsProofs!RowsMatchPosts,
         Embeddings!FlattenSeq, EmbeddingsProofs!FlattenSeq
<1> QED BY <1>1, <1>2, <1>3, <1>4, <1>5

LEMMA SameMonitor ==
  /\ Monitor!MonitorAssumption = MonitorProofs!MonitorAssumption
  /\ Monitor!Init = MonitorProofs!Init
  /\ Monitor!Next = MonitorProofs!Next
  /\ Monitor!NotFlooded = MonitorProofs!NotFlooded
  /\ Monitor!NoFalseStall = MonitorProofs!NoFalseStall
  /\ Monitor!DailyOnce = MonitorProofs!DailyOnce
<1> USE DEF
    Monitor!MonitorAssumption, Monitor!cycleVars, Monitor!Keys, Monitor!NoEntry,
    Monitor!NoAlerts, Monitor!Empty, Monitor!Silence, Monitor!Init, Monitor!Older,
    Monitor!If, Monitor!Progressed, Monitor!Baseline, Monitor!ServiceIssue,
    Monitor!DatabaseIssue, Monitor!CollectionIssue, Monitor!StallIssue,
    Monitor!HostIssue, Monitor!DeploymentIssue, Monitor!Evaluate, Monitor!Loaded,
    Monitor!StartCycle, Monitor!Outcomes, Monitor!Reaches, Monitor!Sent,
    Monitor!Count, Monitor!Say, Monitor!Due, Monitor!FirstOf, Monitor!Turn,
    Monitor!Alert, Monitor!AfterRecovery, Monitor!Recovered, Monitor!Report,
    Monitor!DailyReport, Monitor!RetryDaily, Monitor!Save, Monitor!CycleStep,
    Monitor!Period, Monitor!CallDaily, Monitor!Worlds, Monitor!Change, Monitor!Killed,
    Monitor!Corrupted, Monitor!Next, Monitor!NotFlooded, Monitor!NoFalseStall,
    Monitor!DailyOnce,
    MonitorProofs!MonitorAssumption, MonitorProofs!cycleVars, MonitorProofs!Keys,
    MonitorProofs!NoEntry, MonitorProofs!NoAlerts, MonitorProofs!Empty,
    MonitorProofs!Silence, MonitorProofs!Init, MonitorProofs!Older,
    MonitorProofs!If, MonitorProofs!Progressed, MonitorProofs!Baseline,
    MonitorProofs!ServiceIssue, MonitorProofs!DatabaseIssue,
    MonitorProofs!CollectionIssue, MonitorProofs!StallIssue,
    MonitorProofs!HostIssue, MonitorProofs!DeploymentIssue, MonitorProofs!Evaluate,
    MonitorProofs!Loaded, MonitorProofs!StartCycle, MonitorProofs!Outcomes,
    MonitorProofs!Reaches, MonitorProofs!Sent, MonitorProofs!Count,
    MonitorProofs!Say, MonitorProofs!Due, MonitorProofs!FirstOf, MonitorProofs!Turn,
    MonitorProofs!Alert, MonitorProofs!AfterRecovery, MonitorProofs!Recovered,
    MonitorProofs!Report, MonitorProofs!DailyReport, MonitorProofs!RetryDaily,
    MonitorProofs!Save, MonitorProofs!CycleStep, MonitorProofs!Period,
    MonitorProofs!CallDaily, MonitorProofs!Worlds, MonitorProofs!Change, MonitorProofs!Killed,
    MonitorProofs!Corrupted, MonitorProofs!Next, MonitorProofs!NotFlooded,
    MonitorProofs!NoFalseStall, MonitorProofs!DailyOnce
<1>1. Monitor!MonitorAssumption = MonitorProofs!MonitorAssumption
  OBVIOUS
<1>2. Monitor!Init = MonitorProofs!Init
  OBVIOUS
<1>3. Monitor!Next = MonitorProofs!Next
  OBVIOUS
<1>4. Monitor!NotFlooded = MonitorProofs!NotFlooded
  OBVIOUS
<1>5. Monitor!NoFalseStall = MonitorProofs!NoFalseStall
  OBVIOUS
<1>6. Monitor!DailyOnce = MonitorProofs!DailyOnce
  OBVIOUS
<1> QED BY <1>1, <1>2, <1>3, <1>4, <1>5, <1>6

-----------------------------------------------------------------------------
(* What a component keeps true is kept by every step of Standalone.         *)

PagesHold == part = "pages" => PagesProofs!PagesInv

LEMMA PagesStay == Spec => []PagesHold
<1>1. Init => PagesHold
  BY StandaloneAssumption, SamePages, PagesProofs!InitPages
  DEF Init, PagesHold, StandaloneAssumption
<1>2. ASSUME PagesHold, [Next]_all PROVE PagesHold'
  <2> SUFFICES ASSUME part' = "pages" PROVE (PagesProofs!PagesInv)'
    BY DEF PagesHold
  <2>1. part = "pages" /\ (Next \/ UNCHANGED all)
    BY <1>2 DEF Next, all
  <2>2. PagesProofs!Next \/ UNCHANGED PagesProofs!vars
    BY <2>1, SamePages DEF Next, all,
       PagesProofs!vars, PagesProofs!historyVars
  <2>3. PagesProofs!PagesInv
    BY <1>2, <2>1 DEF PagesHold
  <2> QED BY StandaloneAssumption, <2>2, <2>3, SamePages, PagesProofs!NextKeepsPages
      DEF PagesHold, StandaloneAssumption
<1> QED BY <1>1, <1>2, PTL DEF Spec

SearchHold == part = "search" => SearchProofs!ResumeInv

LEMMA SearchStay == Spec => []SearchHold
<1>1. Init => SearchHold
  BY StandaloneAssumption, SameSearch, SearchProofs!InitSearch, SearchProofs!InitResume
  DEF Init, SearchHold, StandaloneAssumption, SearchProofs!ResumeInv
<1>2. ASSUME SearchHold, [Next]_all PROVE SearchHold'
  <2> SUFFICES ASSUME part' = "search" PROVE (SearchProofs!ResumeInv)'
    BY DEF SearchHold
  <2>1. part = "search" /\ (Next \/ UNCHANGED all)
    BY <1>2 DEF Next, all
  <2>2. SearchProofs!Next \/ UNCHANGED SearchProofs!vars
    BY <2>1, SameSearch DEF Next, all,
       SearchProofs!vars, SearchProofs!callerVars
  <2>3. SearchProofs!ResumeInv
    BY <1>2, <2>1 DEF SearchHold
  <2> QED BY StandaloneAssumption, <2>2, <2>3, SameSearch, SearchProofs!NextKeepsResume
      DEF SearchHold, StandaloneAssumption, SearchProofs!ResumeInv
<1> QED BY <1>1, <1>2, PTL DEF Spec

EmbeddingsHold == part = "embeddings" =>
  /\ EmbeddingsProofs!BufferInv /\ EmbeddingsProofs!FileInv /\ EmbeddingsProofs!OrderInv

LEMMA EmbeddingsStay == Spec => []EmbeddingsHold
<1>1. Init => EmbeddingsHold
  BY SameEmbeddings, EmbeddingsProofs!BufferInit, EmbeddingsProofs!FileInit,
     EmbeddingsProofs!OrderInit
  DEF Init, EmbeddingsHold
<1>2. ASSUME EmbeddingsHold, [Next]_all PROVE EmbeddingsHold'
  <2> SUFFICES ASSUME part' = "embeddings"
               PROVE  (/\ EmbeddingsProofs!BufferInv /\ EmbeddingsProofs!FileInv
                       /\ EmbeddingsProofs!OrderInv)'
    BY DEF EmbeddingsHold
  <2>1. part = "embeddings" /\ (Next \/ UNCHANGED all)
    BY <1>2 DEF Next, all
  <2>2. EmbeddingsProofs!Next \/ UNCHANGED EmbeddingsProofs!vars
    BY <2>1, SameEmbeddings DEF Next, all,
       EmbeddingsProofs!vars, EmbeddingsProofs!files, EmbeddingsProofs!memory
  <2>3. EmbeddingsProofs!BufferInv /\ EmbeddingsProofs!FileInv /\ EmbeddingsProofs!OrderInv
    BY <1>2, <2>1 DEF EmbeddingsHold
  <2> QED BY <2>2, <2>3, EmbeddingsProofs!BufferStep, EmbeddingsProofs!FileStep,
             EmbeddingsProofs!OrderStep
<1> QED BY <1>1, <1>2, PTL DEF Spec

MonitorHold == part = "monitor" => MonitorProofs!MonitorInv /\ MonitorProofs!NotFlooded

LEMMA MonitorStay == Spec => []MonitorHold
<1>1. Init => MonitorHold
  BY StandaloneAssumption, SameMonitor, MonitorProofs!InitMonitor
  DEF Init, MonitorHold, StandaloneAssumption
<1>2. ASSUME MonitorHold, [Next]_all PROVE MonitorHold'
  <2> SUFFICES ASSUME part' = "monitor" PROVE (MonitorProofs!MonitorInv /\ MonitorProofs!NotFlooded)'
    BY DEF MonitorHold
  <2>1. part = "monitor" /\ (Next \/ UNCHANGED all)
    BY <1>2 DEF Next, all
  <2>2. MonitorProofs!Next \/ UNCHANGED MonitorProofs!vars
    BY <2>1, SameMonitor DEF Next, all,
       MonitorProofs!vars, MonitorProofs!cycleVars, MonitorProofs!chatVars
  <2>3. MonitorProofs!MonitorInv /\ MonitorProofs!NotFlooded
    BY <1>2, <2>1 DEF MonitorHold
  <2> QED BY StandaloneAssumption, <2>2, <2>3, SameMonitor, MonitorProofs!NextKeepsMonitor
      DEF MonitorHold, StandaloneAssumption
<1> QED BY <1>1, <1>2, PTL DEF Spec

-----------------------------------------------------------------------------
(* The variables by the names they have in ProfileBatches ...               *)
kind == x1
job == x2
profile == x3
planned == x4
taskPc == x5
own == x6
extras == x7
answer == x8
omitted == x9

(* ... and in RunPlanning.                                                  *)
due == x2
run == x3
plannerPc == x4
chosen == x5
overlapped == x7
overlooked == x8

USE DEF kind, job, profile, planned, taskPc, own, extras, answer, omitted,
        due, run, plannerPc, chosen, overlapped, overlooked

-----------------------------------------------------------------------------
(* Profile batches: the inductive invariant.                                *)

Batch(t) == extras[t] \cup {own[t]}

Status == {"pending", "running", "completed", "skipped"}

(* What the tables and the tasks hold.                                      *)
BatchTypes ==
  /\ kind \in {"users", "groups"}
  /\ job \in [BatchEntities -> Status]
  /\ taskPc \in [BatchTasks -> {"idle", "request", "finish"}]
  /\ own \in [BatchTasks -> BatchEntities \cup {0}]
  /\ extras \in [BatchTasks -> SUBSET BatchEntities]
  /\ answer \in [BatchTasks -> SUBSET BatchEntities]
  /\ profile \subseteq BatchEntities /\ planned \subseteq BatchEntities
  /\ omitted \subseteq BatchEntities

(* A task at work holds running jobs, its own not among the extra ones.     *)
HeldAreRunning ==
  \A t \in BatchTasks :
    /\ taskPc[t] = "idle" <=> own[t] = 0
    /\ taskPc[t] = "idle" => extras[t] = {}
    /\ own[t] \notin extras[t]
    /\ own[t] # 0 => \A e \in Batch(t) : job[e] = "running"

(* What a task that finishes its jobs took from the answer is stored.       *)
AnswerIsStored ==
  \A t \in BatchTasks : taskPc[t] = "finish" =>
    /\ answer[t] \subseteq profile
    /\ kind = "users" => answer[t] \cap OpenEntities \subseteq planned
    /\ Batch(t) \ answer[t] \subseteq omitted

BatchInv == BatchTypes /\ HeldAreRunning /\ AnswerIsStored
            /\ Batches!BatchesDisjoint /\ Batches!FinishedJobsAreDone

-----------------------------------------------------------------------------
LEMMA InitBatches == ASSUME 0 \notin BatchEntities, Batches!Init PROVE BatchInv
  BY DEF Batches!Init, BatchInv, BatchTypes, HeldAreRunning, AnswerIsStored,
         Batches!BatchesDisjoint,
         Batches!FinishedJobsAreDone, Status

(* A task takes pending jobs only, so no other task holds them.             *)
LEMMA TakeBatchKeeps ==
  ASSUME 0 \notin BatchEntities, BatchInv, NEW t \in BatchTasks,
         Batches!TakeBatch(t) PROVE BatchInv'
<1>1. PICK e \in Batches!Pending, more \in SUBSET Batches!Pending :
        /\ e \notin more
        /\ job' = Batches!Set(job, more \cup {e}, "running")
        /\ own' = [own EXCEPT ![t] = e] /\ extras' = [extras EXCEPT ![t] = more]
  BY DEF Batches!TakeBatch
<1>2. BatchTypes' /\ HeldAreRunning'
  BY <1>1 DEF Batches!TakeBatch, BatchInv, BatchTypes, HeldAreRunning, Batch,
              Batches!Pending, Batches!Set, Status
<1>3. \A s \in BatchTasks : s # t /\ own[s] # 0 => Batch(s) \cap (more \cup {e}) = {}
  BY <1>1 DEF BatchInv, HeldAreRunning, Batches!Pending
<1>4. Batches!BatchesDisjoint'
  BY <1>1, <1>3 DEF BatchInv, BatchTypes, Batches!BatchesDisjoint, Batch
<1>5. AnswerIsStored' /\ Batches!FinishedJobsAreDone'
  BY <1>1 DEF Batches!TakeBatch, BatchInv, BatchTypes, AnswerIsStored,
              Batches!FinishedJobsAreDone, Batch,
              Batches!Pending, Batches!Set
<1> QED BY <1>2, <1>4, <1>5 DEF BatchInv

(* A task that fails lets go of its jobs, and touches only those.           *)
LEMMA FailureKeeps ==
  ASSUME 0 \notin BatchEntities, BatchInv, NEW t \in BatchTasks,
         Batches!RequestFails(t) \/ Batches!FinishFails(t)
  PROVE  BatchInv'
<1>1. /\ own' = [own EXCEPT ![t] = 0] /\ extras' = [extras EXCEPT ![t] = {}]
      /\ taskPc' = [taskPc EXCEPT ![t] = "idle"]
      /\ UNCHANGED <<kind, profile, planned, answer, omitted>>
  BY DEF Batches!RequestFails, Batches!FinishFails, Batches!Idle
<1>2. PICK es \in SUBSET Batch(t) :
        job' = [e \in BatchEntities |-> IF e \in es THEN "pending" ELSE job[e]]
  <2>1. CASE Batches!RequestFails(t)
    BY <2>1 DEF Batches!RequestFails, Batches!Set, Batch
  <2>2. CASE Batches!FinishFails(t)
    <3>1. job' = [e \in BatchEntities |-> IF e \in {own[t]} THEN "pending" ELSE job[e]]
      BY <2>2 DEF Batches!FinishFails, BatchInv, BatchTypes
    <3> QED BY <3>1 DEF Batch
  <2> QED BY <2>1, <2>2
<1>3. taskPc[t] # "idle"
  BY DEF Batches!RequestFails, Batches!FinishFails
<1>4. \A s \in BatchTasks : s # t /\ own[s] # 0 => Batch(s) \cap es = {}
  BY <1>2, <1>3 DEF BatchInv, Batches!BatchesDisjoint, HeldAreRunning, Batch
<1>5. BatchTypes'
  BY <1>1, <1>2 DEF BatchInv, BatchTypes, Status
<1>6. HeldAreRunning'
  BY <1>1, <1>2, <1>4 DEF BatchInv, BatchTypes, HeldAreRunning, Batch
<1>7. Batches!BatchesDisjoint' /\ AnswerIsStored' /\ Batches!FinishedJobsAreDone'
  BY <1>1, <1>2 DEF BatchInv, BatchTypes, Batches!BatchesDisjoint, AnswerIsStored,
                    Batches!FinishedJobsAreDone, Batch
<1> QED BY <1>5, <1>6, <1>7 DEF BatchInv

(* The answer is stored before any job is finished.                         *)
LEMMA StoreAnswerKeeps ==
  ASSUME 0 \notin BatchEntities, BatchInv, NEW t \in BatchTasks,
         Batches!StoreAnswer(t) PROVE BatchInv'
<1>1. PICK got \in SUBSET Batch(t) :
        /\ profile' = profile \cup Batches!Stored(got)
        /\ planned' = IF kind = "users" THEN planned \cup (got \cap OpenEntities) ELSE planned
        /\ answer' = [answer EXCEPT ![t] = Batches!Stored(got)]
        /\ omitted' = omitted \cup (Batch(t) \ Batches!Stored(got))
  BY DEF Batches!StoreAnswer, Batch
<1>2. /\ taskPc[t] = "request" /\ taskPc' = [taskPc EXCEPT ![t] = "finish"]
      /\ UNCHANGED <<kind, job, own, extras>>
  BY DEF Batches!StoreAnswer
<1>3. Batch(t) \subseteq BatchEntities
  BY <1>2 DEF BatchInv, BatchTypes, HeldAreRunning, Batch
<1>4. Batches!Stored(got) \subseteq got /\ (kind = "users" => Batches!Stored(got) = got)
  BY DEF Batches!Stored
<1>5. BatchTypes' /\ HeldAreRunning' /\ Batches!BatchesDisjoint'
  BY <1>1, <1>2, <1>3, <1>4 DEF BatchInv, BatchTypes, HeldAreRunning,
                                Batches!BatchesDisjoint, Batch
<1>6. AnswerIsStored'
  BY <1>1, <1>2, <1>4 DEF BatchInv, BatchTypes, AnswerIsStored, Batch
<1>7. Batches!FinishedJobsAreDone'
  BY <1>1, <1>2, <1>4 DEF BatchInv, Batches!FinishedJobsAreDone
<1> QED BY <1>5, <1>6, <1>7 DEF BatchInv

(* One job of the batch gets its result, and the task lets go of it.        *)
LEMMA FinishKeeps ==
  ASSUME 0 \notin BatchEntities, BatchInv, NEW t \in BatchTasks,
         Batches!FinishExtra(t) \/ Batches!FinishOwn(t)
  PROVE  BatchInv'
<1>1. taskPc[t] = "finish" /\ UNCHANGED <<kind, profile, planned, answer, omitted>>
  BY DEF Batches!FinishExtra, Batches!FinishOwn
<1>2. PICK e \in Batch(t) :
        /\ e \in BatchEntities /\ job' = [job EXCEPT ![e] = Batches!Outcome(t, e)]
        /\ \/ /\ e \in extras[t] /\ extras' = [extras EXCEPT ![t] = @ \ {e}]
              /\ UNCHANGED <<taskPc, own>>
           \/ /\ e = own[t] /\ extras[t] = {} /\ UNCHANGED extras
              /\ taskPc' = [taskPc EXCEPT ![t] = "idle"] /\ own' = [own EXCEPT ![t] = 0]
  BY <1>1 DEF Batches!FinishExtra, Batches!FinishOwn, Batches!Idle, Batch, BatchInv,
              BatchTypes, HeldAreRunning
<1>3. \A s \in BatchTasks : s # t /\ own[s] # 0 => e \notin Batch(s)
  BY <1>1, <1>2 DEF BatchInv, Batches!BatchesDisjoint, HeldAreRunning, Batch
<1>4. BatchTypes'
  BY <1>1, <1>2 DEF BatchInv, BatchTypes, Batches!Outcome, Status
<1>5. HeldAreRunning'
  BY <1>1, <1>2, <1>3 DEF BatchInv, BatchTypes, HeldAreRunning, Batch
<1>6. Batches!BatchesDisjoint' /\ AnswerIsStored'
  BY <1>1, <1>2 DEF BatchInv, BatchTypes, Batches!BatchesDisjoint, AnswerIsStored, Batch
<1>7. Batches!FinishedJobsAreDone'
  <2>1. \/ Batches!Outcome(t, e) = "completed" /\ e \in answer[t]
        \/ Batches!Outcome(t, e) = "skipped" /\ e \in omitted
    BY <1>1, <1>2 DEF Batches!Outcome, BatchInv, AnswerIsStored
  <2>2. Batches!Outcome(t, e) = "completed" =>
          e \in profile /\ (kind = "users" /\ e \in OpenEntities => e \in planned)
    BY <1>1, <2>1 DEF BatchInv, AnswerIsStored
  <2> QED BY <1>1, <1>2, <2>1, <2>2 DEF BatchInv, BatchTypes, Batches!FinishedJobsAreDone
<1> QED BY <1>4, <1>5, <1>6, <1>7 DEF BatchInv

(* Recovery touches only jobs that no task holds.                           *)
LEMMA RecoverKeeps == ASSUME 0 \notin BatchEntities, BatchInv, Batches!Recover
  PROVE BatchInv'
<1>1. PICK e \in BatchEntities \ Batches!Held :
        job[e] = "running" /\ job' = [job EXCEPT ![e] = "pending"]
  BY DEF Batches!Recover
<1>2. UNCHANGED <<kind, profile, planned, taskPc, own, extras, answer, omitted>>
  BY DEF Batches!Recover, Batches!taskVars
<1>3. \A t \in BatchTasks : e \notin Batch(t)
  BY <1>1 DEF Batches!Held, Batch
<1>4. BatchTypes' /\ HeldAreRunning'
  BY <1>1, <1>2, <1>3 DEF BatchInv, BatchTypes, HeldAreRunning, Batch, Status
<1>5. Batches!BatchesDisjoint' /\ AnswerIsStored' /\ Batches!FinishedJobsAreDone'
  BY <1>1, <1>2 DEF BatchInv, BatchTypes, Batches!BatchesDisjoint, AnswerIsStored, Batch,
                    Batches!FinishedJobsAreDone
<1> QED BY <1>4, <1>5 DEF BatchInv

LEMMA NextKeepsBatches ==
  ASSUME 0 \notin BatchEntities, BatchInv, [Batches!Next]_(Batches!vars) PROVE BatchInv'
<1>1. CASE Batches!Crash
  BY <1>1 DEF Batches!Crash, BatchInv, BatchTypes, HeldAreRunning, AnswerIsStored,
              Batches!BatchesDisjoint,
              Batches!FinishedJobsAreDone, Batch
<1>2. CASE UNCHANGED Batches!vars
  BY <1>2 DEF Batches!vars, Batches!taskVars, BatchInv, BatchTypes, HeldAreRunning,
              AnswerIsStored,
              Batches!BatchesDisjoint, Batches!FinishedJobsAreDone, Batch
<1> QED
  BY <1>1, <1>2, TakeBatchKeeps, FailureKeeps, StoreAnswerKeeps, FinishKeeps, RecoverKeeps
  DEF Batches!Next

BatchesHold == part = "batches" => BatchInv

LEMMA BatchesStay == Spec => []BatchesHold
<1>0. 0 \notin BatchEntities
  BY StandaloneAssumption DEF StandaloneAssumption, Batches!BatchAssumption
<1>1. Init => BatchesHold
  BY <1>0, InitBatches DEF Init, BatchesHold
<1>2. ASSUME BatchesHold, [Next]_all PROVE BatchesHold'
  <2> SUFFICES ASSUME part' = "batches" PROVE BatchInv'
    BY DEF BatchesHold
  <2>1. part = "batches" /\ (Next \/ UNCHANGED all)
    BY <1>2 DEF Next, all
  <2>2. Batches!Next \/ UNCHANGED Batches!vars
    BY <2>1 DEF Next, all, Batches!vars, Batches!taskVars
  <2>3. BatchInv
    BY <1>2, <2>1 DEF BatchesHold
  <2> QED BY <1>0, <2>2, <2>3, NextKeepsBatches
<1> QED BY <1>1, <1>2, PTL DEF Spec

-----------------------------------------------------------------------------
(* Planned runs: the inductive invariant.                                   *)

Statuses == Plans!Open \cup {"completed", "cancelled"}
RunRow   == [status : Statuses, ids : SUBSET PlanEntities]

PlanTypes ==
  /\ due \in SUBSET PlanEntities
  /\ run \in Seq(RunRow)
  /\ plannerPc \in [Planners -> {"idle", "read", "insert"}]
  /\ chosen \in [Planners -> SUBSET PlanEntities]

(* The open runs that a plan for the entities ids would repeat.             *)
Repeated(ids) ==
  {i \in DOMAIN run :
     run[i].status \in Plans!Open /\ (kind \in Plans!Exclusive \/ run[i].ids = ids)}

(* No two planners are about to insert, and none repeats an open run.       *)
OneInserts ==
  \A p, q \in Planners : plannerPc[p] = "insert" /\ plannerPc[q] = "insert" => p = q

NoneRepeats == \A p \in Planners : plannerPc[p] = "insert" => Repeated(chosen[p]) = {}

OpenRunsDiffer ==
  \A i, j \in DOMAIN run :
    i # j /\ run[i].status \in Plans!Open /\ run[j].status \in Plans!Open
      => kind \notin Plans!Exclusive /\ run[i].ids # run[j].ids

Excused == overlooked \/ (overlapped /\ kind \notin Plans!Exclusive)

PlanInv == PlanTypes /\ (Excused \/ (OneInserts /\ NoneRepeats /\ OpenRunsDiffer))

-----------------------------------------------------------------------------
LEMMA InitPlan == Plans!Init => PlanInv
  BY DEF Plans!Init, PlanInv, PlanTypes, OneInserts, NoneRepeats, OpenRunsDiffer

(* A new run starts in one of the statuses.                                 *)
LEMMA PlannedStatus == \A ids : Plans!Planned(ids) \subseteq Plans!Open \cup {"completed"}
  BY DEF Plans!Planned, Plans!Open, Plans!Live

(* A step that leaves the planners alone and opens no run that was closed.  *)
LEMMA RunStepKeeps ==
  ASSUME PlanInv, UNCHANGED <<kind, Plans!plannerVars, overlapped, overlooked>>,
         PlanTypes',
         DOMAIN run' = DOMAIN run,
         \A i \in DOMAIN run :
           run'[i].ids = run[i].ids /\ (run'[i].status \in Plans!Open => run[i].status \in Plans!Open)
  PROVE  PlanInv'
<1> USE DEF Plans!plannerVars
<1>1. CASE Excused
  BY <1>1 DEF PlanInv, Excused, Plans!Exclusive
<1>2. CASE OneInserts /\ NoneRepeats /\ OpenRunsDiffer
  <2>1. OneInserts'
    BY <1>2 DEF OneInserts
  <2>2. NoneRepeats'
    BY <1>2 DEF NoneRepeats, Repeated, Plans!Exclusive
  <2>3. OpenRunsDiffer'
    BY <1>2 DEF OpenRunsDiffer, Plans!Exclusive
  <2> QED BY <2>1, <2>2, <2>3 DEF PlanInv
<1> QED BY <1>1, <1>2 DEF PlanInv

(* A new status for one run.                                                *)
LEMMA StatusStep ==
  ASSUME PlanInv, NEW i \in DOMAIN run, NEW s \in Statuses, run[i].status \in Plans!Open,
         run' = [run EXCEPT ![i].status = s], due' \in SUBSET PlanEntities,
         UNCHANGED <<kind, Plans!plannerVars, overlapped, overlooked>>
  PROVE  PlanInv'
<1>1. run \in Seq(RunRow) /\ run[i] \in RunRow
  BY DEF PlanInv, PlanTypes
<1>2. [run[i] EXCEPT !.status = s] \in RunRow
  BY <1>1 DEF RunRow
<1>3. run' = [run EXCEPT ![i] = [run[i] EXCEPT !.status = s]]
  OBVIOUS
<1>4. run' \in Seq(RunRow) /\ DOMAIN run' = DOMAIN run
  BY <1>1, <1>2, <1>3, ExceptSeq
<1>5. PlanTypes'
  BY <1>4 DEF PlanInv, PlanTypes, Plans!plannerVars
<1>6. \A k \in DOMAIN run :
        run'[k].ids = run[k].ids /\ (run'[k].status \in Plans!Open => run[k].status \in Plans!Open)
  BY <1>1, <1>3 DEF RunRow
<1> QED BY <1>4, <1>5, <1>6, RunStepKeeps

LEMMA PlanStep == PlanInv /\ [Plans!Next]_(Plans!vars) => PlanInv'
<1> SUFFICES ASSUME PlanInv, [Plans!Next]_(Plans!vars) PROVE PlanInv'
  OBVIOUS
<1> USE DEF Plans!plannerVars
<1>0. PlanTypes
  BY DEF PlanInv
<1>1. ASSUME NEW p \in Planners, Plans!Read(p) PROVE PlanInv'
  <2>1. PlanTypes'
    BY <1>0, <1>1 DEF Plans!Read, PlanTypes
  <2>2. /\ UNCHANGED <<kind, run, overlapped, overlooked>>
        /\ plannerPc'[p] # "insert"
        /\ \A q \in Planners \ {p} : plannerPc'[q] = plannerPc[q] /\ chosen'[q] = chosen[q]
    BY <1>0, <1>1 DEF Plans!Read, PlanTypes
  <2>3. CASE Excused
    BY <2>1, <2>2, <2>3 DEF PlanInv, Excused, Plans!Exclusive
  <2>4. CASE OneInserts /\ NoneRepeats /\ OpenRunsDiffer
    <3>1. OneInserts'
      BY <2>2, <2>4 DEF OneInserts
    <3>2. NoneRepeats'
      BY <2>2, <2>4 DEF NoneRepeats, Repeated, Plans!Exclusive
    <3>3. OpenRunsDiffer'
      BY <2>2, <2>4 DEF OpenRunsDiffer, Plans!Exclusive
    <3> QED BY <2>1, <3>1, <3>2, <3>3 DEF PlanInv
  <2> QED BY <2>3, <2>4 DEF PlanInv
<1>2. ASSUME NEW p \in Planners, Plans!Refused(p) PROVE PlanInv'
  <2>1. PlanTypes'
    BY <1>0, <1>2 DEF Plans!Refused, PlanTypes
  <2>2. /\ UNCHANGED <<kind, run, chosen, overlapped, overlooked>>
        /\ plannerPc'[p] # "insert" /\ \A q \in Planners \ {p} : plannerPc'[q] = plannerPc[q]
    BY <1>0, <1>2 DEF Plans!Refused, PlanTypes
  <2>3. CASE Excused
    BY <2>1, <2>2, <2>3 DEF PlanInv, Excused, Plans!Exclusive
  <2>4. CASE OneInserts /\ NoneRepeats /\ OpenRunsDiffer
    <3>1. OneInserts'
      BY <2>2, <2>4 DEF OneInserts
    <3>2. NoneRepeats'
      BY <2>2, <2>4 DEF NoneRepeats, Repeated, Plans!Exclusive
    <3>3. OpenRunsDiffer'
      BY <2>2, <2>4 DEF OpenRunsDiffer, Plans!Exclusive
    <3> QED BY <2>1, <3>1, <3>2, <3>3 DEF PlanInv
  <2> QED BY <2>3, <2>4 DEF PlanInv
<1>3. ASSUME NEW p \in Planners, Plans!Look(p) PROVE PlanInv'
  <2>1. PlanTypes'
    BY <1>0, <1>3 DEF Plans!Look, PlanTypes
  <2>2. /\ UNCHANGED <<kind, run, chosen>> /\ plannerPc[p] = "read" /\ Plans!LockFree
        /\ plannerPc' = [plannerPc EXCEPT ![p] =
                            IF Plans!Existing(chosen[p]) # {} THEN "idle" ELSE "insert"]
        /\ overlapped' = (overlapped \/ \E other \in Planners : plannerPc[other] = "insert")
        /\ overlooked' = (overlooked \/
             /\ Plans!Existing(chosen[p]) = {}
             /\ \E i \in DOMAIN run : /\ run[i].status \in Plans!Open
                                      /\ kind \in Plans!Exclusive \/ run[i].ids = chosen[p])
    BY <1>3 DEF Plans!Look
  <2>3. /\ plannerPc'[p] \in {"idle",
          "insert"} /\ (plannerPc'[p] = "insert" => Plans!Existing(chosen[p]) = {})
        /\ \A q \in Planners \ {p} : plannerPc'[q] = plannerPc[q]
    BY <1>0, <2>2 DEF PlanTypes
  <2>4. SUFFICES ASSUME ~Excused' PROVE OneInserts' /\ NoneRepeats' /\ OpenRunsDiffer'
    BY <2>1 DEF PlanInv
  <2>5. ~Excused /\ ~overlooked' /\ (kind \in Plans!Exclusive \/ ~overlapped')
    BY <2>2, <2>4 DEF Excused, Plans!Exclusive
  <2>6. OneInserts /\ NoneRepeats /\ OpenRunsDiffer
    BY <2>5 DEF PlanInv
  <2>7. \A q \in Planners : plannerPc[q] # "insert"
    BY <2>2, <2>5 DEF Plans!LockFree
  <2>8. OneInserts'
    BY <2>3, <2>7 DEF OneInserts
  <2>9. NoneRepeats'
    <3> SUFFICES ASSUME NEW q \in Planners,
      plannerPc'[q] = "insert" PROVE Repeated(chosen[q])' = {}
      BY DEF NoneRepeats
    <3>1. q = p
      BY <2>3, <2>7
    <3>2. Repeated(chosen[p]) = {}
      BY <2>2, <2>3, <2>5, <3>1 DEF Repeated
    <3> QED BY <2>2, <3>1, <3>2 DEF Repeated, Plans!Exclusive
  <2>10. OpenRunsDiffer'
    BY <2>2, <2>6 DEF OpenRunsDiffer, Plans!Exclusive
  <2> QED BY <2>8, <2>9, <2>10
<1>4. ASSUME NEW p \in Planners, Plans!Insert(p) PROVE PlanInv'
  <2> DEFINE ids == IF kind = "repair" THEN due ELSE chosen[p]
  <2>1. PICK s \in Plans!Planned(ids) : run' = Append(run, [status |-> s, ids |-> ids])
    BY <1>4 DEF Plans!Insert
  <2>2. /\ UNCHANGED <<kind, due, chosen, overlapped, overlooked>>
        /\ plannerPc[p] = "insert" /\ plannerPc' = [plannerPc EXCEPT ![p] = "idle"]
    BY <1>4 DEF Plans!Insert
  <2>3. ids \in SUBSET PlanEntities /\ s \in Statuses
    BY <1>0, <2>1, PlannedStatus DEF PlanTypes, Statuses
  <2> DEFINE row == [status |-> s, ids |-> ids]
  <2>4. row \in RunRow
    BY <2>3 DEF RunRow
  <2>5. kind \notin Plans!Exclusive => ids = chosen[p]
    BY DEF Plans!Exclusive
  <2>6. run \in Seq(RunRow) /\ run' = Append(run, row)
    BY <1>0, <2>1 DEF PlanTypes
  <2>7. row.ids = ids
    OBVIOUS
  <2> HIDE DEF ids, row
  <2>8. /\ run' \in Seq(RunRow) /\ Len(run) \in Nat
        /\ DOMAIN run = 1 .. Len(run) /\ DOMAIN run' = 1 .. Len(run) + 1
        /\ \A i \in 1 .. Len(run) : run'[i] = run[i]
        /\ run'[Len(run) + 1] = row
    BY <2>4, <2>6, AppendProperties, LenProperties
  <2>9. PlanTypes'
    BY <1>0, <2>2, <2>8 DEF PlanTypes
  <2>10. plannerPc'[p] # "insert" /\ \A q \in Planners \ {p} : plannerPc'[q] = plannerPc[q]
    BY <1>0, <2>2 DEF PlanTypes
  <2>11. CASE Excused
    BY <2>2, <2>9, <2>11 DEF PlanInv, Excused, Plans!Exclusive
  <2>12. CASE OneInserts /\ NoneRepeats /\ OpenRunsDiffer
    <3>1. \A q \in Planners : plannerPc'[q] # "insert"
      BY <2>2, <2>10, <2>12 DEF OneInserts
    <3>2. Repeated(chosen[p]) = {}
      BY <2>2, <2>12 DEF NoneRepeats
    <3>3. \A i \in DOMAIN run :
            run[i].status \in Plans!Open => kind \notin Plans!Exclusive /\ run[i].ids # row.ids
      BY <2>5, <2>7, <3>2 DEF Repeated
    <3>4. OpenRunsDiffer'
      <4> SUFFICES ASSUME NEW i \in DOMAIN run', NEW j \in DOMAIN run', i # j,
                          run'[i].status \in Plans!Open, run'[j].status \in Plans!Open
                   PROVE  kind \notin Plans!Exclusive /\ run'[i].ids # run'[j].ids
        BY <2>2 DEF OpenRunsDiffer, Plans!Exclusive
      <4>1. CASE i \in DOMAIN run /\ j \in DOMAIN run
        BY <2>8, <2>12, <4>1 DEF OpenRunsDiffer
      <4>2. CASE i \in DOMAIN run /\ j = Len(run) + 1
        BY <2>8, <3>3, <4>2
      <4>3. CASE j \in DOMAIN run /\ i = Len(run) + 1
        BY <2>8, <3>3, <4>3
      <4> QED BY <2>8, <4>1, <4>2, <4>3
    <3>5. OneInserts' /\ NoneRepeats'
      BY <3>1 DEF OneInserts, NoneRepeats
    <3> QED BY <2>9, <3>4, <3>5 DEF PlanInv
  <2> QED BY <2>11, <2>12 DEF PlanInv
<1>5. ASSUME NEW i \in DOMAIN run, Plans!Advance(i) PROVE PlanInv'
  BY <1>0, <1>5, StatusStep DEF Plans!Advance, PlanTypes, Statuses, Plans!Open, Plans!Live
<1>6. ASSUME NEW i \in DOMAIN run, Plans!Park(i) PROVE PlanInv'
  <2>1. PICK s \in {"paused", "waiting", "no_tokens", "no_room"} :
          run' = [run EXCEPT ![i].status = s]
    BY <1>6 DEF Plans!Park
  <2> QED BY <1>0, <1>6, <2>1, StatusStep DEF Plans!Park, PlanTypes, Statuses,
                                              Plans!Open, Plans!Live
<1>7. ASSUME NEW i \in DOMAIN run, Plans!Conclude(i) PROVE PlanInv'
  <2>1. PICK s \in {"completed", "cancelled"} : run' = [run EXCEPT ![i].status = s]
    BY <1>7 DEF Plans!Conclude
  <2>2. run[i].status \in Plans!Open /\ s \in Statuses
    BY <1>7 DEF Plans!Conclude, Statuses
  <2>3. due' \in SUBSET PlanEntities
    BY <1>0, <1>7 DEF Plans!Conclude, PlanTypes
  <2> QED BY <1>7, <2>1, <2>2, <2>3, StatusStep DEF Plans!Conclude
<1>8. ASSUME NEW e \in PlanEntities, Plans!Age(e) PROVE PlanInv'
  <2>1. PlanTypes'
    BY <1>0, <1>8 DEF Plans!Age, PlanTypes
  <2> QED BY <1>8, <2>1, RunStepKeeps DEF Plans!Age
<1>9. CASE UNCHANGED Plans!vars
  <2>1. PlanTypes'
    BY <1>0, <1>9 DEF Plans!vars, PlanTypes
  <2> QED BY <1>9, <2>1, RunStepKeeps DEF Plans!vars
<1> QED BY <1>1, <1>2, <1>3, <1>4, <1>5, <1>6, <1>7, <1>8, <1>9 DEF Plans!Next

PlansHold == part = "plans" => PlanInv

LEMMA PlansStay == Spec => []PlansHold
<1>1. Init => PlansHold
  BY InitPlan DEF Init, PlansHold
<1>2. ASSUME PlansHold, [Next]_all PROVE PlansHold'
  <2> SUFFICES ASSUME part' = "plans" PROVE PlanInv'
    BY DEF PlansHold
  <2>1. part = "plans" /\ (Next \/ UNCHANGED all)
    BY <1>2 DEF Next, all
  <2>2. Plans!Next \/ UNCHANGED Plans!vars
    BY <2>1 DEF Next, all, Plans!vars, Plans!plannerVars
  <2>3. PlanInv
    BY <1>2, <2>1 DEF PlansHold
  <2> QED BY <2>2, <2>3, PlanStep
<1> QED BY <1>1, <1>2, PTL DEF Spec

-----------------------------------------------------------------------------
(* The theorems.                                                            *)

(* A links state that counts as many links as VK does describes the rows:   *)
(* the links marked current are those the user has, over every interruption *)
(* and resumption (_collect_subscriptions), for any lists, runs, page size  *)
(* and maximum.                                                             *)
THEOREM LinksAreRight == Spec => []LinksExact
<1>1. PagesHold => LinksExact
  BY StandaloneAssumption, SamePages, PagesProofs!LinksAreExact
  DEF PagesHold, LinksExact, StandaloneAssumption, PagesProofs!PagesInv
<1> QED BY <1>1, PagesStay, PTL

(* No step of a job retires a link the user still has, however the list was *)
(* cut: by the maximum, by a short page, by an interruption.                *)
THEOREM LinksAreNotRetired == Spec => LinksKept
<1>1. PagesHold /\ [Next]_all => [part = "pages" => Pages!LinksStayMarked]_all
  <2> SUFFICES ASSUME PagesHold, Next, part = "pages" PROVE Pages!LinksStayMarked
    OBVIOUS
  <2>1. PagesProofs!Next
    BY SamePages DEF Next
  <2> QED BY <2>1, StandaloneAssumption, SamePages, PagesProofs!LinksAreKept
      DEF PagesHold, StandaloneAssumption, PagesProofs!PagesInv
<1> QED BY <1>1, PagesStay, PTL DEF Spec, LinksKept

(* The members that a job stores which was not resumed half-way are the     *)
(* sample of all members, and no other row stays current                    *)
(* (_collect_members).                                                      *)
THEOREM SamplesAreComplete == Spec => []SampleOfAll
<1>1. PagesHold => SampleOfAll
  BY SamePages, PagesProofs!SamplesAreWhole
  DEF PagesHold, SampleOfAll, PagesProofs!PagesInv
<1> QED BY <1>1, PagesStay, PTL

(* Posts that appear between two pages, or between two attempts, hide none: *)
(* of the newest posts, those that were there when the job began are stored *)
(* when it is done (_collect_posts, _collect_user_posts).                   *)
THEOREM PostsAreStored == Spec => []PostsKept
<1>1. PagesHold => PostsKept
  BY SamePages, PagesProofs!PostsAreKept
  DEF PagesHold, PostsKept, PagesProofs!PagesInv
<1> QED BY <1>1, PagesStay, PTL

(* What lies before a saved offset has been saved by the run, and a         *)
(* completed keyword has all its results, however many processes drive the  *)
(* run, die and resume it (get_offset, save_page, mark_keyword_complete).   *)
THEOREM NoPageLost == Spec => []NothingSkipped
<1>1. SearchHold => NothingSkipped
  BY SameSearch
  DEF SearchHold, NothingSkipped, SearchProofs!ResumeInv, SearchProofs!SearchInv, SearchProofs!ProgressIsSound,
      SearchProofs!NothingSkipped, SearchProofs!Created
<1> QED BY <1>1, SearchStay, PTL

(* A run is completed only when every keyword was completed or failed, also *)
(* when several processes drive it (SearchService.run, mark_run_complete).  *)
THEOREM CompletionIsThorough == Spec => []CompletedRunIsThrough
<1>1. SearchHold => CompletedRunIsThrough
  BY SameSearch
  DEF SearchHold, CompletedRunIsThrough, SearchProofs!ResumeInv, SearchProofs!SearchInv
<1> QED BY <1>1, SearchStay, PTL

(* A run that was interrupted is resumed and not started anew: processes    *)
(* that do not overlap leave at most one run open (start_or_resume_run).    *)
THEOREM OneRunIsOpen == Spec => []ResumedNotRestarted
<1>1. SearchHold => ResumedNotRestarted
  BY SameSearch, SearchProofs!OneIsEnough
  DEF SearchHold, ResumedNotRestarted, SearchProofs!ResumeInv
<1> QED BY <1>1, SearchStay, PTL

(* A stored vector is the vector of its post, whatever part of a batch      *)
(* failed before the buffer was written (save_post_embeddings_batch).       *)
THEOREM NoForeignVector == Spec => []VectorsBelong
<1>1. EmbeddingsHold => VectorsBelong
  BY SameEmbeddings
  DEF EmbeddingsHold, VectorsBelong, EmbeddingsProofs!BufferInv
<1> QED BY <1>1, EmbeddingsStay, PTL

(* A completed post has its vector in a chunk file (_process_batch,         *)
(* run_async).                                                              *)
THEOREM NoVectorLost == Spec => []CompletedHasChunk
<1>1. EmbeddingsHold => CompletedHasChunk
  BY SameEmbeddings
  DEF EmbeddingsHold, CompletedHasChunk, EmbeddingsProofs!FileInv
<1> QED BY <1>1, EmbeddingsStay, PTL

(* The matrix that run_async returns has a row for each successful post, in *)
(* the same order, over batches encoded one by one and every resume, as     *)
(* long as no chunk was left without its ids and no post failed.            *)
THEOREM RowsInOrder == Spec => []RowsMatchPosts
<1>1. EmbeddingsHold => RowsMatchPosts
  BY SameEmbeddings, EmbeddingsProofs!OrderIsEnough
  DEF EmbeddingsHold, RowsMatchPosts
<1> QED BY <1>1, EmbeddingsStay, PTL

(* Unless a state or an answer was lost, the chat is told RECOVERED only of *)
(* an alert it has been told, and the same again only after repeat_seconds  *)
(* or a failed delivery (process_alerts).                                   *)
THEOREM ChatIsSpared == Spec => []NotFlooded
<1>1. MonitorHold => NotFlooded
  BY SameMonitor
  DEF MonitorHold, NotFlooded
<1> QED BY <1>1, MonitorStay, PTL

(* A run that has made progress within the stall time is never reported as  *)
(* stalled (evaluate_snapshot).                                             *)
THEOREM StallsAreReal == Spec => []NoFalseStall
<1>1. MonitorHold => NoFalseStall
  BY SameMonitor
  DEF MonitorHold, NoFalseStall, MonitorProofs!MonitorInv, MonitorProofs!StallInv
<1> QED BY <1>1, MonitorStay, PTL

(* A date has one daily report, whether process_daily or a later retry      *)
(* delivers it, however often the timer and the operator start the daily    *)
(* mode on that date, also when midnight passes in between.                 *)
THEOREM OneReportADay == Spec => []DailyOnce
<1>1. MonitorHold => DailyOnce
  BY SameMonitor
  DEF MonitorHold, DailyOnce, MonitorProofs!MonitorInv, MonitorProofs!ReportsInv, MonitorProofs!DailyOnce
<1> QED BY <1>1, MonitorStay, PTL

(* Two tasks never have an entity in their batches at the same time,        *)
(* whatever requests fail, processes die and leases are recovered           *)
(* (claim_user_batch, claim_group_batch, recover_expired).                  *)
THEOREM NoSharedEntity == Spec => []BatchesDisjoint
<1>1. BatchesHold => BatchesDisjoint
  BY DEF BatchesHold, BatchesDisjoint, BatchInv
<1> QED BY <1>1, BatchesStay, PTL

(* A completed job has stored its entity and planned the next stage of an   *)
(* open user, and a skipped one was left out by an answer, however batches  *)
(* fail half-way and are tried again (_refresh_user, _refresh_group).       *)
THEOREM CompletedIsStored == Spec => []FinishedJobsAreDone
<1>1. BatchesHold => FinishedJobsAreDone
  BY DEF BatchesHold, FinishedJobsAreDone, BatchInv
<1> QED BY <1>1, BatchesStay, PTL

(* Work is planned once: the advisory lock leaves one pilot and one light   *)
(* repair, and the other planners repeat an open run only if they overlap   *)
(* (create_subscriptions_pilot, plan_light_repair, plan,                    *)
(* plan_subscriptions, plan_posts), or if the open run is in a status they  *)
(* pass over.                                                               *)
THEOREM PlannedOnce == Spec => []NotPlannedTwice
<1>1. PlansHold => NotPlannedTwice
  BY DEF PlansHold, NotPlannedTwice, PlanInv, Excused, OpenRunsDiffer, Plans!NotPlannedTwice
<1> QED BY <1>1, PlansStay, PTL
=============================================================================
