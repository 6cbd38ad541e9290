-------------------------- MODULE CampaignsProofs --------------------------
(***************************************************************************)
(* Theorems about Campaigns, for any number of users and communities, any  *)
(* subscriptions, cohort size and number of disturbances.                   *)
(***************************************************************************)
EXTENDS Campaigns, FiniteSetTheorems, WellFoundedInduction, TLAPS

(* A set of natural numbers that is not empty has a least element.         *)
LEMMA LeastExists ==
  ASSUME NEW S, S \subseteq Nat, S # {}
  PROVE  \E x \in S : \A y \in S : x <= y
<1>1. PICK x \in S : \A y \in S : ~(<<y, x>> \in OpToRel(<, Nat))
  BY NatLessThanWellFounded, WFMin, Zenon
<1>2. \A y \in S : ~(y < x)
  BY <1>1 DEF OpToRel
<1>3. \A y \in S : y \in Nat /\ x \in Nat
  OBVIOUS
<1> QED BY <1>2, <1>3

(* A set of numbers from 1 to n that is not empty has a greatest element.   *)
LEMMA GreatestExists ==
  ASSUME NEW n \in Nat, NEW S, S \subseteq 1 .. n, S # {}
  PROVE  \E x \in S : \A y \in S : y <= x
<1> DEFINE D == {n - y : y \in S}
<1>0. \A y \in S : y \in Int /\ n - y \in Nat
  OBVIOUS
<1>1. D \subseteq Nat /\ D # {}
  <2>1. D \subseteq Nat
    BY <1>0
  <2>2. D # {}
    OBVIOUS
  <2> QED BY <2>1, <2>2
<1>2. PICK d \in D : \A y \in D : d <= y
  <2> HIDE DEF D
  <2> QED BY <1>1, LeastExists
<1>3. PICK x \in S : d = n - x
  OBVIOUS
<1>4. ASSUME NEW y \in S PROVE y <= x
  <2>1. n - y \in D
    OBVIOUS
  <2>2. n - x <= n - y
    BY <1>2, <1>3, <2>1
  <2>3. x \in Int /\ y \in Int
    BY <1>0
  <2> HIDE DEF D
  <2> QED BY <2>2, <2>3
<1> QED BY <1>4

-----------------------------------------------------------------------------
(* Types.                                                                   *)

Types    == {"none", "subscription_enrichment", "user_posts_enrichment"}
Phases   == {"none", "subscription_discovery", "subscription_metadata", "user_posts",
             "completed", "failed", "cancelled"}
Scopes   == {"subscription_discovery", "subscription_metadata", "user_posts"}
CampaignStatus == Active \cup {"absent", "completed", "failed", "cancelled"}
RunStatus == Active \cup RunDone
JobStatus == {"none", "done", "failed", "cancelled"} \cup ActiveJob

CampaignRow == [type: Types, status: CampaignStatus, phase: Phases, cursor: 0 .. UserCount,
                metaCursor: 0 .. UserCount + CommunityCount, gate: {"none", "pending", "passed"}]
RunRow  == [scope: Scopes, status: RunStatus]
JobRow  == [status: JobStatus, run: Nat]
UserRow == [success: BOOLEAN, terminal: BOOLEAN, sched: BOOLEAN]

-----------------------------------------------------------------------------
(* The inductive invariant.                                                 *)

RowTypes ==
  /\ campaign \in CampaignRow
  /\ snapshot \subseteq Users
  /\ run \in Seq(RunRow)
  /\ job \in [Items -> JobRow]
  /\ user \in [Users -> UserRow]
  /\ stale \subseteq Communities /\ collected \subseteq Users

JobTypes ==
  \A i \in Items : /\ job[i].run <= Len(run)
                   /\ job[i].run = 0 <=> job[i].status = "none"

WorkTypes ==
  /\ tasks \subseteq {i \in Items : job[i].run # 0}
  /\ draining \in 0 .. Len(run) /\ renewing \in 0 .. Len(run)
  /\ reading \in {"idle", "noFailures", "noWork"}

(* A campaign's phase is one of its type.                                   *)
PhaseOfType ==
  /\ campaign.type = "none" <=> campaign.status = "absent"
  /\ campaign.type = "none" => /\ campaign.phase = "none" /\ run = <<>> /\ snapshot = {}
                               /\ campaign.cursor = 0 /\ campaign.metaCursor = 0
  /\ campaign.type = "subscription_enrichment" =>
       campaign.phase \in Phases \ {"none", "user_posts"}
  /\ campaign.type = "user_posts_enrichment" =>
       campaign.phase \in {"user_posts", "completed", "failed", "cancelled"}

(* The cursors have passed every job.                                       *)
JobsBehindCursors ==
  \A i \in Items : job[i].run # 0 =>
    IF i \in Users THEN i \in snapshot /\ i <= campaign.cursor ELSE i <= campaign.metaCursor

(* The jobs of a metadata run are those of communities; and before the      *)
(* metadata phase there is none.                                            *)
RunsOfScope ==
  /\ \A i \in Items : job[i].run # 0 =>
       (i \in Communities <=> run[job[i].run].scope = "subscription_metadata")
  /\ \A r \in NewRuns : run[r].scope = "subscription_metadata" =>
       /\ campaign.type = "subscription_enrichment"
       /\ campaign.phase # "subscription_discovery"

(* There is one run at most without jobs, and while it waits for its gate   *)
(* the metadata cursor stands at the start.                                 *)
Waiting(r) == run[r].scope = "subscription_metadata" /\ JobsOf(r) = {}
OneWaits ==
  \A r \in NewRuns : Waiting(r) =>
    /\ campaign.gate # "passed" /\ campaign.metaCursor = 0
    /\ \A s \in NewRuns : Waiting(s) => s = r

(* reconcile holds a campaign that is planned or running.                   *)
ReadingRuns == reading # "idle" => campaign.status \in {"planned", "running"}

Structure == /\ RowTypes /\ JobTypes /\ WorkTypes
             /\ PhaseOfType /\ JobsBehindCursors /\ RunsOfScope /\ OneWaits /\ ReadingRuns

(* What is stored resolves its user, and an answer there is was stored by   *)
(* this campaign or by an earlier one; what is done is stored.              *)
StoredIsResolved ==
  \A u \in Users : IF u \in collected
                   THEN Resolved(u)
                   ELSE ~user[u].terminal /\ (user[u].success => u \in CollectedBefore)
DoneIsStored ==
  \A i \in Items : job[i].status = "done" => i \in collected \/ i \in Communities \ stale
CancelledBySupersede ==
  (\E i \in Items : job[i].status = "cancelled") => "supersede" \in happened

(* Users the cursor has passed without a job are resolved.                  *)
PassedAreResolved ==
  \A u \in Unresolved : u <= campaign.cursor => job[u].run # 0

(* Only a subscription campaign marks a user it has not collected as not    *)
(* due; so a user job of a user-post campaign leaves its user due until the *)
(* wall is stored.                                                          *)
WallsAreDue ==
  campaign.type # "subscription_enrichment" =>
    /\ \A u \in Users : user[u].sched => user[u].success \/ user[u].terminal
    /\ \A u \in Users : job[u].run # 0 /\ u \notin collected => ~user[u].sched

(* After discovery every user of the snapshot is resolved.                  *)
PhaseIsOver ==
  campaign.phase \in {"subscription_metadata", "completed"} => Unresolved = {}

Resolution == /\ StoredIsResolved /\ DoneIsStored /\ CancelledBySupersede
              /\ PassedAreResolved /\ WallsAreDue /\ PhaseIsOver

(* Without errors and deferred jobs a subscription campaign leaves no user  *)
(* in between, and the communities its cursor has passed are at work.       *)
Clean == happened \cap {"transient", "fatal", "defer"} = {}
NoneInBetween ==
  campaign.type = "subscription_enrichment" =>
    /\ \A u \in Users : job[u].run # 0 /\ u \notin collected => ~Resolved(u)
    /\ campaign.phase \in {"subscription_metadata", "completed"} =>
         \A i \in Due(snapshot) :
           i <= campaign.metaCursor => job[i].status \in Immediate \cup {"cancelled"}
    /\ campaign.phase = "completed" => Due(snapshot) = {}
    /\ (\E i \in Items : job[i].status = "cancelled") => campaign.phase \in {"cancelled", "failed"}
CleanInv ==
  Clean =>
    /\ \A i \in Items : job[i].status \notin {"retry_wait", "failed"}
    /\ NoneInBetween
    /\ reading = "noWork" => ~HasJob(Immediate)

IInv == Structure /\ Resolution /\ CleanInv

-----------------------------------------------------------------------------
(* Cohorts.                                                                 *)

(* The cohort of a set that is not empty is not empty, and takes the ids of *)
(* the set from the first on.                                               *)
LEMMA FirstOfFacts ==
  ASSUME NEW n \in Nat, NEW S, S \subseteq 1 .. n
  PROVE  /\ FirstOf(S) \subseteq S
         /\ S # {} => FirstOf(S) # {}
         /\ \A i \in FirstOf(S), k \in S : k < i => k \in FirstOf(S)
<1>1. FirstOf(S) \subseteq S
  BY DEF FirstOf
<1>2. ASSUME S # {} PROVE FirstOf(S) # {}
  <2>1. PICK i \in S : \A k \in S : i <= k
    <3>1. S \subseteq Nat
      OBVIOUS
    <3> QED BY <3>1, <1>2, LeastExists
  <2>2. {k \in S : k < i} = {}
    <3>1. ASSUME NEW k \in S PROVE ~(k < i)
      <4>1. k \in Int /\ i \in Int /\ i <= k
        BY <2>1
      <4> QED BY <4>1
    <3> QED BY <3>1
  <2>3. Cardinality({k \in S : k < i}) < CohortSize
    BY <2>2, FS_EmptySet, CampaignAssumption
  <2> QED BY <2>1, <2>3 DEF FirstOf
<1>3. ASSUME NEW i \in FirstOf(S), NEW k \in S, k < i PROVE k \in FirstOf(S)
  <2> DEFINE A == {j \in S : j < i}
             B == {j \in S : j < k}
  <2>1. i \in S /\ Cardinality(A) < CohortSize
    BY DEF FirstOf
  <2>2. IsFiniteSet(A)
    <3>1. IsFiniteSet(1 .. n)
      BY FS_Interval
    <3>2. A \subseteq 1 .. n
      OBVIOUS
    <3> QED BY <3>1, <3>2, FS_Subset
  <2>3. B \subseteq A
    <3>1. ASSUME NEW j \in B PROVE j < i
      <4>1. j \in Int /\ k \in Int /\ i \in Int /\ j < k /\ k < i
        BY <1>3, <2>1
      <4> QED BY <4>1
    <3> QED BY <3>1
  <2>4. Cardinality(B) <= Cardinality(A) /\ Cardinality(A) \in Nat /\ Cardinality(B) \in Nat
    BY <2>2, <2>3, FS_Subset, FS_CardinalityType
  <2>5. Cardinality(B) < CohortSize
    BY <2>1, <2>4, CampaignAssumption
  <2> QED BY <2>5 DEF FirstOf
<1> QED BY <1>1, <1>2, <1>3

(* The last id of a cohort is one of it, and none is beyond.                *)
LEMMA LastFacts ==
  ASSUME NEW n \in Nat, NEW S, S \subseteq 1 .. n, S # {}
  PROVE  Last(S) \in S /\ \A k \in S : k <= Last(S)
BY GreatestExists DEF Last

-----------------------------------------------------------------------------
(* Runs.                                                                    *)

LEMMA RunMap ==
  ASSUME RowTypes, NEW q, q \in [NewRuns -> RunRow]
  PROVE  q \in Seq(RunRow) /\ Len(q) = Len(run)
<1>1. Len(run) \in Nat
  BY DEF RowTypes
<1> QED BY <1>1 DEF NewRuns

LEMMA RunSet ==
  ASSUME RowTypes, NEW r \in NewRuns, NEW s \in RunStatus
  PROVE  LET q == [run EXCEPT ![r].status = s]
         IN /\ q \in Seq(RunRow) /\ Len(q) = Len(run)
            /\ \A k \in NewRuns : /\ q[k].scope = run[k].scope
                                  /\ q[k].status = IF k = r THEN s ELSE run[k].status
<1> DEFINE q == [run EXCEPT ![r].status = s]
<1>1. run \in [NewRuns -> RunRow]
  BY DEF RowTypes, NewRuns
<1>2. q \in [NewRuns -> RunRow] /\
        \A k \in NewRuns : /\ q[k].scope = run[k].scope
                           /\ q[k].status = IF k = r THEN s ELSE run[k].status
  BY <1>1 DEF RunRow
<1> HIDE DEF q
<1>3. q \in Seq(RunRow) /\ Len(q) = Len(run)
  BY <1>2, RunMap
<1> QED BY <1>2, <1>3 DEF q

-----------------------------------------------------------------------------
(* Steps that plan nothing: what they leave as it is.                       *)

CampaignStep ==
  /\ campaign' \in CampaignRow
  /\ campaign'.type = campaign.type
  /\ campaign'.cursor = campaign.cursor /\ campaign'.metaCursor = campaign.metaCursor
  /\ campaign'.status = "absent" <=> campaign.status = "absent"
  /\ \/ campaign'.phase = campaign.phase
     \/ campaign.type # "none" /\ campaign'.phase \in {"completed", "failed", "cancelled"}
  /\ \/ campaign'.gate = campaign.gate
     \/ campaign'.gate = "passed" /\ \A r \in NewRuns : ~Waiting(r)

RunStep ==
  /\ run' \in Seq(RunRow) /\ Len(run') = Len(run)
  /\ \A r \in NewRuns : run'[r].scope = run[r].scope

JobStep ==
  /\ job' \in [Items -> JobRow]
  /\ \A i \in Items : /\ job'[i].run = job[i].run
                      /\ job'[i].status = "none" <=> job[i].status = "none"

UserStep ==
  /\ user' \in [Users -> UserRow]
  /\ stale' \subseteq Communities /\ collected' \subseteq Users

QuietStep == CampaignStep /\ RunStep /\ JobStep /\ UserStep /\ snapshot' = snapshot

LEMMA CampaignSame == Structure /\ campaign' = campaign => CampaignStep
BY DEF Structure, RowTypes, CampaignStep
LEMMA RunSame == Structure /\ run' = run => RunStep
BY DEF Structure, RowTypes, RunStep
LEMMA JobSame == Structure /\ job' = job => JobStep
BY DEF Structure, RowTypes, JobStep
LEMMA UserSame == Structure /\ UNCHANGED dataVars => UserStep
BY DEF Structure, RowTypes, UserStep, dataVars, userVars

(* The campaign gets another status, once it exists.                        *)
LEMMA CampaignStatusStep ==
  ASSUME Structure, campaign.status # "absent", NEW s \in CampaignStatus \ {"absent"},
         campaign' = [campaign EXCEPT !.status = s]
  PROVE  CampaignStep
BY DEF Structure, RowTypes, CampaignRow, CampaignStep

LEMMA RunStatusStep ==
  ASSUME Structure, NEW r \in NewRuns, NEW s \in RunStatus,
         run' = [run EXCEPT ![r].status = s]
  PROVE  RunStep
BY RunSet DEF Structure, RunStep

(* A job gets another status.                                               *)
LEMMA JobStatusStep ==
  ASSUME Structure, NEW s \in JobStatus \ {"none"}, NEW i \in Items, job[i].run # 0,
         job' = [job EXCEPT ![i].status = s]
  PROVE  JobStep
BY DEF Structure, RowTypes, JobTypes, JobRow, JobStep

LEMMA ChangeStatusSteps ==
  ASSUME Structure, NEW s \in {"paused", "running"}, ChangeStatus(s)
  PROVE  CampaignStep /\ RunStep /\ JobStep
<1>1. CampaignStep
  BY CampaignStatusStep DEF ChangeStatus, CampaignStatus, Active
<1>2. RunStep
  <2>1. run' \in [NewRuns -> RunRow] /\ \A r \in NewRuns : run'[r].scope = run[r].scope
    <3>1. \A r \in NewRuns : run[r] \in RunRow
      BY DEF Structure, RowTypes, NewRuns
    <3>2. \A r \in NewRuns : run'[r] = IF run[r].status \in Runnable \cup {"paused"}
                                      THEN [run[r] EXCEPT !.status = s] ELSE run[r]
      BY DEF ChangeStatus
    <3>3. \A r \in NewRuns : run'[r] \in RunRow /\ run'[r].scope = run[r].scope
      BY <3>1, <3>2 DEF RunRow, RunStatus, Active
    <3> QED BY <3>3 DEF ChangeStatus
  <2> QED BY <2>1, RunMap DEF RunStep, Structure
<1>3. JobStep
  BY DEF Structure, RowTypes, JobTypes, JobRow, JobStep, ChangeStatus, JobStatus, ActiveJob, Immediate
<1> QED BY <1>1, <1>2, <1>3

LEMMA SetRunStatusSteps ==
  ASSUME Structure, NEW r \in NewRuns, NEW s \in Active, SetRunStatus(r, s)
  PROVE  CampaignStep /\ RunStep /\ JobStep
<1>1. campaign.status # "absent"
  BY DEF Structure, PhaseOfType, NewRuns
<1>2. CampaignStep
  BY <1>1, CampaignStatusStep DEF SetRunStatus, CampaignStatus, Active
<1>3. RunStep
  BY RunStatusStep DEF SetRunStatus, RunStatus
<1>4. JobStep
  BY DEF Structure, RowTypes, JobTypes, JobRow, JobStep, SetRunStatus, JobStatus, ActiveJob, Immediate
<1> QED BY <1>2, <1>3, <1>4

LEMMA FinishSteps ==
  ASSUME Structure, NEW i \in tasks, NEW s \in JobStatus \ {"none"}, Finish(i, s)
  PROVE  RunStep /\ JobStep
<1>0. i \in Items /\ job[i].run # 0 /\ job[i].run \in NewRuns
  BY DEF Structure, RowTypes, JobTypes, WorkTypes, NewRuns, JobRow
<1>1. RunStep
  <2>1. run' = run \/ run' = [run EXCEPT ![job[i].run].status = "completed"]
    BY DEF Finish
  <2> QED BY <1>0, <2>1, RunSame, RunStatusStep DEF RunStatus, RunDone
<1>2. JobStep
  <2>1. job' = job \/ job' = [job EXCEPT ![i].status = s]
    BY DEF Finish
  <2> QED BY <1>0, <2>1, JobSame, JobStatusStep
<1> QED BY <1>1, <1>2

(* Such a step keeps the jobs, the runs and the cursors in order.           *)
LEMMA QuietKeeps ==
  ASSUME Structure, QuietStep
  PROVE  /\ NewRuns' = NewRuns
         /\ RowTypes' /\ JobTypes' /\ PhaseOfType'
         /\ JobsBehindCursors' /\ RunsOfScope' /\ OneWaits'
<1> USE DEF QuietStep
<1>1. NewRuns' = NewRuns
  BY DEF NewRuns, RunStep
<1>2. RowTypes'
  BY DEF RowTypes, CampaignStep, RunStep, JobStep, UserStep, Structure
<1>3. JobTypes'
  BY DEF JobTypes, RunStep, JobStep, Structure
<1>4. PhaseOfType'
  <2>1. campaign.type = "none" => run' = <<>>
    <3>1. campaign.type = "none" => Len(run') = 0 /\ run' \in Seq(RunRow)
      BY DEF PhaseOfType, RunStep, Structure
    <3> QED BY <3>1
  <2>2. campaign.type = "none" => campaign'.phase = "none" /\ snapshot' = {}
    BY DEF PhaseOfType, CampaignStep, Structure
  <2>5. campaign'.cursor = campaign.cursor /\ campaign'.metaCursor = campaign.metaCursor
    BY DEF CampaignStep
  <2>3. \/ campaign'.phase = campaign.phase
        \/ campaign'.phase \in {"completed", "failed", "cancelled"}
    BY DEF CampaignStep
  <2>4. /\ campaign'.type = campaign.type
        /\ campaign'.status = "absent" <=> campaign.status = "absent"
    BY DEF CampaignStep
  <2> QED BY <2>1, <2>2, <2>3, <2>4, <2>5 DEF PhaseOfType, Phases, Structure
<1>5. JobsBehindCursors'
  BY DEF JobsBehindCursors, CampaignStep, JobStep, Structure
<1>6. RunsOfScope'
  <2>1. \A i \in Items : job[i].run # 0 => job[i].run \in NewRuns
    BY DEF Structure, RowTypes, JobTypes, JobRow, NewRuns
  <2>2. campaign.phase = campaign'.phase \/ campaign'.phase # "subscription_discovery"
    BY DEF CampaignStep
  <2> QED BY <1>1, <2>1, <2>2 DEF RunsOfScope, CampaignStep, RunStep, JobStep, Structure
<1>7. OneWaits'
  <2>1. \A r \in NewRuns : Waiting(r)' <=> Waiting(r)
    BY DEF Waiting, JobsOf, RunStep, JobStep
  <2> QED BY <1>1, <2>1 DEF OneWaits, CampaignStep, Structure
<1> QED BY <1>1, <1>2, <1>3, <1>4, <1>5, <1>6, <1>7

-----------------------------------------------------------------------------
(* The steps that plan nothing are such steps.                              *)

(* What a reader of the tables keeps, besides.                              *)
Quiet == QuietStep /\ WorkTypes' /\ ReadingRuns'

LEMMA LookQuiet ==
  ASSUME Structure, NEW concerned, NEW mayResume,
         ReconcileLook(concerned, mayResume), campaign.type # "none"
  PROVE  Quiet
<1> DEFINE c == IF campaign.status = "paused_capacity_limit" /\ mayResume
                THEN [campaign EXCEPT !.status = "running"] ELSE campaign
<1>1. \/ campaign' = Failed(campaign) /\ UNCHANGED reading
      \/ campaign' = c /\ c.status \in {"planned", "running"} /\ reading' = "noFailures"
      \/ UNCHANGED <<campaign, reading>>
  BY DEF ReconcileLook
<1>2. reading = "idle" /\ campaign.status # "absent"
  BY DEF ReconcileLook, Structure, PhaseOfType
<1>3. CampaignStep
  <2>1. CASE campaign' = Failed(campaign)
    BY <1>2, <2>1 DEF Failed, CampaignStep, Structure, RowTypes, CampaignRow, CampaignStatus, Phases
  <2>2. CASE campaign' = c
    BY <1>2, <2>2, CampaignSame, CampaignStatusStep DEF CampaignStatus, Active
  <2> QED BY <1>1, <2>1, <2>2, CampaignSame
<1>4. QuietStep
  BY <1>3, RunSame, JobSame, UserSame DEF QuietStep, ReconcileLook, NoNewRun
<1>5. WorkTypes' /\ ReadingRuns'
  BY <1>1, <1>2, QuietKeeps, <1>4
  DEF WorkTypes, ReadingRuns, Structure, ReconcileLook, NoNewRun, workVars
<1> QED BY <1>4, <1>5 DEF Quiet

LEMMA ReaderQuiet ==
  ASSUME Structure, ReconcileCount \/ Recheck \/ (\E r \in NewRuns : ListRun(r))
                     \/ StopClaiming \/ RoomLost \/ RoomFound \/ ControlDecision \/ RenewalRejected
  PROVE  Quiet
<1>1. UNCHANGED <<campaign, snapshot, run, job, dataVars>>
  BY DEF ReconcileCount, NoNewRun, Recheck, ListRun, StopClaiming, RoomLost, RoomFound,
         ControlDecision, RenewalRejected
<1>2. QuietStep
  BY <1>1, CampaignSame, RunSame, JobSame, UserSame DEF QuietStep
<1>3. WorkTypes'
  <2>1. /\ tasks' = tasks
        /\ draining' = draining \/ draining' \in NewRuns
        /\ renewing' \in {renewing, 0} \/ renewing' \in NewRuns
        /\ reading' \in {reading, "idle", "noWork"}
    BY DEF ReconcileCount, NoNewRun, Recheck, ListRun, StopClaiming, RoomLost, RoomFound,
           ControlDecision, RenewalRejected, Parked, RunnableRuns, workVars, ServiceRestarted,
           reconcileVars
  <2>2. Len(run) \in Nat
    BY DEF Structure, RowTypes
  <2> QED BY <1>1, <2>1, <2>2 DEF WorkTypes, Structure, NewRuns
<1>4. ReadingRuns'
  <2>1. reading' = reading \/ reading # "idle"
    BY DEF ReconcileCount, NoNewRun, Recheck, ListRun, StopClaiming, RoomLost, RoomFound,
           ControlDecision, RenewalRejected, ServiceRestarted, reconcileVars
  <2> QED BY <1>1, <2>1 DEF ReadingRuns, Structure
<1> QED BY <1>2, <1>3, <1>4 DEF Quiet

LEMMA ClaimQuiet ==
  ASSUME Structure, NEW i \in Items, Claim(i)
  PROVE  Quiet
<1>1. /\ draining \in NewRuns /\ job[i].run # 0
      /\ campaign.status # "absent"
  BY DEF Claim, Structure, WorkTypes, RowTypes, NewRuns, PhaseOfType
<1>2. CampaignStep /\ RunStep
  <2>1. CASE UNCHANGED <<run, campaign>>
    BY <2>1, CampaignSame, RunSame
  <2>2. CASE /\ run' = [run EXCEPT ![draining].status = "running"]
             /\ campaign' = [campaign EXCEPT !.status = "running"]
    BY <1>1, <2>2, CampaignStatusStep, RunStatusStep DEF RunStatus, CampaignStatus, Active
  <2> QED BY <2>1, <2>2 DEF Claim
<1>3. JobStep
  BY <1>1, JobStatusStep DEF Claim, JobStatus, ActiveJob, Immediate
<1>4. QuietStep
  BY <1>2, <1>3, UserSame DEF QuietStep, Claim
<1>5. WorkTypes'
  BY <1>1, <1>4 DEF WorkTypes, Structure, Claim, reconcileVars, QuietStep, RunStep, JobStep
<1>6. ReadingRuns'
  BY DEF ReadingRuns, Structure, Claim, reconcileVars, RowTypes, CampaignRow, CampaignFree
<1> QED BY <1>4, <1>5, <1>6 DEF Quiet

LEMMA DiskStopQuiet ==
  ASSUME Structure, DiskStop
  PROVE  Quiet
<1>1. draining \in NewRuns
  BY DEF DiskStop, Structure, WorkTypes, RowTypes, NewRuns
<1>2. QuietStep
  BY <1>1, SetRunStatusSteps, UserSame DEF DiskStop, QuietStep, Active
<1>3. WorkTypes' /\ ReadingRuns'
  BY <1>2 DEF WorkTypes, ReadingRuns, Structure, DiskStop, SetRunStatus, CampaignFree,
              reconcileVars, QuietStep, RunStep, JobStep
<1> QED BY <1>2, <1>3 DEF Quiet

LEMMA LeaveRunQuiet ==
  ASSUME Structure, LeaveRun
  PROVE  Quiet
<1>1. draining \in NewRuns
  BY DEF LeaveRun, Structure, WorkTypes, RowTypes, NewRuns
<1>2. \/ run' = run \/ run' = [run EXCEPT ![draining].status = "completed"]
      \/ run' = [run EXCEPT ![draining].status = "running"]
  BY DEF LeaveRun
<1>3. RunStep
  BY <1>1, <1>2, RunSame, RunStatusStep DEF RunStatus, RunDone, Active
<1>4. QuietStep
  BY <1>3, CampaignSame, JobSame, UserSame DEF LeaveRun, QuietStep
<1>5. WorkTypes' /\ ReadingRuns'
  BY <1>4 DEF WorkTypes, ReadingRuns, Structure, LeaveRun, reconcileVars, QuietStep, RunStep, RowTypes
<1> QED BY <1>4, <1>5 DEF Quiet

LEMMA CrashQuiet ==
  ASSUME Structure, Crash
  PROVE  Quiet
<1>1. JobStep
  BY DEF Structure, RowTypes, JobTypes, JobRow, JobStep, Crash, JobStatus, ActiveJob, Immediate
<1>2. QuietStep
  BY <1>1, CampaignSame, RunSame, UserSame DEF Crash, QuietStep
<1>3. WorkTypes' /\ ReadingRuns'
  BY <1>2 DEF WorkTypes, ReadingRuns, Structure, Crash, RowTypes
<1> QED BY <1>2, <1>3 DEF Quiet

(* A task ends, and its user's state is written.                            *)
LEMMA FinishQuiet ==
  ASSUME Structure, NEW i \in tasks, NEW s \in JobStatus \ {"none"}, Finish(i, s), UserStep,
         UNCHANGED <<campaign, snapshot, draining, reading, renewing>>
  PROVE  Quiet
<1>1. QuietStep
  BY FinishSteps, CampaignSame DEF QuietStep
<1>2. tasks' = tasks \ {i}
  BY DEF Finish
<1>3. WorkTypes' /\ ReadingRuns'
  BY <1>1, <1>2 DEF WorkTypes, ReadingRuns, Structure, QuietStep, RunStep, JobStep
<1> QED BY <1>1, <1>3 DEF Quiet

LEMMA DeferQuiet ==
  ASSUME Structure, NEW i \in Items, Defer(i)
  PROVE  Quiet
<1>1. i \in tasks /\ job[i].run # 0 /\ job[i].run \in NewRuns /\ campaign.status # "absent"
  BY DEF Defer, Structure, RowTypes, JobTypes, WorkTypes, NewRuns, JobRow, PhaseOfType
<1>2. CampaignStep /\ RunStep /\ JobStep
  BY <1>1, CampaignStatusStep, RunStatusStep, JobStatusStep
  DEF Defer, RunStatus, CampaignStatus, JobStatus, ActiveJob, Active
<1>3. QuietStep
  BY <1>2, UserSame DEF QuietStep, Defer
<1>4. WorkTypes' /\ ReadingRuns'
  BY <1>3 DEF WorkTypes, ReadingRuns, Structure, Defer, CampaignFree, reconcileVars,
              QuietStep, RunStep, JobStep
<1> QED BY <1>3, <1>4 DEF Quiet

LEMMA StoreQuiet ==
  ASSUME Structure, NEW i \in Items, Store(i)
  PROVE  Quiet
<1>1. UserStep
  <2>1. user \in [Users -> UserRow] /\ stale \subseteq Communities /\ collected \subseteq Users
    BY DEF Structure, RowTypes
  <2>2. CASE StoreSubscriptions(i) \/ StoreWall(i)
    <3>1. i \in Users /\ collected' = collected \cup {i} /\ stale' = stale
      BY <2>2 DEF StoreSubscriptions, StoreWall
    <3>2. PICK terminal \in BOOLEAN :
            user' = [user EXCEPT ![i] = [success |-> user[i].success \/ ~terminal,
                                         terminal |-> terminal, sched |-> TRUE]]
      BY <2>2 DEF StoreSubscriptions, StoreWall
    <3>3. [success |-> user[i].success \/ ~terminal, terminal |-> terminal, sched |-> TRUE]
            \in UserRow
      BY <2>1, <3>1 DEF UserRow
    <3> QED BY <2>1, <3>1, <3>2, <3>3 DEF UserStep
  <2>3. CASE Describe(i)
    BY <2>1, <2>3 DEF Describe, UserStep, userVars
  <2> QED BY <2>2, <2>3 DEF Store
<1>2. QuietStep
  BY <1>1, CampaignSame, RunSame, JobSame
  DEF QuietStep, Store, StoreSubscriptions, StoreWall, Describe
<1>3. WorkTypes' /\ ReadingRuns'
  BY DEF WorkTypes, ReadingRuns, Structure, Store, StoreSubscriptions, StoreWall, Describe,
         workVars, reconcileVars
<1> QED BY <1>2, <1>3 DEF Quiet

LEMMA ErrorQuiet ==
  ASSUME Structure, NEW i \in Items, Error(i) \/ Done(i)
  PROVE  Quiet
<1>1. UserStep
  <2>1. user \in [Users -> UserRow] /\ stale \subseteq Communities /\ collected \subseteq Users
    BY DEF Structure, RowTypes
  <2>2. CASE SubscriptionsError(i)
    BY <2>1, <2>2 DEF SubscriptionsError, UserRow, UserStep
  <2>3. CASE WallError(i)
    BY <2>1, <2>3 DEF WallError, UserRow, UserStep
  <2>4. CASE CommunityError(i) \/ Done(i)
    BY <2>1, <2>4 DEF CommunityError, Done, UserStep, dataVars, userVars
  <2> QED BY <2>2, <2>3, <2>4 DEF Error
<1>2. PICK s \in {"retry_wait", "failed", "done"} : Finish(i, s)
  BY DEF Error, SubscriptionsError, WallError, CommunityError, Done
<1>3. s \in JobStatus \ {"none"}
  BY DEF JobStatus, ActiveJob
<1>4. i \in tasks /\ UNCHANGED <<campaign, snapshot, draining, reading, renewing>>
  BY DEF Error, SubscriptionsError, WallError, CommunityError, Done
<1> QED BY <1>1, <1>2, <1>3, <1>4, FinishQuiet

LEMMA OperateQuiet ==
  ASSUME Structure, Operate
  PROVE  Quiet
<1>1. CASE PauseCampaign \/ ResumeCampaign
  <2>1. PICK s \in {"paused", "running"} : ChangeStatus(s)
    BY <1>1 DEF PauseCampaign, ResumeCampaign
  <2>2. QuietStep
    BY <1>1, <2>1, ChangeStatusSteps, UserSame DEF PauseCampaign, ResumeCampaign, QuietStep
  <2>3. WorkTypes' /\ ReadingRuns'
    BY <1>1, <2>2 DEF WorkTypes, ReadingRuns, Structure, PauseCampaign, ResumeCampaign, ChangeStatus,
         CampaignFree, workVars, reconcileVars, QuietStep, RunStep, JobStep
  <2> QED BY <2>2, <2>3 DEF Quiet
<1>2. CASE Supersede
  <2>1. CampaignStep
    BY <1>2 DEF Supersede, CampaignStep, Structure, RowTypes, CampaignRow, CampaignStatus, Phases,
                PhaseOfType
  <2>2. RunStep
    <3>1. \A r \in NewRuns : run[r] \in RunRow
      BY DEF Structure, RowTypes, NewRuns
    <3>2. \A r \in NewRuns : run'[r] = IF run[r].status \notin RunDone
                                      THEN [run[r] EXCEPT !.status = "cancelled"] ELSE run[r]
      BY <1>2 DEF Supersede
    <3>3. \A r \in NewRuns : run'[r] \in RunRow /\ run'[r].scope = run[r].scope
      BY <3>1, <3>2 DEF RunRow, RunStatus, RunDone
    <3>4. run' \in [NewRuns -> RunRow]
      BY <1>2, <3>3 DEF Supersede
    <3> QED BY <3>3, <3>4, RunMap DEF RunStep, Structure
  <2>3. JobStep
    BY <1>2 DEF Supersede, Structure, RowTypes, JobTypes, JobRow, JobStep, JobStatus, NewRuns
  <2>4. QuietStep
    <3>1. snapshot' = snapshot /\ UNCHANGED dataVars
      BY <1>2 DEF Supersede
    <3>2. UserStep
      BY <3>1, UserSame
    <3> QED BY <2>1, <2>2, <2>3, <3>1, <3>2 DEF QuietStep
  <2>5. WorkTypes' /\ ReadingRuns'
    BY <1>2, <2>4, Zenon
    DEF WorkTypes, ReadingRuns, Structure, Supersede, CampaignFree, workVars, reconcileVars,
        QuietStep, RunStep, JobStep
  <2> QED BY <2>4, <2>5 DEF Quiet
<1> QED BY <1>1, <1>2 DEF Operate

-----------------------------------------------------------------------------
(* Planning.                                                                *)

LEMMA UserOrCommunity ==
  /\ Users \subseteq 1 .. UserCount + CommunityCount
  /\ Communities \subseteq 1 .. UserCount + CommunityCount
  /\ Users \cap Communities = {}
  /\ \A i \in Items : i \in Int
BY CampaignAssumption DEF Users, Communities, Items

LEMMA CohortFacts ==
  ASSUME NEW S, S \subseteq 1 .. UserCount + CommunityCount
  PROVE  /\ FirstOf(S) \subseteq S
         /\ S # {} => FirstOf(S) # {}
         /\ FirstOf(S) # {} =>
              /\ Last(FirstOf(S)) \in FirstOf(S)
              /\ \A k \in FirstOf(S) : k <= Last(FirstOf(S))
              /\ \A k \in S : k <= Last(FirstOf(S)) => k \in FirstOf(S)
<1> DEFINE n == UserCount + CommunityCount
<1>0. n \in Nat
  BY CampaignAssumption
<1>1. /\ FirstOf(S) \subseteq S
      /\ S # {} => FirstOf(S) # {}
      /\ \A i \in FirstOf(S), k \in S : k < i => k \in FirstOf(S)
  BY <1>0, FirstOfFacts
<1>2. ASSUME FirstOf(S) # {}
      PROVE  /\ Last(FirstOf(S)) \in FirstOf(S)
             /\ \A k \in FirstOf(S) : k <= Last(FirstOf(S))
  <2>1. FirstOf(S) \subseteq 1 .. n
    BY <1>1
  <2> HIDE DEF n
  <2> QED BY <1>0, <1>2, <2>1, LastFacts
<1>3. ASSUME FirstOf(S) # {}, NEW k \in S, k <= Last(FirstOf(S)) PROVE k \in FirstOf(S)
  <2>1. Last(FirstOf(S)) \in FirstOf(S)
    BY <1>2, <1>3
  <2>2. k \in Int /\ Last(FirstOf(S)) \in Int
    <3>1. Last(FirstOf(S)) \in S
      BY <1>1, <2>1
    <3>2. \A j \in S : j \in Int
      OBVIOUS
    <3> QED BY <3>1, <3>2
  <2>3. k < Last(FirstOf(S)) \/ k = Last(FirstOf(S))
    BY <1>3, <2>2
  <2> QED BY <1>1, <2>1, <2>3
<1> QED BY <1>1, <1>2, <1>3

(* A run and its jobs are inserted.                                         *)
LEMMA InsertFacts ==
  ASSUME Structure, NEW scope \in Scopes, NEW status \in RunStatus, NEW ids \in SUBSET Items,
         \A i \in ids : job[i].run = 0, InsertRun(scope, status, ids)
  PROVE  /\ run' \in Seq(RunRow) /\ Len(run') = Len(run) + 1
         /\ NewRuns' = NewRuns \cup {Len(run) + 1}
         /\ \A r \in NewRuns : run'[r] = run[r]
         /\ run'[Len(run) + 1] = [scope |-> scope, status |-> status]
         /\ job' \in [Items -> JobRow] /\ JobTypes'
         /\ \A i \in Items : job'[i] = IF i \in ids THEN [status |-> "pending", run |-> Len(run) + 1]
                                       ELSE job[i]
         /\ \A r \in NewRuns : JobsOf(r)' = JobsOf(r)
         /\ {i \in Items : job'[i].run = Len(run) + 1} = ids
<1> DEFINE row == [scope |-> scope, status |-> status]
<1>0. run \in Seq(RunRow) /\ Len(run) \in Nat /\ row \in RunRow
  BY DEF Structure, RowTypes, RunRow
<1>1. /\ run' \in Seq(RunRow) /\ Len(run') = Len(run) + 1
      /\ \A r \in 1 .. Len(run) : run'[r] = run[r]
      /\ run'[Len(run) + 1] = row
  <2>1. run' = Append(run, row)
    BY DEF InsertRun
  <2> HIDE DEF row
  <2> QED BY <1>0, <2>1
<1>2. NewRuns' = NewRuns \cup {Len(run) + 1}
  BY <1>0, <1>1 DEF NewRuns
<1>3. \A i \in Items : job'[i] = IF i \in ids THEN [status |-> "pending", run |-> Len(run) + 1]
                                ELSE job[i]
  BY DEF InsertRun
<1>4. job' \in [Items -> JobRow]
  <2>1. job \in [Items -> JobRow] /\ [status |-> "pending", run |-> Len(run) + 1] \in JobRow
    BY <1>0 DEF Structure, RowTypes, JobRow, JobStatus, ActiveJob, Immediate
  <2> QED BY <2>1 DEF InsertRun
<1>5. \A i \in Items : /\ job[i].run \in Nat /\ job[i].run <= Len(run)
                       /\ job[i].run = 0 <=> job[i].status = "none"
  BY DEF Structure, RowTypes, JobTypes, JobRow
<1>6. JobTypes'
  BY <1>0, <1>1, <1>3, <1>5 DEF JobTypes
<1>7. \A r \in NewRuns : JobsOf(r)' = JobsOf(r)
  BY <1>0, <1>3, <1>5 DEF JobsOf, NewRuns
<1>8. {i \in Items : job'[i].run = Len(run) + 1} = ids
  BY <1>0, <1>3, <1>5
<1> QED BY <1>1, <1>2, <1>3, <1>4, <1>6, <1>7, <1>8 DEF NewRuns

(* A cohort of users is planned.                                            *)
LEMMA PlanUsersKeeps ==
  ASSUME Structure, NEW scope \in {"subscription_discovery", "user_posts"},
         NEW ids, ids # {}, ids \subseteq snapshot',
         snapshot' \subseteq Users, snapshot \subseteq snapshot',
         \A i \in ids : campaign.cursor < i,
         Last(ids) \in ids, \A i \in ids : i <= Last(ids),
         InsertRun(scope, "planned", ids),
         campaign' \in CampaignRow, campaign'.status = "running",
         campaign'.cursor = Last(ids), campaign'.metaCursor = campaign.metaCursor,
         campaign'.gate = campaign.gate,
         \/ campaign'.type = campaign.type /\ campaign'.phase = campaign.phase /\ campaign.type # "none"
         \/ campaign'.type = "subscription_enrichment" /\ campaign.type = "none"
            /\ campaign'.phase = "subscription_discovery"
         \/ campaign'.type = "user_posts_enrichment" /\ campaign.type = "none"
            /\ campaign'.phase = "user_posts",
         reading' = "idle",
         UNCHANGED <<dataVars, workVars, renewing>>
  PROVE  Structure'
<1>0. /\ ids \in SUBSET Items /\ ids \subseteq Users /\ ids \cap Communities = {}
      /\ scope \in Scopes /\ "planned" \in RunStatus /\ scope # "subscription_metadata"
  BY UserOrCommunity DEF Items, Scopes, RunStatus, Active
<1>1. /\ Len(run) \in Nat /\ campaign.cursor \in Int /\ campaign'.cursor \in Int
      /\ campaign.cursor < campaign'.cursor
  BY DEF Structure, RowTypes, CampaignRow
<1>2. \A i \in ids : job[i].run = 0
  <2>1. ASSUME NEW i \in ids PROVE job[i].run = 0
    <3>1. i \in Items /\ i \in Users /\ i \in Int
      BY <1>0 DEF Users
    <3>2. ~(i <= campaign.cursor)
      BY <1>1, <3>1
    <3> QED BY <3>1, <3>2 DEF Structure, JobsBehindCursors
  <2> QED BY <2>1
<1>3. /\ run' \in Seq(RunRow) /\ Len(run') = Len(run) + 1
      /\ NewRuns' = NewRuns \cup {Len(run) + 1}
      /\ \A r \in NewRuns : run'[r] = run[r]
      /\ run'[Len(run) + 1].scope = scope
      /\ job' \in [Items -> JobRow] /\ JobTypes'
      /\ \A i \in Items : job'[i] = IF i \in ids THEN [status |-> "pending", run |-> Len(run) + 1]
                                    ELSE job[i]
      /\ \A r \in NewRuns : JobsOf(r)' = JobsOf(r)
  <2>1. run'[Len(run) + 1] = [scope |-> scope, status |-> "planned"] =>
          run'[Len(run) + 1].scope = scope
    OBVIOUS
  <2> QED BY <1>0, <1>2, <2>1, InsertFacts
<1>4. RowTypes'
  BY <1>3 DEF RowTypes, Structure, dataVars, userVars
<1>5. WorkTypes'
  BY <1>1, <1>2, <1>3 DEF WorkTypes, Structure, workVars
<1>6. PhaseOfType'
  BY DEF PhaseOfType, Structure, Phases, RowTypes, CampaignRow
<1>7. JobsBehindCursors'
  <2>1. ASSUME NEW i \in Items, job'[i].run # 0, i \in ids
        PROVE  i \in Users /\ i \in snapshot' /\ i <= campaign'.cursor
    BY <1>0, <2>1
  <2>2. ASSUME NEW i \in Items, job'[i].run # 0, i \notin ids, i \in Users
        PROVE  i \in snapshot' /\ i <= campaign'.cursor
    <3>1. i \in snapshot /\ i <= campaign.cursor /\ i \in Int
      BY <1>3, <2>2 DEF Structure, JobsBehindCursors, Users
    <3> QED BY <1>1, <3>1
  <2>3. ASSUME NEW i \in Items, job'[i].run # 0, i \notin ids, i \notin Users
        PROVE  i <= campaign'.metaCursor
    BY <1>3, <2>3 DEF Structure, JobsBehindCursors
  <2> QED BY <2>1, <2>2, <2>3 DEF JobsBehindCursors
<1>8. RunsOfScope'
  <2>1. \A i \in Items : job[i].run # 0 => job[i].run \in NewRuns
    BY DEF Structure, RowTypes, JobTypes, JobRow, NewRuns
  <2>2. campaign.type = "none" => NewRuns = {}
    BY DEF Structure, PhaseOfType, NewRuns
  <2>3. \A i \in Items : job'[i].run # 0 =>
          (i \in Communities <=> run'[job'[i].run].scope = "subscription_metadata")
    BY <1>0, <1>1, <1>3, <2>1 DEF Structure, RunsOfScope
  <2>4. \A r \in NewRuns' : run'[r].scope = "subscription_metadata" =>
          campaign'.type = "subscription_enrichment" /\ campaign'.phase # "subscription_discovery"
    BY <1>0, <1>3, <2>2 DEF Structure, RunsOfScope
  <2> QED BY <2>3, <2>4 DEF RunsOfScope
<1>9. OneWaits'
  <2>1. \A r \in NewRuns' : Waiting(r)' => r \in NewRuns /\ Waiting(r)
    BY <1>0, <1>3 DEF Waiting
  <2> QED BY <2>1 DEF OneWaits, Structure
<1>10. ReadingRuns'
  BY DEF ReadingRuns
<1> QED BY <1>3, <1>4, <1>5, <1>6, <1>7, <1>8, <1>9, <1>10 DEF Structure

LEMMA DueFacts ==
  ASSUME Structure, NEW S
  PROVE  /\ Due(S) \subseteq stale /\ Due(S) \subseteq Communities
         /\ \A n : After(Due(S), n) \subseteq 1 .. UserCount + CommunityCount
         /\ \A n : After(Unresolved, n) \subseteq 1 .. UserCount + CommunityCount
BY UserOrCommunity DEF Due, After, Structure, RowTypes, Unresolved

(* Before the metadata phase no community has a job.                        *)
LEMMA NoCommunityJob ==
  ASSUME Structure, \A r \in NewRuns : run[r].scope # "subscription_metadata"
  PROVE  \A i \in Communities : job[i].run = 0
BY DEF Structure, RunsOfScope, RowTypes, JobTypes, JobRow, NewRuns, Items

(* A cohort of communities is planned.                                      *)
LEMMA PlanMetadataKeeps ==
  ASSUME Structure, campaign.type = "subscription_enrichment",
         campaign.phase = "subscription_metadata", campaign.gate = "passed",
         MetadataCohort(campaign) # {}, PlanMetadata(campaign),
         reading' = "idle", UNCHANGED <<snapshot, dataVars, workVars, renewing>>
  PROVE  Structure'
<1> DEFINE ids == MetadataCohort(campaign)
           last == Last(ids)
<1>1. /\ ids \subseteq Due(snapshot) /\ ids \subseteq Communities
      /\ \A i \in ids : campaign.metaCursor < i /\ i <= last
      /\ last \in ids
  BY DueFacts, CohortFacts DEF MetadataCohort, After
<1>2. /\ ids \in SUBSET Items /\ ids \cap Users = {}
      /\ "subscription_metadata" \in Scopes /\ "planned" \in RunStatus
  BY <1>1, UserOrCommunity DEF Items, Scopes, RunStatus, Active
<1>3. \A i \in ids : job[i].run = 0
  <2>1. ASSUME NEW i \in ids PROVE job[i].run = 0
    <3>1. i \in Items /\ i \notin Users /\ i \in Int
      BY <1>2, UserOrCommunity
    <3>2. ~(i <= campaign.metaCursor)
      BY <1>1, <3>1 DEF Structure, RowTypes, CampaignRow
    <3> QED BY <3>1, <3>2 DEF Structure, JobsBehindCursors
  <2> QED BY <2>1
<1>4. InsertRun("subscription_metadata", "planned", ids)
  BY DEF PlanMetadata
<1>5. campaign' = [campaign EXCEPT !.status = "running", !.metaCursor = last]
  BY DEF PlanMetadata
<1>6. last \in 1 .. UserCount + CommunityCount
  BY <1>1, UserOrCommunity
<1> HIDE DEF ids, last
<1>7. /\ run' \in Seq(RunRow) /\ Len(run') = Len(run) + 1
      /\ NewRuns' = NewRuns \cup {Len(run) + 1}
      /\ \A r \in NewRuns : run'[r] = run[r]
      /\ run'[Len(run) + 1] = [scope |-> "subscription_metadata", status |-> "planned"]
      /\ job' \in [Items -> JobRow] /\ JobTypes'
      /\ \A i \in Items : job'[i] = IF i \in ids THEN [status |-> "pending", run |-> Len(run) + 1]
                                    ELSE job[i]
      /\ \A r \in NewRuns : JobsOf(r)' = JobsOf(r)
      /\ {i \in Items : job'[i].run = Len(run) + 1} = ids
  BY <1>2, <1>3, <1>4, InsertFacts
<1>8. Len(run) \in Nat /\ campaign.metaCursor \in Int
  BY DEF Structure, RowTypes, CampaignRow
<1>9. RowTypes'
  <2>1. last \in 0 .. UserCount + CommunityCount
    BY <1>6
  <2>2. campaign' \in CampaignRow
    BY <1>5, <2>1 DEF RowTypes, Structure, CampaignRow, CampaignStatus, Active
  <2> QED BY <1>7, <2>2 DEF RowTypes, Structure, dataVars, userVars
<1>10. WorkTypes'
  BY <1>3, <1>7, <1>8 DEF WorkTypes, Structure, workVars
<1>11. PhaseOfType'
  BY <1>5 DEF PhaseOfType, Structure, RowTypes, CampaignRow, Phases
<1>12. JobsBehindCursors'
  <2>1. /\ campaign'.cursor = campaign.cursor /\ campaign'.metaCursor = last
        /\ campaign.metaCursor < last /\ last \in Int
    BY <1>1, <1>5, <1>6 DEF Structure, RowTypes, CampaignRow
  <2>2. ASSUME NEW i \in Items, i \in ids PROVE i \notin Users /\ i <= campaign'.metaCursor
    BY <1>1, <1>2, <2>1, <2>2
  <2>3. ASSUME NEW i \in Items, i \notin ids, job'[i].run # 0
        PROVE  IF i \in Users THEN i \in snapshot' /\ i <= campaign'.cursor
                              ELSE i <= campaign'.metaCursor
    <3>1. i \in Int
      BY UserOrCommunity DEF Items
    <3> QED BY <1>7, <1>8, <2>1, <2>3, <3>1 DEF Structure, JobsBehindCursors
  <2> QED BY <2>2, <2>3 DEF JobsBehindCursors
<1>13. RunsOfScope'
  <2>1. \A i \in Items : job[i].run # 0 => job[i].run \in NewRuns
    BY DEF Structure, RowTypes, JobTypes, JobRow, NewRuns
  <2>2. \A i \in Items : job'[i].run # 0 =>
          (i \in Communities <=> run'[job'[i].run].scope = "subscription_metadata")
    BY <1>1, <1>7, <1>8, <2>1 DEF Structure, RunsOfScope
  <2>3. campaign'.type = "subscription_enrichment" /\ campaign'.phase # "subscription_discovery"
    BY <1>5 DEF Structure, RowTypes, CampaignRow
  <2> QED BY <2>2, <2>3 DEF RunsOfScope
<1>14. OneWaits'
  <2>1. \A r \in NewRuns : ~Waiting(r)
    BY DEF Structure, OneWaits
  <2>2. \A r \in NewRuns : ~Waiting(r)'
    BY <1>7, <2>1 DEF Waiting
  <2>3. ASSUME NEW r, r = Len(run) + 1 PROVE ~Waiting(r)'
    <3>1. last \in Items /\ job'[last].run = r
      BY <1>1, <1>2, <1>7, <2>3
    <3> QED BY <3>1 DEF Waiting, JobsOf
  <2> QED BY <1>7, <2>2, <2>3 DEF OneWaits
<1>15. ReadingRuns'
  BY DEF ReadingRuns
<1> QED BY <1>7, <1>9, <1>10, <1>11, <1>12, <1>13, <1>14, <1>15 DEF Structure

(* The metadata gate is prepared: a run without jobs, or the end.           *)
LEMMA PrepareGateKeeps ==
  ASSUME Structure, NEW S, NEW c \in CampaignRow,
         c.type = "subscription_enrichment", c.phase = "subscription_discovery",
         c.cursor = campaign.cursor, c.metaCursor = campaign.metaCursor,
         campaign.type = "none" \/ (campaign.type = c.type /\ campaign.phase = c.phase),
         snapshot' \subseteq Users, snapshot \subseteq snapshot',
         PrepareGate(c, S),
         reading' = "idle", UNCHANGED <<dataVars, workVars, renewing>>
  PROVE  Structure'
<1>1. \A r \in NewRuns : run[r].scope # "subscription_metadata"
  BY DEF Structure, RunsOfScope, PhaseOfType, NewRuns
<1>2. \A i \in Communities : job[i].run = 0
  BY <1>1, NoCommunityJob
<1>3. Len(run) \in Nat
  BY DEF Structure, RowTypes
<1>4. CASE campaign' = Completed(c) /\ NoNewRun
  <2>1. RowTypes' /\ JobTypes' /\ WorkTypes'
    BY <1>4 DEF RowTypes, JobTypes, WorkTypes, Structure, NoNewRun, Completed, CampaignRow,
                CampaignStatus, Phases, dataVars, userVars, workVars
  <2>2. PhaseOfType' /\ ReadingRuns'
    BY <1>4 DEF PhaseOfType, ReadingRuns, Completed, CampaignRow, Phases
  <2>3. JobsBehindCursors'
    BY <1>4 DEF JobsBehindCursors, Structure, NoNewRun, Completed, CampaignRow
  <2>4. RunsOfScope' /\ OneWaits'
    BY <1>1, <1>4 DEF RunsOfScope, OneWaits, Waiting, NewRuns, Structure, NoNewRun
  <2> QED BY <2>1, <2>2, <2>3, <2>4 DEF Structure
<1>5. CASE /\ campaign' = Paused([c EXCEPT !.phase = "subscription_metadata",
                                          !.metaCursor = 0, !.gate = "pending"])
           /\ InsertRun("subscription_metadata", "paused_capacity_limit", {})
  <2>1. /\ campaign' \in CampaignRow
        /\ campaign'.type = "subscription_enrichment" /\ campaign'.phase = "subscription_metadata"
        /\ campaign'.status = "paused_capacity_limit" /\ campaign'.gate = "pending"
        /\ campaign'.cursor = campaign.cursor /\ campaign'.metaCursor = 0
    <3>1. 0 \in 0 .. UserCount + CommunityCount
      BY CampaignAssumption
    <3>2. campaign' = [c EXCEPT !.phase = "subscription_metadata", !.metaCursor = 0,
                                !.gate = "pending", !.status = "paused_capacity_limit"]
      BY <1>5 DEF Paused, CampaignRow
    <3> QED BY <3>1, <3>2 DEF CampaignRow, CampaignStatus, Active, Phases
  <2>2. /\ run' \in Seq(RunRow) /\ Len(run') = Len(run) + 1
        /\ NewRuns' = NewRuns \cup {Len(run) + 1}
        /\ \A r \in NewRuns : run'[r] = run[r]
        /\ run'[Len(run) + 1] = [scope |-> "subscription_metadata", status |-> "paused_capacity_limit"]
        /\ job' \in [Items -> JobRow] /\ JobTypes'
        /\ \A i \in Items : job'[i] = IF i \in {} THEN [status |-> "pending", run |-> Len(run) + 1]
                                      ELSE job[i]
        /\ \A r \in NewRuns : JobsOf(r)' = JobsOf(r)
    <3>1. /\ "subscription_metadata" \in Scopes /\ "paused_capacity_limit" \in RunStatus
          /\ {} \in SUBSET Items /\ \A i \in {} : job[i].run = 0
      BY DEF Scopes, RunStatus, Active
    <3> QED BY <1>5, <3>1, InsertFacts
  <2>3. \A i \in Items : job'[i] = job[i]
    BY <2>2
  <2>4. RowTypes' /\ WorkTypes'
    BY <1>3, <2>1, <2>2, <2>3 DEF RowTypes, WorkTypes, Structure, dataVars, userVars, workVars
  <2>5. PhaseOfType' /\ ReadingRuns'
    BY <2>1 DEF PhaseOfType, ReadingRuns, Phases
  <2>6. JobsBehindCursors'
    <3>1. \A i \in Items : i \in Users \/ i \in Communities
      BY DEF Items
    <3> QED BY <1>2, <2>1, <2>3, <3>1 DEF JobsBehindCursors, Structure
  <2>7. RunsOfScope'
    <3>1. \A i \in Items : job[i].run # 0 => job[i].run \in NewRuns
      BY DEF Structure, RowTypes, JobTypes, JobRow, NewRuns
    <3> QED BY <2>1, <2>2, <2>3, <3>1 DEF RunsOfScope, Structure
  <2>8. OneWaits'
    <3>1. \A r \in NewRuns : ~Waiting(r)'
      BY <1>1, <2>2 DEF Waiting
    <3> QED BY <2>1, <2>2, <3>1 DEF OneWaits
  <2> QED BY <2>2, <2>4, <2>5, <2>6, <2>7, <2>8 DEF Structure
<1> QED BY <1>4, <1>5 DEF PrepareGate

(* A gate is applied to a run with jobs.                                    *)
LEMMA ApplyQuiet ==
  ASSUME Structure, ApplyGate,
         ~(run[renewing].scope = "subscription_metadata" /\ JobsOf(renewing) = {})
  PROVE  Quiet
<1> DEFINE r == renewing
           held == campaign.status = "paused"
           gate == run[r].scope = "subscription_metadata"
           c == [campaign EXCEPT !.status = IF held THEN "paused" ELSE "running",
                                 !.gate = IF gate THEN "passed" ELSE campaign.gate]
<1>1. /\ r \in NewRuns /\ campaign' = c /\ job' = job
      /\ run' = [run EXCEPT ![r].status = IF held THEN "paused" ELSE "planned"]
      /\ reading = "idle" /\ renewing' = 0
      /\ UNCHANGED <<snapshot, dataVars, workVars, reading>>
  BY DEF ApplyGate, Parked, ServiceStopped, ServiceRestarted
<1>2. campaign.status # "absent" /\ campaign.type # "none"
  BY <1>1 DEF Structure, PhaseOfType, NewRuns
<1>3. gate => \A s \in NewRuns : ~Waiting(s)
  <2>1. ASSUME gate PROVE campaign.metaCursor # 0
    <3>1. PICK i \in Items : job[i].run = r
      BY <2>1 DEF JobsOf
    <3>2. i \in Communities /\ job[i].run # 0
      BY <1>1, <2>1, <3>1 DEF Structure, RunsOfScope, NewRuns
    <3>3. i \in 1 .. UserCount + CommunityCount /\ i \notin Users
      BY <3>2, UserOrCommunity
    <3>4. i <= campaign.metaCursor
      BY <3>2, <3>3 DEF Structure, JobsBehindCursors
    <3> QED BY <3>3, <3>4 DEF Structure, RowTypes, CampaignRow
  <2> QED BY <2>1 DEF Structure, OneWaits
<1>4. CampaignStep
  BY <1>1, <1>2, <1>3 DEF CampaignStep, Structure, RowTypes, CampaignRow, CampaignStatus, Active
<1>5. RunStep
  <2>1. (IF held THEN "paused" ELSE "planned") \in RunStatus
    BY DEF RunStatus, Active
  <2> QED BY <1>1, <2>1, RunStatusStep
<1>6. QuietStep
  BY <1>1, <1>4, <1>5, JobSame, UserSame DEF QuietStep
<1>7. WorkTypes' /\ ReadingRuns'
  BY <1>1, <1>5 DEF WorkTypes, ReadingRuns, Structure, RunStep, workVars, RowTypes
<1> QED BY <1>6, <1>7 DEF Quiet

(* ... and to the run that waits for it, which gets its first cohort.       *)
LEMMA ApplyPlans ==
  ASSUME Structure, ApplyGate,
         run[renewing].scope = "subscription_metadata", JobsOf(renewing) = {}
  PROVE  /\ Structure'
         /\ campaign.metaCursor = 0
         /\ campaign'.metaCursor \in FirstOf(Due(snapshot))
         /\ \A i \in Due(snapshot) : i <= campaign'.metaCursor => i \in FirstOf(Due(snapshot))
         /\ \A i \in FirstOf(Due(snapshot)) : job[i].run = 0
         /\ Len(run') = Len(run)
         /\ campaign'.type = campaign.type /\ campaign'.phase = campaign.phase
         /\ campaign'.cursor = campaign.cursor
         /\ campaign'.status = "running" /\ campaign'.gate = "passed"
         /\ \A i \in Items : job'[i] = IF i \in FirstOf(Due(snapshot))
                                       THEN [status |-> "pending", run |-> renewing] ELSE job[i]
<1> DEFINE r == renewing
           ids == FirstOf(Due(snapshot))
           last == Last(ids)
           c == [campaign EXCEPT !.status = IF campaign.status = "paused" THEN "paused" ELSE "running",
                                 !.gate = "passed"]
<1>1. /\ r \in NewRuns /\ Waiting(r) /\ Due(snapshot) # {}
      /\ run' = [run EXCEPT ![r].status = "planned"]
      /\ job' = [i \in Items |-> IF i \in MetadataCohort(c)
                                THEN [status |-> "pending", run |-> r] ELSE job[i]]
      /\ campaign' = [c EXCEPT !.status = "running", !.metaCursor = Last(MetadataCohort(c))]
      /\ reading = "idle" /\ renewing' = 0
      /\ UNCHANGED <<snapshot, dataVars, workVars, reading>>
  BY DEF ApplyGate, Parked, ServiceStopped, ServiceRestarted, Waiting
<1>2. campaign.metaCursor = 0
  BY <1>1 DEF Structure, OneWaits
<1>3. MetadataCohort(c) = ids
  <2>1. c.metaCursor = 0
    BY <1>2 DEF Structure, RowTypes, CampaignRow
  <2>2. \A i \in Due(snapshot) : i > 0
    BY DueFacts, CampaignAssumption DEF Communities
  <2>3. After(Due(snapshot), 0) = Due(snapshot)
    BY <2>2 DEF After
  <2> QED BY <2>1, <2>3 DEF MetadataCohort
<1>4. /\ ids \subseteq Due(snapshot) /\ ids \subseteq Communities
      /\ last \in ids /\ \A i \in ids : i <= last
      /\ \A i \in Due(snapshot) : i <= last => i \in ids
  <2>1. Due(snapshot) \subseteq 1 .. UserCount + CommunityCount
    BY DueFacts, UserOrCommunity
  <2> QED BY <1>1, <2>1, DueFacts, CohortFacts
<1> HIDE DEF ids
<1>5. ids \subseteq Items /\ ids \cap Users = {}
  BY <1>4, UserOrCommunity DEF Items
<1>6. \A i \in ids : job[i].run = 0
  <2>1. ASSUME NEW i \in ids PROVE job[i].run = 0
    <3>1. i \in Items /\ i \notin Users /\ i \in 1 .. UserCount + CommunityCount
      BY <1>4, <1>5, UserOrCommunity
    <3>2. ~(i <= campaign.metaCursor)
      BY <1>2, <3>1
    <3> QED BY <3>1, <3>2 DEF Structure, JobsBehindCursors
  <2> QED BY <2>1
<1>7. RunStep
  BY <1>1, RunStatusStep DEF RunStatus, Active
<1>8. /\ last \in 0 .. UserCount + CommunityCount
      /\ Len(run) \in Nat /\ r \in Nat /\ r # 0 /\ r <= Len(run)
  <2>1. last \in 1 .. UserCount + CommunityCount
    BY <1>4, UserOrCommunity
  <2> QED BY <1>1, <2>1 DEF Structure, RowTypes, NewRuns
<1>9. /\ campaign' = [c EXCEPT !.status = "running", !.metaCursor = last]
      /\ \A i \in Items : job'[i] = IF i \in ids THEN [status |-> "pending", run |-> r] ELSE job[i]
  BY <1>1, <1>3
<1> HIDE DEF last
<1>10. /\ campaign' \in CampaignRow
       /\ campaign'.type = campaign.type /\ campaign'.phase = campaign.phase
       /\ campaign'.cursor = campaign.cursor /\ campaign'.metaCursor = last
       /\ campaign'.status = "running" /\ campaign'.gate = "passed"
  BY <1>8, <1>9 DEF Structure, RowTypes, CampaignRow, CampaignStatus, Active
<1>11. job' \in [Items -> JobRow]
  <2>1. [status |-> "pending", run |-> r] \in JobRow /\ job \in [Items -> JobRow]
    BY <1>8 DEF JobRow, JobStatus, ActiveJob, Immediate, Structure, RowTypes
  <2> QED BY <1>1, <2>1
<1>12. NewRuns' = NewRuns /\ Len(run') = Len(run) /\ \A s \in NewRuns : run'[s].scope = run[s].scope
  BY <1>7 DEF RunStep, NewRuns
<1>13. RowTypes'
  BY <1>1, <1>7, <1>10, <1>11 DEF RowTypes, RunStep, Structure, dataVars, userVars
<1>14. JobTypes' /\ WorkTypes'
  BY <1>1, <1>8, <1>9, <1>12 DEF JobTypes, WorkTypes, Structure, workVars
<1>15. PhaseOfType' /\ ReadingRuns'
  <2>1. campaign.type # "none"
    BY <1>1 DEF Structure, PhaseOfType, NewRuns
  <2> QED BY <1>1, <1>10, <2>1 DEF PhaseOfType, ReadingRuns, Structure
<1>16. JobsBehindCursors'
  <2>1. ASSUME NEW i \in Items, i \in ids PROVE i \notin Users /\ i <= campaign'.metaCursor
    BY <1>4, <1>5, <1>10, <2>1
  <2>2. ASSUME NEW i \in Items, i \notin ids, job'[i].run # 0
        PROVE  IF i \in Users THEN i \in snapshot' /\ i <= campaign'.cursor
                              ELSE i <= campaign'.metaCursor
    <3>1. job[i].run # 0 /\ i \in Int
      BY <1>9, <2>2, UserOrCommunity
    <3> QED BY <1>1, <1>2, <1>8, <1>10, <3>1 DEF Structure, JobsBehindCursors
  <2> QED BY <2>1, <2>2 DEF JobsBehindCursors
<1>17. RunsOfScope'
  <2>1. \A i \in Items : job[i].run # 0 => job[i].run \in NewRuns
    BY DEF Structure, RowTypes, JobTypes, JobRow, NewRuns
  <2>2. \A i \in Items : job'[i].run # 0 =>
          (i \in Communities <=> run'[job'[i].run].scope = "subscription_metadata")
    BY <1>1, <1>4, <1>9, <1>12, <2>1 DEF Structure, RunsOfScope, Waiting
  <2> QED BY <1>10, <1>12, <2>2 DEF RunsOfScope, Structure
<1>18. OneWaits'
  <2>1. ASSUME NEW s \in NewRuns PROVE ~Waiting(s)'
    <3>1. CASE s = r
      <4>1. last \in Items /\ job'[last].run = s
        BY <1>4, <1>5, <1>9, <3>1
      <4> QED BY <4>1 DEF Waiting, JobsOf
    <3>2. CASE s # r
      <4>1. ~Waiting(s)
        BY <1>1, <3>2 DEF Structure, OneWaits
      <4>2. CASE run[s].scope # "subscription_metadata"
        BY <1>12, <4>2 DEF Waiting
      <4>3. CASE JobsOf(s) # {}
        <5>1. PICK i \in Items : job[i].run = s
          BY <4>3 DEF JobsOf
        <5>2. i \notin ids
          BY <1>6, <5>1 DEF NewRuns
        <5>3. job'[i].run = s
          BY <1>9, <5>1, <5>2
        <5> QED BY <5>3 DEF Waiting, JobsOf
      <4> QED BY <4>1, <4>2, <4>3 DEF Waiting
    <3> QED BY <3>1, <3>2
  <2> QED BY <1>12, <2>1 DEF OneWaits
<1>19. Structure'
  BY <1>13, <1>14, <1>15, <1>16, <1>17, <1>18 DEF Structure
<1> QED BY <1>2, <1>4, <1>6, <1>9, <1>10, <1>12, <1>19 DEF ids

-----------------------------------------------------------------------------
(* What a step that plans may do.                                           *)

(* A campaign that is not paused gets users: all the unresolved ones the    *)
(* cursor passes.                                                           *)
UserCohort ==
  /\ campaign.status # "paused" /\ reading' = "idle" /\ UNCHANGED <<dataVars, happened>>
  /\ \/ /\ campaign.type # "none" /\ snapshot' = snapshot
        /\ campaign'.type = campaign.type /\ campaign'.phase = campaign.phase
        /\ campaign'.gate = campaign.gate
     \/ campaign.type = "none" /\ campaign'.phase \in {"subscription_discovery", "user_posts"}
  /\ campaign'.metaCursor = campaign.metaCursor
  /\ \E ids \in SUBSET Users :
       /\ ids # {} /\ ids \subseteq Unresolved'
       /\ \A i \in ids : job[i].run = 0
       /\ \A i \in Items : job'[i] = IF i \in ids THEN [status |-> "pending", run |-> Len(run) + 1]
                                     ELSE job[i]
       /\ \A u \in Unresolved' : u <= campaign'.cursor => u \in ids \/ u <= campaign.cursor

(* Every user is resolved; the campaign waits for its gate, or is over.     *)
NoCohort ==
  /\ campaign.status # "paused" /\ reading' = "idle" /\ UNCHANGED <<dataVars, happened, job>>
  /\ campaign.type = "none" \/ (campaign'.type = campaign.type /\ snapshot' = snapshot)
  /\ campaign.phase \in {"none", "subscription_discovery"}
  /\ Unresolved' = {}
  /\ \/ /\ campaign'.phase = "completed"
        /\ campaign'.type = "subscription_enrichment" => Due(snapshot)' = {}
     \/ /\ campaign'.phase = "subscription_metadata" /\ campaign'.type = "subscription_enrichment"
        /\ campaign'.gate = "pending" /\ campaign'.metaCursor = 0

(* A campaign gets communities: all those without fresh metadata the cursor *)
(* passes.                                                                  *)
CommunityCohort ==
  /\ reading' = "idle" /\ UNCHANGED <<dataVars, happened, snapshot>>
  /\ campaign.type = "subscription_enrichment" /\ campaign'.type = campaign.type
  /\ campaign.phase # "subscription_discovery" /\ campaign'.phase = campaign.phase
  /\ campaign'.cursor = campaign.cursor /\ campaign'.gate = "passed"
  /\ \E ids \in SUBSET Due(snapshot), r \in Nat \ {0} :
       /\ \A i \in ids : job[i].run = 0
       /\ \A i \in Items : job'[i] = IF i \in ids THEN [status |-> "pending", run |-> r] ELSE job[i]
       /\ \A i \in Due(snapshot) : i <= campaign'.metaCursor => i \in ids \/ i <= campaign.metaCursor
  /\ \/ campaign.status # "paused"
     \/ Len(run') = Len(run)

LEMMA DecideQuiet ==
  ASSUME Structure, reading = "noWork",
         campaign' \in {campaign, Paused(campaign), [campaign EXCEPT !.status = "running"],
                       Failed(campaign), Completed(campaign)},
         NoNewRun, reading' = "idle", UNCHANGED <<snapshot, dataVars, workVars, renewing>>
  PROVE  Quiet
<1>1. campaign.status # "absent" /\ campaign.type # "none"
  BY DEF Structure, ReadingRuns, PhaseOfType
<1>2. campaign' \in {campaign, Paused(campaign), [campaign EXCEPT !.status = "running"]}
        => CampaignStep
  BY <1>1, CampaignSame, CampaignStatusStep DEF Paused, CampaignStatus, Active
<1>3. campaign' \in {Failed(campaign), Completed(campaign)} => CampaignStep
  BY <1>1 DEF Failed, Completed, CampaignStep, Structure, RowTypes, CampaignRow, CampaignStatus, Phases
<1>4. QuietStep
  BY <1>2, <1>3, RunSame, JobSame, UserSame DEF QuietStep, NoNewRun
<1>5. WorkTypes' /\ ReadingRuns'
  BY DEF WorkTypes, ReadingRuns, Structure, NoNewRun, workVars
<1> QED BY <1>4, <1>5 DEF Quiet

LEMMA DecidePlansUsers ==
  ASSUME Structure, reading = "noWork", NEW scope \in {"subscription_discovery", "user_posts"},
         NEW ids, ids = FirstOf(After(Unresolved, campaign.cursor)), ids # {},
         campaign' = [campaign EXCEPT !.status = "running", !.cursor = Last(ids)],
         InsertRun(scope, "planned", ids),
         reading' = "idle", UNCHANGED <<snapshot, dataVars, workVars, renewing, happened>>
  PROVE  Structure' /\ UserCohort
<1>1. campaign.status \notin {"absent", "paused"} /\ campaign.type # "none"
  BY DEF Structure, ReadingRuns, PhaseOfType
<1>2. /\ ids \subseteq Unresolved /\ ids \subseteq snapshot /\ snapshot \subseteq Users
      /\ \A i \in ids : campaign.cursor < i /\ i <= Last(ids)
      /\ Last(ids) \in ids
      /\ \A u \in Unresolved : campaign.cursor < u /\ u <= Last(ids) => u \in ids
  BY DueFacts, CohortFacts DEF After, Unresolved, Structure, RowTypes
<1>3. Last(ids) \in 1 .. UserCount
  BY <1>2 DEF Users
<1>4. /\ campaign' \in CampaignRow /\ campaign'.status = "running"
      /\ campaign'.cursor = Last(ids) /\ campaign'.metaCursor = campaign.metaCursor
      /\ campaign'.gate = campaign.gate
      /\ campaign'.type = campaign.type /\ campaign'.phase = campaign.phase
  <2>1. Last(ids) \in 0 .. UserCount
    BY <1>3
  <2> QED BY <2>1 DEF Structure, RowTypes, CampaignRow, CampaignStatus, Active
<1>5. Structure'
  BY <1>1, <1>2, <1>4, PlanUsersKeeps
<1>6. \A i \in ids : job[i].run = 0
  <2>1. ASSUME NEW i \in ids PROVE job[i].run = 0
    <3>1. i \in Items /\ i \in Users /\ i \in Int /\ campaign.cursor \in Int
      BY <1>2 DEF Users, Items, Structure, RowTypes, CampaignRow
    <3>2. ~(i <= campaign.cursor)
      BY <1>2, <3>1
    <3> QED BY <3>1, <3>2 DEF Structure, JobsBehindCursors
  <2> QED BY <2>1
<1>7. Unresolved' = Unresolved
  BY DEF Unresolved, Resolved, dataVars, userVars
<1>8. UserCohort
  <2>1. \A u \in Unresolved : u <= campaign'.cursor => u \in ids \/ u <= campaign.cursor
    <3>1. \A u \in Unresolved : u \in Int
      BY <1>2 DEF Unresolved, Users
    <3>2. campaign.cursor \in Int
      BY DEF Structure, RowTypes, CampaignRow
    <3> QED BY <1>2, <1>4, <3>1, <3>2
  <2>2. ids \in SUBSET Users
    BY <1>2
  <2>3. \A i \in Items : job'[i] = IF i \in ids THEN [status |-> "pending", run |-> Len(run) + 1]
                                  ELSE job[i]
    BY DEF InsertRun
  <2> QED BY <1>1, <1>2, <1>4, <1>6, <1>7, <2>1, <2>2, <2>3 DEF UserCohort
<1> QED BY <1>5, <1>8

(* reconcile plans nothing: it waits, or the campaign is over.              *)
Decided ==
  /\ reading = "noWork" /\ reading' = "idle"
  /\ UNCHANGED <<run, job, dataVars, snapshot, happened>>
  /\ \/ campaign' \in {campaign, Paused(campaign), [campaign EXCEPT !.status = "running"],
                       Failed(campaign)}
     \/ /\ campaign' = Completed(campaign)
        /\ \/ campaign.type = "user_posts_enrichment" /\ Unresolved = {}
           \/ /\ campaign.type = "subscription_enrichment" /\ campaign.phase = "subscription_metadata"
              /\ campaign.gate = "passed" /\ MetadataCohort(campaign) = {}

LEMMA DecideSteps ==
  ASSUME Structure, DecideSubscriptions \/ DecideUserPosts
  PROVE  \/ Structure' /\ (UserCohort \/ NoCohort \/ CommunityCohort)
         \/ Quiet /\ Decided
<1>0. /\ reading = "noWork" /\ reading' = "idle"
      /\ UNCHANGED <<snapshot, dataVars, workVars, renewing, happened>>
      /\ campaign.status # "paused"
  BY DEF DecideSubscriptions, DecideUserPosts, faultVars, Structure, ReadingRuns
<1>1. ASSUME NoNewRun,
             campaign' \in {campaign, Paused(campaign), [campaign EXCEPT !.status = "running"],
                           Failed(campaign)}
      PROVE  Quiet /\ Decided
  BY <1>0, <1>1, DecideQuiet DEF Decided, NoNewRun
<1>2. ASSUME NoNewRun, campaign' = Completed(campaign),
             \/ campaign.type = "user_posts_enrichment" /\ Unresolved = {}
             \/ /\ campaign.type = "subscription_enrichment" /\ campaign.phase = "subscription_metadata"
                /\ campaign.gate = "passed" /\ MetadataCohort(campaign) = {}
      PROVE  Quiet /\ Decided
  BY <1>0, <1>2, DecideQuiet DEF Decided, NoNewRun
<1>3. CASE campaign.type = "subscription_enrichment" /\ DecideDiscovery
  <2>1. campaign.phase = "subscription_discovery"
    BY <1>3 DEF DecideDiscovery
  <2>2. CASE DiscoveryCohort(campaign) # {} /\ PlanDiscovery(campaign)
    <3> DEFINE ids == DiscoveryCohort(campaign)
    <3>1. /\ ids = FirstOf(After(Unresolved, campaign.cursor)) /\ ids # {}
          /\ campaign' = [campaign EXCEPT !.status = "running", !.cursor = Last(ids)]
          /\ InsertRun("subscription_discovery", "planned", ids)
      BY <2>2 DEF PlanDiscovery, DiscoveryCohort
    <3> HIDE DEF ids
    <3> QED BY <1>0, <3>1, DecidePlansUsers, Zenon
  <2>3. CASE Unresolved = {} /\ PrepareGate(campaign, snapshot)
    <3>1. Structure'
      <4>1. /\ campaign \in CampaignRow /\ snapshot' = snapshot /\ snapshot \subseteq Users
        BY <1>0 DEF Structure, RowTypes
      <4> QED BY <1>0, <1>3, <2>1, <2>3, <4>1, PrepareGateKeeps
    <3>2. NoCohort
      <4>1. Unresolved' = {}
        BY <1>0, <2>3 DEF Unresolved, Resolved, dataVars, userVars
      <4>2. Due(snapshot)' = Due(snapshot)
        BY <1>0 DEF Due, dataVars, userVars
      <4>3. campaign \in CampaignRow
        BY DEF Structure, RowTypes
      <4>4. CASE Due(snapshot) = {} /\ campaign' = Completed(campaign) /\ NoNewRun
        <5>1. campaign'.phase = "completed" /\ campaign'.type = campaign.type
          BY <4>3, <4>4 DEF Completed, CampaignRow
        <5> QED BY <1>0, <2>1, <4>1, <4>2, <4>4, <5>1 DEF NoCohort, NoNewRun
      <4>5. CASE /\ campaign' = Paused([campaign EXCEPT !.phase = "subscription_metadata",
                                                       !.metaCursor = 0, !.gate = "pending"])
                 /\ InsertRun("subscription_metadata", "paused_capacity_limit", {})
        <5>1. /\ campaign'.phase = "subscription_metadata" /\ campaign'.type = campaign.type
              /\ campaign'.gate = "pending" /\ campaign'.metaCursor = 0
          BY <4>3, <4>5 DEF Paused, CampaignRow
        <5>2. job' = job
          <6>1. job' = [i \in Items |-> job[i]]
            BY <4>5 DEF InsertRun
          <6> QED BY <6>1 DEF Structure, RowTypes
        <5> QED BY <1>0, <1>3, <2>1, <4>1, <4>5, <5>1, <5>2 DEF NoCohort
      <4> QED BY <2>3, <4>4, <4>5 DEF PrepareGate
    <3> QED BY <3>1, <3>2
  <2> QED BY <1>1, <1>3, <2>2, <2>3 DEF DecideDiscovery
<1>4. CASE campaign.type = "subscription_enrichment" /\ DecideMetadata
  <2>1. CASE PlanMetadata(campaign) /\ MetadataCohort(campaign) # {} /\ campaign.gate = "passed"
    <3> DEFINE ids == MetadataCohort(campaign)
    <3>1. campaign.phase = "subscription_metadata"
      BY <1>4 DEF DecideMetadata
    <3>2. Structure'
      BY <1>0, <1>4, <2>1, <3>1, PlanMetadataKeeps
    <3>3. /\ ids \subseteq Due(snapshot) /\ ids \subseteq Communities
          /\ \A i \in ids : campaign.metaCursor < i
          /\ Last(ids) \in ids
          /\ \A i \in Due(snapshot) : campaign.metaCursor < i /\ i <= Last(ids) => i \in ids
      BY <2>1, DueFacts, CohortFacts DEF MetadataCohort, After
    <3>4. campaign' = [campaign EXCEPT !.status = "running", !.metaCursor = Last(ids)]
      BY <2>1 DEF PlanMetadata
    <3>5. \A i \in Items : job'[i] = IF i \in ids THEN [status |-> "pending", run |-> Len(run) + 1]
                                    ELSE job[i]
      BY <2>1 DEF PlanMetadata, InsertRun
    <3> HIDE DEF ids
    <3>6. /\ campaign'.type = campaign.type /\ campaign'.phase = campaign.phase
          /\ campaign'.cursor = campaign.cursor /\ campaign'.gate = "passed"
          /\ campaign'.metaCursor = Last(ids)
      BY <2>1, <3>4 DEF Structure, RowTypes, CampaignRow
    <3>7. \A i \in ids : job[i].run = 0
      <4>1. ASSUME NEW i \in ids PROVE job[i].run = 0
        <5>1. i \in Items /\ i \notin Users /\ i \in Int
          BY <3>3, UserOrCommunity DEF Items
        <5>2. ~(i <= campaign.metaCursor)
          BY <3>3, <5>1 DEF Structure, RowTypes, CampaignRow
        <5> QED BY <5>1, <5>2 DEF Structure, JobsBehindCursors
      <4> QED BY <4>1
    <3>8. \A i \in Due(snapshot) : i <= campaign'.metaCursor => i \in ids \/ i <= campaign.metaCursor
      <4>1. \A i \in Due(snapshot) : i \in Int
        <5>1. Due(snapshot) \subseteq Items
          BY DueFacts DEF Items
        <5> QED BY <5>1, UserOrCommunity
      <4>2. campaign.metaCursor \in Int
        BY DEF Structure, RowTypes, CampaignRow
      <4> QED BY <3>3, <3>6, <4>1, <4>2
    <3>9. Len(run) + 1 \in Nat \ {0}
      BY DEF Structure, RowTypes
    <3>10. CommunityCohort
      <4>1. ids \in SUBSET Due(snapshot)
        BY <3>3
      <4> QED BY <1>0, <1>4, <3>1, <3>5, <3>6, <3>7, <3>8, <3>9, <4>1 DEF CommunityCohort
    <3> QED BY <3>2, <3>10
  <2>2. CASE /\ campaign.phase = "subscription_metadata" /\ campaign.gate = "passed"
             /\ MetadataCohort(campaign) = {} /\ campaign' = Completed(campaign) /\ NoNewRun
    BY <1>2, <1>4, <2>2
  <2>3. CASE campaign' \in {campaign, Paused(campaign)} /\ NoNewRun
    BY <1>1, <2>3
  <2> QED BY <1>4, <2>1, <2>2, <2>3 DEF DecideMetadata
<1>5. CASE DecideUserPosts
  <2>1. CASE Cohort(campaign) # {} /\ PlanCohort(campaign)
    <3> DEFINE ids == Cohort(campaign)
    <3>1. /\ ids = FirstOf(After(Unresolved, campaign.cursor)) /\ ids # {}
          /\ campaign' = [campaign EXCEPT !.status = "running", !.cursor = Last(ids)]
          /\ InsertRun("user_posts", "planned", ids)
      BY <2>1 DEF PlanCohort, Cohort
    <3> HIDE DEF ids
    <3> QED BY <1>0, <3>1, DecidePlansUsers, Zenon
  <2>2. CASE NoNewRun /\ campaign' \in {campaign, Paused(campaign), [campaign EXCEPT !.status = "running"],
                           Failed(campaign)}
    BY <1>1, <2>2
  <2>3. CASE /\ campaign.type = "user_posts_enrichment" /\ Unresolved = {}
             /\ NoNewRun /\ campaign' = Completed(campaign)
    BY <1>2, <2>3
  <2> QED BY <1>5, <2>1, <2>2, <2>3 DEF DecideUserPosts
<1>6. CASE campaign' = campaign /\ NoNewRun
  BY <1>1, <1>6
<1> QED BY <1>3, <1>4, <1>5, <1>6 DEF DecideSubscriptions

(* The first cohort: all users of a set up to the last of it.               *)
LEMMA FirstCohort ==
  ASSUME NEW S, S \subseteq Users, FirstOf(S) # {}
  PROVE  /\ FirstOf(S) \subseteq S /\ FirstOf(S) \subseteq Users
         /\ Last(FirstOf(S)) \in FirstOf(S) /\ Last(FirstOf(S)) \in 0 .. UserCount
         /\ \A i \in FirstOf(S) : 0 < i /\ i <= Last(FirstOf(S))
         /\ \A u \in S : u <= Last(FirstOf(S)) => u \in FirstOf(S)
<1>1. S \subseteq 1 .. UserCount + CommunityCount
  BY UserOrCommunity
<1>2. /\ FirstOf(S) \subseteq S
      /\ Last(FirstOf(S)) \in FirstOf(S)
      /\ \A k \in FirstOf(S) : k <= Last(FirstOf(S))
      /\ \A k \in S : k <= Last(FirstOf(S)) => k \in FirstOf(S)
  BY <1>1, CohortFacts
<1>3. \A i \in Users : i \in 0 .. UserCount /\ 0 < i
  BY CampaignAssumption DEF Users
<1> QED BY <1>2, <1>3

LEMMA FirstPlan ==
  ASSUME Structure, campaign.type = "none",
         NEW scope, NEW type,
         \/ type = "subscription_enrichment" /\ scope = "subscription_discovery"
         \/ type = "user_posts_enrichment" /\ scope = "user_posts",
         NEW S \in SUBSET Users, snapshot' = S,
         NEW ids, ids = FirstOf({u \in S : ~Resolved(u)}), ids # {},
         campaign' = [campaign EXCEPT !.type = type, !.status = "running", !.phase = scope,
                                      !.cursor = Last(ids)],
         InsertRun(scope, "planned", ids),
         UNCHANGED <<dataVars, workVars, reconcileVars, renewing, happened>>
  PROVE  Structure' /\ UserCohort
<1>0. /\ campaign.status = "absent" /\ campaign.cursor = 0 /\ run = <<>> /\ snapshot = {}
      /\ reading = "idle"
  BY DEF Structure, PhaseOfType, ReadingRuns
<1>1. reading' = "idle"
  BY <1>0 DEF reconcileVars
<1>2. Unresolved' = {u \in S : ~Resolved(u)}
  BY DEF Unresolved, Resolved, dataVars, userVars
<1>3. /\ ids \subseteq {u \in S : ~Resolved(u)} /\ ids \subseteq Users
      /\ Last(ids) \in ids /\ Last(ids) \in 0 .. UserCount
      /\ \A i \in ids : 0 < i /\ i <= Last(ids)
      /\ \A u \in S : ~Resolved(u) /\ u <= Last(ids) => u \in ids
  BY FirstCohort
<1>4. /\ campaign' \in CampaignRow /\ campaign'.status = "running"
      /\ campaign'.cursor = Last(ids) /\ campaign'.metaCursor = campaign.metaCursor
      /\ campaign'.gate = campaign.gate
      /\ campaign'.type = type /\ campaign'.phase = scope
  BY <1>3 DEF Structure, RowTypes, CampaignRow, CampaignStatus, Active, Types, Phases
<1>5. Structure'
  BY <1>0, <1>1, <1>3, <1>4, PlanUsersKeeps, Zenon
<1>6. \A i \in ids : job[i].run = 0
  BY <1>0, <1>3 DEF Structure, JobsBehindCursors, Items
<1>7. UserCohort
  <2>1. ids \in SUBSET Users /\ ids \subseteq Unresolved'
        /\ \A u \in Unresolved' : u <= campaign'.cursor => u \in ids \/ u <= campaign.cursor
    BY <1>2, <1>3, <1>4
  <2>2. \A i \in Items : job'[i] = IF i \in ids THEN [status |-> "pending", run |-> Len(run) + 1]
                                  ELSE job[i]
    BY DEF InsertRun
  <2> QED BY <1>0, <1>1, <1>4, <1>6, <2>1, <2>2 DEF UserCohort
<1> QED BY <1>5, <1>7

LEMMA PlanSteps ==
  ASSUME Structure, Plan
  PROVE  Structure' /\ (UserCohort \/ NoCohort)
<1>0. /\ campaign.status = "absent" /\ campaign.type = "none" /\ campaign.phase = "none"
      /\ campaign.cursor = 0 /\ campaign.metaCursor = 0 /\ run = <<>> /\ snapshot = {}
      /\ reading = "idle" /\ campaign \in CampaignRow
  BY DEF Plan, PlanSubscriptions, PlanUserPosts, Structure, PhaseOfType, ReadingRuns, RowTypes
<1>1. UNCHANGED <<dataVars, workVars, reconcileVars, renewing, happened>>
  BY DEF Plan, PlanSubscriptions, PlanUserPosts, faultVars
<1>2. reading' = "idle"
  BY <1>0, <1>1 DEF reconcileVars
<1>3. ASSUME NEW S \in SUBSET Users, snapshot' = S, FirstOf({u \in S : ~Resolved(u)}) = {}
      PROVE  Unresolved' = {}
  <2> DEFINE T == {u \in S : ~Resolved(u)}
  <2>1. Unresolved' = T
    BY <1>1, <1>3 DEF Unresolved, Resolved, dataVars, userVars
  <2>2. T \subseteq 1 .. UserCount + CommunityCount
    BY UserOrCommunity
  <2>3. T = {}
    <3>1. FirstOf(T) = {}
      BY <1>3
    <3> HIDE DEF T
    <3> QED BY <2>2, <3>1, CohortFacts
  <2> QED BY <2>1, <2>3
<1>4. CASE PlanSubscriptions
  <2> DEFINE c == [campaign EXCEPT !.type = "subscription_enrichment",
                     !.status = "paused_capacity_limit", !.phase = "subscription_discovery"]
  <2>1. PICK S \in SUBSET Users :
          /\ snapshot' = S
          /\ LET ids == FirstOf({u \in S : ~Resolved(u)})
             IN \/ /\ S = {}
                   /\ campaign' = Completed(c) /\ NoNewRun
                \/ /\ S # {} /\ ids # {}
                   /\ campaign' = [c EXCEPT !.status = "running", !.cursor = Last(ids)]
                   /\ InsertRun("subscription_discovery", "planned", ids)
                \/ /\ S # {} /\ ids = {}
                   /\ PrepareGate(c, S)
    BY <1>4, Zenon DEF PlanSubscriptions
  <2>2. /\ c \in CampaignRow /\ c.type = "subscription_enrichment"
        /\ c.phase = "subscription_discovery"
        /\ c.cursor = campaign.cursor /\ c.metaCursor = campaign.metaCursor
    BY <1>0 DEF CampaignRow, CampaignStatus, Active, Types, Phases
  <2>3. CASE FirstOf({u \in S : ~Resolved(u)}) # {} /\ S # {}
    <3>1. PICK ids : ids = FirstOf({u \in S : ~Resolved(u)})
      OBVIOUS
    <3>2. /\ campaign' = [campaign EXCEPT !.type = "subscription_enrichment", !.status = "running",
                             !.phase = "subscription_discovery", !.cursor = Last(ids)]
          /\ InsertRun("subscription_discovery", "planned", ids)
      BY <1>0, <2>1, <2>3, <3>1 DEF CampaignRow
    <3> QED BY <1>0, <1>1, <2>1, <2>3, <3>1, <3>2, FirstPlan, Zenon
  <2>4. CASE S # {} /\ FirstOf({u \in S : ~Resolved(u)}) = {}
    <3>1. PrepareGate(c, S) /\ Unresolved' = {}
      BY <1>3, <2>1, <2>4
    <3> HIDE DEF c
    <3>2. Structure'
      BY <1>0, <1>1, <1>2, <2>1, <2>2, <3>1, PrepareGateKeeps
    <3>3. Due(snapshot)' = Due(S)
      BY <1>1, <2>1 DEF Due, dataVars, userVars
    <3>4. CASE Due(S) = {} /\ campaign' = Completed(c) /\ NoNewRun
      <4>1. campaign'.phase = "completed"
        BY <2>2, <3>4 DEF Completed, CampaignRow
      <4> QED BY <1>0, <1>1, <1>2, <3>1, <3>2, <3>3, <3>4, <4>1 DEF NoCohort, NoNewRun
    <3>5. CASE /\ campaign' = Paused([c EXCEPT !.phase = "subscription_metadata",
                                              !.metaCursor = 0, !.gate = "pending"])
               /\ InsertRun("subscription_metadata", "paused_capacity_limit", {})
      <4>1. /\ campaign'.phase = "subscription_metadata"
            /\ campaign'.type = "subscription_enrichment"
            /\ campaign'.gate = "pending" /\ campaign'.metaCursor = 0
        BY <2>2, <3>5 DEF Paused, CampaignRow
      <4>2. job' = job
        <5>1. job' = [i \in Items |-> job[i]]
          BY <3>5 DEF InsertRun
        <5> QED BY <5>1 DEF Structure, RowTypes
      <4> QED BY <1>0, <1>1, <1>2, <3>1, <3>2, <4>1, <4>2 DEF NoCohort
    <3> QED BY <3>1, <3>4, <3>5 DEF PrepareGate
  <2>5. CASE S = {} /\ campaign' = Completed(c) /\ NoNewRun
    <3>1. /\ campaign' \in CampaignRow /\ campaign'.phase = "completed"
          /\ campaign'.status = "completed" /\ campaign'.type = "subscription_enrichment"
          /\ campaign'.cursor = 0 /\ campaign'.metaCursor = 0
      BY <1>0, <2>2, <2>5 DEF Completed, CampaignRow, CampaignStatus, Phases
    <3>2. Structure'
      <4>1. NewRuns' = NewRuns /\ NewRuns = {}
        BY <1>0, <2>5 DEF NewRuns, NoNewRun
      <4>2. RowTypes' /\ JobTypes' /\ WorkTypes'
        BY <1>0, <1>1, <2>1, <2>5, <3>1 DEF RowTypes, JobTypes, WorkTypes, Structure, NoNewRun,
           dataVars, userVars, workVars, reconcileVars
      <4>3. PhaseOfType' /\ ReadingRuns'
        BY <1>2, <3>1 DEF PhaseOfType, ReadingRuns, Phases
      <4>4. JobsBehindCursors' /\ RunsOfScope' /\ OneWaits'
        BY <1>0, <2>1, <2>5, <3>1, <4>1 DEF JobsBehindCursors, RunsOfScope, OneWaits, Structure, NoNewRun
      <4> QED BY <4>2, <4>3, <4>4 DEF Structure
    <3>3. Unresolved' = {} /\ Due(snapshot)' = {}
      BY <2>1, <2>5 DEF Unresolved, Due
    <3> QED BY <1>0, <1>1, <1>2, <2>5, <3>1, <3>2, <3>3 DEF NoCohort, NoNewRun
  <2> QED BY <2>1, <2>3, <2>4, <2>5
<1>5. CASE PlanUserPosts
  <2> DEFINE c == [campaign EXCEPT !.type = "user_posts_enrichment",
                                   !.status = "running", !.phase = "user_posts"]
  <2>1. PICK S \in SUBSET Users :
          /\ snapshot' = S
          /\ LET ids == FirstOf({u \in S : ~Resolved(u)})
             IN \/ /\ ids # {}
                   /\ campaign' = [c EXCEPT !.cursor = Last(ids)]
                   /\ InsertRun("user_posts", "planned", ids)
                \/ /\ ids = {}
                   /\ campaign' = Completed(c) /\ NoNewRun
    BY <1>5, Zenon DEF PlanUserPosts
  <2>2. CASE FirstOf({u \in S : ~Resolved(u)}) # {}
    <3>1. PICK ids : ids = FirstOf({u \in S : ~Resolved(u)})
      OBVIOUS
    <3>2. /\ campaign' = [campaign EXCEPT !.type = "user_posts_enrichment", !.status = "running",
                             !.phase = "user_posts", !.cursor = Last(ids)]
          /\ InsertRun("user_posts", "planned", ids)
      BY <1>0, <2>1, <2>2, <3>1 DEF CampaignRow
    <3> QED BY <1>0, <1>1, <2>1, <2>2, <3>1, <3>2, FirstPlan, Zenon
  <2>3. CASE /\ FirstOf({u \in S : ~Resolved(u)}) = {}
             /\ campaign' = Completed(c) /\ NoNewRun
    <3>1. /\ campaign' \in CampaignRow /\ campaign'.phase = "completed"
          /\ campaign'.status = "completed" /\ campaign'.type = "user_posts_enrichment"
          /\ campaign'.cursor = 0 /\ campaign'.metaCursor = 0
      BY <1>0, <2>3 DEF Completed, CampaignRow, CampaignStatus, Phases, Types
    <3>2. Structure'
      <4>1. NewRuns' = NewRuns /\ NewRuns = {}
        BY <1>0, <2>3 DEF NewRuns, NoNewRun
      <4>2. RowTypes' /\ JobTypes' /\ WorkTypes'
        BY <1>0, <1>1, <2>1, <2>3, <3>1 DEF RowTypes, JobTypes, WorkTypes, Structure, NoNewRun,
           dataVars, userVars, workVars, reconcileVars
      <4>3. PhaseOfType' /\ ReadingRuns'
        BY <1>2, <3>1 DEF PhaseOfType, ReadingRuns, Phases
      <4>4. JobsBehindCursors' /\ RunsOfScope' /\ OneWaits'
        BY <1>0, <2>1, <2>3, <3>1, <4>1 DEF JobsBehindCursors, RunsOfScope, OneWaits, Structure, NoNewRun
      <4> QED BY <4>2, <4>3, <4>4 DEF Structure
    <3>3. Unresolved' = {}
      BY <1>3, <2>1, <2>3
    <3> QED BY <1>0, <1>1, <1>2, <2>3, <3>1, <3>2, <3>3 DEF NoCohort, NoNewRun
  <2> QED BY <2>1, <2>2, <2>3
<1> QED BY <1>4, <1>5 DEF Plan

(* The gate of the first communities.                                       *)
LEMMA ApplyCohort ==
  ASSUME Structure, ApplyGate,
         run[renewing].scope = "subscription_metadata", JobsOf(renewing) = {}
  PROVE  Structure' /\ CommunityCohort
<1> DEFINE ids == FirstOf(Due(snapshot))
<1>1. /\ renewing \in NewRuns /\ UNCHANGED <<snapshot, dataVars, happened>>
      /\ reading' = "idle"
  BY DEF ApplyGate, Parked, ServiceStopped, faultVars
<1>2. /\ campaign.type = "subscription_enrichment"
      /\ campaign.phase # "subscription_discovery"
  BY <1>1 DEF Structure, RunsOfScope
<1>3. ids \in SUBSET Due(snapshot) /\ renewing \in Nat \ {0}
  BY <1>1, DueFacts, CohortFacts, UserOrCommunity DEF NewRuns, FirstOf
<1> HIDE DEF ids
<1>4. /\ Structure'
      /\ campaign'.type = campaign.type /\ campaign'.phase = campaign.phase
      /\ campaign'.cursor = campaign.cursor /\ campaign'.gate = "passed"
      /\ Len(run') = Len(run)
      /\ \A i \in ids : job[i].run = 0
      /\ \A i \in Items : job'[i] = IF i \in ids THEN [status |-> "pending", run |-> renewing]
                                    ELSE job[i]
      /\ \A i \in Due(snapshot) : i <= campaign'.metaCursor => i \in ids
  BY ApplyPlans DEF ids
<1> QED BY <1>1, <1>2, <1>3, <1>4 DEF CommunityCohort

LEMMA StructureInit == Init => Structure
<1> SUFFICES ASSUME Init PROVE Structure
  OBVIOUS
<1>1. NewRuns = {}
  BY DEF Init, NewRuns
<1>2. RowTypes
  <2>1. user \in [Users -> UserRow]
    BY DEF Init, UserRow
  <2>2. campaign \in CampaignRow
    BY CampaignAssumption DEF Init, CampaignRow, Types, CampaignStatus, Phases
  <2>3. job \in [Items -> JobRow] /\ run \in Seq(RunRow)
    BY DEF Init, JobRow, JobStatus
  <2> QED BY <2>1, <2>2, <2>3 DEF RowTypes, Init
<1>3. JobTypes /\ WorkTypes /\ JobsBehindCursors
  BY DEF JobTypes, WorkTypes, JobsBehindCursors, Init
<1>4. PhaseOfType /\ ReadingRuns
  BY DEF PhaseOfType, ReadingRuns, Init
<1>5. RunsOfScope /\ OneWaits
  BY <1>1 DEF RunsOfScope, OneWaits, Init
<1> QED BY <1>2, <1>3, <1>4, <1>5 DEF Structure

LEMMA QuietStructure ==
  ASSUME Structure, Quiet
  PROVE  Structure'
BY QuietKeeps DEF Structure, Quiet

LEMMA ReconcileLooks ==
  ASSUME ReconcileSubscriptions \/ ReconcileUserPosts
  PROVE  \E concerned, mayResume : ReconcileLook(concerned, mayResume)
<1>1. CASE ReconcileSubscriptions
  <2>1. PICK a, b :
          /\ a = (campaign.status \in Active)
          /\ b = (\/ campaign.phase = "subscription_discovery" /\ room
                  \/ campaign.phase = "subscription_metadata" /\ campaign.gate = "passed" /\ room)
    OBVIOUS
  <2>2. ReconcileLook(a, b)
    BY <1>1, <2>1 DEF ReconcileSubscriptions
  <2> QED BY <2>2
<1>2. CASE ReconcileUserPosts
  <2>1. PICK b : b = room
    OBVIOUS
  <2>2. ReconcileLook(TRUE, b)
    BY <1>2, <2>1 DEF ReconcileUserPosts
  <2> QED BY <2>2
<1> QED BY <1>1, <1>2

LEMMA ReconcileQuiet ==
  ASSUME Structure, ReconcileSubscriptions \/ ReconcileUserPosts
  PROVE  Quiet
<1>1. PICK concerned, mayResume : ReconcileLook(concerned, mayResume)
  BY ReconcileLooks
<1>2. campaign.type # "none"
  BY DEF ReconcileSubscriptions, ReconcileUserPosts
<1> QED BY <1>1, <1>2, LookQuiet

-----------------------------------------------------------------------------
(* What the quiet steps do to users and to jobs.                            *)

Errors == {"transient", "fatal", "defer"}

UserWork(u) ==
  \/ user'[u] = user[u] /\ (u \in collected' <=> u \in collected)
  \/ u \in tasks /\ u \notin collected /\ u \in collected' /\ Resolved(u)'
  \/ /\ u \in tasks /\ u \notin collected /\ u \notin collected'
     /\ ~user'[u].terminal /\ user'[u].success = user[u].success
     /\ campaign.type = "subscription_enrichment" <=> user'[u].sched
     /\ happened' \cap Errors # {}

JobWork(i) ==
  /\ job'[i].status = "done" =>
       job[i].status = "done" \/ i \in collected \/ i \in Communities \ stale
  /\ job'[i].status \in {"retry_wait", "failed"} =>
       job[i].status \in {"retry_wait", "failed"} \/ happened' \cap Errors # {}
  /\ job'[i].status = "cancelled" =>
       job[i].status = "cancelled" \/ ("supersede" \in happened' /\ campaign'.phase = "cancelled")
  /\ job'[i].status \in Immediate /\ reading' = "noWork" =>
       reading = "noWork" /\ job[i].status \in Immediate \cup {"retry_wait"}

WorkStep ==
  /\ happened \subseteq happened' /\ stale' \subseteq stale
  /\ \A u \in Users : UserWork(u)
  /\ \A i \in Items : JobWork(i)
  /\ campaign'.phase = campaign.phase \/ campaign'.phase \in {"failed", "cancelled"} \/ Decided

LEMMA DataSame ==
  ASSUME UNCHANGED dataVars
  PROVE  stale' = stale /\ \A u \in Users : UserWork(u)
BY DEF dataVars, userVars, UserWork

LEMMA ReaderWork ==
  ASSUME Structure, ReconcileCount \/ Recheck \/ (\E r \in NewRuns : ListRun(r))
                     \/ StopClaiming \/ RoomLost \/ RoomFound \/ ControlDecision \/ RenewalRejected
  PROVE  WorkStep
<1>1. UNCHANGED <<campaign, job, dataVars>> /\ happened \subseteq happened'
  BY DEF ReconcileCount, NoNewRun, Recheck, ListRun, StopClaiming, RoomLost, RoomFound,
         ControlDecision, RenewalRejected, faultVars, Disturb
<1>2. ASSUME NEW i \in Items PROVE JobWork(i)
  <2>1. CASE ReconcileCount
    BY <1>1, <2>1 DEF JobWork, ReconcileCount, HasJob
  <2>2. CASE reading' = reading
    BY <1>1, <2>2 DEF JobWork
  <2>3. ReconcileCount \/ reading' = reading
    BY DEF Recheck, ListRun, StopClaiming, RoomLost, RoomFound, ControlDecision, RenewalRejected,
           ServiceRestarted, reconcileVars
  <2> QED BY <2>1, <2>2, <2>3
<1> QED BY <1>1, <1>2, DataSame DEF WorkStep

LEMMA LookWork ==
  ASSUME Structure, NEW concerned, NEW mayResume, ReconcileLook(concerned, mayResume)
  PROVE  WorkStep
<1>1. UNCHANGED <<job, dataVars, happened>> /\ reading' # "noWork"
  BY DEF ReconcileLook, NoNewRun, faultVars
<1>2. campaign'.phase = campaign.phase \/ campaign'.phase = "failed"
  BY DEF ReconcileLook, Failed, Structure, RowTypes, CampaignRow
<1>3. \A i \in Items : JobWork(i)
  BY <1>1 DEF JobWork
<1> QED BY <1>1, <1>2, <1>3, DataSame DEF WorkStep

LEMMA DecidedWork ==
  ASSUME Structure, Decided
  PROVE  WorkStep
<1>1. \A i \in Items : JobWork(i)
  BY DEF JobWork, Decided
<1> QED BY <1>1, DataSame DEF WorkStep, Decided

LEMMA ClaimWork ==
  ASSUME Structure, NEW i \in Items, Claim(i)
  PROVE  WorkStep
<1>1. UNCHANGED <<dataVars, happened, reading>> /\ campaign'.phase = campaign.phase
  BY DEF Claim, faultVars, reconcileVars, Structure, RowTypes, CampaignRow
<1>2. ASSUME NEW k \in Items PROVE JobWork(k)
  <2>1. job'[k].status = IF k = i THEN "running" ELSE job[k].status
    BY DEF Claim, Structure, RowTypes, JobRow
  <2>2. job[i].status \in {"pending", "retry_wait"}
    BY DEF Claim
  <2> QED BY <1>1, <2>1, <2>2 DEF JobWork, Immediate
<1> QED BY <1>1, <1>2, DataSame DEF WorkStep

LEMMA RunWork ==
  ASSUME Structure, LeaveRun \/ DiskStop \/ Crash
  PROVE  WorkStep
<1>1. UNCHANGED dataVars /\ happened \subseteq happened' /\ campaign'.phase = campaign.phase
  BY DEF LeaveRun, DiskStop, SetRunStatus, Crash, faultVars, Disturbed, Disturb,
         Structure, RowTypes, CampaignRow
<1>2. ASSUME NEW i \in Items PROVE JobWork(i)
  <2>1. CASE LeaveRun
    BY <2>1 DEF LeaveRun, JobWork, reconcileVars
  <2>2. CASE DiskStop
    <3>1. job'[i] = job[i]
      BY <2>2 DEF DiskStop, SetRunStatus
    <3> QED BY <2>2, <3>1 DEF DiskStop, JobWork, reconcileVars
  <2>3. CASE Crash
    <3>1. job'[i] = IF job[i].status = "running" THEN [job[i] EXCEPT !.status = "pending"] ELSE job[i]
      BY <2>3 DEF Crash
    <3>2. job'[i].status \in {job[i].status, "pending"} /\ reading' = "idle"
      BY <2>3, <3>1 DEF Crash, Structure, RowTypes, JobRow
    <3> QED BY <3>2 DEF JobWork
  <2> QED BY <2>1, <2>2, <2>3
<1> QED BY <1>1, <1>2, DataSame DEF WorkStep

LEMMA StoreWork ==
  ASSUME Structure, NEW i \in Items, Store(i)
  PROVE  WorkStep
<1>1. /\ UNCHANGED <<job, happened, reading, campaign>>
      /\ stale' \subseteq stale
  BY DEF Store, StoreSubscriptions, StoreWall, Describe, faultVars, reconcileVars
<1>2. ASSUME NEW u \in Users PROVE UserWork(u)
  <2>1. CASE Describe(i)
    BY <2>1 DEF Describe, UserWork, userVars
  <2>2. CASE StoreSubscriptions(i) \/ StoreWall(i)
    <3>1. i \in tasks /\ i \in Users /\ i \notin collected /\ collected' = collected \cup {i}
      BY <2>2 DEF StoreSubscriptions, StoreWall
    <3>2. PICK terminal \in BOOLEAN :
            user' = [user EXCEPT ![i] = [success |-> user[i].success \/ ~terminal,
                                         terminal |-> terminal, sched |-> TRUE]]
      BY <2>2 DEF StoreSubscriptions, StoreWall
    <3>3. u # i => user'[u] = user[u]
      BY <3>2 DEF Structure, RowTypes
    <3>4. Resolved(i)'
      <4>1. user'[i] = [success |-> user[i].success \/ ~terminal, terminal |-> terminal, sched |-> TRUE]
        BY <3>1, <3>2 DEF Structure, RowTypes
      <4>2. user'[i].sched = TRUE /\ user'[i].terminal = terminal
        BY <4>1
      <4>3. terminal = FALSE => user'[i].success = TRUE
        <5>1. user'[i].success = (user[i].success \/ ~terminal)
          BY <4>1
        <5> QED BY <5>1
      <4>4. terminal = TRUE \/ terminal = FALSE
        OBVIOUS
      <4> QED BY <4>2, <4>3, <4>4 DEF Resolved
    <3> QED BY <3>1, <3>3, <3>4 DEF UserWork
  <2> QED BY <2>1, <2>2 DEF Store
<1>3. \A k \in Items : JobWork(k)
  BY <1>1 DEF JobWork
<1> QED BY <1>1, <1>2, <1>3 DEF WorkStep

(* A task ends.                                                             *)
LEMMA FinishWork ==
  ASSUME Structure, NEW i \in tasks, NEW s \in {"done", "retry_wait", "failed"}, Finish(i, s),
         s = "done" => i \in collected \/ i \in Communities \ stale,
         s # "done" => happened' \cap Errors # {},
         reading' = reading
  PROVE  \A k \in Items : JobWork(k)
<1> SUFFICES ASSUME NEW k \in Items PROVE JobWork(k)
  OBVIOUS
<1>1. job' = job \/ job' = [job EXCEPT ![i].status = s]
  BY DEF Finish
<1>2. job'[k].status \in {job[k].status} \/ (k = i /\ job'[k].status = s)
  BY <1>1 DEF Structure, RowTypes, WorkTypes, JobRow
<1> QED BY <1>2 DEF JobWork, Immediate

LEMMA ErrorWork ==
  ASSUME Structure, NEW i \in Items, Error(i)
  PROVE  WorkStep
<1>1. PICK s \in {"retry_wait", "failed"}, kind \in {"transient", "fatal"} :
        Finish(i, s) /\ Disturbed(kind)
  BY DEF Error, SubscriptionsError, WallError, CommunityError
<1>2. i \in tasks /\ stale' = stale /\ collected' = collected /\ reading' = reading /\ campaign' = campaign
  BY DEF Error, SubscriptionsError, WallError, CommunityError, dataVars, userVars
<1>3. happened \subseteq happened' /\ happened' \cap Errors # {}
  BY <1>1 DEF Disturbed, Disturb, Errors
<1>4. \A k \in Items : JobWork(k)
  BY <1>1, <1>2, <1>3, FinishWork
<1>5. ASSUME NEW u \in Users PROVE UserWork(u)
  <2>0. user \in [Users -> UserRow]
    BY DEF Structure, RowTypes
  <2>1. CASE SubscriptionsError(i)
    <3>1. /\ i \in Users /\ i \notin collected /\ campaign.type = "subscription_enrichment"
          /\ user' = [user EXCEPT ![i].terminal = FALSE, ![i].sched = TRUE]
      BY <2>1 DEF SubscriptionsError
    <3>2. u # i => user'[u] = user[u]
      BY <3>1, <2>0
    <3>3. ~user'[i].terminal /\ user'[i].success = user[i].success /\ user'[i].sched
      BY <3>1, <2>0 DEF UserRow
    <3> QED BY <1>2, <1>3, <3>1, <3>2, <3>3 DEF UserWork
  <2>2. CASE WallError(i)
    <3>1. /\ i \in Users /\ i \notin collected /\ campaign.type = "user_posts_enrichment"
          /\ user' = [user EXCEPT ![i].terminal = FALSE, ![i].sched = FALSE]
      BY <2>2 DEF WallError
    <3>2. u # i => user'[u] = user[u]
      BY <3>1, <2>0
    <3>3. ~user'[i].terminal /\ user'[i].success = user[i].success /\ ~user'[i].sched
      BY <3>1, <2>0 DEF UserRow
    <3> QED BY <1>2, <1>3, <3>1, <3>2, <3>3 DEF UserWork
  <2>3. CASE CommunityError(i)
    BY <2>3 DEF CommunityError, UserWork, dataVars, userVars
  <2> QED BY <2>1, <2>2, <2>3 DEF Error
<1> QED BY <1>2, <1>3, <1>4, <1>5 DEF WorkStep

LEMMA DoneWork ==
  ASSUME Structure, NEW i \in Items, Done(i)
  PROVE  WorkStep
<1>1. UNCHANGED <<dataVars, happened, reading, campaign>> /\ i \in tasks /\ Finish(i, "done")
  BY DEF Done, faultVars
<1>2. i \in collected \/ i \in Communities \ stale
  BY DEF Done, Items
<1>3. \A k \in Items : JobWork(k)
  BY <1>1, <1>2, FinishWork
<1> QED BY <1>1, <1>3, DataSame DEF WorkStep

LEMMA DeferWork ==
  ASSUME Structure, NEW i \in Items, Defer(i)
  PROVE  WorkStep
<1>1. /\ UNCHANGED dataVars /\ happened \subseteq happened' /\ happened' \cap Errors # {}
      /\ campaign'.phase = campaign.phase /\ reading' = reading
  BY DEF Defer, Disturbed, Disturb, Errors, Structure, RowTypes, CampaignRow, reconcileVars
<1>2. ASSUME NEW k \in Items PROVE JobWork(k)
  <2>1. job'[k].status = IF k = i THEN "retry_wait" ELSE job[k].status
    BY DEF Defer, Structure, RowTypes, JobRow
  <2> QED BY <1>1, <2>1 DEF JobWork, Immediate
<1> QED BY <1>1, <1>2, DataSame DEF WorkStep

LEMMA OperateWork ==
  ASSUME Structure, Operate
  PROVE  WorkStep
<1>1. CASE PauseCampaign \/ ResumeCampaign
  <2>1. /\ UNCHANGED dataVars /\ happened \subseteq happened' /\ campaign'.phase = campaign.phase
        /\ reading' = "idle"
    BY <1>1 DEF PauseCampaign, ResumeCampaign, ChangeStatus, Disturbed, Disturb, CampaignFree, faultVars,
                Structure, RowTypes, CampaignRow, reconcileVars
  <2>2. ASSUME NEW k \in Items PROVE JobWork(k)
    <3>1. PICK s \in {"paused", "running"} : ChangeStatus(s)
      BY <1>1 DEF PauseCampaign, ResumeCampaign
    <3>2. job'[k].status \in {job[k].status, "paused", "pending"}
      BY <3>1 DEF ChangeStatus, Structure, RowTypes, JobRow
    <3> QED BY <2>1, <3>2 DEF JobWork
  <2> QED BY <2>1, <2>2, DataSame DEF WorkStep
<1>2. CASE Supersede
  <2>1. /\ UNCHANGED dataVars /\ happened \subseteq happened' /\ "supersede" \in happened'
        /\ campaign'.phase = "cancelled" /\ reading' = "idle"
    BY <1>2 DEF Supersede, Disturbed, Disturb, CampaignFree, Structure, RowTypes, CampaignRow,
                reconcileVars
  <2>2. ASSUME NEW k \in Items PROVE JobWork(k)
    <3>1. job'[k].status \in {job[k].status, "cancelled"}
      BY <1>2 DEF Supersede, Structure, RowTypes, JobRow
    <3> QED BY <2>1, <3>1 DEF JobWork
  <2> QED BY <2>1, <2>2, DataSame DEF WorkStep
<1> QED BY <1>1, <1>2 DEF Operate

LEMMA ApplyWork ==
  ASSUME Structure, ApplyGate,
         ~(run[renewing].scope = "subscription_metadata" /\ JobsOf(renewing) = {})
  PROVE  WorkStep
<1>1. /\ UNCHANGED <<job, dataVars, happened, reading>>
      /\ campaign'.phase = campaign.phase
  BY DEF ApplyGate, faultVars, Structure, RowTypes, CampaignRow
<1>2. \A k \in Items : JobWork(k)
  BY <1>1 DEF JobWork
<1> QED BY <1>1, <1>2, DataSame DEF WorkStep

-----------------------------------------------------------------------------
(* Every step leaves jobs, runs and cursors in order, and either plans or   *)
(* is a quiet one.                                                          *)
LEMMA StepKinds ==
  ASSUME Structure, [Next]_vars
  PROVE  /\ Structure'
         /\ (QuietStep /\ WorkStep) \/ UserCohort \/ NoCohort \/ CommunityCohort
<1>0. Quiet => Structure' /\ QuietStep
  BY QuietStructure DEF Quiet
<1>1. CASE Plan
  BY <1>1, PlanSteps
<1>2. CASE Reconcile
  <2>1. CASE ReconcileSubscriptions \/ ReconcileUserPosts
    <3>1. PICK concerned, mayResume : ReconcileLook(concerned, mayResume)
      BY <2>1, ReconcileLooks
    <3> QED BY <1>0, <2>1, <3>1, ReconcileQuiet, LookWork
  <2>2. CASE ReconcileCount
    BY <1>0, <2>2, ReaderQuiet, ReaderWork
  <2>3. CASE DecideSubscriptions \/ DecideUserPosts
    BY <1>0, <2>3, DecideSteps, DecidedWork
  <2> QED BY <1>2, <2>1, <2>2, <2>3 DEF Reconcile
<1>3. CASE Recheck \/ StopClaiming \/ RoomLost \/ RoomFound \/ (\E r \in NewRuns : ListRun(r))
  BY <1>0, <1>3, ReaderQuiet, ReaderWork
<1>4. CASE Control
  <2>1. CASE ControlDecision \/ RenewalRejected
    BY <1>0, <2>1, ReaderQuiet, ReaderWork
  <2>2. CASE ApplyGate /\ ~(run[renewing].scope = "subscription_metadata" /\ JobsOf(renewing) = {})
    BY <1>0, <2>2, ApplyQuiet, ApplyWork
  <2>3. CASE ApplyGate /\ run[renewing].scope = "subscription_metadata" /\ JobsOf(renewing) = {}
    BY <2>3, ApplyCohort
  <2> QED BY <1>4, <2>1, <2>2, <2>3 DEF Control
<1>5. CASE Operate
  BY <1>0, <1>5, OperateQuiet, OperateWork
<1>6. ASSUME NEW i \in Items, Claim(i) \/ Store(i) \/ Error(i) \/ Defer(i) \/ Done(i)
      PROVE  Quiet /\ WorkStep
  <2>1. Quiet
    BY <1>6, ClaimQuiet, StoreQuiet, ErrorQuiet, DeferQuiet
  <2>2. WorkStep
    BY <1>6, ClaimWork, StoreWork, ErrorWork, DeferWork, DoneWork
  <2> QED BY <2>1, <2>2
<1>7. CASE LeaveRun \/ DiskStop \/ Crash
  BY <1>0, <1>7, LeaveRunQuiet, DiskStopQuiet, CrashQuiet, RunWork
<1>8. CASE UNCHANGED vars
  <2>1. QuietStep
    BY <1>8, CampaignSame, RunSame, JobSame, UserSame DEF vars, QuietStep
  <2>2. WorkTypes' /\ ReadingRuns'
    BY <1>8 DEF vars, WorkTypes, ReadingRuns, Structure, workVars, reconcileVars
  <2>3. WorkStep
    <3>1. UNCHANGED <<job, dataVars, happened, reading, campaign>>
      BY <1>8 DEF vars, faultVars, reconcileVars
    <3>2. \A i \in Items : JobWork(i)
      BY <3>1 DEF JobWork
    <3> QED BY <3>1, <3>2, DataSame DEF WorkStep
  <2> QED BY <1>0, <2>1, <2>2, <2>3 DEF Quiet
<1> QED BY <1>0, <1>1, <1>2, <1>3, <1>4, <1>5, <1>6, <1>7, <1>8 DEF Next

LEMMA StructureInvariant == Spec => []Structure
<1>1. Structure /\ [Next]_vars => Structure'
  BY StepKinds
<1> QED BY <1>1, StructureInit, PTL DEF Spec

(* The campaign, its runs and its jobs keep their shape, whatever the       *)
(* managers, the control and the operators do: the cursors stay among the   *)
(* ids, which needs that no empty cohort is ever planned.                   *)
THEOREM TypesStay == Spec => []TypeOK
<1>1. Structure => TypeOK
  <2> SUFFICES ASSUME Structure PROVE TypeOK
    OBVIOUS
  <2>1. campaign \in CampaignRow
    BY DEF Structure, RowTypes
  <2>2. ASSUME NEW r \in NewRuns PROVE run[r] \in RunRow
    BY DEF Structure, RowTypes, NewRuns
  <2>3. ASSUME NEW i \in Items
        PROVE  /\ job[i].status \in JobStatus /\ job[i].run \in {0} \cup NewRuns
               /\ job[i].run = 0 <=> job[i].status = "none"
    BY DEF Structure, RowTypes, JobTypes, JobRow, NewRuns
  <2>4. /\ tasks \subseteq Items /\ draining \in {0} \cup NewRuns
        /\ renewing \in {0} \cup NewRuns
        /\ reading \in {"idle", "noFailures", "noWork"}
    BY DEF Structure, RowTypes, WorkTypes, NewRuns
  <2> QED BY <2>1, <2>2, <2>3, <2>4
          DEF TypeOK, CampaignRow, Types, CampaignStatus, Phases, RunRow, Scopes, RunStatus, JobStatus
<1> QED BY <1>1, StructureInvariant, PTL

(* No job is ever taken from its run: a cohort holds only users, or         *)
(* communities, that no earlier cohort held, and the first cohort of a gate *)
(* those without a job, whatever the order of decisions, gates and crashes. *)
THEOREM PlansAreNew == Spec => PlannedOnce
<1>1. ASSUME Structure, [Next]_vars
      PROVE  \A i \in Items : job[i].run # 0 => job'[i].run = job[i].run
  <2>1. CASE QuietStep
    BY <2>1 DEF QuietStep, JobStep
  <2>2. CASE UserCohort
    BY <2>2 DEF UserCohort
  <2>3. CASE NoCohort
    BY <2>3 DEF NoCohort
  <2>4. CASE CommunityCohort
    BY <2>4 DEF CommunityCohort
  <2> QED BY <1>1, <2>1, <2>2, <2>3, <2>4, StepKinds
<1>2. Structure /\ [Next]_vars => [\A i \in Items : job[i].run # 0 => job'[i].run = job[i].run]_vars
  BY <1>1
<1> QED BY <1>2, StructureInvariant, PTL DEF Spec, PlannedOnce

(* A paused campaign gets no run: a reconcile that saw it running holds its *)
(* row, so it cannot be paused under it, and a gate adds no run.            *)
THEOREM PauseHolds == Spec => PausedPlansNothing
<1>1. ASSUME Structure, [Next]_vars
      PROVE  campaign.status = "paused" => Len(run') = Len(run)
  <2>1. CASE QuietStep
    BY <2>1 DEF QuietStep, RunStep
  <2>2. CASE UserCohort \/ NoCohort
    BY <2>2 DEF UserCohort, NoCohort
  <2>3. CASE CommunityCohort
    BY <2>3 DEF CommunityCohort
  <2> QED BY <1>1, <2>1, <2>2, <2>3, StepKinds
<1>2. Structure /\ [Next]_vars => [campaign.status = "paused" => Len(run') = Len(run)]_vars
  BY <1>1
<1> QED BY <1>2, StructureInvariant, PTL DEF Spec, PausedPlansNothing

-----------------------------------------------------------------------------
(* Nobody is left behind.                                                   *)

LEMMA ResolutionInit == Init => Resolution
<1> SUFFICES ASSUME Init PROVE Resolution
  OBVIOUS
<1>1. \A i \in Items : job[i].status = "none" /\ job[i].run = 0
  BY DEF Init
<1>2. \A u \in Users : /\ ~user[u].terminal /\ (user[u].success <=> u \in CollectedBefore)
                       /\ (user[u].sched <=> u \in FreshBefore)
  BY DEF Init
<1>3. StoredIsResolved
  BY <1>2 DEF StoredIsResolved, Init
<1>4. DoneIsStored /\ CancelledBySupersede
  BY <1>1 DEF DoneIsStored, CancelledBySupersede
<1>5. PassedAreResolved /\ PhaseIsOver
  BY DEF PassedAreResolved, PhaseIsOver, Unresolved, Init
<1>6. WallsAreDue
  <2>1. \A u \in Users : u \in Items
    BY DEF Items
  <2> QED BY <1>1, <1>2, <2>1, CampaignAssumption DEF WallsAreDue
<1> QED BY <1>3, <1>4, <1>5, <1>6 DEF Resolution

LEMMA ResolutionPlanned ==
  ASSUME Structure, Resolution, Structure', UserCohort \/ NoCohort \/ CommunityCohort
  PROVE  Resolution'
<1>1. UNCHANGED <<user, collected, stale, happened>>
  BY DEF UserCohort, NoCohort, CommunityCohort, dataVars, userVars
<1>2. \A u \in Users : Resolved(u)' <=> Resolved(u)
  BY <1>1 DEF Resolved
<1>3. StoredIsResolved'
  BY <1>1, <1>2 DEF Resolution, StoredIsResolved
<1>4. \A i \in Items : job'[i] = job[i] \/ job'[i].status = "pending"
  <2>1. CASE UserCohort
    <3>1. PICK ids : \A i \in Items :
            job'[i] = IF i \in ids THEN [status |-> "pending", run |-> Len(run) + 1] ELSE job[i]
      BY <2>1 DEF UserCohort
    <3> QED BY <3>1
  <2>2. CASE NoCohort
    BY <2>2 DEF NoCohort
  <2>3. CASE CommunityCohort
    <3>1. PICK ids, r : \A i \in Items :
            job'[i] = IF i \in ids THEN [status |-> "pending", run |-> r] ELSE job[i]
      BY <2>3 DEF CommunityCohort
    <3> QED BY <3>1
  <2> QED BY <2>1, <2>2, <2>3
<1>5. DoneIsStored' /\ CancelledBySupersede'
  BY <1>1, <1>4 DEF Resolution, DoneIsStored, CancelledBySupersede
<1>6. ASSUME UserCohort
      PROVE  PassedAreResolved' /\ WallsAreDue' /\ PhaseIsOver'
  <2>1. PICK ids \in SUBSET Users :
           /\ ids # {} /\ ids \subseteq Unresolved'
           /\ \A i \in Items : job'[i] = IF i \in ids THEN [status |-> "pending", run |-> Len(run) + 1]
                                         ELSE job[i]
           /\ \A u \in Unresolved' : u <= campaign'.cursor => u \in ids \/ u <= campaign.cursor
    BY <1>6 DEF UserCohort
  <2>2. \A u \in Users : u \in Items /\ u \in Nat /\ u > 0
    BY CampaignAssumption DEF Users, Items
  <2>3. campaign.type = "none" => /\ campaign.cursor = 0
    BY DEF Structure, PhaseOfType
  <2>4. campaign.type # "none" => Unresolved' = Unresolved
    BY <1>2, <1>6 DEF UserCohort, Unresolved, Structure, RowTypes
  <2>5. Unresolved' \subseteq Users /\ Len(run) \in Nat
    BY DEF Unresolved, Structure, RowTypes
  <2>6. PassedAreResolved'
    <3>1. ASSUME NEW u \in Unresolved', u <= campaign'.cursor PROVE job'[u].run # 0
      <4>1. u \in Items /\ u > 0 /\ u \in Nat
        BY <2>2, <2>5
      <4>2. CASE u \in ids
        BY <2>1, <2>5, <4>1, <4>2
      <4>3. CASE u \notin ids
        <5>1. u <= campaign.cursor
          BY <2>1, <3>1, <4>3
        <5>2. campaign.type # "none"
          BY <2>3, <4>1, <5>1
        <5>3. job[u].run # 0
          BY <2>4, <5>1, <5>2 DEF Resolution, PassedAreResolved
        <5> QED BY <2>1, <4>1, <4>3, <5>3
      <4> QED BY <4>2, <4>3
    <3> QED BY <3>1 DEF PassedAreResolved
  <2>7. WallsAreDue'
    <3> SUFFICES ASSUME campaign'.type # "subscription_enrichment" PROVE WallsAreDue'
      BY DEF WallsAreDue
    <3>1. campaign.type # "subscription_enrichment"
      BY <1>6 DEF UserCohort
    <3>2. \A u \in Users : user'[u] = user[u] /\ (user[u].sched => user[u].success \/ user[u].terminal)
      BY <1>1, <3>1 DEF Resolution, WallsAreDue
    <3>3. ASSUME NEW u \in Users, job'[u].run # 0, u \notin collected' PROVE ~user'[u].sched
      <4>1. CASE u \in ids
        BY <2>1, <3>2, <4>1 DEF Unresolved, Resolved
      <4>2. CASE u \notin ids
        <5>1. job'[u] = job[u]
          BY <2>1, <2>2, <4>2
        <5> QED BY <1>1, <3>1, <3>3, <5>1 DEF Resolution, WallsAreDue
      <4> QED BY <4>1, <4>2
    <3> QED BY <3>2, <3>3 DEF WallsAreDue
  <2>8. PhaseIsOver'
    <3>1. ASSUME campaign'.phase \in {"subscription_metadata", "completed"} PROVE FALSE
      <4>1. campaign.type # "none" /\ campaign'.phase = campaign.phase
        BY <1>6, <3>1 DEF UserCohort
      <4>2. Unresolved = {}
        BY <3>1, <4>1 DEF Resolution, PhaseIsOver
      <4> QED BY <2>1, <2>4, <4>1, <4>2
    <3> QED BY <3>1 DEF PhaseIsOver
  <2> QED BY <2>6, <2>7, <2>8
<1>7. ASSUME NoCohort
      PROVE  PassedAreResolved' /\ WallsAreDue' /\ PhaseIsOver'
  <2>1. PassedAreResolved' /\ PhaseIsOver'
    BY <1>7 DEF NoCohort, PassedAreResolved, PhaseIsOver
  <2>2. campaign'.type # "subscription_enrichment" => campaign.type # "subscription_enrichment"
    BY <1>7 DEF NoCohort
  <2>3. WallsAreDue'
    BY <1>1, <1>7, <2>2 DEF NoCohort, WallsAreDue, Resolution
  <2> QED BY <2>1, <2>3
<1>8. ASSUME CommunityCohort
      PROVE  PassedAreResolved' /\ WallsAreDue' /\ PhaseIsOver'
  <2>1. Unresolved' = Unresolved
    BY <1>2, <1>8 DEF CommunityCohort, Unresolved, Structure, RowTypes
  <2>2. \A u \in Users : u \in Items
    BY DEF Items
  <2>3. PassedAreResolved'
    <3>1. ASSUME NEW u \in Unresolved, u <= campaign.cursor PROVE job'[u].run # 0
      <4>1. job[u].run # 0 /\ u \in Items
        BY <2>2, <3>1 DEF Resolution, PassedAreResolved, Unresolved, Structure, RowTypes
      <4> QED BY <1>8, <4>1 DEF CommunityCohort
    <3> QED BY <1>8, <2>1, <3>1 DEF PassedAreResolved, CommunityCohort
  <2>4. WallsAreDue' /\ PhaseIsOver'
    BY <1>8, <2>1 DEF WallsAreDue, PhaseIsOver, CommunityCohort, Resolution
  <2> QED BY <2>3, <2>4
<1> QED BY <1>3, <1>5, <1>6, <1>7, <1>8 DEF Resolution

LEMMA ResolutionQuiet ==
  ASSUME Structure, Resolution, QuietStep, WorkStep
  PROVE  Resolution'
<1>0. /\ snapshot' = snapshot /\ snapshot \subseteq Users
      /\ campaign'.type = campaign.type /\ campaign'.cursor = campaign.cursor
      /\ \A i \in Items : job'[i].run = job[i].run
      /\ \A u \in Users : u \in Items
      /\ \A u \in Users : UserWork(u)
      /\ \A u \in tasks : job[u].run # 0
  BY DEF QuietStep, CampaignStep, JobStep, WorkStep, Structure, RowTypes, WorkTypes, Items
<1>1. StoredIsResolved'
  <2>1. ASSUME NEW u \in Users
        PROVE  IF u \in collected'
               THEN Resolved(u)'
               ELSE ~user'[u].terminal /\ (user'[u].success => u \in CollectedBefore)
    <3>1. IF u \in collected
          THEN Resolved(u)
          ELSE ~user[u].terminal /\ (user[u].success => u \in CollectedBefore)
      BY DEF Resolution, StoredIsResolved
    <3> QED BY <1>0, <3>1 DEF UserWork, Resolved
  <2> QED BY <2>1 DEF StoredIsResolved
<1>2. DoneIsStored'
  <2>1. \A u \in Users : u \in collected => u \in collected'
    BY <1>0 DEF UserWork
  <2>2. collected \subseteq Users
    BY DEF Structure, RowTypes
  <2>3. ASSUME NEW i \in Items, job'[i].status = "done"
        PROVE  i \in collected \/ i \in Communities \ stale
    BY <2>3 DEF WorkStep, JobWork, Resolution, DoneIsStored
  <2>4. stale' \subseteq stale
    BY DEF WorkStep
  <2> QED BY <2>1, <2>2, <2>3, <2>4 DEF DoneIsStored
<1>3. CancelledBySupersede'
  BY DEF WorkStep, JobWork, Resolution, CancelledBySupersede
<1>4. PassedAreResolved'
  <2>1. ASSUME NEW u \in Unresolved', u <= campaign.cursor PROVE job[u].run # 0
    <3>1. u \in Users /\ u \in snapshot /\ ~Resolved(u)'
      BY <1>0 DEF Unresolved
    <3>2. CASE u \in tasks
      BY <1>0, <3>2
    <3>3. CASE u \notin tasks
      <4>1. user'[u] = user[u]
        BY <1>0, <3>1, <3>3 DEF UserWork
      <4>2. u \in Unresolved
        BY <3>1, <4>1 DEF Unresolved, Resolved
      <4> QED BY <2>1, <4>2 DEF Resolution, PassedAreResolved
    <3> QED BY <3>2, <3>3
  <2>2. \A u \in Unresolved' : u \in Items
    BY <1>0 DEF Unresolved
  <2> QED BY <1>0, <2>1, <2>2 DEF PassedAreResolved
<1>5. WallsAreDue'
  <2> SUFFICES ASSUME campaign.type # "subscription_enrichment" PROVE WallsAreDue'
    BY <1>0 DEF WallsAreDue
  <2>1. /\ \A u \in Users : user[u].sched => user[u].success \/ user[u].terminal
        /\ \A u \in Users : job[u].run # 0 /\ u \notin collected => ~user[u].sched
    BY DEF Resolution, WallsAreDue
  <2>2. ASSUME NEW u \in Users
        PROVE  /\ user'[u].sched => user'[u].success \/ user'[u].terminal
               /\ job'[u].run # 0 /\ u \notin collected' => ~user'[u].sched
    BY <1>0, <2>1 DEF UserWork, Resolved
  <2> QED BY <2>2 DEF WallsAreDue
<1>6. PhaseIsOver'
  <2> SUFFICES ASSUME campaign'.phase \in {"subscription_metadata", "completed"}
               PROVE  Unresolved' = {}
    BY DEF PhaseIsOver
  <2>1. Unresolved = {}
    <3>1. CASE campaign'.phase = campaign.phase
      BY <3>1 DEF Resolution, PhaseIsOver
    <3>2. CASE Decided
      <4>1. CASE \/ campaign.type = "user_posts_enrichment" /\ Unresolved = {}
                 \/ campaign.phase = "subscription_metadata"
        BY <4>1 DEF Resolution, PhaseIsOver
      <4>2. CASE campaign' \in {campaign, Paused(campaign), [campaign EXCEPT !.status = "running"],
                               Failed(campaign)}
        <5>1. campaign'.phase = campaign.phase
          BY <4>2 DEF Paused, Failed, Structure, RowTypes, CampaignRow
        <5> QED BY <3>1, <5>1
      <4> QED BY <3>2, <4>1, <4>2 DEF Decided
    <3> QED BY <3>1, <3>2 DEF WorkStep
  <2>2. ASSUME NEW u \in snapshot PROVE Resolved(u)'
    <3>1. u \in Users /\ Resolved(u)
      BY <1>0, <2>1 DEF Unresolved
    <3>2. CASE user'[u] = user[u]
      BY <3>1, <3>2 DEF Resolved
    <3>3. CASE /\ u \in tasks /\ u \notin collected
               /\ ~user'[u].terminal /\ user'[u].success = user[u].success
               /\ campaign.type = "subscription_enrichment" <=> user'[u].sched
      <4>1. ~user[u].terminal /\ user[u].sched /\ user[u].success
        BY <3>1, <3>3 DEF Resolution, StoredIsResolved, Resolved
      <4>2. campaign.type = "subscription_enrichment"
        BY <1>0, <3>1, <3>3, <4>1 DEF Resolution, WallsAreDue
      <4> QED BY <3>3, <4>1, <4>2 DEF Resolved
    <3> QED BY <1>0, <3>1, <3>2, <3>3 DEF UserWork
  <2> QED BY <1>0, <2>2 DEF Unresolved
<1> QED BY <1>1, <1>2, <1>3, <1>4, <1>5, <1>6 DEF Resolution

LEMMA ResolutionInvariant == Spec => []Resolution
<1>1. Structure /\ Resolution /\ [Next]_vars => Resolution'
  BY StepKinds, ResolutionPlanned, ResolutionQuiet
<1> QED BY <1>1, ResolutionInit, StructureInvariant, PTL DEF Spec

(* Nobody is left behind: the cursor passes an unresolved user only with a  *)
(* job for them, a job is done only when its user is stored, and what is    *)
(* stored stays resolved; so an unresolved user the cursor has passed has a *)
(* job that will be tried, has failed, or was cancelled with the campaign.  *)
THEOREM NobodyLeftBehind == Spec => []NoUserLeftBehind
<1>1. Structure /\ Resolution => NoUserLeftBehind
  <2> SUFFICES ASSUME Structure, Resolution PROVE NoUserLeftBehind
    OBVIOUS
  <2>1. ASSUME NEW u \in Unresolved, u <= campaign.cursor
        PROVE  \/ job[u].status \in ActiveJob \cup {"failed"}
               \/ "supersede" \in happened /\ job[u].status = "cancelled"
    <3>1. u \in Users /\ u \in Items /\ u \notin Communities /\ ~Resolved(u)
      BY UserOrCommunity DEF Unresolved, Structure, RowTypes, Items
    <3>2. job[u].status # "none" /\ job[u].status \in JobStatus
      BY <2>1, <3>1 DEF Resolution, PassedAreResolved, Structure, JobTypes, RowTypes, JobRow
    <3>3. job[u].status # "done"
      BY <3>1 DEF Resolution, DoneIsStored, StoredIsResolved
    <3>4. job[u].status = "cancelled" => "supersede" \in happened
      BY <3>1 DEF Resolution, CancelledBySupersede
    <3> QED BY <3>2, <3>3, <3>4 DEF JobStatus
  <2> QED BY <2>1 DEF NoUserLeftBehind
<1> QED BY <1>1, StructureInvariant, ResolutionInvariant, PTL

-----------------------------------------------------------------------------
(* A completed campaign is complete.                                        *)

LEMMA CleanInit == Init => CleanInv
<1> SUFFICES ASSUME Init PROVE CleanInv
  OBVIOUS
<1>1. \A i \in Items : job[i].status = "none" /\ job[i].run = 0
  BY DEF Init
<1>2. campaign.type = "none" /\ reading = "idle"
  BY DEF Init
<1> QED BY <1>1, <1>2 DEF CleanInv, NoneInBetween

(* Before there is a campaign there are no jobs.                            *)
LEMMA NoJobsYet ==
  ASSUME Structure, campaign.type = "none"
  PROVE  \A i \in Items : job[i].run = 0 /\ job[i].status = "none"
<1>1. Len(run) = 0
  BY DEF Structure, PhaseOfType
<1> QED BY <1>1 DEF Structure, RowTypes, JobTypes, JobRow

LEMMA CleanPlanned ==
  ASSUME Structure, Resolution, CleanInv, UserCohort \/ NoCohort \/ CommunityCohort, Clean'
  PROVE  CleanInv'
<1>0. /\ UNCHANGED <<user, collected, stale, happened>> /\ reading' = "idle"
      /\ \A u \in Users : u \in Items /\ (Resolved(u)' <=> Resolved(u))
  BY DEF UserCohort, NoCohort, CommunityCohort, dataVars, userVars, Resolved, Items
<1>1. Clean
  BY <1>0 DEF Clean
<1>2. /\ \A i \in Items : job[i].status \notin {"retry_wait", "failed"}
      /\ NoneInBetween
  BY <1>1 DEF CleanInv
<1>3. campaign.type = "none" => \A i \in Items : job[i].run = 0 /\ job[i].status = "none"
  BY NoJobsYet
<1>4. CASE UserCohort
  <2>1. PICK ids \in SUBSET Users :
          /\ ids # {} /\ ids \subseteq Unresolved'
          /\ \A i \in Items : job'[i] = IF i \in ids THEN [status |-> "pending", run |-> Len(run) + 1]
                                        ELSE job[i]
    BY <1>4 DEF UserCohort
  <2>2. \/ campaign.type # "none" /\ campaign'.type = campaign.type /\ campaign'.phase = campaign.phase
        \/ campaign.type = "none" /\ campaign'.phase \in {"subscription_discovery", "user_posts"}
    BY <1>4 DEF UserCohort
  <2>3. campaign'.phase \notin {"subscription_metadata", "completed"}
    <3>1. ASSUME campaign.type # "none" PROVE Unresolved' = Unresolved
      BY <1>0, <1>4, <3>1 DEF UserCohort, Unresolved, Structure, RowTypes
    <3> QED BY <2>1, <2>2, <3>1 DEF Resolution, PhaseIsOver
  <2>4. ASSUME NEW i \in Items
        PROVE  /\ job'[i].status \notin {"retry_wait", "failed"}
               /\ job'[i].status = "cancelled" => job[i].status = "cancelled"
    BY <1>2, <2>1
  <2>5. ASSUME campaign'.type = "subscription_enrichment", NEW u \in Users,
               job'[u].run # 0, u \notin collected'
        PROVE  ~Resolved(u)'
    <3>1. CASE u \in ids
      BY <2>1, <3>1 DEF Unresolved
    <3>2. CASE u \notin ids
      <4>1. job[u].run # 0
        BY <1>0, <2>1, <2>5, <3>2
      <4>2. campaign.type = "subscription_enrichment"
        BY <1>0, <1>3, <2>2, <2>5, <4>1
      <4> QED BY <1>0, <1>2, <2>5, <4>1, <4>2 DEF NoneInBetween
    <3> QED BY <3>1, <3>2
  <2>6. campaign'.type = "subscription_enrichment" /\ (\E i \in Items : job'[i].status = "cancelled")
          => campaign'.phase \in {"cancelled", "failed"}
    BY <1>2, <1>3, <2>2, <2>4 DEF NoneInBetween
  <2>7. NoneInBetween'
    BY <2>3, <2>5, <2>6 DEF NoneInBetween
  <2> QED BY <1>0, <2>4, <2>7 DEF CleanInv
<1>5. CASE NoCohort
  <2>1. /\ job' = job /\ campaign.phase \in {"none", "subscription_discovery"}
        /\ campaign.type = "none" \/ campaign'.type = campaign.type
    BY <1>5 DEF NoCohort
  <2> SUFFICES ASSUME campaign'.type = "subscription_enrichment" PROVE NoneInBetween'
    BY <1>0, <1>2, <2>1 DEF CleanInv, NoneInBetween
  <2>2. ASSUME NEW u \in Users, job[u].run # 0, u \notin collected PROVE ~Resolved(u)
    <3>1. campaign.type = "subscription_enrichment"
      BY <1>0, <1>3, <2>1, <2>2
    <3> QED BY <1>2, <2>2, <3>1 DEF NoneInBetween
  <2>3. \A i \in Items : job[i].status # "cancelled"
    BY <1>2, <1>3, <2>1 DEF NoneInBetween
  <2>4. CASE campaign'.phase = "completed"
    <3>1. Due(snapshot)' = {}
      BY <1>5, <2>4 DEF NoCohort
    <3> QED BY <1>0, <2>1, <2>2, <2>3, <3>1 DEF NoneInBetween
  <2>5. CASE campaign'.phase = "subscription_metadata" /\ campaign'.metaCursor = 0
    <3>1. \A i \in Due(snapshot)' : ~(i <= 0)
      <4>1. \A i \in stale : ~(i <= 0)
        BY UserOrCommunity DEF Structure, RowTypes
      <4> QED BY <1>0, <4>1 DEF Due
    <3> QED BY <1>0, <2>1, <2>2, <2>3, <2>5, <3>1 DEF NoneInBetween
  <2> QED BY <1>5, <2>4, <2>5 DEF NoCohort
<1>6. CASE CommunityCohort
  <2>1. PICK ids \in SUBSET Due(snapshot), r \in Nat \ {0} :
          /\ \A i \in Items : job'[i] = IF i \in ids THEN [status |-> "pending", run |-> r] ELSE job[i]
          /\ \A i \in Due(snapshot) : i <= campaign'.metaCursor => i \in ids \/ i <= campaign.metaCursor
    BY <1>6 DEF CommunityCohort
  <2>2. /\ campaign.type = "subscription_enrichment" /\ campaign'.phase = campaign.phase
        /\ snapshot' = snapshot
    BY <1>6 DEF CommunityCohort
  <2>3. /\ Due(snapshot)' = Due(snapshot)
        /\ \A u \in Users : u \notin ids
        /\ \A i \in Due(snapshot) : i \in Items
    BY <1>0, <2>1, <2>2, DueFacts, UserOrCommunity DEF Due, Items
  <2>4. ASSUME NEW i \in Items
        PROVE  /\ job'[i].status \notin {"retry_wait", "failed"}
               /\ job'[i].status = "cancelled" => job[i].status = "cancelled"
               /\ job[i].status \in Immediate \cup {"cancelled"} =>
                    job'[i].status \in Immediate \cup {"cancelled"}
               /\ i \in ids => job'[i].status = "pending"
    BY <1>2, <2>1 DEF Immediate
  <2>5. ASSUME NEW u \in Users, job'[u].run # 0, u \notin collected' PROVE ~Resolved(u)'
    <3>1. job'[u] = job[u]
      BY <1>0, <2>1, <2>3
    <3> QED BY <1>0, <1>2, <2>2, <2>5, <3>1 DEF NoneInBetween
  <2>6. ASSUME campaign'.phase \in {"subscription_metadata", "completed"},
               NEW i \in Due(snapshot), i <= campaign'.metaCursor
        PROVE  job'[i].status \in Immediate \cup {"cancelled"}
    <3>1. CASE i \in ids
      BY <2>3, <2>4, <3>1 DEF Immediate
    <3>2. CASE i <= campaign.metaCursor
      <4>1. job[i].status \in Immediate \cup {"cancelled"}
        BY <1>2, <2>2, <2>6, <3>2 DEF NoneInBetween
      <4> QED BY <2>3, <2>4, <4>1
    <3> QED BY <2>1, <2>6, <3>1, <3>2
  <2>7. campaign'.phase = "completed" => Due(snapshot) = {}
    BY <1>2, <2>2 DEF NoneInBetween
  <2>8. (\E i \in Items : job'[i].status = "cancelled") => campaign'.phase \in {"cancelled", "failed"}
    BY <1>2, <2>2, <2>4 DEF NoneInBetween
  <2>9. NoneInBetween'
    BY <2>3, <2>5, <2>6, <2>7, <2>8 DEF NoneInBetween
  <2> QED BY <1>0, <2>4, <2>9 DEF CleanInv
<1> QED BY <1>4, <1>5, <1>6

(* A reconcile that plans nothing ends a subscription campaign only when    *)
(* there is nothing more to describe.                                       *)
LEMMA QuietPhase ==
  ASSUME Structure, WorkStep, campaign.type = "subscription_enrichment"
  PROVE  \/ campaign'.phase \in {campaign.phase, "failed", "cancelled"}
         \/ /\ campaign'.phase = "completed" /\ campaign.phase = "subscription_metadata"
            /\ reading = "noWork" /\ MetadataCohort(campaign) = {}
<1>1. CASE Decided
  <2>1. CASE campaign' \in {campaign, Paused(campaign), [campaign EXCEPT !.status = "running"],
                            Failed(campaign)}
    BY <2>1 DEF Paused, Failed, Structure, RowTypes, CampaignRow
  <2>2. CASE /\ campaign' = Completed(campaign) /\ campaign.phase = "subscription_metadata"
             /\ MetadataCohort(campaign) = {}
    BY <1>1, <2>2 DEF Completed, Structure, RowTypes, CampaignRow, Decided
  <2> QED BY <1>1, <2>1, <2>2 DEF Decided
<1> QED BY <1>1 DEF WorkStep

(* When nothing is due beyond the cursor, and no job is ready, nothing is   *)
(* due.                                                                     *)
LEMMA NothingDue ==
  ASSUME Structure, CleanInv, Clean, campaign.type = "subscription_enrichment",
         campaign.phase = "subscription_metadata",
         reading = "noWork", MetadataCohort(campaign) = {}
  PROVE  Due(snapshot) = {}
<1>1. After(Due(snapshot), campaign.metaCursor) = {}
  BY DueFacts, CohortFacts DEF MetadataCohort
<1>2. ASSUME NEW i \in Due(snapshot) PROVE FALSE
  <2>1. i \in Items /\ i \in Int /\ campaign.metaCursor \in Int
    <3>1. i \in Items
      BY <1>2, DueFacts DEF Items
    <3> QED BY <3>1, UserOrCommunity DEF Structure, RowTypes, CampaignRow
  <2>2. i <= campaign.metaCursor
    BY <1>1, <1>2, <2>1 DEF After
  <2>3. /\ job[i].status \in Immediate \cup {"cancelled"}
        /\ job[i].status # "cancelled"
    BY <1>2, <2>1, <2>2 DEF CleanInv, NoneInBetween
  <2> QED BY <2>1, <2>3 DEF CleanInv, HasJob
<1> QED BY <1>2

LEMMA CleanQuiet ==
  ASSUME Structure, Resolution, CleanInv, QuietStep, WorkStep, Clean'
  PROVE  CleanInv'
<1>1. Clean /\ happened' \cap Errors = {}
  BY DEF WorkStep, Clean, Errors
<1>2. /\ \A i \in Items : job[i].status \notin {"retry_wait", "failed"}
      /\ NoneInBetween
      /\ reading = "noWork" => ~HasJob(Immediate)
  BY <1>1 DEF CleanInv
<1>3. /\ snapshot' = snapshot /\ snapshot \subseteq Users
      /\ campaign'.type = campaign.type /\ campaign'.metaCursor = campaign.metaCursor
      /\ \A i \in Items : /\ job'[i].run = job[i].run /\ job'[i].status \in JobStatus
                          /\ job'[i].status = "none" <=> job[i].status = "none"
      /\ \A u \in Users : u \in Items
      /\ \A u \in tasks : job[u].run # 0
      /\ \A i \in Items : JobWork(i)
      /\ \A u \in Users : UserWork(u)
  BY DEF QuietStep, CampaignStep, JobStep, WorkStep, Structure, RowTypes, WorkTypes, Items, JobRow
<1>4. ASSUME NEW i \in Items PROVE job'[i].status \notin {"retry_wait", "failed"}
  BY <1>1, <1>2, <1>3 DEF JobWork
<1>5. ASSUME reading' = "noWork" PROVE ~HasJob(Immediate)'
  <2>1. ASSUME NEW i \in Items, job'[i].status \in Immediate PROVE FALSE
    BY <1>2, <1>3, <1>5, <2>1 DEF JobWork, HasJob
  <2> QED BY <2>1 DEF HasJob
<1>6. ASSUME campaign.type = "subscription_enrichment" PROVE NoneInBetween'
  <2>1. ASSUME NEW u \in Users
        PROVE  /\ u \in tasks /\ u \notin collected => ~Resolved(u)
               /\ \/ user'[u] = user[u] /\ (u \in collected' <=> u \in collected)
                  \/ u \in tasks /\ u \notin collected /\ u \in collected'
    BY <1>1, <1>2, <1>3, <1>6 DEF NoneInBetween, UserWork
  <2>2. ASSUME NEW u \in Users, job'[u].run # 0, u \notin collected' PROVE ~Resolved(u)'
    BY <1>2, <1>3, <1>6, <2>1, <2>2 DEF NoneInBetween, Resolved
  <2>3. ASSUME campaign.phase \in {"subscription_metadata", "completed"}
        PROVE  Due(snapshot)' \subseteq Due(snapshot)
    <3>1. ASSUME NEW v \in snapshot PROVE user'[v] = user[v]
      <4>1. Resolved(v) /\ v \in Users
        BY <1>3, <2>3 DEF Resolution, PhaseIsOver, Unresolved
      <4> QED BY <2>1, <4>1
    <3> QED BY <1>3, <3>1 DEF Due, WorkStep
  <2>4. ASSUME campaign'.phase \in {"subscription_metadata", "completed"}
        PROVE  campaign.phase \in {"subscription_metadata", "completed"}
    BY <1>6, <2>4, QuietPhase
  <2>5. ASSUME campaign'.phase \in {"subscription_metadata", "completed"},
               NEW i \in Due(snapshot)', i <= campaign.metaCursor
        PROVE  job'[i].status \in Immediate \cup {"cancelled"}
    <3>1. i \in Due(snapshot) /\ i \in Items /\ i \in stale /\ i \notin collected
      BY <2>3, <2>4, <2>5, DueFacts, UserOrCommunity DEF Structure, RowTypes, Items
    <3>2. job[i].status \in Immediate \cup {"cancelled"}
      BY <1>2, <1>6, <2>4, <2>5, <3>1 DEF NoneInBetween
    <3>3. job'[i].status # "done" /\ job'[i].status # "none"
      BY <1>3, <3>1, <3>2 DEF JobWork, Immediate
    <3> QED BY <1>3, <1>4, <3>1, <3>3 DEF JobStatus, ActiveJob
  <2>6. ASSUME campaign'.phase = "completed" PROVE Due(snapshot)' = {}
    <3>1. Due(snapshot) = {}
      BY <1>1, <1>2, <1>6, <2>6, QuietPhase, NothingDue DEF NoneInBetween
    <3> QED BY <2>3, <2>4, <2>6, <3>1
  <2>7. ASSUME NEW i \in Items, job'[i].status = "cancelled"
        PROVE  campaign'.phase \in {"cancelled", "failed"}
    BY <1>2, <1>3, <1>6, <2>7, QuietPhase DEF JobWork, NoneInBetween
  <2> QED BY <1>3, <2>2, <2>5, <2>6, <2>7 DEF NoneInBetween
<1>7. NoneInBetween'
  BY <1>3, <1>6 DEF NoneInBetween
<1> QED BY <1>4, <1>5, <1>7 DEF CleanInv

LEMMA CleanInvariant == Spec => []CleanInv
<1>1. Structure /\ Resolution /\ CleanInv /\ [Next]_vars => CleanInv'
  <2> SUFFICES ASSUME Structure, Resolution, CleanInv, [Next]_vars, Clean' PROVE CleanInv'
    BY DEF CleanInv
  <2> QED BY StepKinds, CleanPlanned, CleanQuiet
<1> QED BY <1>1, CleanInit, StructureInvariant, ResolutionInvariant, PTL DEF Spec

(* The inductive invariant, which TLC checks on small instances.            *)
LEMMA InductiveInvariant == Spec => []IInv
BY StructureInvariant, ResolutionInvariant, CleanInvariant, PTL DEF IInv

(* A campaign is completed only when every user of its snapshot is resolved *)
(* and, unless a job failed or was put off, every community they subscribe  *)
(* to is described; and no retry, wall or error that comes after makes a    *)
(* completed campaign incomplete.                                           *)
THEOREM CompletedStaysComplete == Spec => []CompletedIsComplete
<1>1. Resolution /\ CleanInv => CompletedIsComplete
  BY DEF CompletedIsComplete, Resolution, PhaseIsOver, CleanInv, Clean, NoneInBetween
<1> QED BY <1>1, ResolutionInvariant, CleanInvariant, PTL

-----------------------------------------------------------------------------
(* The lifecycle.                                                           *)

LEMMA StageOf ==
  ASSUME campaign.phase \in Phases
  PROVE  /\ campaign.phase = "none" <=> stage = "absent"
         /\ campaign.phase \in {"subscription_discovery", "user_posts"} => stage = "collecting"
         /\ campaign.phase = "subscription_metadata" =>
              stage = IF campaign.gate = "passed" THEN "describing" ELSE "gated"
         /\ campaign.phase = "completed" => stage = "done"
         /\ campaign.phase \in {"failed", "cancelled"} => stage = campaign.phase
BY DEF stage, Phases

LEMMA StageOfNext ==
  ASSUME campaign'.phase \in Phases
  PROVE  /\ campaign'.phase = "none" <=> stage' = "absent"
         /\ campaign'.phase \in {"subscription_discovery", "user_posts"} => stage' = "collecting"
         /\ campaign'.phase = "subscription_metadata" =>
              stage' = IF campaign'.gate = "passed" THEN "describing" ELSE "gated"
         /\ campaign'.phase = "completed" => stage' = "done"
         /\ campaign'.phase \in {"failed", "cancelled"} => stage' = campaign'.phase
BY DEF stage, Phases

(* The phase alone decides about the stage, unless a gate is passed.        *)
LEMMA StageKept ==
  ASSUME campaign.phase \in Phases,
         campaign'.phase = campaign.phase, campaign'.gate \in {campaign.gate, "passed"}
  PROVE  Lifecycle!Collect \/ Lifecycle!Describe
<1>1. CASE campaign'.gate = campaign.gate \/ campaign.phase # "subscription_metadata"
  BY <1>1 DEF stage, Lifecycle!Collect
<1>2. CASE campaign'.gate = "passed" /\ campaign.phase = "subscription_metadata"
  BY <1>2, StageOf, StageOfNext DEF Lifecycle!Collect, Lifecycle!Describe
<1> QED BY <1>1, <1>2

(* Whoever no campaign has collected is not resolved, whatever errors and   *)
(* retries have written.                                                    *)
LEMMA OpenIsUnresolved ==
  /\ Structure /\ Resolution => Open = Unresolved
  /\ Structure' /\ Resolution' => Open' = Unresolved'
<1>1. ASSUME Structure, Resolution PROVE Open = Unresolved
  <2>1. ASSUME NEW u \in snapshot, u \notin CollectedBefore \cup collected PROVE ~Resolved(u)
    BY <1>1, <2>1 DEF Resolved, Resolution, StoredIsResolved, Structure, RowTypes
  <2> QED BY <2>1 DEF Open, Unresolved
<1>2. ASSUME Structure', Resolution' PROVE Open' = Unresolved'
  <2>1. ASSUME NEW u \in snapshot', u \notin CollectedBefore \cup collected' PROVE ~Resolved(u)'
    BY <1>2, <2>1 DEF Resolved, Resolution, StoredIsResolved, Structure, RowTypes
  <2> QED BY <2>1 DEF Open, Unresolved
<1> QED BY <1>1, <1>2

LEMMA LifecyclePlanned ==
  ASSUME Structure, Structure', Open = Unresolved, Open' = Unresolved',
         UserCohort \/ NoCohort \/ CommunityCohort
  PROVE  Lifecycle!Next
<1>0. campaign.phase \in Phases /\ campaign'.phase \in Phases
  BY DEF Structure, RowTypes, CampaignRow
<1>1. campaign.type = "none" => campaign.phase = "none"
  BY DEF Structure, PhaseOfType
<1>2. CASE UserCohort
  <2>1. CASE campaign.type = "none" /\ campaign'.phase \in {"subscription_discovery", "user_posts"}
    BY <1>0, <1>1, <2>1, StageOf, StageOfNext DEF Lifecycle!Next, Lifecycle!Plan
  <2>2. CASE campaign'.phase = campaign.phase /\ campaign'.gate = campaign.gate
    BY <1>0, <2>2, StageKept DEF Lifecycle!Next
  <2> QED BY <1>2, <2>1, <2>2 DEF UserCohort
<1>3. CASE NoCohort
  <2>1. stage' \in {"gated", "done"} /\ Unresolved' = {}
    BY <1>0, <1>3, StageOfNext DEF NoCohort
  <2>2. CASE campaign.phase = "none"
    BY <1>0, <2>1, <2>2, StageOf DEF Lifecycle!Next, Lifecycle!Plan
  <2>3. CASE campaign.phase = "subscription_discovery"
    <3>1. snapshot' = snapshot /\ user' = user
      BY <1>1, <1>3, <2>3 DEF NoCohort, dataVars, userVars
    <3>2. Unresolved = {}
      BY <2>1, <3>1 DEF Unresolved, Resolved
    <3> QED BY <1>0, <2>1, <2>3, <3>2, StageOf DEF Lifecycle!Next, Lifecycle!Collected
  <2> QED BY <1>3, <2>2, <2>3 DEF NoCohort
<1>4. CASE CommunityCohort
  BY <1>0, <1>4, StageKept DEF CommunityCohort, Lifecycle!Next
<1> QED BY <1>2, <1>3, <1>4

LEMMA LifecycleQuiet ==
  ASSUME Structure, Structure', Open = Unresolved, Open' = Unresolved', QuietStep, WorkStep
  PROVE  Lifecycle!Next
<1>0. campaign.phase \in Phases /\ campaign'.phase \in Phases
  BY DEF Structure, RowTypes, CampaignRow
<1>1. CASE campaign'.phase = campaign.phase
  BY <1>0, <1>1, StageKept DEF QuietStep, CampaignStep, Lifecycle!Next
<1>2. CASE campaign'.phase \in {"failed", "cancelled"} /\ campaign'.phase # campaign.phase
  <2>1. campaign.phase # "none"
    BY <1>2 DEF QuietStep, CampaignStep, Structure, PhaseOfType, RowTypes, CampaignRow, Types
  <2> QED BY <1>0, <1>2, <2>1, StageOf, StageOfNext DEF Lifecycle!Next, Lifecycle!Stop
<1>3. CASE Decided /\ campaign'.phase # campaign.phase
  <2>1. CASE campaign' \in {campaign, Paused(campaign), [campaign EXCEPT !.status = "running"],
                            Failed(campaign)}
    BY <1>2, <1>3, <2>1 DEF Paused, Failed, Structure, RowTypes, CampaignRow
  <2>2. CASE campaign' = Completed(campaign)
    <3>1. campaign'.phase = "completed" /\ stage' = "done"
      BY <1>0, <2>2, StageOfNext DEF Completed, Structure, RowTypes, CampaignRow
    <3>2. CASE campaign.type = "user_posts_enrichment" /\ Unresolved = {}
      <4>1. campaign.phase \in {"user_posts", "failed", "cancelled"}
        BY <1>3, <3>1, <3>2 DEF Structure, PhaseOfType
      <4> QED BY <1>0, <3>1, <3>2, <4>1, StageOf
              DEF Lifecycle!Next, Lifecycle!Collected, Lifecycle!Revived
    <3>3. CASE campaign.phase = "subscription_metadata" /\ campaign.gate = "passed"
      BY <1>0, <3>1, <3>3, StageOf DEF Lifecycle!Next, Lifecycle!Finished
    <3>4. CASE campaign' \in {campaign, Paused(campaign), [campaign EXCEPT !.status = "running"],
                              Failed(campaign)}
      BY <2>1, <3>4
    <3> QED BY <1>3, <2>2, <3>2, <3>3, <3>4 DEF Decided
  <2> QED BY <1>3, <2>1, <2>2 DEF Decided
<1> QED BY <1>1, <1>2, <1>3 DEF WorkStep

(* A campaign of either kind is a CampaignLifecycle: collecting is not over *)
(* while a user is unresolved or has never been collected, whatever retries *)
(* wait (an old answer of an earlier campaign counts, see Open); metadata   *)
(* is not described before its gate is passed; and a campaign once planned  *)
(* is never without a stage.                                                *)
THEOREM RefinesLifecycle == Spec => LifecycleKept
<1>1. Init => Lifecycle!Init
  BY StageOf DEF Phases, Init, Lifecycle!Init, Unresolved, Open
<1>2. Structure /\ Structure' /\ Resolution /\ Resolution' /\ [Next]_vars
        => [Lifecycle!Next]_<<stage, Open>>
  BY StepKinds, OpenIsUnresolved, LifecyclePlanned, LifecycleQuiet
<1> QED BY <1>1, <1>2, StructureInvariant, ResolutionInvariant, PTL
        DEF Spec, LifecycleKept, Lifecycle!Spec
=============================================================================
