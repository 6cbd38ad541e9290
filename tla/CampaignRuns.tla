---------------------------- MODULE CampaignRuns ----------------------------
(***************************************************************************)
(* What the two campaign managers have in common: one campaign, its users  *)
(* and communities, its runs with their jobs, the service process that     *)
(* drains them, and the operators.  A run's queue is CollectionQueue seen  *)
(* from a distance: attempts, leases and parked jobs are left out.         *)
(*                                                                         *)
(* Every step is one transaction.  reconcile keeps the campaign's row      *)
(* locked and reads the jobs of the campaign, which it does not lock, in   *)
(* statement after statement, so it is split where they may change.        *)
(***************************************************************************)
EXTENDS Integers, Sequences, FiniteSets

CONSTANTS
  UserCount, CommunityCount,
  Links,            (* [Users -> SUBSET Communities], what VK says             *)
  CohortSize,
  CollectedBefore,  (* users some earlier campaign has collected              *)
  FreshBefore,      (* those of them whose data is still fresh                 *)
  Disturbances,     (* the kinds of disturbance that may happen                *)
  MaxDisturbances

Users       == 1 .. UserCount
Communities == {UserCount + n : n \in 1 .. CommunityCount}
Items       == Users \cup Communities

ASSUME CampaignAssumption ==
  /\ UserCount \in Nat \ {0} /\ CommunityCount \in Nat
  /\ Links \in [Users -> SUBSET Communities]
  /\ CohortSize \in Nat \ {0}
  /\ FreshBefore \subseteq CollectedBefore /\ CollectedBefore \subseteq Users
  /\ Disturbances \subseteq
       {"transient", "fatal", "defer", "disk", "room", "crash", "pause", "supersede"}
  /\ MaxDisturbances \in Nat

VARIABLES
  campaign,   (* its row: type, status, phase, cursors, metadata_capacity_gate *)
  snapshot,   (* collection_campaign_users                                     *)
  run,        (* collection_runs, in the order of creation: scope, status      *)
  job,        (* collection_jobs, one per user and per community               *)
  user,       (* the states of the users: last_success_at is set, terminal     *)
              (* reason, next_scheduled_at is after the snapshot               *)
  stale,      (* communities without fresh metadata                            *)
  room,       (* the database and the disk have room for what is left to do    *)
  tasks,      (* the jobs that tasks of the service process work on            *)
  draining,   (* the run it drains, 0: none                                    *)
  claiming,   (* it still claims jobs                                          *)
  asked,      (* somebody is about to reconcile                                *)
  reading,    (* where reconcile stands                                        *)
  renewing,   (* the run the control script applies a capacity gate to, 0: none *)
  collected,  (* history: users stored since the campaign was planned          *)
  happened, disturbed

userVars    == <<user, collected>>
dataVars    == <<userVars, stale>>
workVars    == <<tasks, draining, claiming>>
faultVars   == <<room, happened, disturbed>>
reconcileVars == <<asked, reading>>
vars == <<campaign, snapshot, run, job, dataVars, workVars, reconcileVars, renewing, faultVars>>

Active     == {"planned", "running", "paused", "waiting_method_limit", "paused_capacity_limit"}
Runnable   == {"planned", "running", "waiting_method_limit"}
Wakeable   == {"planned", "paused", "waiting_method_limit"}
Immediate  == {"pending", "running", "paused"}
ActiveJob  == Immediate \cup {"retry_wait"}
RunDone    == {"completed", "cancelled"}

NewRuns    == 1 .. Len(run)
JobsOf(r)  == {i \in Items : job[i].run = r}
HasJob(statuses) == \E i \in Items : job[i].status \in statuses

(* Faulty variant: whoever has a date for the next attempt is resolved.     *)
ResolvedBySchedule(u) == user[u].sched

(* Users a campaign has nothing to do for: an answer is stored, and the     *)
(* next attempt is due after the snapshot.  A transient error sets that     *)
(* date too, so the answer may be an old one.                               *)
Resolved(u) == user[u].sched /\ (user[u].success \/ user[u].terminal)
Unresolved  == {u \in snapshot : ~Resolved(u)}

(* The next ids of a cohort.                                                *)
FirstOf(S) == {i \in S : Cardinality({k \in S : k < i}) < CohortSize}
(* Faulty variant of Last: the cursor is set to the id after the cohort.    *)
LastAndOne(S) == CHOOSE i \in {k + 1 : k \in S} : \A k \in S : k < i
Last(S)    == CHOOSE i \in S : \A k \in S : k <= i
After(S, cursor) == {i \in S : i > cursor}

(* Faulty variant: the row is read without a lock.                          *)
CampaignUnlocked == TRUE

(* The control script stops the service process while it renews a gate.     *)
ServiceUp == renewing = 0
RunnableRuns == {r \in NewRuns : run[r].status \in Runnable}

(* The campaign's row is not locked by a reconcile in progress.             *)
CampaignFree == reading = "idle"

Disturb(kind) ==
  /\ kind \in Disturbances /\ disturbed < MaxDisturbances
  /\ happened' = happened \cup {kind}
  /\ disturbed' = disturbed + 1
Disturbed(kind) == Disturb(kind) /\ UNCHANGED room

Init ==
  /\ campaign = [type |-> "none", status |-> "absent", phase |-> "none",
                 cursor |-> 0, metaCursor |-> 0, gate |-> "none"]
  /\ snapshot = {}
  /\ run = <<>>
  /\ job = [i \in Items |-> [status |-> "none", run |-> 0]]
  /\ user = [u \in Users |-> [success |-> u \in CollectedBefore, terminal |-> FALSE,
                              sched |-> u \in FreshBefore]]
  /\ stale = Communities
  /\ room = TRUE
  /\ tasks = {} /\ draining = 0 /\ claiming = FALSE
  /\ asked = FALSE /\ reading = "idle" /\ renewing = 0
  /\ collected = {}
  /\ happened = {} /\ disturbed = 0

-----------------------------------------------------------------------------
(* What the managers write.                                                 *)

(* Faulty variant: the jobs get the id of the run before.                   *)
InsertRunOffByOne(scope, status, ids) ==
  /\ run' = Append(run, [scope |-> scope, status |-> status])
  /\ job' = [i \in Items |-> IF i \in ids
                             THEN [status |-> "pending", run |-> Len(run)] ELSE job[i]]

(* A cohort: a run and its jobs, in one transaction with the cursor.        *)
InsertRun(scope, status, ids) ==
  /\ run' = Append(run, [scope |-> scope, status |-> status])
  /\ job' = [i \in Items |-> IF i \in ids
                             THEN [status |-> "pending", run |-> Len(run) + 1]
                             ELSE job[i]]
NoNewRun == UNCHANGED <<run, job>>

Paused(c)    == [c EXCEPT !.status = "paused_capacity_limit"]
Failed(c)    == [c EXCEPT !.status = "failed", !.phase = "failed"]
Completed(c) == [c EXCEPT !.status = "completed", !.phase = "completed"]

-----------------------------------------------------------------------------
(* Reconcile, up to where the managers differ.                              *)

(* Failures, the capacity pause and the campaign's own status are looked at *)
(* first.                                                                   *)
ReconcileLook(concerned, mayResume) ==
  /\ asked /\ reading = "idle"
  /\ asked' = FALSE
  /\ LET c == IF campaign.status = "paused_capacity_limit" /\ mayResume
              THEN [campaign EXCEPT !.status = "running"]
              ELSE campaign
     IN IF concerned /\ HasJob({"failed"})
        THEN campaign' = Failed(campaign) /\ UNCHANGED reading
        ELSE IF concerned /\ c.status \in {"planned", "running"}
             THEN campaign' = c /\ reading' = "noFailures"
             ELSE UNCHANGED <<campaign, reading>>
  /\ NoNewRun
  /\ UNCHANGED <<snapshot, dataVars, workVars, renewing, faultVars>>

(* Then the jobs that are ready or at work.                                 *)
ReconcileCount ==
  /\ reading = "noFailures"
  /\ reading' = IF HasJob(Immediate) THEN "idle" ELSE "noWork"
  /\ NoNewRun
  /\ UNCHANGED <<campaign, snapshot, dataVars, workVars, asked, renewing, faultVars>>

(* reconcile_capacity_paused_campaigns, every minute.                       *)
Recheck ==
  /\ campaign.status = "paused_capacity_limit" /\ ~asked /\ ServiceUp
  /\ asked' = TRUE
  /\ UNCHANGED <<campaign, snapshot, run, job, dataVars, workVars, reading, renewing, faultVars>>

-----------------------------------------------------------------------------
(* The service process.                                                     *)

ListRun(r) ==
  /\ draining = 0 /\ r \in RunnableRuns /\ ServiceUp
  /\ draining' = r /\ claiming' = TRUE
  /\ UNCHANGED <<campaign, snapshot, run, job, dataVars, tasks, reconcileVars, renewing, faultVars>>

(* A claim wakes the run, and with it the campaign.                         *)
Claim(i) ==
  LET r == draining
  IN /\ r # 0 /\ claiming /\ ServiceUp /\ job[i].run = r
     /\ job[i].status \in {"pending", "retry_wait"}
     /\ job' = [job EXCEPT ![i].status = "running"]
     /\ tasks' = tasks \cup {i}
     /\ IF run[r].status \in Wakeable
        THEN /\ CampaignFree
             /\ run' = [run EXCEPT ![r].status = "running"]
             /\ campaign' = [campaign EXCEPT !.status = "running"]
        ELSE UNCHANGED <<run, campaign>>
     /\ UNCHANGED <<snapshot, dataVars, draining, claiming, reconcileVars, renewing, faultVars>>

(* set_run_status                                                           *)
SetRunStatus(r, status) ==
  /\ CampaignFree
  /\ run' = [run EXCEPT ![r].status = status]
  /\ campaign' = [campaign EXCEPT !.status = status]
  /\ job' = [i \in Items |->
       CASE job[i].run = r /\ job[i].status = "paused" /\ status = "running" ->
              [job[i] EXCEPT !.status = "pending"]
         [] job[i].run = r /\ job[i].status = "pending" /\ status = "paused" ->
              [job[i] EXCEPT !.status = "paused"]
         [] OTHER -> job[i]]

(* The disk is full, or the run's report or backup is no longer good: the   *)
(* run is parked.                                                           *)
DiskStop ==
  /\ draining # 0 /\ claiming
  /\ Disturbed("disk")
  /\ SetRunStatus(draining, "paused_capacity_limit")
  /\ claiming' = FALSE
  /\ UNCHANGED <<snapshot, dataVars, tasks, draining, reconcileVars, renewing>>

(* Nothing is ready, the quantum is used up, or the process is stopped.     *)
StopClaiming ==
  /\ draining # 0 /\ claiming
  /\ (tasks = {} /\ ServiceUp) => \A i \in JobsOf(draining) : job[i].status # "pending"
  /\ claiming' = FALSE
  /\ UNCHANGED <<campaign, snapshot, run, job, dataVars, tasks, draining, reconcileVars,
                 renewing, faultVars>>

(* refresh_run, once the tasks have ended.                                  *)
LeaveRun ==
  /\ draining # 0 /\ ~claiming /\ tasks \cap JobsOf(draining) = {}
  /\ LET statuses == {job[i].status : i \in JobsOf(draining)}
     IN \/ /\ statuses # {} /\ statuses \cap ActiveJob = {}
           /\ run' = [run EXCEPT ![draining].status = "completed"]
        \/ /\ run[draining].status = "waiting_method_limit" /\ "retry_wait" \in statuses
           /\ run' = [run EXCEPT ![draining].status = "running"]
        \/ /\ statuses = {} \/ statuses \cap ActiveJob # {}
           /\ UNCHANGED run
  /\ draining' = 0 /\ claiming' = FALSE
  /\ UNCHANGED <<campaign, snapshot, job, dataVars, tasks, reconcileVars, renewing, faultVars>>

(* The process dies and is started again: the leases of its jobs run out,   *)
(* and the campaigns of unfinished runs are reconciled.                     *)
Crash ==
  /\ Disturbed("crash")
  /\ job' = [i \in Items |-> IF job[i].status = "running"
                             THEN [job[i] EXCEPT !.status = "pending"] ELSE job[i]]
  /\ tasks' = {} /\ draining' = 0 /\ claiming' = FALSE
  /\ asked' = (ServiceUp /\ RunnableRuns # {})
  /\ reading' = "idle"
  /\ UNCHANGED <<campaign, snapshot, run, dataVars, renewing>>

-----------------------------------------------------------------------------
(* How a task ends.                                                         *)

(* queue.finish: the run is closed with its last job; the campaign is       *)
(* reconciled when nothing in the run is ready.                             *)
Finish(i, status) ==
  LET r    == job[i].run
      left == {job[k].status : k \in JobsOf(r) \ {i}} \cup {status}
  IN IF job[i].status \in {"done", "failed"}
     THEN tasks' = tasks \ {i} /\ UNCHANGED <<job, run, asked>>
     ELSE /\ job' = [job EXCEPT ![i].status = status]
          /\ tasks' = tasks \ {i}
          /\ run' = IF left \cap ActiveJob = {}
                    THEN [run EXCEPT ![r].status = "completed"] ELSE run
          /\ asked' = (asked \/ left \cap Immediate = {})

(* defer_method: without a token for its method the job waits, and so do    *)
(* its run and the campaign.                                                *)
Defer(i) ==
  /\ i \in tasks /\ CampaignFree
  /\ Disturbed("defer")
  /\ job' = [job EXCEPT ![i].status = "retry_wait"]
  /\ tasks' = tasks \ {i}
  /\ run' = [run EXCEPT ![job[i].run].status = "waiting_method_limit"]
  /\ campaign' = [campaign EXCEPT !.status = "waiting_method_limit"]
  /\ UNCHANGED <<snapshot, dataVars, draining, claiming, reconcileVars, renewing>>

(* A user's data is in the table: the job is completed, or skipped when     *)
(* another run has just collected them.                                     *)
Done(i) ==
  /\ i \in tasks /\ IF i \in Users THEN i \in collected ELSE i \notin stale
  /\ Finish(i, "done")
  /\ UNCHANGED <<campaign, snapshot, dataVars, draining, claiming, reading, renewing, faultVars>>

-----------------------------------------------------------------------------
(* Operators, and the disk.                                                 *)

(* change_status                                                            *)
ChangeStatus(status) ==
  LET from == IF status = "paused" THEN "pending" ELSE "paused"
      to   == IF status = "paused" THEN "paused" ELSE "pending"
  IN /\ campaign.status # "absent" /\ CampaignFree
     /\ campaign' = [campaign EXCEPT !.status = status]
     /\ run' = [r \in NewRuns |-> IF run[r].status \in Runnable \cup {"paused"}
                                  THEN [run[r] EXCEPT !.status = status] ELSE run[r]]
     /\ job' = [i \in Items |-> IF job[i].status = from
                                THEN [job[i] EXCEPT !.status = to] ELSE job[i]]
PauseCampaign ==
  /\ campaign.status \in Active \ {"paused"}
  /\ Disturbed("pause")
  /\ ChangeStatus("paused")
  /\ UNCHANGED <<snapshot, dataVars, workVars, reconcileVars, renewing>>

(* supersede_paused_capacity_campaigns                                      *)
Supersede ==
  /\ campaign.status = "paused_capacity_limit" /\ CampaignFree
  /\ Disturbed("supersede")
  /\ campaign' = [campaign EXCEPT !.status = "cancelled", !.phase = "cancelled"]
  /\ LET open == {r \in NewRuns : run[r].status \notin RunDone}
     IN /\ run' = [r \in NewRuns |-> IF r \in open
                                     THEN [run[r] EXCEPT !.status = "cancelled"] ELSE run[r]]
        /\ job' = [i \in Items |-> IF job[i].run \in open /\ job[i].status = "running"
                                   THEN [job[i] EXCEPT !.status = "cancelled"] ELSE job[i]]
  /\ UNCHANGED <<snapshot, dataVars, workVars, reconcileVars, renewing>>

RoomLost ==
  /\ room /\ Disturb("room")
  /\ room' = FALSE
  /\ UNCHANGED <<campaign, snapshot, run, job, dataVars, workVars, reconcileVars, renewing>>
RoomFound ==
  /\ ~room
  /\ room' = TRUE
  /\ UNCHANGED <<campaign, snapshot, run, job, dataVars, workVars, reconcileVars, renewing, happened, disturbed>>
=============================================================================
