-------------------------- MODULE CollectionQueue --------------------------
(***************************************************************************)
(* The PostgreSQL job queue of one collection run (collection/queue.py)    *)
(* and the worker processes that drain it (collection/worker.py).          *)
(*                                                                         *)
(* A job row is leased, worked on outside any transaction, and written     *)
(* back by finish, defer_method or release.  Every action is one           *)
(* transaction of the code, with two exceptions that read a row before     *)
(* they lock it and are split at that point: claim (it reads the run       *)
(* before it writes it) and refresh_run (it counts the jobs before it      *)
(* locks the run).  Between the actions run other processes, operator      *)
(* commands, crashes, and time.                                            *)
(***************************************************************************)
EXTENDS Naturals, FiniteSets

CONSTANTS
  Jobs,             (* the rows collection_jobs may get for the run            *)
  BatchJobs,        (* those of a type that is fetched in batches              *)
  DurableJobs,      (* user enrichment jobs, whose transient errors never fail *)
  DiscoveringJobs,  (* those of a type whose task plans further jobs           *)
  Workers,          (* worker processes                                        *)
  Foreground,       (* those started by "collection run", not by the service   *)
  Slots,            (* asyncio tasks; a worker owns max_concurrency of them    *)
  WorkerOf,         (* [Slots -> Workers]                                      *)
  MaxAttempts,      (* len(RETRY_DELAYS)                                       *)
  NoJob,            (* what an idle slot holds                                 *)
  Disturbances,     (* the faults and operator commands of this instance       *)
  MaxDisturbances   (* bounds how many of them happen in one behaviour         *)

ASSUME QueueAssumption ==
  /\ Jobs # {} /\ IsFiniteSet(Jobs) /\ NoJob \notin Jobs
  /\ BatchJobs \subseteq Jobs /\ DurableJobs \subseteq Jobs
  /\ DiscoveringJobs \subseteq Jobs
  /\ Foreground \subseteq Workers
  /\ WorkerOf \in [Slots -> Workers]
  /\ MaxAttempts \in Nat \ {0}
  /\ MaxDisturbances \in Nat

VARIABLES
  status,      (* [Jobs -> JobStatus]                                          *)
  attempt,     (* attempt_count                                                *)
  due,         (* next_attempt_at is null or in the past                       *)
  lease,       (* locked_at: none, within the lease time, or older             *)
  tokenPause,  (* last_error_type = "tokens_unavailable"                       *)
  tries,       (* history: outcomes written for the job by finish              *)
  runStatus,   (* the run's status                                             *)
  counted,     (* its completed_jobs, skipped_jobs and failed_jobs             *)
  pc,          (* where each worker's run() loop stands                        *)
  snap,        (* the job counts refresh_run read, while it waits for the run  *)
  phase,       (* what each slot's task is doing                               *)
  held,        (* the job the task was created for                             *)
  seenAttempt, (* ClaimedJob.attempt_count, a copy                             *)
  wakesRun,    (* claim saw a run status that it will overwrite                *)
  extras,      (* the further jobs of the task's batch                         *)
  tokensUp,    (* the token file holds a usable token                          *)
  poolUp,      (* ... and so does the token pool each worker built from it     *)
  disturbed    (* disturbances so far                                          *)

jobVars  == <<status, attempt, due, lease, tokenPause, tries>>
runVars  == <<runStatus, counted>>
loopVars == <<pc, snap>>
slotVars == <<phase, held, seenAttempt, wakesRun, extras>>
tokenVars == <<tokensUp, poolUp>>
envVars  == <<tokenVars, disturbed>>
vars     == <<jobVars, runVars, loopVars, slotVars, envVars>>

(* "unplanned": not a status of the code, the job has no row yet.           *)
Finished  == {"completed", "skipped", "failed"}
Active    == {"pending", "running", "retry_wait", "paused"}
JobStatus == Finished \cup Active \cup {"cancelled", "unplanned"}

RunDone   == {"completed", "completed_with_errors"}
Runnable  == {"planned", "running", "waiting_method_limit"}
Wakeable  == {"planned", "paused", "paused_no_tokens", "waiting_method_limit"}
RunStatus == RunDone \cup Runnable \cup Wakeable
               \cup {"paused_capacity_limit", "cancelled"}

(* "busy": looping, and it has claimed since it started.                    *)
Looping    == {"loop", "busy", "waited"}
LoopState  == Looping \cup {"off", "listed", "blocked", "idleRefresh", "drain", "finalRefresh"}
Working    == {"calling", "closing", "failing"}
TaskPhase  == Working \cup {"idle", "claiming", "noTokens"}
LeaseState == {"none", "live", "expired"}

SlotsOf(w)  == {s \in Slots : WorkerOf[s] = w}
AllIdle(w)  == \A s \in SlotsOf(w) : phase[s] = "idle"
(* The loop claims for one slot at a time.                                  *)
NotClaiming(w) == \A s \in SlotsOf(w) : phase[s] # "claiming"
(* Faulty variants: the attempt is not returned; greatest(..., 0) is lost.  *)
KeepCount(n)  == n
Underflow(n)  == n - 1
Monus(n)    == IF n = 0 THEN 0 ELSE n - 1

(* A row that a claim transaction has locked: SKIP LOCKED passes over it,   *)
(* every other statement that wants it waits for the claim to commit.       *)
RowFree(j) == \A s \in Slots : phase[s] = "claiming" => held[s] # j

(* Faulty variant: the select takes no row lock.                            *)
ClaimableUnlocked(j) == status[j] \in {"pending", "retry_wait"} /\ due[j]

Claimable(j) ==
  /\ status[j] \in {"pending", "retry_wait"}
  /\ due[j]
  /\ RowFree(j)

(* The task of slot s works on j, as its own job or as one of its batch.    *)
WorksOn(s, j) == phase[s] \in Working /\ (held[s] = j \/ j \in extras[s])

Disturb(kind) ==
  /\ kind \in Disturbances
  /\ disturbed < MaxDisturbances
  /\ disturbed' = disturbed + 1

(* A task ends with an error.  One that released its batch had it before.   *)
Error(s, kind) ==
  IF phase[s] = "failing"
  THEN kind \in Disturbances /\ UNCHANGED disturbed
  ELSE Disturb(kind)

(* plan has inserted the run and its first jobs.                            *)
Init ==
  /\ \E planned \in SUBSET Jobs \ {{}} :
       status = [j \in Jobs |-> IF j \in planned THEN "pending" ELSE "unplanned"]
  /\ attempt = [j \in Jobs |-> 0]
  /\ due = [j \in Jobs |-> TRUE]
  /\ lease = [j \in Jobs |-> "none"]
  /\ tokenPause = [j \in Jobs |-> FALSE]
  /\ tries = [j \in Jobs |-> 0]
  /\ runStatus = "planned"
  /\ counted = [st \in Finished |-> 0]
  /\ pc = [w \in Workers |-> "off"]
  /\ snap = [w \in Workers |-> [j \in Jobs |-> "pending"]]
  /\ phase = [s \in Slots |-> "idle"]
  /\ held = [s \in Slots |-> NoJob]
  /\ seenAttempt = [s \in Slots |-> 0]
  /\ wakesRun = [s \in Slots |-> FALSE]
  /\ extras = [s \in Slots |-> {}]
  /\ tokensUp = TRUE
  /\ poolUp = [w \in Workers |-> TRUE]
  /\ disturbed = 0

-----------------------------------------------------------------------------
(* Effects of the queue's operations on the rows.                           *)

FreeSlot(s) ==
  /\ phase' = [phase EXCEPT ![s] = "idle"]
  /\ held' = [held EXCEPT ![s] = NoJob]
  /\ seenAttempt' = [seenAttempt EXCEPT ![s] = 0]
  /\ wakesRun' = [wakesRun EXCEPT ![s] = FALSE]
  /\ extras' = [extras EXCEPT ![s] = {}]

(* Leasing the jobs of S: claim and the three claim_..._batch methods.      *)
Lease(S) ==
  /\ status' = [j \in Jobs |-> IF j \in S THEN "running" ELSE status[j]]
  /\ lease' = [j \in Jobs |-> IF j \in S THEN "live" ELSE lease[j]]
  /\ attempt' = [j \in Jobs |-> IF j \in S THEN attempt[j] + 1 ELSE attempt[j]]
  /\ UNCHANGED <<due, tokenPause, tries>>

(* Faulty variant: all attempts are returned, not the last one.             *)
GiveBackAllAttempts(S) ==
  /\ status' = [j \in Jobs |-> IF j \in S THEN "pending" ELSE status[j]]
  /\ lease' = [j \in Jobs |-> IF j \in S THEN "none" ELSE lease[j]]
  /\ attempt' = [j \in Jobs |-> IF j \in S THEN 0 ELSE attempt[j]]
  /\ UNCHANGED <<due, tries>>

(* The rows of S go back to pending and their attempt is returned.          *)
GiveBack(S) ==
  /\ status' = [j \in Jobs |-> IF j \in S THEN "pending" ELSE status[j]]
  /\ lease' = [j \in Jobs |-> IF j \in S THEN "none" ELSE lease[j]]
  /\ attempt' = [j \in Jobs |-> IF j \in S THEN Monus(attempt[j]) ELSE attempt[j]]
  /\ UNCHANGED <<due, tries>>

(* Faulty variant: the comparison selects the rows without a locked_at.     *)
NeverLocked == {j \in Jobs : status[j] = "running" /\ lease[j] = "none"}
Expired == {j \in Jobs : status[j] = "running" /\ lease[j] = "expired"}

Recover ==
  /\ GiveBack(Expired)
  /\ tokenPause' = [j \in Jobs |-> tokenPause[j] /\ j \notin Expired]

(* Faulty variant: the else branch also takes deferred jobs.                *)
CountAnyOutcome(st) ==
  [counted EXCEPT ![IF st \in {"completed", "skipped"} THEN st ELSE "failed"] = @ + 1]
CountOne(st) ==
  IF st \in Finished THEN [counted EXCEPT ![st] = @ + 1] ELSE counted

Verdict(c) == IF c["failed"] > 0 THEN "completed_with_errors" ELSE "completed"

(* Faulty variant: parked jobs are missing from the has_active query.       *)
FinishOverlookingPaused(j, st) ==
  /\ RowFree(j)
  /\ IF status[j] \in Finished
     THEN UNCHANGED <<jobVars, runVars>>
     ELSE /\ status' = [status EXCEPT ![j] = st]
          /\ due' = [due EXCEPT ![j] = (st # "retry_wait")]
          /\ lease' = [lease EXCEPT ![j] = "none"]
          /\ tokenPause' = [tokenPause EXCEPT ![j] = (st = "paused")]
          /\ tries' = [tries EXCEPT ![j] = @ + 1]
          /\ counted' = CountOne(st)
          /\ runStatus' = IF /\ st \in Finished
                             /\ \A k \in Jobs : status'[k] \notin Active \ {"paused"}
                          THEN Verdict(CountOne(st))
                          ELSE runStatus
          /\ UNCHANGED attempt

(* finish: a job that is already finished is left alone; the run is closed  *)
(* by the transaction that leaves no active job.                            *)
Finish(j, st) ==
  /\ RowFree(j)
  /\ IF status[j] \in Finished
     THEN UNCHANGED <<jobVars, runVars>>
     ELSE /\ status' = [status EXCEPT ![j] = st]
          /\ due' = [due EXCEPT ![j] = (st # "retry_wait")]
          /\ lease' = [lease EXCEPT ![j] = "none"]
          /\ tokenPause' = [tokenPause EXCEPT ![j] = (st = "paused")]
          /\ tries' = [tries EXCEPT ![j] = @ + 1]
          /\ counted' = CountOne(st)
          /\ runStatus' = IF /\ st \in Finished
                             /\ \A k \in Jobs : status'[k] \notin Active
                          THEN Verdict(CountOne(st))
                          ELSE runStatus
          /\ UNCHANGED attempt

(* set_run_status: written whatever the status was.  Resuming returns the   *)
(* paused jobs to pending, an operator pause parks the pending ones.        *)
SetRunStatus(st) ==
  /\ runStatus' = st
  /\ status' = [j \in Jobs |->
                  CASE st = "running" /\ status[j] = "paused"  -> "pending"
                    [] st = "paused"  /\ status[j] = "pending" -> "paused"
                    [] OTHER -> status[j]]
  /\ st = "paused" => \A j \in Jobs : status[j] = "pending" => RowFree(j)
  /\ UNCHANGED <<attempt, due, lease, tokenPause, tries, counted>>

-----------------------------------------------------------------------------
(* The loop of CollectionWorker.run.                                        *)

(* The service builds its token pool and lists the runnable runs; it comes  *)
(* to this one after those listed before it.                                *)
ListRun(w) ==
  /\ pc[w] = "off" /\ w \notin Foreground
  /\ runStatus \in Runnable
  /\ pc' = [pc EXCEPT ![w] = "listed"]
  /\ poolUp' = [poolUp EXCEPT ![w] = tokensUp]
  /\ UNCHANGED <<jobVars, runVars, snap, slotVars, tokensUp, disturbed>>

(* A worker enters run(), whatever the run's status is by then: the service *)
(* for a run it listed, the foreground command for the run it was given.    *)
(* run() first recovers the expired leases.                                 *)
Start(w) ==
  /\ \/ pc[w] = "listed" /\ UNCHANGED poolUp
     \/ /\ pc[w] = "off" /\ w \in Foreground
        /\ poolUp' = [poolUp EXCEPT ![w] = tokensUp]
  /\ pc' = [pc EXCEPT ![w] = "loop"]
  /\ Recover
  /\ UNCHANGED <<runVars, snap, slotVars, tokensUp, disturbed>>

(* The foreground command finds an empty token file.                        *)
StartWithoutTokens(w) ==
  /\ pc[w] = "off" /\ w \in Foreground
  /\ ~tokensUp
  /\ SetRunStatus("paused_no_tokens")
  /\ UNCHANGED <<loopVars, slotVars, envVars>>

(* The service finds that report, backup or settings no longer match.       *)
RejectRun(w) ==
  /\ pc[w] = "listed"
  /\ Disturb("reject")
  /\ SetRunStatus("paused_capacity_limit")
  /\ pc' = [pc EXCEPT ![w] = "off"]
  /\ UNCHANGED <<snap, slotVars, tokenVars>>

(* The periodic recovery of run(), and "collection repair-stale-leases".    *)
RecoverExpired ==
  /\ Expired # {}
  /\ Recover
  /\ UNCHANGED <<runVars, loopVars, slotVars, envVars>>

(* _claim_next: some token may be used, and claim up to its read of the     *)
(* run, for which it holds the job's row but not the run's.                 *)
ClaimSelect(s, j) ==
  /\ pc[WorkerOf[s]] \in Looping
  /\ poolUp[WorkerOf[s]]
  /\ phase[s] = "idle"
  /\ NotClaiming(WorkerOf[s])
  /\ Claimable(j)
  /\ pc' = [pc EXCEPT ![WorkerOf[s]] = "busy"]
  /\ phase' = [phase EXCEPT ![s] = "claiming"]
  /\ held' = [held EXCEPT ![s] = j]
  /\ wakesRun' = [wakesRun EXCEPT ![s] = runStatus \in Wakeable]
  /\ UNCHANGED <<jobVars, runVars, snap, seenAttempt, extras, envVars>>

(* claim, its writes: a run seen asleep is set running.                     *)
ClaimCommit(s) ==
  /\ phase[s] = "claiming"
  /\ Lease({held[s]})
  /\ runStatus' = IF wakesRun[s] THEN "running" ELSE runStatus
  /\ phase' = [phase EXCEPT ![s] = "calling"]
  /\ seenAttempt' = [seenAttempt EXCEPT ![s] = attempt[held[s]] + 1]
  /\ wakesRun' = [wakesRun EXCEPT ![s] = FALSE]
  /\ UNCHANGED <<counted, loopVars, held, extras, envVars>>

(* _claim_next finds ready jobs whose methods are all blocked ...           *)
MethodsBlocked(w) ==
  /\ pc[w] \in Looping
  /\ poolUp[w]
  /\ NotClaiming(w)
  /\ \E j \in Jobs : status[j] \in {"pending", "retry_wait"} /\ due[j]
  /\ Disturb("methodLimit")
  /\ pc' = [pc EXCEPT ![w] = "blocked"]
  /\ UNCHANGED <<jobVars, runVars, snap, slotVars, tokenVars>>

(* ... and wait_for_methods puts the run to sleep, in a later transaction.  *)
WaitForMethods(w) ==
  /\ pc[w] = "blocked"
  /\ runStatus' = "waiting_method_limit"
  /\ pc' = [pc EXCEPT ![w] = "waited"]
  /\ UNCHANGED <<jobVars, counted, snap, slotVars, envVars>>

(* Disk above the stop threshold: the run is paused, no further claims.     *)
DiskStop(w) ==
  /\ pc[w] \in Looping
  /\ NotClaiming(w)
  /\ Disturb("diskStop")
  /\ SetRunStatus("paused_capacity_limit")
  /\ pc' = [pc EXCEPT ![w] = "drain"]
  /\ UNCHANGED <<snap, slotVars, tokenVars>>

(* max_jobs claims are made: no further ones.                               *)
QuantumReached(w) ==
  /\ pc[w] = "busy"
  /\ NotClaiming(w)
  /\ pc' = [pc EXCEPT ![w] = "drain"]
  /\ UNCHANGED <<jobVars, runVars, snap, slotVars, envVars>>

(* The process got SIGTERM.                                                 *)
StopRequested(w) ==
  /\ pc[w] \in Looping
  /\ NotClaiming(w)
  /\ Disturb("stop")
  /\ pc' = [pc EXCEPT ![w] = "drain"]
  /\ UNCHANGED <<jobVars, runVars, snap, slotVars, tokenVars>>

(* refresh_run, its first statement: the jobs are counted.  The loop calls  *)
(* it when no task is left and nothing was claimed, and once more when it   *)
(* has ended.                                                               *)
RefreshCount(w) ==
  /\ AllIdle(w)
  /\ \/ pc[w] \in {"loop", "busy"} /\ (poolUp[w] => \A j \in Jobs : ~Claimable(j))
     \/ pc[w] \in {"waited", "drain"}
  /\ pc' = [pc EXCEPT ![w] = IF @ = "drain" THEN "finalRefresh" ELSE "idleRefresh"]
  /\ snap' = [snap EXCEPT ![w] = status]
  /\ UNCHANGED <<jobVars, runVars, slotVars, envVars>>

CountIn(jobStatus, st) == Cardinality({j \in Jobs : jobStatus[j] = st})
CountsOf(jobStatus) == [st \in Finished |-> CountIn(jobStatus, st)]

(* What refresh_run makes of the run once it has locked it.                 *)
RefreshedStatus(counts, active) ==
  CASE ~active -> Verdict(counts)
    [] /\ active
       /\ runStatus = "waiting_method_limit"
       /\ \E j \in Jobs : status[j] = "retry_wait" /\ due[j] -> "running"
    [] OTHER -> runStatus

(* refresh_run, the rest: the run is locked and rewritten from the counts.  *)
(* A service worker then leaves run(); a foreground one may go on.          *)
RefreshRun(w) ==
  /\ pc[w] \in {"idleRefresh", "finalRefresh"}
  /\ counted' = CountsOf(snap[w])
  /\ runStatus' = RefreshedStatus(CountsOf(snap[w]),
                                  \E j \in Jobs : snap[w][j] \in Active)
  /\ snap' = [snap EXCEPT ![w] = [j \in Jobs |-> "pending"]]
  /\ \/ pc' = [pc EXCEPT ![w] = IF @ = "finalRefresh" THEN "off" ELSE "drain"]
     \/ /\ pc[w] = "idleRefresh" /\ w \in Foreground /\ runStatus' \in Runnable
        /\ pc' = [pc EXCEPT ![w] = "loop"]
  /\ UNCHANGED <<jobVars, slotVars, envVars>>

-----------------------------------------------------------------------------
(* CollectionWorker._process: one task, and the ways it can end.            *)

(* A batched job leases further ready jobs of its type for the same call.   *)
ClaimBatch(s, X) ==
  /\ phase[s] = "calling" /\ held[s] \in BatchJobs /\ extras[s] = {}
  /\ X # {} /\ X \subseteq BatchJobs
  /\ \A j \in X : Claimable(j)
  /\ Lease(X)
  /\ extras' = [extras EXCEPT ![s] = X]
  /\ UNCHANGED <<runVars, loopVars, phase, held, seenAttempt, wakesRun, envVars>>

(* The call failed: release returns the batch's further jobs, by id alone.  *)
Release(s) ==
  /\ phase[s] = "calling" /\ extras[s] # {}
  /\ \/ \E kind \in {"transient", "forbidden", "methodLimit"} : Disturb(kind)
     \/ ~poolUp[WorkerOf[s]] /\ UNCHANGED disturbed
  /\ \A j \in extras[s] : RowFree(j)
  /\ GiveBack(extras[s])
  /\ phase' = [phase EXCEPT ![s] = "failing"]
  /\ extras' = [extras EXCEPT ![s] = {}]
  /\ UNCHANGED <<tokenPause, runVars, loopVars, held, seenAttempt, wakesRun, tokenVars>>

(* Faulty variant: a finished job stays in the batch that release gets.     *)
FinishExtraKept(s, j) ==
  /\ phase[s] \in {"calling", "closing"} /\ j \in extras[s]
  /\ \E st \in {"completed", "skipped"} : Finish(j, st)
  /\ UNCHANGED <<loopVars, phase, extras, held, seenAttempt, wakesRun, envVars>>

(* The call succeeded: the further jobs are finished one by one, before the *)
(* job the task was created for.                                            *)
FinishExtra(s, j) ==
  /\ phase[s] \in {"calling", "closing"} /\ j \in extras[s]
  /\ \/ /\ \E st \in {"completed", "skipped"} : Finish(j, st)
        /\ UNCHANGED disturbed
     \/ Disturb("miss") /\ Finish(j, "retry_wait")
  /\ phase' = [phase EXCEPT ![s] = "closing"]
  /\ extras' = [extras EXCEPT ![s] = @ \ {j}]
  /\ UNCHANGED <<loopVars, held, seenAttempt, wakesRun, tokenVars>>

(* What the task found is stored, and with it the jobs to fetch it in turn: *)
(* members and their profiles, a profile's subscriptions and wall.          *)
Discover(s, X) ==
  /\ phase[s] = "calling" /\ held[s] \in DiscoveringJobs
  /\ X # {} /\ \A j \in X : status[j] = "unplanned"
  /\ status' = [j \in Jobs |-> IF j \in X THEN "pending" ELSE status[j]]
  /\ UNCHANGED <<attempt, due, lease, tokenPause, tries, runVars, loopVars,
                 slotVars, envVars>>

Complete(s) ==
  /\ phase[s] \in {"calling", "closing"} /\ extras[s] = {}
  /\ Finish(held[s], "completed")
  /\ FreeSlot(s)
  /\ UNCHANGED <<loopVars, envVars>>

(* Private, deleted, closed, or fresh enough to be skipped.                 *)
Skip(s) ==
  /\ phase[s] \in {"calling", "closing"} /\ extras[s] = {}
  /\ Finish(held[s], "skipped")
  /\ FreeSlot(s)
  /\ UNCHANGED <<loopVars, envVars>>

(* The batch's call failed with a VK code that is not worth a retry.        *)
Forbidden(s) ==
  /\ phase[s] = "failing" /\ Error(s, "forbidden")
  /\ Finish(held[s], "skipped")
  /\ FreeSlot(s)
  /\ UNCHANGED <<loopVars, tokenVars>>

(* _retry_or_fail: any other error.  The attempt it looks at is the copy    *)
(* the claim made.  Extras not yet finished keep their lease.               *)
RetryOrFail(s) ==
  /\ phase[s] \in Working /\ Error(s, "transient")
  /\ IF seenAttempt[s] >= MaxAttempts /\ held[s] \notin DurableJobs
     THEN Finish(held[s], "failed")
     ELSE Finish(held[s], "retry_wait")
  /\ FreeSlot(s)
  /\ UNCHANGED <<loopVars, tokenVars>>

(* _finish_metadata_miss: the answer left the job out, ask again later.     *)
Miss(s) ==
  /\ phase[s] \in {"calling", "closing"} /\ extras[s] = {} /\ held[s] \in BatchJobs
  /\ Disturb("miss")
  /\ Finish(held[s], "retry_wait")
  /\ FreeSlot(s)
  /\ UNCHANGED <<loopVars, tokenVars>>

(* defer_method: every token is over the method's limit.  It looks neither  *)
(* at the job's status nor at who holds its lease.                          *)
DeferMethod(s) ==
  /\ phase[s] \in {"calling", "failing"} /\ extras[s] = {}
  /\ Error(s, "methodLimit")
  /\ RowFree(held[s])
  /\ status' = [status EXCEPT ![held[s]] = "retry_wait"]
  /\ due' = [due EXCEPT ![held[s]] = FALSE]
  /\ lease' = [lease EXCEPT ![held[s]] = "none"]
  /\ attempt' = [attempt EXCEPT ![held[s]] = Monus(@)]
  /\ tokenPause' = [tokenPause EXCEPT ![held[s]] = FALSE]
  /\ runStatus' = "waiting_method_limit"
  /\ FreeSlot(s)
  /\ UNCHANGED <<tries, counted, loopVars, tokenVars>>

(* No token is left: the job is parked ...                                  *)
NoTokens(s) ==
  /\ phase[s] \in {"calling", "failing"} /\ extras[s] = {} /\ ~poolUp[WorkerOf[s]]
  /\ Finish(held[s], "paused")
  /\ phase' = [phase EXCEPT ![s] = "noTokens"]
  /\ UNCHANGED <<loopVars, held, seenAttempt, wakesRun, extras, envVars>>

(* ... and the run in a later transaction.                                  *)
PauseForTokens(s) ==
  /\ phase[s] = "noTokens"
  /\ SetRunStatus("paused_no_tokens")
  /\ FreeSlot(s)
  /\ UNCHANGED <<loopVars, envVars>>

-----------------------------------------------------------------------------
(* The service between two runs, and the operator's commands.               *)

(* resume_paused_no_tokens: a usable token is configured again.             *)
ResumePausedNoTokens ==
  /\ tokensUp /\ runStatus = "paused_no_tokens"
  /\ \E w \in Workers \ Foreground : pc[w] = "off"
  /\ status' = [j \in Jobs |-> IF status[j] = "paused" /\ tokenPause[j]
                               THEN "pending" ELSE status[j]]
  /\ runStatus' = "running"
  /\ UNCHANGED <<attempt, due, lease, tokenPause, tries, counted,
                 loopVars, slotVars, envVars>>

(* "collection pause" and "collection resume".                              *)
OperatorPause ==
  /\ Disturb("pause")
  /\ SetRunStatus("paused")
  /\ UNCHANGED <<loopVars, slotVars, tokenVars>>

OperatorResume ==
  /\ "pause" \in Disturbances
  /\ SetRunStatus("running")
  /\ UNCHANGED <<loopVars, slotVars, envVars>>

(* Faulty variant: every job without data is retried.                       *)
RetryWithoutData ==
  /\ Disturb("retryFailed")
  /\ status' = [j \in Jobs |-> IF status[j] \in {"failed", "skipped"}
                               THEN "pending" ELSE status[j]]
  /\ UNCHANGED <<attempt, due, lease, tokenPause, tries, runVars, loopVars, slotVars, tokenVars>>

(* "collection retry-failed": the attempts, the run and its counters stay.  *)
RetryFailed ==
  /\ Disturb("retryFailed")
  /\ status' = [j \in Jobs |-> IF status[j] = "failed" THEN "pending" ELSE status[j]]
  /\ due' = [j \in Jobs |-> due[j] \/ status[j] = "failed"]
  /\ tokenPause' = [j \in Jobs |-> tokenPause[j] /\ status[j] # "failed"]
  /\ UNCHANGED <<attempt, lease, tries, runVars, loopVars, slotVars, tokenVars>>

(* Faulty variant: the leases of the cancelled jobs stay.                   *)
CancelKeepingLeases ==
  /\ Disturb("cancel")
  /\ runStatus \notin RunDone \cup {"cancelled"}
  /\ \A j \in Jobs : status[j] \in Active => RowFree(j)
  /\ status' = [j \in Jobs |-> IF status[j] \in Active THEN "cancelled" ELSE status[j]]
  /\ runStatus' = "cancelled"
  /\ UNCHANGED <<attempt, due, lease, tokenPause, tries, counted, loopVars, slotVars, tokenVars>>

(* cancel_pilot: every active job and the run are cancelled.                *)
CancelPilot ==
  /\ Disturb("cancel")
  /\ runStatus \notin RunDone \cup {"cancelled"}
  /\ \A j \in Jobs : status[j] \in Active => RowFree(j)
  /\ status' = [j \in Jobs |-> IF status[j] \in Active THEN "cancelled" ELSE status[j]]
  /\ lease' = [j \in Jobs |-> IF status[j] \in Active THEN "none" ELSE lease[j]]
  /\ tokenPause' = [j \in Jobs |-> tokenPause[j] /\ status[j] \notin Active]
  /\ runStatus' = "cancelled"
  /\ UNCHANGED <<attempt, due, tries, counted, loopVars, slotVars, tokenVars>>

-----------------------------------------------------------------------------
(* Time, tokens, and the death of a process.                                *)

BackoffElapses(j) ==
  /\ ~due[j]
  /\ due' = [due EXCEPT ![j] = TRUE]
  /\ UNCHANGED <<status, attempt, lease, tokenPause, tries, runVars, loopVars,
                 slotVars, envVars>>

(* collection_job_lease_seconds have passed since locked_at, which nothing  *)
(* moves forward while the task runs.  Unless the instance lets a task      *)
(* overrun its lease, the task is gone by then.                             *)
LeaseExpires(j) ==
  /\ lease[j] = "live"
  /\ "overrun" \in Disturbances \/ \A s \in Slots : ~WorksOn(s, j)
  /\ lease' = [lease EXCEPT ![j] = "expired"]
  /\ UNCHANGED <<status, attempt, due, tokenPause, tries, runVars, loopVars,
                 slotVars, envVars>>

(* The last usable token is disabled, in the table every pool reads.        *)
TokensLost ==
  /\ tokensUp
  /\ Disturb("tokens")
  /\ tokensUp' = FALSE
  /\ poolUp' = [w \in Workers |-> FALSE]
  /\ UNCHANGED <<jobVars, runVars, loopVars, slotVars>>

(* The file gets a new one: a pool is built from it when run() is entered.  *)
TokensRestored ==
  /\ ~tokensUp
  /\ tokensUp' = TRUE
  /\ UNCHANGED <<jobVars, runVars, loopVars, slotVars, poolUp, disturbed>>

(* The process dies, or an exception leaves run(): its tasks are lost, the  *)
(* transaction it was in is rolled back, the leases stay in the table.      *)
Crash(w) ==
  /\ pc[w] # "off"
  /\ Disturb("crash")
  /\ pc' = [pc EXCEPT ![w] = "off"]
  /\ snap' = [snap EXCEPT ![w] = [j \in Jobs |-> "pending"]]
  /\ phase' = [s \in Slots |-> IF WorkerOf[s] = w THEN "idle" ELSE phase[s]]
  /\ held' = [s \in Slots |-> IF WorkerOf[s] = w THEN NoJob ELSE held[s]]
  /\ seenAttempt' = [s \in Slots |-> IF WorkerOf[s] = w THEN 0 ELSE seenAttempt[s]]
  /\ wakesRun' = [s \in Slots |-> IF WorkerOf[s] = w THEN FALSE ELSE wakesRun[s]]
  /\ extras' = [s \in Slots |-> IF WorkerOf[s] = w THEN {} ELSE extras[s]]
  /\ UNCHANGED <<jobVars, runVars, tokenVars>>

-----------------------------------------------------------------------------
LoopStep(w) ==
  \/ ListRun(w)
  \/ Start(w)
  \/ StartWithoutTokens(w)
  \/ RejectRun(w)
  \/ MethodsBlocked(w)
  \/ WaitForMethods(w)
  \/ DiskStop(w)
  \/ QuantumReached(w)
  \/ StopRequested(w)
  \/ RefreshCount(w)
  \/ RefreshRun(w)

TaskStep(s) ==
  \/ \E j \in Jobs : ClaimSelect(s, j)
  \/ ClaimCommit(s)
  \/ \E X \in SUBSET BatchJobs : ClaimBatch(s, X)
  \/ Release(s)
  \/ \E j \in Jobs : FinishExtra(s, j)
  \/ \E X \in SUBSET Jobs : Discover(s, X)
  \/ Complete(s)
  \/ Skip(s)
  \/ Forbidden(s)
  \/ RetryOrFail(s)
  \/ Miss(s)
  \/ DeferMethod(s)
  \/ NoTokens(s)
  \/ PauseForTokens(s)

CommandStep ==
  \/ RecoverExpired
  \/ ResumePausedNoTokens
  \/ OperatorPause
  \/ OperatorResume
  \/ RetryFailed
  \/ CancelPilot

EnvStep ==
  \/ \E j \in Jobs : BackoffElapses(j) \/ LeaseExpires(j)
  \/ TokensLost
  \/ TokensRestored
  \/ \E w \in Workers : Crash(w)

Next ==
  \/ \E w \in Workers : LoopStep(w)
  \/ \E s \in Slots : TaskStep(s)
  \/ CommandStep
  \/ EnvStep

Spec == Init /\ [][Next]_vars

-----------------------------------------------------------------------------
(* Fairness: a process that is inside run() goes on, the service enters     *)
(* run() again and is restarted when it died (restart: unless-stopped),     *)
(* time passes, and tokens are replaced.  Nothing is assumed of operators,  *)
(* nor that a foreground process is ever started.                           *)
InsideRun(w) ==
  /\ pc[w] # "off"
  /\ LoopStep(w) \/ \E s \in SlotsOf(w) : TaskStep(s)

Fairness ==
  /\ \A w \in Workers : WF_vars(InsideRun(w))
  /\ \A w \in Workers \ Foreground : WF_vars(ListRun(w))
  /\ \A j \in Jobs : WF_vars(BackoffElapses(j)) /\ WF_vars(LeaseExpires(j))
  /\ WF_vars(ResumePausedNoTokens)
  /\ WF_vars(TokensRestored)

FairSpec == Spec /\ Fairness

-----------------------------------------------------------------------------
(* Properties.                                                              *)

(* Types of the columns and of what a process keeps in memory.              *)
TypeOK ==
  /\ status \in [Jobs -> JobStatus]
  /\ attempt \in [Jobs -> Nat]
  /\ due \in [Jobs -> BOOLEAN]
  /\ lease \in [Jobs -> LeaseState]
  /\ tokenPause \in [Jobs -> BOOLEAN]
  /\ tries \in [Jobs -> Nat]
  /\ runStatus \in RunStatus
  /\ counted \in [Finished -> Nat]
  /\ pc \in [Workers -> LoopState]
  /\ snap \in [Workers -> [Jobs -> JobStatus]]
  /\ phase \in [Slots -> TaskPhase]
  /\ held \in [Slots -> Jobs \cup {NoJob}]
  /\ \A s \in Slots : phase[s] # "idle" => held[s] \in Jobs
  /\ seenAttempt \in [Slots -> Nat]
  /\ wakesRun \in [Slots -> BOOLEAN]
  /\ extras \in [Slots -> SUBSET Jobs]
  /\ tokensUp \in BOOLEAN
  /\ poolUp \in [Workers -> BOOLEAN]
  /\ disturbed \in Nat

(* Every running job carries a lease, and only a running job does: whatever *)
(* happens to its task, recover_expired can find it, and it finds no other. *)
RunningIffLeased == \A j \in Jobs : status[j] = "running" <=> lease[j] # "none"

(* A job is claimed or worked on by one task at a time, over all processes, *)
(* as the task's own job or within its batch, unless a task overruns its    *)
(* lease.                                                                   *)
Owns(s, j) == WorksOn(s, j) \/ (phase[s] = "claiming" /\ held[s] = j)

SingleOwner ==
  /\ \A s, t \in Slots : \A j \in Jobs : Owns(s, j) /\ Owns(t, j) => s = t
  /\ \A s \in Slots : held[s] \notin extras[s]

(* Deferral, recovery of a lease and release each return exactly the        *)
(* attempt that a claim took: what remains counted are outcomes written for *)
(* the job, and the attempt in progress.                                    *)
AttemptAccounting ==
  \A j \in Jobs : attempt[j] = tries[j] + (IF status[j] = "running" THEN 1 ELSE 0)

(* No transient error fails a job before max_attempts outcomes were written *)
(* for it, whatever crashes, deferrals and releases came in between.        *)
NoEarlyFailure == \A j \in Jobs : status[j] = "failed" => tries[j] >= MaxAttempts

(* A run reported as completed has nothing left to do, even when another    *)
(* process is still looking at it.                                          *)
RunDoneSound == runStatus \in RunDone => \A j \in Jobs : status[j] \notin Active

(* The run's counters never run ahead of the jobs: nothing is counted twice *)
(* by two processes that finish the same job or refresh concurrently.       *)
CountersNeverAhead ==
  \A st \in Finished : counted[st] <= CountIn(status, st)

(* A run reported as completed has no failed job; a failed one makes it     *)
(* completed_with_errors.                                                   *)
VerdictSound == runStatus = "completed" => \A j \in Jobs : status[j] # "failed"

(* Once every worker is gone, a job that was parked because no token was    *)
(* left finds its run in paused_no_tokens, where the service looks for it.  *)
ParkedRunIsPaused ==
  (\E j \in Jobs : status[j] = "paused" /\ tokenPause[j])
    => runStatus = "paused_no_tokens" \/ \E w \in Workers : pc[w] # "off"

(* A result is final: no later step takes a completed or skipped job back.  *)
ResultsFinal ==
  [][\A j \in Jobs : status[j] \in {"completed", "skipped"} => status'[j] = status[j]]_vars

(* Whatever is done to the queue, operator commands included, only a task   *)
(* that still works on the job can take a completed or skipped job back.    *)
OnlyTasksReopen ==
  [][\A j \in Jobs :
       status[j] \in {"completed", "skipped"} /\ status'[j] # status[j]
         => \E s \in Slots : WorksOn(s, j)]_vars

(* A run the operator paused stays paused until the operator resumes it,    *)
(* unless its jobs are done.                                                *)
PauseHolds ==
  [][runStatus = "paused" /\ runStatus' \notin {"paused"} \cup RunDone
       => OperatorResume]_vars

(* The queue keeps the promises of JobLedger, over every interleaving of    *)
(* processes, crashes and recoveries: a job has one holder, only its holder *)
(* gives it a result, once, and the run closes when all have one.           *)
Ledger == INSTANCE JobLedger WITH
  Results  <- Finished,
  NoResult <- "none",
  known    <- {j \in Jobs : status[j] # "unplanned"},
  result   <- [j \in Jobs |-> IF status[j] \in Finished THEN status[j] ELSE "none"],
  taken    <- {j \in Jobs : status[j] = "running"},
  closed   <- runStatus \in RunDone

ImplementsLedger == Ledger!Spec

(* Once the faults end, every job gets its result and the run is closed.    *)
RunSettles == <>[](runStatus \in RunDone)
=============================================================================
