----------------------------- MODULE JobLedger -----------------------------
(***************************************************************************)
(* What the job queue of a run promises, without leases, attempts, workers *)
(* or errors: each job is taken by at most one party at a time, only a     *)
(* taken job gets a result, a result is final, and a run is closed only    *)
(* when every job has one.                                                 *)
(*                                                                         *)
(* CollectionQueue implements it as long as no task outlives its lease and *)
(* no operator retries failed jobs or cancels the run.                     *)
(***************************************************************************)
CONSTANTS Jobs, Results, NoResult

VARIABLES
  known,    (* the jobs of the run so far                                     *)
  result,   (* [Jobs -> Results \cup {NoResult}]                             *)
  taken,    (* the jobs somebody answers for                                 *)
  closed    (* the run is reported as completed, with or without errors      *)

ledgerVars == <<known, result, taken, closed>>

Open == {j \in known : result[j] = NoResult}

Init ==
  /\ known \in SUBSET Jobs
  /\ result = [j \in Jobs |-> NoResult]
  /\ taken = {}
  /\ closed = FALSE

(* One job, or a batch, is handed out; the run may be reopened by it.       *)
Take(S) ==
  /\ S # {} /\ S \subseteq Open \ taken
  /\ taken' = taken \cup S
  /\ closed' \in {closed, FALSE}
  /\ UNCHANGED <<known, result>>

(* Deferred, retried, parked, released, or its holder died.                 *)
GiveBack(S) ==
  /\ S # {} /\ S \subseteq taken
  /\ taken' = taken \ S
  /\ closed' \in {closed, FALSE}
  /\ UNCHANGED <<known, result>>

(* The last result may close the run.                                       *)
Settle(j, r) ==
  /\ j \in taken /\ r \in Results
  /\ result' = [result EXCEPT ![j] = r]
  /\ taken' = taken \ {j}
  /\ closed' \in BOOLEAN
  /\ closed' => Open' = {}
  /\ UNCHANGED known

(* Whoever works on a job may add jobs to the run, before it is closed.     *)
Discover(S) ==
  /\ taken # {} /\ ~closed
  /\ S \subseteq Jobs \ known
  /\ known' = known \cup S
  /\ UNCHANGED <<result, taken, closed>>

Close ==
  /\ Open = {}
  /\ closed' = TRUE
  /\ UNCHANGED <<known, result, taken>>

Reopen ==
  /\ closed' = FALSE
  /\ UNCHANGED <<known, result, taken>>

Next ==
  \/ \E S \in SUBSET Jobs : Take(S) \/ GiveBack(S) \/ Discover(S)
  \/ \E j \in Jobs, r \in Results : Settle(j, r)
  \/ Close
  \/ Reopen

Spec == Init /\ [][Next]_ledgerVars
=============================================================================
