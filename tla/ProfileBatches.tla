--------------------------- MODULE ProfileBatches ---------------------------
(***************************************************************************)
(* The jobs of a run that ask VK for many entities in one request: group   *)
(* metadata and user profiles.  A task takes its own job and claims extra  *)
(* ones for the batch; one transaction stores the answer; then the jobs    *)
(* are finished one by one.  Tasks run side by side, any step may fail and *)
(* the process may die; what nobody works on is recovered with its lease.  *)
(***************************************************************************)
EXTENDS Integers, FiniteSets

CONSTANTS
  Entities, Tasks,
  Open,       (* users whose subscriptions can be read, groups that are open    *)
  BatchSize, MaxFaults

(* 0 stands for no entity.                                                  *)
BatchAssumption == 0 \notin Entities

VARIABLES
  kind,       (* "users" (_refresh_user) or "groups" (_refresh_group)           *)
  job,        (* status of the refresh job of each entity                       *)
  profile,    (* entities whose row was stored                                  *)
  planned,    (* users with a collect_user_subscriptions job                    *)
  pc,         (* each task: "idle", "request", "finish"                         *)
  own,        (* its job, 0: none                                               *)
  extras,     (* the extra jobs it has still to finish                          *)
  answer,     (* entities its request found available                           *)
  omitted,    (* history: entities some answer did not have, or had as closed   *)
  faults

taskVars == <<pc, own, extras, answer>>
vars == <<kind, job, profile, planned, taskVars, omitted, faults>>

Init ==
  /\ kind \in {"users", "groups"}
  /\ job = [e \in Entities |-> "pending"]
  /\ profile = {} /\ planned = {} /\ omitted = {}
  /\ pc = [t \in Tasks |-> "idle"] /\ own = [t \in Tasks |-> 0]
  /\ extras = [t \in Tasks |-> {}] /\ answer = [t \in Tasks |-> {}]
  /\ faults = 0

(* Faulty variant: a batch claims running jobs of other tasks too.          *)
PendingOrRunning == {e \in Entities : job[e] \in {"pending", "running"}}

Pending == {e \in Entities : job[e] = "pending"}
Set(jobs, es, s) == [e \in Entities |-> IF e \in es THEN s ELSE jobs[e]]
Idle(t) == pc' = [pc EXCEPT ![t] = "idle"] /\ own' = [own EXCEPT ![t] = 0]

(* The task's own job, and claim_user_batch or claim_group_batch.           *)
TakeBatch(t) ==
  /\ pc[t] = "idle"
  /\ \E e \in Pending, more \in SUBSET Pending :
       /\ e \notin more /\ Cardinality(more) < BatchSize
       /\ job' = Set(job, more \cup {e}, "running")
       /\ own' = [own EXCEPT ![t] = e] /\ extras' = [extras EXCEPT ![t] = more]
  /\ pc' = [pc EXCEPT ![t] = "request"]
  /\ UNCHANGED <<kind, profile, planned, answer, omitted, faults>>

(* The request fails: the extra jobs are released, the own one is retried.  *)
RequestFails(t) ==
  /\ pc[t] = "request" /\ faults < MaxFaults
  /\ job' = Set(job, extras[t] \cup {own[t]}, "pending")
  /\ extras' = [extras EXCEPT ![t] = {}] /\ Idle(t)
  /\ faults' = faults + 1
  /\ UNCHANGED <<kind, profile, planned, answer, omitted>>

(* The entities an answer is stored for: every user it has, open groups.    *)
Stored(found) == IF kind = "users" THEN found ELSE found \cap Open

(* The answer is stored, and the next jobs of open users are planned, in    *)
(* one transaction.                                                         *)
StoreAnswer(t) ==
  /\ pc[t] = "request"
  /\ \E found \in SUBSET (extras[t] \cup {own[t]}) :
       /\ profile' = profile \cup Stored(found)
       /\ planned' = IF kind = "users" THEN planned \cup (found \cap Open) ELSE planned
       /\ answer' = [answer EXCEPT ![t] = Stored(found)]
       /\ omitted' = omitted \cup ((extras[t] \cup {own[t]}) \ Stored(found))
  /\ pc' = [pc EXCEPT ![t] = "finish"]
  /\ UNCHANGED <<kind, job, own, extras, faults>>

(* Faulty variant: an extra job that the answer does not have is completed. *)
OutcomeOfExtras(t, e) == IF e \in answer[t] \cup extras[t] THEN "completed" ELSE "skipped"

Outcome(t, e) == IF e \in answer[t] THEN "completed" ELSE "skipped"

FinishExtra(t) ==
  /\ pc[t] = "finish"
  /\ \E e \in extras[t] :
       /\ job' = [job EXCEPT ![e] = Outcome(t, e)]
       /\ extras' = [extras EXCEPT ![t] = @ \ {e}]
  /\ UNCHANGED <<kind, profile, planned, pc, own, answer, omitted, faults>>

(* The own job last; a missing user is VK error 18, which skips it.         *)
FinishOwn(t) ==
  /\ pc[t] = "finish" /\ extras[t] = {}
  /\ job' = [job EXCEPT ![own[t]] = Outcome(t, own[t])]
  /\ Idle(t)
  /\ UNCHANGED <<kind, profile, planned, extras, answer, omitted, faults>>

(* A step after the request fails: the own job is retried, and the extra    *)
(* jobs are left to their lease.                                            *)
FinishFails(t) ==
  /\ pc[t] # "idle" /\ faults < MaxFaults
  /\ job' = [job EXCEPT ![own[t]] = "pending"]
  /\ extras' = [extras EXCEPT ![t] = {}] /\ Idle(t)
  /\ faults' = faults + 1
  /\ UNCHANGED <<kind, profile, planned, answer, omitted>>

Held == UNION {extras[t] \cup {own[t]} : t \in Tasks}

(* recover_expired.                                                         *)
Recover ==
  /\ \E e \in Entities \ Held : job[e] = "running" /\ job' = [job EXCEPT ![e] = "pending"]
  /\ UNCHANGED <<kind, profile, planned, taskVars, omitted, faults>>

Crash ==
  /\ faults < MaxFaults /\ \E t \in Tasks : pc[t] # "idle"
  /\ pc' = [t \in Tasks |-> "idle"] /\ own' = [t \in Tasks |-> 0]
  /\ extras' = [t \in Tasks |-> {}] /\ answer' = [t \in Tasks |-> {}]
  /\ faults' = faults + 1
  /\ UNCHANGED <<kind, job, profile, planned, omitted>>

Next ==
  \/ \E t \in Tasks :
       \/ TakeBatch(t) \/ RequestFails(t) \/ StoreAnswer(t)
       \/ FinishExtra(t) \/ FinishOwn(t) \/ FinishFails(t)
  \/ Recover \/ Crash

Spec == Init /\ [][Next]_vars

-----------------------------------------------------------------------------
(* Properties.                                                              *)

(* A completed job has stored its entity, and an open user goes on to the   *)
(* next stage; a skipped one was omitted by an answer.                      *)
FinishedJobsAreDone ==
  \A e \in Entities :
    /\ job[e] = "completed" => e \in profile
    /\ job[e] = "completed" /\ kind = "users" /\ e \in Open => e \in planned
    /\ job[e] = "skipped" => e \in omitted

(* An entity is in the batch of at most one task.                           *)
BatchesDisjoint ==
  \A s, t \in Tasks : s # t /\ own[s] # 0 /\ own[t] # 0 =>
    (extras[s] \cup {own[s]}) \cap (extras[t] \cup {own[t]}) = {}
=============================================================================
