----------------------------- MODULE RunPlanning -----------------------------
(***************************************************************************)
(* The planners of runs outside a campaign: full and incremental, the      *)
(* subscriptions, their first pilot, the posts, and light repair.  A plan  *)
(* is made by an operator's command; two may be given at once, while       *)
(* workers carry out, park and finish the runs planned before.  One kind   *)
(* of run per behaviour; the collection configuration does not change.     *)
(***************************************************************************)
EXTENDS Integers, Sequences, FiniteSets

CONSTANTS
  Planners,   (* commands                                                       *)
  Entities,   (* users, groups or communities that jobs can be planned for      *)
  MaxRuns, MaxChanges   (* bounds: runs created; parked runs and data that age  *)

VARIABLES
  kind,       (* "full", "incremental", "subscriptions", "pilot", "posts", "repair" *)
  due,        (* entities whose data is missing or too old                      *)
  run,        (* the runs of the kind: status and entities of their jobs        *)
  pc,         (* each planner: "idle", "read", "insert"                         *)
  chosen,     (* the entities its plan is for                                   *)
  evidence,   (* light repair: the gaps its capacity evidence was computed for  *)
  overlapped, (* history: one planner looked while another was about to insert  *)
  overlooked, (* history: an open run was in a status its planner passes over   *)
  changes

plannerVars == <<pc, chosen, evidence>>
vars == <<kind, due, run, plannerVars, overlapped, overlooked, changes>>

Live == {"planned", "running", "paused", "waiting"}
Open == Live \cup {"no_tokens", "no_room"}

Init ==
  /\ kind \in {"full", "incremental", "subscriptions", "pilot", "posts", "repair"}
  /\ due \in SUBSET Entities /\ run = <<>>
  /\ pc = [p \in Planners |-> "idle"]
  /\ chosen = [p \in Planners |-> {}] /\ evidence = [p \in Planners |-> {}]
  /\ overlapped = FALSE /\ overlooked = FALSE /\ changes = 0

-----------------------------------------------------------------------------
(* Statuses in which a run of the same plan is returned instead of a new    *)
(* one; a plan without entities is found in every status.                   *)
Reusable(ids) ==
  CASE kind = "full"        -> {"planned", "no_room"}
    [] kind = "incremental" -> {"planned", "no_room", "running", "completed"}
    [] kind = "repair"      -> Live
    [] OTHER                -> Open \cup IF ids = {} THEN {"completed", "cancelled"} ELSE {}

(* The pilot and light repair also look for a run of any plan, under an     *)
(* advisory lock that the transaction holds to its end.                     *)
Exclusive == {"pilot", "repair"}
Sought    == IF kind = "pilot" THEN Live \cup {"no_tokens"} ELSE Live

Existing(ids) ==
  {i \in DOMAIN run :
     \/ kind # "repair" /\ run[i].status \in Reusable(ids) /\ run[i].ids = ids
     \/ kind \in Exclusive /\ run[i].status \in Sought}

(* Faulty variant: nobody waits for the lock.                               *)
LockNeverHeld == TRUE

(* pg_advisory_xact_lock.                                                   *)
LockFree == kind \in Exclusive => \A p \in Planners : pc[p] # "insert"

(* What a new run may start as: an incremental, subscriptions or posts run  *)
(* waits for a capacity gate, unless the gate has passed already or the     *)
(* run is the pilot the gate is measured on.                                *)
Planned(ids) ==
  IF ids = {} /\ kind \notin {"full", "incremental"} THEN {"completed"}
  ELSE CASE kind \in {"full", "pilot", "repair"} -> {"planned"}
         [] kind = "subscriptions"              -> {"no_room"}
         [] OTHER                               -> {"planned", "no_room"}

-----------------------------------------------------------------------------
(* The command begins: the entities are read, or the gaps the capacity      *)
(* evidence of a light repair is for.                                       *)
Read(p) ==
  /\ pc[p] = "idle"
  /\ chosen' = [chosen EXCEPT ![p] = due]
  /\ evidence' = [evidence EXCEPT ![p] = due]
  /\ pc' = [pc EXCEPT ![p] = "read"]
  /\ UNCHANGED <<kind, due, run, overlapped, overlooked, changes>>

(* plan_light_repair refuses evidence for another number of gaps.           *)
Refused(p) ==
  /\ pc[p] = "read" /\ kind = "repair" /\ Cardinality(due) # Cardinality(evidence[p])
  /\ pc' = [pc EXCEPT ![p] = "idle"]
  /\ UNCHANGED <<kind, due, run, chosen, evidence, overlapped, overlooked, changes>>

(* Behind the lock, where there is one: an existing run is the answer, or   *)
(* none was found.                                                          *)
Look(p) ==
  /\ pc[p] = "read" /\ LockFree
  /\ pc' = [pc EXCEPT ![p] = IF Existing(chosen[p]) # {} THEN "idle" ELSE "insert"]
  /\ overlapped' = (overlapped \/ \E other \in Planners : pc[other] = "insert")
  /\ overlooked' = (overlooked \/
       /\ Existing(chosen[p]) = {}
       /\ \E i \in DOMAIN run : /\ run[i].status \in Open
                                /\ kind \in Exclusive \/ run[i].ids = chosen[p])
  /\ UNCHANGED <<kind, due, run, chosen, evidence, changes>>

(* The run and its jobs; light repair selects the gaps there are now.       *)
Insert(p) ==
  /\ pc[p] = "insert" /\ Len(run) < MaxRuns
  /\ LET ids == IF kind = "repair" THEN due ELSE chosen[p]
     IN  \E s \in Planned(ids) : run' = Append(run, [status |-> s, ids |-> ids])
  /\ pc' = [pc EXCEPT ![p] = "idle"]
  /\ UNCHANGED <<kind, due, chosen, evidence, overlapped, overlooked, changes>>

-----------------------------------------------------------------------------
(* Workers and operators: a run is started, or resumed, ...                 *)
Advance(i) ==
  /\ run[i].status \in Open \ {"running"}
  /\ run' = [run EXCEPT ![i].status = "running"]
  /\ UNCHANGED <<kind, due, plannerVars, overlapped, overlooked, changes>>

(* ... parked, ...                                                          *)
Park(i) ==
  /\ run[i].status = "running" /\ changes < MaxChanges
  /\ \E s \in {"paused", "waiting", "no_tokens", "no_room"} :
       run' = [run EXCEPT ![i].status = s]
  /\ changes' = changes + 1
  /\ UNCHANGED <<kind, due, plannerVars, overlapped, overlooked>>

(* ... and carried out, or cancelled.  What full and incremental runs are   *)
(* for, the approved groups, does not change by carrying them out.          *)
Conclude(i) ==
  /\ run[i].status \in Open
  /\ \/ /\ run[i].status = "running"
        /\ run' = [run EXCEPT ![i].status = "completed"]
        /\ due' = IF kind \in {"full", "incremental"} THEN due ELSE due \ run[i].ids
     \/ /\ run' = [run EXCEPT ![i].status = "cancelled"]
        /\ UNCHANGED due
  /\ UNCHANGED <<kind, plannerVars, overlapped, overlooked, changes>>

Age(e) ==
  /\ e \notin due /\ changes < MaxChanges
  /\ due' = due \cup {e} /\ changes' = changes + 1
  /\ UNCHANGED <<kind, run, plannerVars, overlapped, overlooked>>

Next ==
  \/ \E p \in Planners : Read(p) \/ Refused(p) \/ Look(p) \/ Insert(p)
  \/ \E i \in DOMAIN run : Advance(i) \/ Park(i) \/ Conclude(i)
  \/ \E e \in Entities : Age(e)

Spec == Init /\ [][Next]_vars

-----------------------------------------------------------------------------
(* Properties.                                                              *)

(* The work is planned once: no two open runs are for the same entities,    *)
(* and of the pilot and of light repair there are no two open runs at all,  *)
(* however their planners overlap.  Plans without a lock may overlap and    *)
(* repeat each other, and a run in a status that its planner passes over    *)
(* does not count.                                                          *)
NotPlannedTwice ==
  overlooked \/ (overlapped /\ kind \notin Exclusive) \/
    \A i, j \in DOMAIN run :
      i # j /\ run[i].status \in Open /\ run[j].status \in Open
        => kind \notin Exclusive /\ run[i].ids # run[j].ids
=============================================================================
