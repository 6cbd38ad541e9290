----------------------- MODULE CollectionQueueProofs -----------------------
(***************************************************************************)
(* Theorems about CollectionQueue, for any number of jobs, workers and     *)
(* slots, and any set of disturbances unless a theorem excludes some.      *)
(***************************************************************************)
EXTENDS CollectionQueue, TLAPS, FiniteSetTheorems

(* The values of the sets that types are made of.                           *)
LEMMA StatusFacts ==
  /\ Finished = {"completed", "skipped", "failed"}
  /\ Finished \subseteq JobStatus /\ Active \subseteq JobStatus
  /\ {"pending", "running", "retry_wait", "paused", "cancelled", "unplanned"}
       \subseteq JobStatus
  /\ RunDone \subseteq RunStatus
  /\ {"planned", "running", "paused", "paused_no_tokens", "waiting_method_limit",
      "paused_capacity_limit", "cancelled"} \subseteq RunStatus
  BY DEF Finished, Active, JobStatus, RunDone, RunStatus, Runnable, Wakeable

(* A count of jobs is a natural number, because there are finitely many.    *)
LEMMA CountsAreNaturals ==
  ASSUME NEW f
  PROVE  CountsOf(f) \in [Finished -> Nat]
<1>1. \A st \in Finished : CountIn(f, st) \in Nat
  BY QueueAssumption, FS_Subset, FS_CardinalityType DEF QueueAssumption, CountIn
<1> QED BY <1>1 DEF CountsOf

-----------------------------------------------------------------------------
(* Type correctness.                                                        *)

(* The rows of a new run, before any process knows of it, are well typed.   *)
LEMMA InitType == Init => TypeOK
  BY QueueAssumption, StatusFacts
  DEF Init, TypeOK, QueueAssumption, LeaseState, LoopState, TaskPhase, Looping, Working

(* Claiming any set of jobs keeps the types of the columns.                 *)
LEMMA LeaseType ==
  ASSUME TypeOK, NEW S \in SUBSET Jobs, Lease(S)
  PROVE  /\ status' \in [Jobs -> JobStatus] /\ attempt' \in [Jobs -> Nat]
         /\ due' \in [Jobs -> BOOLEAN] /\ lease' \in [Jobs -> LeaseState]
         /\ tokenPause' \in [Jobs -> BOOLEAN] /\ tries' \in [Jobs -> Nat]
  BY StatusFacts DEF TypeOK, Lease, LeaseState

(* Returning any set of jobs does: the attempt count stays natural.         *)
LEMMA GiveBackType ==
  ASSUME TypeOK, NEW S \in SUBSET Jobs, GiveBack(S)
  PROVE  /\ status' \in [Jobs -> JobStatus] /\ attempt' \in [Jobs -> Nat]
         /\ due' \in [Jobs -> BOOLEAN] /\ lease' \in [Jobs -> LeaseState]
         /\ tries' \in [Jobs -> Nat]
<1>1. attempt' \in [Jobs -> Nat]
  <2>1. \A j \in Jobs : Monus(attempt[j]) \in Nat /\ attempt[j] \in Nat
    BY DEF TypeOK, Monus
  <2> QED BY <2>1 DEF GiveBack
<1>2. status' \in [Jobs -> JobStatus] /\ lease' \in [Jobs -> LeaseState]
  BY StatusFacts DEF TypeOK, GiveBack, LeaseState
<1> QED BY <1>1, <1>2 DEF TypeOK, GiveBack

(* recover_expired does, for the rows whose lease has expired.              *)
LEMMA RecoverType ==
  ASSUME TypeOK, Recover
  PROVE  /\ status' \in [Jobs -> JobStatus] /\ attempt' \in [Jobs -> Nat]
         /\ due' \in [Jobs -> BOOLEAN] /\ lease' \in [Jobs -> LeaseState]
         /\ tokenPause' \in [Jobs -> BOOLEAN] /\ tries' \in [Jobs -> Nat]
<1>2. Expired \in SUBSET Jobs
  BY DEF Expired
<1>1. tokenPause' \in [Jobs -> BOOLEAN]
  BY DEF Recover, TypeOK
<1> QED BY <1>1, <1>2, GiveBackType DEF Recover

(* A closed run is completed, with or without errors.                       *)
LEMMA VerdictType == \A c : Verdict(c) \in RunDone
  BY DEF Verdict, RunDone

(* finish keeps the types of the row, the run and its counters.             *)
LEMMA FinishType ==
  ASSUME TypeOK, NEW j \in Jobs, NEW st \in JobStatus, Finish(j, st)
  PROVE  /\ status' \in [Jobs -> JobStatus] /\ attempt' \in [Jobs -> Nat]
         /\ due' \in [Jobs -> BOOLEAN] /\ lease' \in [Jobs -> LeaseState]
         /\ tokenPause' \in [Jobs -> BOOLEAN] /\ tries' \in [Jobs -> Nat]
         /\ runStatus' \in RunStatus /\ counted' \in [Finished -> Nat]
<1>1. CASE status[j] \in Finished
  BY <1>1 DEF Finish, TypeOK, jobVars, runVars
<1>2. CASE status[j] \notin Finished
  <2>1. /\ status' = [status EXCEPT ![j] = st]
        /\ due' = [due EXCEPT ![j] = (st # "retry_wait")]
        /\ lease' = [lease EXCEPT ![j] = "none"]
        /\ tokenPause' = [tokenPause EXCEPT ![j] = (st = "paused")]
        /\ tries' = [tries EXCEPT ![j] = @ + 1]
        /\ attempt' = attempt
    BY <1>2 DEF Finish
  <2>2. /\ status \in [Jobs -> JobStatus] /\ attempt \in [Jobs -> Nat]
        /\ due \in [Jobs -> BOOLEAN] /\ lease \in [Jobs -> LeaseState]
        /\ tokenPause \in [Jobs -> BOOLEAN] /\ tries \in [Jobs -> Nat]
    BY DEF TypeOK
  <2>3. status' \in [Jobs -> JobStatus] /\ attempt' \in [Jobs -> Nat]
    BY <2>1, <2>2
  <2>4. lease' \in [Jobs -> LeaseState] /\ tries' \in [Jobs -> Nat]
    BY <2>1, <2>2 DEF LeaseState
  <2>5. due' \in [Jobs -> BOOLEAN] /\ tokenPause' \in [Jobs -> BOOLEAN]
    BY <2>1, <2>2, Zenon
  <2>6. counted' \in [Finished -> Nat]
    BY <1>2 DEF Finish, TypeOK, CountOne
  <2>7. runStatus' \in RunStatus
    BY <1>2, VerdictType, StatusFacts DEF Finish, TypeOK
  <2> QED BY <2>3, <2>4, <2>5, <2>6, <2>7
<1> QED BY <1>1, <1>2

(* set_run_status does, for every status it is called with.                 *)
LEMMA SetRunStatusType ==
  ASSUME TypeOK, NEW st \in RunStatus, SetRunStatus(st)
  PROVE  /\ status' \in [Jobs -> JobStatus] /\ attempt' \in [Jobs -> Nat]
         /\ due' \in [Jobs -> BOOLEAN] /\ lease' \in [Jobs -> LeaseState]
         /\ tokenPause' \in [Jobs -> BOOLEAN] /\ tries' \in [Jobs -> Nat]
         /\ runStatus' \in RunStatus /\ counted' \in [Finished -> Nat]
  BY StatusFacts DEF TypeOK, SetRunStatus

(* A slot whose task has ended is well typed.                               *)
LEMMA FreeSlotType ==
  ASSUME TypeOK, NEW s, FreeSlot(s)
  PROVE  /\ phase' \in [Slots -> TaskPhase] /\ held' \in [Slots -> Jobs \cup {NoJob}]
         /\ seenAttempt' \in [Slots -> Nat] /\ wakesRun' \in [Slots -> BOOLEAN]
         /\ extras' \in [Slots -> SUBSET Jobs]
         /\ \A u \in Slots : phase'[u] # "idle" => held'[u] \in Jobs
<1>1. wakesRun' \in [Slots -> BOOLEAN]
  <2>1. wakesRun' = [wakesRun EXCEPT ![s] = FALSE]
    BY DEF FreeSlot
  <2>2. wakesRun \in [Slots -> BOOLEAN]
    BY DEF TypeOK
  <2> QED BY <2>1, <2>2, Zenon
<1> QED BY <1>1 DEF FreeSlot, TypeOK, TaskPhase

(* Every step of a worker, an operator or the environment keeps the types.  *)
LEMMA NextType ==
  ASSUME TypeOK, [Next]_vars
  PROVE  TypeOK'
<1> USE DEF jobVars, runVars, loopVars, slotVars, tokenVars, envVars
<1>0. ASSUME NEW w \in Workers, ListRun(w) PROVE TypeOK'
  <2>1. poolUp' \in [Workers -> BOOLEAN]
    <3>1. poolUp' = [poolUp EXCEPT ![w] = tokensUp]
      BY <1>0 DEF ListRun
    <3>2. poolUp \in [Workers -> BOOLEAN] /\ tokensUp \in BOOLEAN
      BY DEF TypeOK
    <3> QED BY <3>1, <3>2, Zenon
  <2> QED BY <1>0, <2>1 DEF TypeOK, ListRun, LoopState
<1>1. ASSUME NEW w \in Workers, Start(w) PROVE TypeOK'
  <2>1. poolUp' \in [Workers -> BOOLEAN]
    <3>1. poolUp' = [poolUp EXCEPT ![w] = tokensUp] \/ poolUp' = poolUp
      BY <1>1 DEF Start
    <3>2. poolUp \in [Workers -> BOOLEAN] /\ tokensUp \in BOOLEAN
      BY DEF TypeOK
    <3> QED BY <3>1, <3>2, Zenon
  <2> QED BY <1>1, <2>1, RecoverType DEF TypeOK, Start, LoopState, Looping
<1>2. ASSUME NEW w \in Workers, StartWithoutTokens(w) PROVE TypeOK'
  BY <1>2, SetRunStatusType, StatusFacts DEF TypeOK, StartWithoutTokens
<1>3. ASSUME NEW w \in Workers, RejectRun(w) PROVE TypeOK'
  BY <1>3, SetRunStatusType, StatusFacts DEF TypeOK, RejectRun, Disturb, LoopState
<1>4. ASSUME NEW w \in Workers, MethodsBlocked(w) PROVE TypeOK'
  BY <1>4 DEF TypeOK, MethodsBlocked, Disturb, LoopState
<1>5. ASSUME NEW w \in Workers, WaitForMethods(w) PROVE TypeOK'
  BY <1>5, StatusFacts DEF TypeOK, WaitForMethods, LoopState, Looping
<1>6. ASSUME NEW w \in Workers, DiskStop(w) PROVE TypeOK'
  BY <1>6, SetRunStatusType, StatusFacts DEF TypeOK, DiskStop, Disturb, LoopState
<1>7. ASSUME NEW w \in Workers, QuantumReached(w) PROVE TypeOK'
  BY <1>7 DEF TypeOK, QuantumReached, LoopState
<1>8. ASSUME NEW w \in Workers, StopRequested(w) PROVE TypeOK'
  BY <1>8 DEF TypeOK, StopRequested, Disturb, LoopState
<1>9. ASSUME NEW w \in Workers, RefreshCount(w) PROVE TypeOK'
  BY <1>9 DEF TypeOK, RefreshCount, LoopState
<1>10. ASSUME NEW w \in Workers, RefreshRun(w) PROVE TypeOK'
  BY <1>10, CountsAreNaturals, VerdictType, StatusFacts DEF TypeOK, RefreshRun, RefreshedStatus, LoopState, Looping
<1>11. ASSUME NEW s \in Slots, NEW j \in Jobs, ClaimSelect(s, j) PROVE TypeOK'
  <2>1. wakesRun' \in [Slots -> BOOLEAN]
    <3>1. wakesRun' = [wakesRun EXCEPT ![s] = runStatus \in Wakeable]
      BY <1>11 DEF ClaimSelect
    <3>2. wakesRun \in [Slots -> BOOLEAN]
      BY DEF TypeOK
    <3>3. (runStatus \in Wakeable) \in BOOLEAN
      OBVIOUS
    <3> QED BY <3>1, <3>2, <3>3, Zenon
  <2> QED
    BY <1>11, <2>1, QueueAssumption
    DEF TypeOK, ClaimSelect, QueueAssumption, LoopState, Looping, TaskPhase
<1>12. ASSUME NEW s \in Slots, ClaimCommit(s) PROVE TypeOK'
  <2>1. wakesRun' \in [Slots -> BOOLEAN]
    <3>1. wakesRun' = [wakesRun EXCEPT ![s] = FALSE]
      BY <1>12 DEF ClaimCommit
    <3>2. wakesRun \in [Slots -> BOOLEAN]
      BY DEF TypeOK
    <3> QED BY <3>1, <3>2, Zenon
  <2>0. held[s] \in Jobs
    BY <1>12 DEF ClaimCommit, TypeOK
  <2>2. seenAttempt' \in [Slots -> Nat]
    BY <1>12, <2>0 DEF ClaimCommit, TypeOK
  <2>3. runStatus' \in RunStatus
    BY <1>12, StatusFacts DEF ClaimCommit, TypeOK
  <2> QED BY <1>12, <2>0, <2>1, <2>2, <2>3, LeaseType DEF TypeOK, ClaimCommit, TaskPhase, Working
<1>13. ASSUME NEW s \in Slots, NEW X \in SUBSET BatchJobs, ClaimBatch(s, X) PROVE TypeOK'
  BY <1>13, LeaseType, QueueAssumption DEF TypeOK, ClaimBatch, QueueAssumption
<1>14. ASSUME NEW s \in Slots, Release(s) PROVE TypeOK'
  BY <1>14, GiveBackType DEF TypeOK, Release, Disturb, TaskPhase, Working
<1>15. ASSUME NEW s \in Slots, NEW j \in Jobs, FinishExtra(s, j) PROVE TypeOK'
  BY <1>15, FinishType, StatusFacts DEF TypeOK, FinishExtra, Disturb, TaskPhase, Working
<1>16. ASSUME NEW s \in Slots, Complete(s) PROVE TypeOK'
  <2>1. held[s] \in Jobs
    BY <1>16 DEF Complete, TypeOK
  <2> QED BY <2>1, <1>16, FinishType, FreeSlotType, StatusFacts DEF TypeOK, Complete
<1>17. ASSUME NEW s \in Slots, Skip(s) PROVE TypeOK'
  <2>1. held[s] \in Jobs
    BY <1>17 DEF Skip, TypeOK
  <2> QED BY <2>1, <1>17, FinishType, FreeSlotType, StatusFacts DEF TypeOK, Skip
<1>18. ASSUME NEW s \in Slots, Forbidden(s) PROVE TypeOK'
  <2>1. held[s] \in Jobs
    BY <1>18 DEF Forbidden, TypeOK
  <2> QED BY <2>1, <1>18, FinishType, FreeSlotType, StatusFacts DEF TypeOK, Forbidden, Error, Disturb
<1>19. ASSUME NEW s \in Slots, RetryOrFail(s) PROVE TypeOK'
  <2>1. held[s] \in Jobs
    BY <1>19 DEF RetryOrFail, TypeOK, Working
  <2> QED BY <2>1, <1>19, FinishType, FreeSlotType, StatusFacts DEF TypeOK, RetryOrFail, Error, Disturb
<1>20. ASSUME NEW s \in Slots, Miss(s) PROVE TypeOK'
  <2>1. held[s] \in Jobs
    BY <1>20 DEF Miss, TypeOK
  <2> QED BY <2>1, <1>20, FinishType, FreeSlotType, StatusFacts DEF TypeOK, Miss, Disturb
<1>21. ASSUME NEW s \in Slots, DeferMethod(s) PROVE TypeOK'
  <2>1. held[s] \in Jobs
    BY <1>21 DEF DeferMethod, TypeOK
  <2>2. due' \in [Jobs -> BOOLEAN] /\ tokenPause' \in [Jobs -> BOOLEAN]
    <3>1. /\ due' = [due EXCEPT ![held[s]] = FALSE]
          /\ tokenPause' = [tokenPause EXCEPT ![held[s]] = FALSE]
      BY <1>21 DEF DeferMethod
    <3>2. due \in [Jobs -> BOOLEAN] /\ tokenPause \in [Jobs -> BOOLEAN]
      BY DEF TypeOK
    <3> QED BY <3>1, <3>2, Zenon
  <2>3. /\ status' \in [Jobs -> JobStatus] /\ attempt' \in [Jobs -> Nat]
        /\ lease' \in [Jobs -> LeaseState] /\ runStatus' \in RunStatus
    <3>1. /\ status' = [status EXCEPT ![held[s]] = "retry_wait"]
          /\ lease' = [lease EXCEPT ![held[s]] = "none"]
          /\ attempt' = [attempt EXCEPT ![held[s]] = Monus(attempt[held[s]])]
          /\ runStatus' = "waiting_method_limit"
      BY <1>21 DEF DeferMethod
    <3>2. /\ status \in [Jobs -> JobStatus] /\ attempt \in [Jobs -> Nat]
          /\ lease \in [Jobs -> LeaseState]
      BY DEF TypeOK
    <3>3. Monus(attempt[held[s]]) \in Nat
      BY <2>1, <3>2 DEF Monus
    <3> QED BY <3>1, <3>2, <3>3, StatusFacts DEF LeaseState
  <2>4. disturbed' \in Nat
    BY <1>21 DEF TypeOK, DeferMethod, Error, Disturb
  <2>5. UNCHANGED <<tries, counted, loopVars, tokenVars>> /\ FreeSlot(s)
    BY <1>21 DEF DeferMethod
  <2> QED BY <2>2, <2>3, <2>4, <2>5, FreeSlotType DEF TypeOK
<1>22. ASSUME NEW s \in Slots, NoTokens(s) PROVE TypeOK'
  <2>1. held[s] \in Jobs
    BY <1>22 DEF NoTokens, TypeOK
  <2> QED BY <2>1, <1>22, FinishType, StatusFacts DEF TypeOK, NoTokens, TaskPhase
<1>23. ASSUME NEW s \in Slots, PauseForTokens(s) PROVE TypeOK'
  BY <1>23, SetRunStatusType, FreeSlotType, StatusFacts DEF TypeOK, PauseForTokens
<1>24. ASSUME RecoverExpired PROVE TypeOK'
  BY <1>24, RecoverType DEF TypeOK, RecoverExpired
<1>25. ASSUME ResumePausedNoTokens PROVE TypeOK'
  BY <1>25, StatusFacts DEF TypeOK, ResumePausedNoTokens
<1>26. ASSUME OperatorPause PROVE TypeOK'
  BY <1>26, SetRunStatusType, StatusFacts DEF TypeOK, OperatorPause, Disturb
<1>27. ASSUME OperatorResume PROVE TypeOK'
  BY <1>27, SetRunStatusType, StatusFacts DEF TypeOK, OperatorResume
<1>28. ASSUME RetryFailed PROVE TypeOK'
  BY <1>28, StatusFacts DEF TypeOK, RetryFailed, Disturb
<1>29. ASSUME CancelPilot PROVE TypeOK'
  BY <1>29, StatusFacts DEF TypeOK, CancelPilot, Disturb, LeaseState
<1>30. ASSUME NEW j \in Jobs, BackoffElapses(j) PROVE TypeOK'
  BY <1>30 DEF TypeOK, BackoffElapses
<1>31. ASSUME NEW j \in Jobs, LeaseExpires(j) PROVE TypeOK'
  BY <1>31 DEF TypeOK, LeaseExpires, LeaseState
<1>32. ASSUME TokensLost PROVE TypeOK'
  <2>1. poolUp' \in [Workers -> BOOLEAN]
    <3>1. poolUp' = [w \in Workers |-> FALSE]
      BY <1>32 DEF TokensLost
    <3> QED BY <3>1, Zenon
  <2>2. tokensUp' \in BOOLEAN
    BY <1>32, Zenon DEF TokensLost
  <2>4. disturbed' \in Nat
    BY <1>32 DEF TokensLost, Disturb, TypeOK
  <2>3. UNCHANGED <<jobVars, runVars, loopVars, slotVars>>
    BY <1>32 DEF TokensLost
  <2> QED BY <2>1, <2>2, <2>3, <2>4 DEF TypeOK
<1>33. ASSUME TokensRestored PROVE TypeOK'
  BY <1>33 DEF TypeOK, TokensRestored
<1>34. ASSUME NEW w \in Workers, Crash(w) PROVE TypeOK'
  <2>1. wakesRun' \in [Slots -> BOOLEAN]
    <3>1. wakesRun' = [s \in Slots |-> IF WorkerOf[s] = w THEN FALSE ELSE wakesRun[s]]
      BY <1>34 DEF Crash
    <3>2. wakesRun \in [Slots -> BOOLEAN]
      BY DEF TypeOK
    <3>3. \A s \in Slots : (IF WorkerOf[s] = w THEN FALSE ELSE wakesRun[s]) \in BOOLEAN
      BY <3>2, Zenon
    <3> QED BY <3>1, <3>3, Zenon
  <2>2. /\ pc' \in [Workers -> LoopState] /\ snap' \in [Workers -> [Jobs -> JobStatus]]
        /\ phase' \in [Slots -> TaskPhase] /\ held' \in [Slots -> Jobs \cup {NoJob}]
        /\ \A s \in Slots : phase'[s] # "idle" => held'[s] \in Jobs
    BY <1>34, StatusFacts DEF TypeOK, Crash, LoopState, TaskPhase
  <2>3. /\ seenAttempt' \in [Slots -> Nat] /\ extras' \in [Slots -> SUBSET Jobs]
        /\ disturbed' \in Nat
    BY <1>34 DEF TypeOK, Crash, Disturb
  <2>4. UNCHANGED <<jobVars, runVars, tokenVars>>
    BY <1>34 DEF Crash
  <2> QED BY <2>1, <2>2, <2>3, <2>4 DEF TypeOK
<1>36. ASSUME NEW s \in Slots, NEW X \in SUBSET Jobs, Discover(s, X) PROVE TypeOK'
  BY <1>36, StatusFacts DEF TypeOK, Discover
<1>35. CASE UNCHANGED vars
  BY <1>35 DEF TypeOK, vars
<1> QED
  BY <1>0, <1>1, <1>2, <1>3, <1>4, <1>5, <1>6, <1>7, <1>8, <1>9, <1>10,
     <1>11, <1>12, <1>13, <1>14, <1>15, <1>16, <1>17, <1>18, <1>19, <1>20,
     <1>21, <1>22, <1>23, <1>24, <1>25, <1>26, <1>27, <1>28, <1>29, <1>30,
     <1>31, <1>32, <1>33, <1>34, <1>35, <1>36
  DEF Next, LoopStep, TaskStep, CommandStep, EnvStep

(* The columns and the processes' memory keep their types.                  *)
THEOREM TypeCorrect == Spec => []TypeOK
<1>1. Init => TypeOK
  BY InitType
<1>2. TypeOK /\ [Next]_vars => TypeOK'
  BY NextType
<1> QED
  BY <1>1, <1>2, PTL DEF Spec

-----------------------------------------------------------------------------
(* A job is running exactly as long as it carries a lease.                  *)

(* Claiming marks a job running and stamps its lease together.              *)
LEMMA LeaseKeepsLeases ==
  ASSUME TypeOK, RunningIffLeased, NEW S \in SUBSET Jobs, Lease(S)
  PROVE  RunningIffLeased'
  BY DEF TypeOK, RunningIffLeased, Lease

(* Recovery and release clear both together.                                *)
LEMMA GiveBackKeepsLeases ==
  ASSUME TypeOK, RunningIffLeased, NEW S \in SUBSET Jobs, GiveBack(S)
  PROVE  RunningIffLeased'
  BY DEF TypeOK, RunningIffLeased, GiveBack

(* finish clears the lease, and never leaves the job running.               *)
LEMMA FinishKeepsLeases ==
  ASSUME TypeOK, RunningIffLeased, NEW j \in Jobs, NEW st, st # "running", Finish(j, st)
  PROVE  RunningIffLeased'
<1>1. CASE status[j] \in Finished
  BY <1>1 DEF Finish, RunningIffLeased, jobVars
<1>2. CASE status[j] \notin Finished
  <2>1. /\ status' = [status EXCEPT ![j] = st] /\ lease' = [lease EXCEPT ![j] = "none"]
        /\ DOMAIN status = Jobs /\ DOMAIN lease = Jobs
    BY <1>2 DEF Finish, TypeOK
  <2>2. status'[j] = st /\ lease'[j] = "none"
    BY <2>1
  <2>3. \A k \in Jobs \ {j} : status'[k] = status[k] /\ lease'[k] = lease[k]
    BY <2>1
  <2> QED BY <2>2, <2>3 DEF RunningIffLeased
<1> QED BY <1>1, <1>2

(* set_run_status moves only jobs that are not running.                     *)
LEMMA SetRunStatusKeepsLeases ==
  ASSUME TypeOK, RunningIffLeased, NEW st, SetRunStatus(st)
  PROVE  RunningIffLeased'
  BY DEF TypeOK, RunningIffLeased, SetRunStatus

(* No step of anyone separates the status from the lease.                   *)
LEMMA NextKeepsLeases ==
  ASSUME TypeOK, RunningIffLeased, [Next]_vars
  PROVE  RunningIffLeased'
<1> USE DEF jobVars
<1>0. ASSUME NEW w \in Workers, ListRun(w) PROVE RunningIffLeased'
  BY <1>0 DEF ListRun, RunningIffLeased
<1>1. ASSUME NEW w \in Workers, Start(w) PROVE RunningIffLeased'
  BY <1>1, GiveBackKeepsLeases DEF Start, Recover, Expired
<1>2. ASSUME NEW w \in Workers, StartWithoutTokens(w) PROVE RunningIffLeased'
  BY <1>2, SetRunStatusKeepsLeases DEF StartWithoutTokens
<1>3. ASSUME NEW w \in Workers, RejectRun(w) PROVE RunningIffLeased'
  BY <1>3, SetRunStatusKeepsLeases DEF RejectRun
<1>4. ASSUME NEW w \in Workers, MethodsBlocked(w) PROVE RunningIffLeased'
  BY <1>4 DEF MethodsBlocked, RunningIffLeased
<1>5. ASSUME NEW w \in Workers, WaitForMethods(w) PROVE RunningIffLeased'
  BY <1>5 DEF WaitForMethods, RunningIffLeased
<1>6. ASSUME NEW w \in Workers, DiskStop(w) PROVE RunningIffLeased'
  BY <1>6, SetRunStatusKeepsLeases DEF DiskStop
<1>7. ASSUME NEW w \in Workers, QuantumReached(w) PROVE RunningIffLeased'
  BY <1>7 DEF QuantumReached, RunningIffLeased
<1>8. ASSUME NEW w \in Workers, StopRequested(w) PROVE RunningIffLeased'
  BY <1>8 DEF StopRequested, RunningIffLeased
<1>9. ASSUME NEW w \in Workers, RefreshCount(w) PROVE RunningIffLeased'
  BY <1>9 DEF RefreshCount, RunningIffLeased
<1>10. ASSUME NEW w \in Workers, RefreshRun(w) PROVE RunningIffLeased'
  BY <1>10 DEF RefreshRun, RunningIffLeased
<1>11. ASSUME NEW s \in Slots, NEW j \in Jobs, ClaimSelect(s, j) PROVE RunningIffLeased'
  BY <1>11 DEF ClaimSelect, RunningIffLeased
<1>12. ASSUME NEW s \in Slots, ClaimCommit(s) PROVE RunningIffLeased'
  BY <1>12, LeaseKeepsLeases DEF ClaimCommit, TypeOK
<1>13. ASSUME NEW s \in Slots, NEW X \in SUBSET BatchJobs, ClaimBatch(s, X) PROVE RunningIffLeased'
  BY <1>13, LeaseKeepsLeases, QueueAssumption DEF ClaimBatch, QueueAssumption
<1>14. ASSUME NEW s \in Slots, Release(s) PROVE RunningIffLeased'
  BY <1>14, GiveBackKeepsLeases DEF Release, TypeOK
<1>15. ASSUME NEW s \in Slots, NEW j \in Jobs, FinishExtra(s, j) PROVE RunningIffLeased'
  BY <1>15, FinishKeepsLeases DEF FinishExtra
<1>16. ASSUME NEW s \in Slots, Complete(s) PROVE RunningIffLeased'
  BY <1>16, FinishKeepsLeases DEF Complete, TypeOK, Working
<1>17. ASSUME NEW s \in Slots, Skip(s) PROVE RunningIffLeased'
  BY <1>17, FinishKeepsLeases DEF Skip, TypeOK, Working
<1>18. ASSUME NEW s \in Slots, Forbidden(s) PROVE RunningIffLeased'
  BY <1>18, FinishKeepsLeases DEF Forbidden, TypeOK, Working
<1>19. ASSUME NEW s \in Slots, RetryOrFail(s) PROVE RunningIffLeased'
  BY <1>19, FinishKeepsLeases DEF RetryOrFail, TypeOK, Working
<1>20. ASSUME NEW s \in Slots, Miss(s) PROVE RunningIffLeased'
  BY <1>20, FinishKeepsLeases DEF Miss, TypeOK, Working
<1>21. ASSUME NEW s \in Slots, DeferMethod(s) PROVE RunningIffLeased'
  BY <1>21 DEF DeferMethod, RunningIffLeased, TypeOK, Active
<1>22. ASSUME NEW s \in Slots, NoTokens(s) PROVE RunningIffLeased'
  BY <1>22, FinishKeepsLeases DEF NoTokens, TypeOK, Working
<1>23. ASSUME NEW s \in Slots, PauseForTokens(s) PROVE RunningIffLeased'
  BY <1>23, SetRunStatusKeepsLeases DEF PauseForTokens
<1>24. ASSUME RecoverExpired PROVE RunningIffLeased'
  BY <1>24, GiveBackKeepsLeases DEF RecoverExpired, Recover, Expired
<1>25. ASSUME ResumePausedNoTokens PROVE RunningIffLeased'
  BY <1>25 DEF ResumePausedNoTokens, RunningIffLeased, TypeOK, Active
<1>26. ASSUME OperatorPause PROVE RunningIffLeased'
  BY <1>26, SetRunStatusKeepsLeases DEF OperatorPause
<1>27. ASSUME OperatorResume PROVE RunningIffLeased'
  BY <1>27, SetRunStatusKeepsLeases DEF OperatorResume
<1>28. ASSUME RetryFailed PROVE RunningIffLeased'
  BY <1>28 DEF RetryFailed, RunningIffLeased, TypeOK, Active
<1>29. ASSUME CancelPilot PROVE RunningIffLeased'
  BY <1>29 DEF CancelPilot, RunningIffLeased, TypeOK, Active
<1>30. ASSUME NEW j \in Jobs, BackoffElapses(j) PROVE RunningIffLeased'
  BY <1>30 DEF BackoffElapses, RunningIffLeased
<1>31. ASSUME NEW j \in Jobs, LeaseExpires(j) PROVE RunningIffLeased'
  BY <1>31 DEF LeaseExpires, RunningIffLeased, TypeOK, Active
<1>32. ASSUME TokensLost PROVE RunningIffLeased'
  BY <1>32 DEF TokensLost, RunningIffLeased
<1>33. ASSUME TokensRestored PROVE RunningIffLeased'
  BY <1>33 DEF TokensRestored, RunningIffLeased
<1>34. ASSUME NEW w \in Workers, Crash(w) PROVE RunningIffLeased'
  BY <1>34 DEF Crash, RunningIffLeased
<1>36. ASSUME NEW s \in Slots, NEW X \in SUBSET Jobs, Discover(s, X) PROVE RunningIffLeased'
  BY <1>36 DEF Discover, RunningIffLeased, TypeOK
<1>35. CASE UNCHANGED vars
  BY <1>35 DEF vars, RunningIffLeased
<1> QED
  BY <1>0, <1>1, <1>2, <1>3, <1>4, <1>5, <1>6, <1>7, <1>8, <1>9, <1>10,
     <1>11, <1>12, <1>13, <1>14, <1>15, <1>16, <1>17, <1>18, <1>19, <1>20,
     <1>21, <1>22, <1>23, <1>24, <1>25, <1>26, <1>27, <1>28, <1>29, <1>30,
     <1>31, <1>32, <1>33, <1>34, <1>35, <1>36
  DEF Next, LoopStep, TaskStep, CommandStep, EnvStep

(* Whatever processes, operators and faults do, recover_expired can find    *)
(* every job that lost its task.                                            *)
THEOREM EveryRunningJobIsLeased == Spec => []RunningIffLeased
<1>1. Init => RunningIffLeased
  BY DEF Init, RunningIffLeased
<1>2. TypeOK /\ RunningIffLeased /\ [Next]_vars => RunningIffLeased'
  BY NextKeepsLeases
<1> QED
  BY <1>1, <1>2, TypeCorrect, PTL DEF Spec

-----------------------------------------------------------------------------
(* A job has one owner, as long as no task outlives its lease.              *)

(* A job somebody works on is running, unless a pilot was cancelled under   *)
(* it, and its lease is recent; a job being claimed is claimable.           *)
InWork(j) == status[j] \in {"running", "cancelled"} /\ lease[j] # "expired"
Waiting(j) == status[j] \in {"pending", "retry_wait"}

OwnerInv ==
  /\ \A s \in Slots : \A j \in Jobs : WorksOn(s, j) => InWork(j)
  /\ \A s \in Slots : phase[s] = "claiming" => Waiting(held[s])
  /\ \A s \in Slots : phase[s] \notin {"calling", "closing"} => extras[s] = {}
  /\ SingleOwner

(* What a step must respect in a job that it does not own: the work on it,  *)
(* and the row lock of a claim.                                             *)
Respects(j) ==
  /\ InWork(j) => InWork(j)'
  /\ Waiting(j) /\ ~RowFree(j) => Waiting(j)'

(* A step that moves no task and respects every job keeps ownership.        *)
LEMMA JobStepKeepsOwners ==
  ASSUME TypeOK, OwnerInv, UNCHANGED slotVars, \A j \in Jobs : Respects(j)
  PROVE  OwnerInv'
<1>1. \A s \in Slots : phase[s] # "idle" => held[s] \in Jobs
  BY DEF TypeOK
<1>2. \A s \in Slots : \A j \in Jobs : WorksOn(s, j)' => InWork(j)'
  BY DEF OwnerInv, Respects, WorksOn, slotVars
<1>3. \A s \in Slots : phase'[s] = "claiming" => Waiting(held[s])'
  BY <1>1 DEF OwnerInv, Respects, RowFree, slotVars
<1> QED
  BY <1>2, <1>3 DEF OwnerInv, SingleOwner, Owns, WorksOn, slotVars, Waiting

(* So does a step by which one task lets go of some of its jobs, if it      *)
(* respects all the others.                                                 *)
LEMMA LettingGoKeepsOwners ==
  ASSUME TypeOK, OwnerInv, NEW s \in Slots,
         \A t \in Slots \ {s} :
           phase'[t] = phase[t] /\ held'[t] = held[t] /\ extras'[t] = extras[t],
         phase[s] # "claiming", phase'[s] # "claiming",
         \A j \in Jobs : WorksOn(s, j)' => WorksOn(s, j),
         held'[s] \notin extras'[s],
         phase'[s] \in {"calling", "closing"} \/ extras'[s] = {},
         \A j \in Jobs : Respects(j) \/ (WorksOn(s, j) /\ ~WorksOn(s, j)')
  PROVE  OwnerInv'
<1>1. \A t \in Slots : \A j \in Jobs : Owns(t, j)' => Owns(t, j)
  BY DEF Owns, WorksOn
<1>2. \A t \in Slots : \A j \in Jobs : Owns(t, j)' => Respects(j)
  <2> SUFFICES ASSUME NEW t \in Slots, NEW j \in Jobs, Owns(t, j)',
                      WorksOn(s, j), ~WorksOn(s, j)'
               PROVE  FALSE
    OBVIOUS
  <2>1. Owns(t, j) /\ Owns(s, j)
    BY <1>1 DEF Owns
  <2>2. t = s
    BY <2>1 DEF OwnerInv, SingleOwner
  <2> QED BY <2>2 DEF Owns
<1>3. \A t \in Slots : \A j \in Jobs : WorksOn(t, j)' => WorksOn(t, j)
  BY DEF WorksOn
<1>4. \A t \in Slots : \A j \in Jobs : WorksOn(t, j)' => InWork(j)'
  BY <1>2, <1>3 DEF OwnerInv, Respects, Owns
<1>5. \A t \in Slots : phase'[t] = "claiming" => Waiting(held[t])'
  <2> SUFFICES ASSUME NEW t \in Slots, phase'[t] = "claiming" PROVE Waiting(held[t])'
    OBVIOUS
  <2>1. phase[t] = "claiming" /\ held'[t] = held[t]
    OBVIOUS
  <2>2. held[t] \in Jobs /\ Waiting(held[t]) /\ ~RowFree(held[t])
    BY <2>1 DEF OwnerInv, RowFree, TypeOK
  <2>3. Owns(t, held[t])'
    BY <2>1 DEF Owns
  <2>4. Respects(held[t])
    BY <1>2, <2>1, <2>2, <2>3 DEF Owns
  <2> QED BY <2>1, <2>2, <2>4 DEF Respects, Waiting
<1>6. \A t \in Slots : phase'[t] \notin {"calling", "closing"} => extras'[t] = {}
  BY DEF OwnerInv
<1>7. SingleOwner'
  <2>1. \A t \in Slots : held'[t] \notin extras'[t]
    BY DEF OwnerInv, SingleOwner
  <2> QED BY <1>1, <2>1 DEF OwnerInv, SingleOwner
<1> QED BY <1>4, <1>5, <1>6, <1>7 DEF OwnerInv

(* In particular a task that ends, if it respects all jobs but its own.     *)
LEMMA EndKeepsOwners ==
  ASSUME TypeOK, OwnerInv, NEW s \in Slots, phase[s] # "claiming", FreeSlot(s),
         \A j \in Jobs : Respects(j) \/ (phase[s] \in Working /\ j = held[s])
  PROVE  OwnerInv'
<1>1. /\ phase' = [phase EXCEPT ![s] = "idle"] /\ held' = [held EXCEPT ![s] = NoJob]
      /\ extras' = [extras EXCEPT ![s] = {}]
      /\ phase \in [Slots -> TaskPhase] /\ held \in [Slots -> Jobs \cup {NoJob}]
      /\ extras \in [Slots -> SUBSET Jobs]
  BY DEF FreeSlot, TypeOK
<1>2. phase'[s] = "idle" /\ extras'[s] = {}
  BY <1>1
<1>3. \A j \in Jobs : ~WorksOn(s, j)'
  BY <1>2 DEF WorksOn, Working
<1>4. \A t \in Slots \ {s} :
        phase'[t] = phase[t] /\ held'[t] = held[t] /\ extras'[t] = extras[t]
  BY <1>1
<1>5. \A j \in Jobs : Respects(j) \/ (WorksOn(s, j) /\ ~WorksOn(s, j)')
  BY <1>3 DEF WorksOn
<1> QED BY <1>2, <1>3, <1>4, <1>5, LettingGoKeepsOwners

(* finish respects every job but the one it is called for.                  *)
LEMMA FinishRespects ==
  ASSUME TypeOK, NEW j \in Jobs, NEW st, Finish(j, st), NEW k \in Jobs, k # j
  PROVE  Respects(k)
<1>1. CASE status[j] \in Finished
  BY <1>1 DEF Finish, Respects, InWork, Waiting, jobVars
<1>2. CASE status[j] \notin Finished
  <2>1. status' = [status EXCEPT ![j] = st] /\ lease' = [lease EXCEPT ![j] = "none"]
    BY <1>2 DEF Finish
  <2>2. status'[k] = status[k] /\ lease'[k] = lease[k]
    BY <2>1 DEF TypeOK
  <2> QED BY <2>2 DEF Respects, InWork, Waiting
<1> QED BY <1>1, <1>2

(* A task that writes its own job back, and ends, keeps ownership.          *)
LEMMA FinishAndEndKeepsOwners ==
  ASSUME TypeOK, OwnerInv, NEW s \in Slots, phase[s] \in Working,
         NEW st, Finish(held[s], st), FreeSlot(s)
  PROVE  OwnerInv'
<1>1. held[s] \in Jobs /\ phase[s] # "claiming"
  BY DEF TypeOK, Working
<1>2. \A j \in Jobs : Respects(j) \/ j = held[s]
  BY <1>1, FinishRespects
<1> QED BY <1>1, <1>2, EndKeepsOwners

(* set_run_status respects every job: a pause waits for the row locks.      *)
LEMMA SetRunStatusRespects ==
  ASSUME TypeOK, NEW st, SetRunStatus(st), NEW k \in Jobs
  PROVE  Respects(k)
  BY DEF TypeOK, SetRunStatus, Respects, InWork, Waiting

(* recover_expired touches no job whose lease is recent.                    *)
LEMMA RecoverRespects ==
  ASSUME TypeOK, Recover, NEW k \in Jobs
  PROVE  Respects(k)
  BY DEF TypeOK, Recover, GiveBack, Expired, Respects, InWork, Waiting

(* No step of anyone gives a job a second owner, if tasks end in time.      *)
LEMMA NextKeepsOwners ==
  ASSUME "overrun" \notin Disturbances, TypeOK, OwnerInv, [Next]_vars
  PROVE  OwnerInv'
<1> USE DEF jobVars
<1>0. ASSUME NEW w \in Workers, ListRun(w) PROVE OwnerInv'
  <2> \A k \in Jobs : Respects(k)
    BY <1>0 DEF ListRun, Respects, InWork, Waiting
  <2> QED BY <1>0, JobStepKeepsOwners DEF ListRun
<1>1. ASSUME NEW w \in Workers, Start(w) PROVE OwnerInv'
  BY <1>1, RecoverRespects, JobStepKeepsOwners DEF Start
<1>2. ASSUME NEW w \in Workers, StartWithoutTokens(w) PROVE OwnerInv'
  BY <1>2, SetRunStatusRespects, JobStepKeepsOwners DEF StartWithoutTokens
<1>3. ASSUME NEW w \in Workers, RejectRun(w) PROVE OwnerInv'
  BY <1>3, SetRunStatusRespects, JobStepKeepsOwners DEF RejectRun
<1>4. ASSUME NEW w \in Workers, MethodsBlocked(w) PROVE OwnerInv'
  <2> \A k \in Jobs : Respects(k)
    BY <1>4 DEF MethodsBlocked, Respects, InWork, Waiting
  <2> QED BY <1>4, JobStepKeepsOwners DEF MethodsBlocked
<1>5. ASSUME NEW w \in Workers, WaitForMethods(w) PROVE OwnerInv'
  <2> \A k \in Jobs : Respects(k)
    BY <1>5 DEF WaitForMethods, Respects, InWork, Waiting
  <2> QED BY <1>5, JobStepKeepsOwners DEF WaitForMethods
<1>6. ASSUME NEW w \in Workers, DiskStop(w) PROVE OwnerInv'
  BY <1>6, SetRunStatusRespects, JobStepKeepsOwners DEF DiskStop
<1>7. ASSUME NEW w \in Workers, QuantumReached(w) PROVE OwnerInv'
  <2> \A k \in Jobs : Respects(k)
    BY <1>7 DEF QuantumReached, Respects, InWork, Waiting
  <2> QED BY <1>7, JobStepKeepsOwners DEF QuantumReached
<1>8. ASSUME NEW w \in Workers, StopRequested(w) PROVE OwnerInv'
  <2> \A k \in Jobs : Respects(k)
    BY <1>8 DEF StopRequested, Respects, InWork, Waiting
  <2> QED BY <1>8, JobStepKeepsOwners DEF StopRequested
<1>9. ASSUME NEW w \in Workers, RefreshCount(w) PROVE OwnerInv'
  <2> \A k \in Jobs : Respects(k)
    BY <1>9 DEF RefreshCount, Respects, InWork, Waiting
  <2> QED BY <1>9, JobStepKeepsOwners DEF RefreshCount
<1>10. ASSUME NEW w \in Workers, RefreshRun(w) PROVE OwnerInv'
  <2> \A k \in Jobs : Respects(k)
    BY <1>10 DEF RefreshRun, Respects, InWork, Waiting
  <2> QED BY <1>10, JobStepKeepsOwners DEF RefreshRun
<1>11. ASSUME NEW s \in Slots, NEW j \in Jobs, ClaimSelect(s, j) PROVE OwnerInv'
  <2>1. /\ phase' = [phase EXCEPT ![s] = "claiming"] /\ held' = [held EXCEPT ![s] = j]
        /\ UNCHANGED <<status, lease, extras>> /\ phase[s] = "idle"
        /\ Waiting(j) /\ RowFree(j)
    BY <1>11 DEF ClaimSelect, Claimable, Waiting
  <2>2. /\ phase \in [Slots -> TaskPhase] /\ held \in [Slots -> Jobs \cup {NoJob}]
        /\ extras[s] = {}
    BY <2>1 DEF TypeOK, OwnerInv
  <2>3. \A t \in Slots \ {s} : phase'[t] = phase[t] /\ held'[t] = held[t]
    BY <2>1, <2>2
  <2>4. phase'[s] = "claiming" /\ held'[s] = j /\ extras'[s] = {}
    BY <2>1, <2>2
  <2>5. \A t \in Slots : \A k \in Jobs : WorksOn(t, k)' => t # s /\ WorksOn(t, k)
    BY <2>1, <2>3, <2>4 DEF WorksOn, Working
  <2>6. \A k \in Jobs : /\ InWork(k)' <=> InWork(k)
                        /\ Waiting(k)' <=> Waiting(k)
    BY <2>1 DEF InWork, Waiting
  <2>7. \A t \in Slots \ {s} : ~Owns(t, j) /\ ~Owns(t, j)'
    <3>1. ~InWork(j)
      BY <2>1 DEF Waiting, InWork
    <3>2. \A t \in Slots : ~WorksOn(t, j)
      BY <3>1 DEF OwnerInv
    <3> QED BY <3>2, <2>1, <2>3, <2>5 DEF Owns, RowFree
  <2>8. \A t \in Slots \ {s} : \A k \in Jobs : Owns(t, k)' => Owns(t, k)
    BY <2>3, <2>5 DEF Owns
  <2>9. \A k \in Jobs : Owns(s, k)' => k = j
    BY <2>4, <2>5 DEF Owns
  <2>10. SingleOwner'
    BY <2>1, <2>3, <2>4, <2>7, <2>8, <2>9 DEF OwnerInv, SingleOwner
  <2>11. \A t \in Slots : phase'[t] = "claiming" => Waiting(held[t])'
    BY <2>1, <2>3, <2>4 DEF OwnerInv, Waiting
  <2>12. \A t \in Slots : phase'[t] \notin {"calling", "closing"} => extras'[t] = {}
    BY <2>1, <2>3, <2>2 DEF OwnerInv
  <2> QED BY <2>5, <2>6, <2>10, <2>11, <2>12 DEF OwnerInv
<1>12. ASSUME NEW s \in Slots, ClaimCommit(s) PROVE OwnerInv'
  <2> DEFINE j == held[s]
  <2>1. /\ phase' = [phase EXCEPT ![s] = "calling"] /\ phase[s] = "claiming"
        /\ UNCHANGED <<held, extras>> /\ Lease({j})
    BY <1>12 DEF ClaimCommit
  <2>2. j \in Jobs /\ phase \in [Slots -> TaskPhase] /\ extras[s] = {} /\ Owns(s, j)
    BY <2>1 DEF TypeOK, OwnerInv, Owns
  <2>3. \A t \in Slots \ {s} : phase'[t] = phase[t]
    BY <2>1, <2>2
  <2>4. phase'[s] = "calling"
    BY <2>1, <2>2
  <2>5. InWork(j)' /\ \A k \in Jobs \ {j} : Respects(k)
    BY <2>1, <2>2 DEF Lease, Respects, InWork, Waiting
  <2>6. \A t \in Slots : \A k \in Jobs : Owns(t, k)' <=> Owns(t, k)
    BY <2>1, <2>2, <2>3, <2>4 DEF Owns, WorksOn, Working
  <2>7. SingleOwner'
    BY <2>1, <2>6 DEF OwnerInv, SingleOwner
  <2>8. \A t \in Slots : \A k \in Jobs : WorksOn(t, k)' => k = j \/ WorksOn(t, k)
    BY <2>1, <2>2, <2>3, <2>4 DEF WorksOn
  <2>9. \A t \in Slots : \A k \in Jobs : WorksOn(t, k)' => InWork(k)'
    BY <2>1, <2>5, <2>8 DEF OwnerInv, Respects, InWork
  <2>10. \A t \in Slots : phase'[t] = "claiming" => Waiting(held[t])'
    <3> SUFFICES ASSUME NEW t \in Slots, phase'[t] = "claiming" PROVE Waiting(held[t])'
      OBVIOUS
    <3>1. t # s /\ phase[t] = "claiming"
      BY <2>3, <2>4
    <3>2. held[t] \in Jobs /\ Waiting(held[t]) /\ ~RowFree(held[t]) /\ Owns(t, held[t])
      BY <3>1 DEF OwnerInv, TypeOK, RowFree, Owns
    <3>3. held[t] # j
      BY <3>1, <3>2, <2>2 DEF OwnerInv, SingleOwner
    <3> QED BY <3>2, <3>3, <2>1, <2>5 DEF Respects, Waiting
  <2>11. \A t \in Slots : phase'[t] \notin {"calling", "closing"} => extras'[t] = {}
    BY <2>1, <2>3, <2>4 DEF OwnerInv
  <2> QED BY <2>7, <2>9, <2>10, <2>11 DEF OwnerInv
<1>13. ASSUME NEW s \in Slots, NEW X \in SUBSET BatchJobs, ClaimBatch(s, X) PROVE OwnerInv'
  <2>1. /\ phase[s] = "calling" /\ extras' = [extras EXCEPT ![s] = X]
        /\ UNCHANGED <<phase, held>> /\ Lease(X)
        /\ \A j \in X : Claimable(j)
    BY <1>13 DEF ClaimBatch
  <2>2. X \subseteq Jobs /\ extras \in [Slots -> SUBSET Jobs] /\ held[s] \in Jobs
    BY <2>1, QueueAssumption DEF QueueAssumption, TypeOK
  <2>3. extras'[s] = X /\ \A t \in Slots \ {s} : extras'[t] = extras[t]
    BY <2>1, <2>2
  <2>4. \A j \in X : Waiting(j) /\ RowFree(j) /\ ~InWork(j)
    BY <2>1 DEF Claimable, Waiting, InWork
  <2>5. \A t \in Slots : \A j \in X : ~Owns(t, j)
    BY <2>2, <2>4 DEF OwnerInv, Owns, RowFree
  <2>6. /\ \A j \in X : InWork(j)'
        /\ \A j \in Jobs \ X : Respects(j)
    BY <2>1, <2>2 DEF Lease, Respects, InWork, Waiting
  <2>7. \A t \in Slots : \A j \in Jobs :
          WorksOn(t, j)' => WorksOn(t, j) \/ (t = s /\ j \in X)
    BY <2>1, <2>3 DEF WorksOn
  <2>8. \A t \in Slots : \A j \in Jobs : WorksOn(t, j)' => InWork(j)'
    BY <2>5, <2>6, <2>7 DEF OwnerInv, Respects, Owns
  <2>9. \A t \in Slots : phase'[t] = "claiming" => Waiting(held[t])'
    <3> SUFFICES ASSUME NEW t \in Slots, phase'[t] = "claiming" PROVE Waiting(held[t])'
      OBVIOUS
    <3>1. /\ phase[t] = "claiming" /\ held'[t] = held[t] /\ held[t] \in Jobs
          /\ Waiting(held[t]) /\ ~RowFree(held[t])
      BY <2>1 DEF OwnerInv, TypeOK, RowFree
    <3>2. held[t] \notin X
      BY <3>1, <2>4
    <3> QED BY <3>1, <3>2, <2>6 DEF Respects, Waiting
  <2>10. \A t \in Slots : phase'[t] \notin {"calling", "closing"} => extras'[t] = {}
    BY <2>1, <2>3 DEF OwnerInv
  <2>11. SingleOwner'
    <3>1. \A t \in Slots : \A j \in Jobs :
            Owns(t, j)' => Owns(t, j) \/ (t = s /\ j \in X)
      BY <2>1, <2>7 DEF Owns
    <3>2. held[s] \notin X
      BY <2>1, <2>2, <2>5 DEF Owns, WorksOn, Working
    <3>3. \A t \in Slots : held'[t] \notin extras'[t]
      BY <3>2, <2>1, <2>3 DEF OwnerInv, SingleOwner
    <3> QED BY <3>1, <3>3, <2>5 DEF OwnerInv, SingleOwner
  <2> QED BY <2>8, <2>9, <2>10, <2>11 DEF OwnerInv
<1>14. ASSUME NEW s \in Slots, Release(s) PROVE OwnerInv'
  <2>1. /\ phase' = [phase EXCEPT ![s] = "failing"] /\ extras' = [extras EXCEPT ![s] = {}]
        /\ UNCHANGED held /\ phase[s] = "calling" /\ GiveBack(extras[s])
    BY <1>14 DEF Release
  <2>2. phase \in [Slots -> TaskPhase] /\ extras \in [Slots -> SUBSET Jobs]
    BY DEF TypeOK
  <2>3. \A t \in Slots \ {s} :
          phase'[t] = phase[t] /\ held'[t] = held[t] /\ extras'[t] = extras[t]
    BY <2>1, <2>2
  <2>4. phase'[s] = "failing" /\ extras'[s] = {} /\ held'[s] = held[s]
    BY <2>1, <2>2
  <2>5. \A j \in extras[s] : WorksOn(s, j) /\ ~WorksOn(s, j)'
    BY <2>1, <2>4 DEF OwnerInv, SingleOwner, WorksOn, Working
  <2>6. \A j \in Jobs \ extras[s] : Respects(j)
    BY <2>1 DEF GiveBack, Respects, InWork, Waiting, TypeOK
  <2>7. \A j \in Jobs : WorksOn(s, j)' => WorksOn(s, j)
    BY <2>1, <2>4 DEF WorksOn, Working
  <2> QED BY <2>1, <2>3, <2>4, <2>5, <2>6, <2>7, LettingGoKeepsOwners
<1>15. ASSUME NEW s \in Slots, NEW j \in Jobs, FinishExtra(s, j) PROVE OwnerInv'
  <2>1. /\ phase' = [phase EXCEPT ![s] = "closing"]
        /\ extras' = [extras EXCEPT ![s] = @ \ {j}]
        /\ UNCHANGED held /\ phase[s] \in {"calling", "closing"} /\ j \in extras[s]
        /\ \E st \in JobStatus : Finish(j, st)
    BY <1>15, StatusFacts DEF FinishExtra
  <2>2. phase \in [Slots -> TaskPhase] /\ extras \in [Slots -> SUBSET Jobs]
    BY DEF TypeOK
  <2>3. \A t \in Slots \ {s} :
          phase'[t] = phase[t] /\ held'[t] = held[t] /\ extras'[t] = extras[t]
    BY <2>1, <2>2
  <2>4. phase'[s] = "closing" /\ extras'[s] = extras[s] \ {j} /\ held'[s] = held[s]
    BY <2>1, <2>2
  <2>5. held[s] \notin extras[s]
    BY DEF OwnerInv, SingleOwner
  <2>6. WorksOn(s, j) /\ ~WorksOn(s, j)'
    BY <2>1, <2>4, <2>5 DEF WorksOn, Working
  <2>7. \A k \in Jobs \ {j} : Respects(k)
    BY <2>1, FinishRespects
  <2>8. \A k \in Jobs : WorksOn(s, k)' => WorksOn(s, k)
    BY <2>1, <2>4 DEF WorksOn, Working
  <2> QED BY <2>1, <2>3, <2>4, <2>5, <2>6, <2>7, <2>8, LettingGoKeepsOwners
<1>16. ASSUME NEW s \in Slots, Complete(s) PROVE OwnerInv'
  BY <1>16, FinishAndEndKeepsOwners DEF Complete, Working
<1>17. ASSUME NEW s \in Slots, Skip(s) PROVE OwnerInv'
  BY <1>17, FinishAndEndKeepsOwners DEF Skip, Working
<1>18. ASSUME NEW s \in Slots, Forbidden(s) PROVE OwnerInv'
  BY <1>18, FinishAndEndKeepsOwners DEF Forbidden, Working
<1>19. ASSUME NEW s \in Slots, RetryOrFail(s) PROVE OwnerInv'
  BY <1>19, FinishAndEndKeepsOwners DEF RetryOrFail, Working
<1>20. ASSUME NEW s \in Slots, Miss(s) PROVE OwnerInv'
  BY <1>20, FinishAndEndKeepsOwners DEF Miss, Working
<1>21. ASSUME NEW s \in Slots, DeferMethod(s) PROVE OwnerInv'
  <2>1. /\ status' = [status EXCEPT ![held[s]] = "retry_wait"]
        /\ lease' = [lease EXCEPT ![held[s]] = "none"]
        /\ phase[s] \in {"calling", "failing"} /\ FreeSlot(s)
    BY <1>21 DEF DeferMethod
  <2>2. \A k \in Jobs \ {held[s]} : status'[k] = status[k] /\ lease'[k] = lease[k]
    BY <2>1 DEF TypeOK
  <2>3. \A k \in Jobs \ {held[s]} : Respects(k)
    BY <2>2 DEF Respects, InWork, Waiting
  <2> QED BY <2>1, <2>3, EndKeepsOwners DEF Working
<1>22. ASSUME NEW s \in Slots, NoTokens(s) PROVE OwnerInv'
  <2>1. /\ phase' = [phase EXCEPT ![s] = "noTokens"] /\ UNCHANGED <<held, extras>>
        /\ phase[s] \in {"calling", "failing"} /\ extras[s] = {}
        /\ Finish(held[s], "paused")
    BY <1>22 DEF NoTokens
  <2>2. phase \in [Slots -> TaskPhase] /\ held[s] \in Jobs
    BY <2>1 DEF TypeOK
  <2>3. \A t \in Slots \ {s} :
          phase'[t] = phase[t] /\ held'[t] = held[t] /\ extras'[t] = extras[t]
    BY <2>1, <2>2
  <2>4. phase'[s] = "noTokens" /\ extras'[s] = {}
    BY <2>1, <2>2
  <2>5. \A k \in Jobs : ~WorksOn(s, k)'
    BY <2>4 DEF WorksOn, Working
  <2>6. WorksOn(s, held[s])
    BY <2>1 DEF WorksOn, Working
  <2>7. \A k \in Jobs \ {held[s]} : Respects(k)
    BY <2>1, <2>2, FinishRespects
  <2> QED BY <2>1, <2>3, <2>4, <2>5, <2>6, <2>7, LettingGoKeepsOwners
<1>23. ASSUME NEW s \in Slots, PauseForTokens(s) PROVE OwnerInv'
  BY <1>23, SetRunStatusRespects, EndKeepsOwners DEF PauseForTokens
<1>24. ASSUME RecoverExpired PROVE OwnerInv'
  BY <1>24, RecoverRespects, JobStepKeepsOwners DEF RecoverExpired
<1>25. ASSUME ResumePausedNoTokens PROVE OwnerInv'
  <2> \A k \in Jobs : Respects(k)
    BY <1>25 DEF ResumePausedNoTokens, Respects, InWork, Waiting, TypeOK
  <2> QED BY <1>25, JobStepKeepsOwners DEF ResumePausedNoTokens
<1>26. ASSUME OperatorPause PROVE OwnerInv'
  BY <1>26, SetRunStatusRespects, JobStepKeepsOwners DEF OperatorPause
<1>27. ASSUME OperatorResume PROVE OwnerInv'
  BY <1>27, SetRunStatusRespects, JobStepKeepsOwners DEF OperatorResume
<1>28. ASSUME RetryFailed PROVE OwnerInv'
  <2> \A k \in Jobs : Respects(k)
    BY <1>28 DEF RetryFailed, Respects, InWork, Waiting, TypeOK
  <2> QED BY <1>28, JobStepKeepsOwners DEF RetryFailed
<1>29. ASSUME CancelPilot PROVE OwnerInv'
  <2> \A k \in Jobs : Respects(k)
    BY <1>29 DEF CancelPilot, Respects, InWork, Waiting, Active, TypeOK
  <2> QED BY <1>29, JobStepKeepsOwners DEF CancelPilot
<1>30. ASSUME NEW j \in Jobs, BackoffElapses(j) PROVE OwnerInv'
  <2> \A k \in Jobs : Respects(k)
    BY <1>30 DEF BackoffElapses, Respects, InWork, Waiting
  <2> QED BY <1>30, JobStepKeepsOwners DEF BackoffElapses
<1>31. ASSUME NEW j \in Jobs, LeaseExpires(j) PROVE OwnerInv'
  <2>1. \A s \in Slots : ~WorksOn(s, j)
    BY <1>31 DEF LeaseExpires
  <2>2. UNCHANGED slotVars /\ UNCHANGED status /\ lease' = [lease EXCEPT ![j] = "expired"]
    BY <1>31 DEF LeaseExpires
  <2>3. \A k \in Jobs : /\ Waiting(k)' <=> Waiting(k)
                        /\ k # j => (InWork(k)' <=> InWork(k))
    BY <2>2 DEF Waiting, InWork, TypeOK
  <2>4. \A s \in Slots : \A k \in Jobs : WorksOn(s, k)' => WorksOn(s, k) /\ k # j
    BY <2>1, <2>2 DEF WorksOn, slotVars
  <2>5. \A s \in Slots : \A k \in Jobs : WorksOn(s, k)' => InWork(k)'
    BY <2>3, <2>4 DEF OwnerInv
  <2>6. \A s \in Slots : phase'[s] = "claiming" => Waiting(held[s])'
    BY <2>2 DEF OwnerInv, Waiting, slotVars
  <2> QED BY <2>2, <2>5, <2>6 DEF OwnerInv, SingleOwner, Owns, WorksOn, slotVars
<1>32. ASSUME TokensLost PROVE OwnerInv'
  <2> \A k \in Jobs : Respects(k)
    BY <1>32 DEF TokensLost, Respects, InWork, Waiting
  <2> QED BY <1>32, JobStepKeepsOwners DEF TokensLost
<1>33. ASSUME TokensRestored PROVE OwnerInv'
  <2> \A k \in Jobs : Respects(k)
    BY <1>33 DEF TokensRestored, Respects, InWork, Waiting
  <2> QED BY <1>33, JobStepKeepsOwners DEF TokensRestored
<1>34. ASSUME NEW w \in Workers, Crash(w) PROVE OwnerInv'
  <2>1. /\ phase' = [s \in Slots |-> IF WorkerOf[s] = w THEN "idle" ELSE phase[s]]
        /\ held' = [s \in Slots |-> IF WorkerOf[s] = w THEN NoJob ELSE held[s]]
        /\ extras' = [s \in Slots |-> IF WorkerOf[s] = w THEN {} ELSE extras[s]]
        /\ UNCHANGED <<status, lease>>
    BY <1>34 DEF Crash
  <2>2. \A s \in Slots : \/ phase'[s] = "idle" /\ extras'[s] = {}
                         \/ phase'[s] = phase[s] /\ held'[s] = held[s] /\ extras'[s] = extras[s]
    BY <2>1
  <2>3. \A s \in Slots : \A k \in Jobs : WorksOn(s, k)' => WorksOn(s, k)
    BY <2>2 DEF WorksOn, Working
  <2>4. \A s \in Slots : \A k \in Jobs : WorksOn(s, k)' => InWork(k)'
    BY <2>1, <2>3 DEF OwnerInv, InWork
  <2>5. \A s \in Slots : phase'[s] = "claiming" => Waiting(held[s])'
    BY <2>1, <2>2 DEF OwnerInv, Waiting
  <2>6. \A s \in Slots : phase'[s] \notin {"calling", "closing"} => extras'[s] = {}
    BY <2>2 DEF OwnerInv
  <2>7. \A s \in Slots : held'[s] \notin extras'[s]
    BY <2>2 DEF OwnerInv, SingleOwner
  <2>8. \A s \in Slots : \A k \in Jobs : Owns(s, k)' => Owns(s, k)
    BY <2>2, <2>3 DEF Owns
  <2>9. SingleOwner'
    BY <2>7, <2>8 DEF OwnerInv, SingleOwner
  <2> QED BY <2>4, <2>5, <2>6, <2>9 DEF OwnerInv
<1>36. ASSUME NEW s \in Slots, NEW X \in SUBSET Jobs, Discover(s, X) PROVE OwnerInv'
  <2> \A k \in Jobs : Respects(k)
    BY <1>36 DEF Discover, Respects, InWork, Waiting, TypeOK
  <2> QED BY <1>36, JobStepKeepsOwners DEF Discover
<1>35. CASE UNCHANGED vars
  <2> \A k \in Jobs : Respects(k)
    BY <1>35 DEF vars, Respects, InWork, Waiting
  <2> QED BY <1>35, JobStepKeepsOwners DEF vars
<1> QED
  BY <1>0, <1>1, <1>2, <1>3, <1>4, <1>5, <1>6, <1>7, <1>8, <1>9, <1>10,
     <1>11, <1>12, <1>13, <1>14, <1>15, <1>16, <1>17, <1>18, <1>19, <1>20,
     <1>21, <1>22, <1>23, <1>24, <1>25, <1>26, <1>27, <1>28, <1>29, <1>30,
     <1>31, <1>32, <1>33, <1>34, <1>35, <1>36
  DEF Next, LoopStep, TaskStep, CommandStep, EnvStep

(* If no task outlives its lease, no two tasks of any processes ever work   *)
(* on the same job, alone or in a batch, whatever crashes and is recovered. *)
THEOREM OneOwner ==
  ASSUME "overrun" \notin Disturbances
  PROVE  Spec => []SingleOwner
<1>1. Init => OwnerInv
  BY DEF Init, OwnerInv, SingleOwner, Owns, WorksOn, Working
<1>2. TypeOK /\ OwnerInv /\ [Next]_vars => OwnerInv'
  BY NextKeepsOwners
<1>3. OwnerInv => SingleOwner
  BY DEF OwnerInv
<1> QED
  BY <1>1, <1>2, <1>3, TypeCorrect, PTL DEF Spec

-----------------------------------------------------------------------------
(* What the queue makes of attempts, results, counters and the run's       *)
(* verdict.  Every step of anyone has one of six effects on the rows.  They *)
(* are found once, action by action; the invariants are then proved effect  *)
(* by effect.                                                               *)

(* No task outlives its lease, no pilot is cancelled and no failed job is   *)
(* taken up again: the cases in which the source gives the promises up.     *)
Calm == {"overrun", "cancel", "retryFailed"} \cap Disturbances = {}

Refreshing == {"idleRefresh", "finalRefresh"}
Outcomes   == Finished \cup {"retry_wait", "paused"}

-----------------------------------------------------------------------------
(* The effects.                                                             *)

(* A run is parked or resumed, or nothing happens to the rows.              *)
Moves ==
  /\ \A j \in Jobs : \/ status'[j] = status[j]
                     \/ {status[j], status'[j]} \subseteq {"pending", "paused"}
  /\ UNCHANGED <<attempt, tries, counted>>
  /\ runStatus' = runStatus \/ runStatus' \notin RunDone

(* claim, and the claims of a batch.                                        *)
Takes(S) ==
  /\ S \subseteq Jobs /\ S # {} /\ \A j \in S : Waiting(j)
  /\ \A j \in Jobs :
       /\ status'[j] = IF j \in S THEN "running" ELSE status[j]
       /\ attempt'[j] = IF j \in S THEN attempt[j] + 1 ELSE attempt[j]
  /\ UNCHANGED <<tries, counted>>
  /\ runStatus' = runStatus \/ runStatus' = "running"

(* Recovery of leases, release and deferral: of jobs whose lease is over,   *)
(* or whose task lets go of them.                                           *)
Returns(S) ==
  /\ S \subseteq Jobs /\ \A j \in S : status[j] = "running"
  /\ \A j \in S : \/ lease[j] = "expired"
                  \/ \E s \in Slots : WorksOn(s, j) /\ ~(phase'[s] \in Working /\ held'[s] = j)
  /\ \A j \in Jobs :
       IF j \in S
       THEN status'[j] \in {"pending", "retry_wait"} /\ attempt'[j] = Monus(attempt[j])
       ELSE status'[j] = status[j] /\ attempt'[j] = attempt[j]
  /\ UNCHANGED <<tries, counted>>
  /\ runStatus' = runStatus \/ runStatus' = "waiting_method_limit"

(* finish, of a job that its task works on.                                 *)
Settles(j, st) ==
  /\ status[j] = "running" /\ st \in Outcomes
  /\ st = "failed" => attempt[j] >= MaxAttempts
  /\ status' = [status EXCEPT ![j] = st]
  /\ tries' = [tries EXCEPT ![j] = @ + 1]
  /\ counted' = CountOne(st)
  /\ \/ runStatus' = runStatus
     \/ runStatus' \in RunDone /\ \A k \in Jobs : status'[k] \notin Active
  /\ UNCHANGED attempt

(* A task that is still at work adds jobs.                                  *)
Adds(X) ==
  /\ X \subseteq Jobs /\ \A j \in X : status[j] = "unplanned"
  /\ \E j \in Jobs : status[j] = "running"
  /\ \A j \in Jobs : status'[j] = IF j \in X THEN "pending" ELSE status[j]
  /\ UNCHANGED <<attempt, tries, counted, runStatus>>

(* refresh_run writes what it counted before.                               *)
Recounts(w) ==
  /\ pc[w] \in Refreshing
  /\ counted' = CountsOf(snap[w])
  /\ \/ runStatus' \in {runStatus, "running"}
     \/ runStatus' \in RunDone /\ \A j \in Jobs : snap[w][j] \notin Active
  /\ UNCHANGED <<status, attempt, tries>>

Effect ==
  \/ Moves
  \/ \E S \in SUBSET Jobs : Takes(S) \/ Returns(S) \/ Adds(S)
  \/ \E j \in Jobs, st \in Outcomes : Settles(j, st)
  \/ \E w \in Workers : Recounts(w)

-----------------------------------------------------------------------------
(* What a task remembers of the attempt is what the table says, since       *)
(* nobody else writes the row while it has the lease.                       *)
SeenInv == \A s \in Slots : phase[s] \in Working => seenAttempt[s] = attempt[held[s]]

NoneCancelled == \A j \in Jobs : status[j] # "cancelled"

BaseInv == TypeOK /\ OwnerInv /\ NoneCancelled /\ SeenInv

(* A job that is worked on is running.                                      *)
LEMMA WorkedOnRuns ==
  ASSUME BaseInv, NEW s \in Slots, NEW j \in Jobs, WorksOn(s, j)
  PROVE  status[j] = "running" /\ lease[j] # "expired"
  BY DEF BaseInv, OwnerInv, InWork, NoneCancelled

(* finish, called for it, settles it.                                       *)
LEMMA FinishSettles ==
  ASSUME BaseInv, NEW s \in Slots, NEW j \in Jobs, WorksOn(s, j),
         NEW st \in Outcomes, Finish(j, st), st = "failed" => attempt[j] >= MaxAttempts
  PROVE  Effect
<1>1. status[j] = "running" /\ status[j] \notin Finished
  BY WorkedOnRuns DEF Finished
<1>2. Settles(j, st)
  BY <1>1, VerdictType DEF Finish, Settles
<1> QED BY <1>2 DEF Effect

LEMMA SetRunStatusMoves ==
  ASSUME BaseInv, NEW st, st \notin RunDone, SetRunStatus(st)
  PROVE  Effect
  BY DEF SetRunStatus, Effect, Moves, BaseInv, TypeOK

LEMMA RecoverReturns ==
  ASSUME BaseInv, Recover, UNCHANGED runVars
  PROVE  Effect
<1>1. Expired \in SUBSET Jobs
  BY DEF Expired
<1>2. Returns(Expired)
  BY DEF Recover, GiveBack, Expired, Returns, runVars
<1> QED BY <1>1, <1>2 DEF Effect

LEMMA StillMoves == ASSUME BaseInv, UNCHANGED <<jobVars, runVars>> PROVE Effect
  BY DEF Effect, Moves, jobVars, runVars

LEMMA Effects == ASSUME Calm, BaseInv, [Next]_vars PROVE Effect
<1> USE DEF jobVars, runVars
<1>0. TypeOK
  BY DEF BaseInv
<1>1. ASSUME NEW w \in Workers,
             \/ ListRun(w) \/ MethodsBlocked(w) \/ QuantumReached(w) \/ StopRequested(w)
             \/ RefreshCount(w) \/ Crash(w)
      PROVE  Effect
  BY <1>1, StillMoves
  DEF ListRun, MethodsBlocked, QuantumReached, StopRequested, RefreshCount, Crash
<1>2. ASSUME NEW w \in Workers, Start(w) PROVE Effect
  BY <1>2, RecoverReturns DEF Start
<1>3. ASSUME NEW w \in Workers, StartWithoutTokens(w) \/ RejectRun(w) \/ DiskStop(w) PROVE Effect
  BY <1>3, SetRunStatusMoves DEF StartWithoutTokens, RejectRun, DiskStop, RunDone
<1>4. ASSUME NEW w \in Workers, WaitForMethods(w) PROVE Effect
  BY <1>4 DEF WaitForMethods, Effect, Moves, RunDone
<1>5. ASSUME NEW w \in Workers, RefreshRun(w) PROVE Effect
  <2>1. Recounts(w)
    BY <1>5, VerdictType DEF RefreshRun, RefreshedStatus, Recounts, Refreshing
  <2> QED BY <2>1 DEF Effect
<1>6. ASSUME NEW s \in Slots, NEW j \in Jobs, ClaimSelect(s, j) PROVE Effect
  BY <1>6, StillMoves DEF ClaimSelect
<1>7. ASSUME NEW s \in Slots, ClaimCommit(s) PROVE Effect
  <2>1. held[s] \in Jobs /\ Waiting(held[s])
    BY <1>7 DEF ClaimCommit, BaseInv, TypeOK, OwnerInv
  <2>2. Takes({held[s]})
    BY <1>7, <2>1 DEF ClaimCommit, Lease, Takes
  <2>3. {held[s]} \in SUBSET Jobs
    BY <2>1
  <2> QED BY <2>2, <2>3 DEF Effect
<1>8. ASSUME NEW s \in Slots, NEW X \in SUBSET BatchJobs, ClaimBatch(s, X) PROVE Effect
  <2>1. X \in SUBSET Jobs
    BY QueueAssumption DEF QueueAssumption
  <2>2. Takes(X)
    BY <1>8, <2>1 DEF ClaimBatch, Lease, Takes, Claimable, Waiting
  <2> QED BY <2>1, <2>2 DEF Effect
<1>9. ASSUME NEW s \in Slots, Release(s) PROVE Effect
  <2>1. /\ phase[s] = "calling" /\ GiveBack(extras[s])
        /\ UNCHANGED <<runVars, held>>
    BY <1>9 DEF Release
  <2>2. extras[s] \in SUBSET Jobs /\ held[s] \notin extras[s]
    BY <1>0 DEF TypeOK, BaseInv, OwnerInv, SingleOwner
  <2>3. \A j \in extras[s] : WorksOn(s, j) /\ held'[s] # j
    BY <2>1, <2>2 DEF WorksOn, Working
  <2>4. \A j \in extras[s] : status[j] = "running"
    BY <2>2, <2>3, WorkedOnRuns
  <2>5. Returns(extras[s])
    BY <2>1, <2>2, <2>3, <2>4 DEF Returns, GiveBack
  <2> QED BY <2>2, <2>5 DEF Effect
<1>10. ASSUME NEW s \in Slots, NEW j \in Jobs, FinishExtra(s, j) PROVE Effect
  <2>1. WorksOn(s, j)
    BY <1>10 DEF FinishExtra, WorksOn, Working
  <2>2. PICK st \in {"completed", "skipped", "retry_wait"} : Finish(j, st)
    BY <1>10 DEF FinishExtra
  <2> QED BY <2>1, <2>2, FinishSettles DEF Outcomes, Finished
<1>11. ASSUME NEW s \in Slots, NEW X \in SUBSET Jobs, Discover(s, X) PROVE Effect
  <2>1. held[s] \in Jobs /\ WorksOn(s, held[s])
    BY <1>0, <1>11 DEF Discover, TypeOK, WorksOn, Working
  <2>2. status[held[s]] = "running"
    BY <2>1, WorkedOnRuns
  <2>3. Adds(X)
    BY <1>11, <2>1, <2>2 DEF Discover, Adds
  <2> QED BY <2>3 DEF Effect
<1>12. ASSUME NEW s \in Slots,
              Complete(s) \/ Skip(s) \/ Forbidden(s) \/ Miss(s) \/ NoTokens(s)
       PROVE  Effect
  <2>1. held[s] \in Jobs /\ WorksOn(s, held[s])
    BY <1>0, <1>12 DEF Complete, Skip, Forbidden, Miss, NoTokens, TypeOK, WorksOn, Working
  <2>2. PICK st \in {"completed", "skipped", "retry_wait", "paused"} : Finish(held[s], st)
    BY <1>12 DEF Complete, Skip, Forbidden, Miss, NoTokens
  <2> QED BY <2>1, <2>2, FinishSettles DEF Outcomes, Finished
<1>13. ASSUME NEW s \in Slots, RetryOrFail(s) PROVE Effect
  <2>1. held[s] \in Jobs /\ WorksOn(s, held[s]) /\ phase[s] \in Working
    BY <1>0, <1>13 DEF RetryOrFail, TypeOK, WorksOn, Working
  <2>2. seenAttempt[s] = attempt[held[s]]
    BY <2>1 DEF BaseInv, SeenInv
  <2>3. PICK st \in {"failed", "retry_wait"} :
          Finish(held[s], st) /\ (st = "failed" => attempt[held[s]] >= MaxAttempts)
    BY <1>13, <2>2 DEF RetryOrFail
  <2> QED BY <2>1, <2>3, FinishSettles DEF Outcomes, Finished
<1>14. ASSUME NEW s \in Slots, DeferMethod(s) PROVE Effect
  <2> DEFINE j == held[s]
  <2>1. j \in Jobs /\ WorksOn(s, j)
    BY <1>0, <1>14 DEF DeferMethod, TypeOK, WorksOn, Working
  <2>2. status[j] = "running"
    BY <2>1, WorkedOnRuns
  <2>3. /\ status' = [status EXCEPT ![j] = "retry_wait"]
        /\ attempt' = [attempt EXCEPT ![j] = Monus(@)]
        /\ runStatus' = "waiting_method_limit"
        /\ phase' = [phase EXCEPT ![s] = "idle"]
        /\ UNCHANGED <<tries, counted>>
    BY <1>14 DEF DeferMethod, FreeSlot
  <2>4. phase'[s] \notin Working
    BY <1>0, <2>3 DEF TypeOK, Working
  <2> HIDE DEF j
  <2>5. Returns({j})
    BY <1>0, <2>1, <2>2, <2>3, <2>4 DEF Returns, TypeOK
  <2>6. {j} \in SUBSET Jobs
    BY <2>1
  <2> QED BY <2>5, <2>6 DEF Effect
<1>15. ASSUME NEW s \in Slots, PauseForTokens(s) PROVE Effect
  BY <1>15, SetRunStatusMoves DEF PauseForTokens, RunDone
<1>16. ASSUME RecoverExpired PROVE Effect
  BY <1>16, RecoverReturns DEF RecoverExpired
<1>17. ASSUME ResumePausedNoTokens PROVE Effect
  BY <1>0, <1>17 DEF ResumePausedNoTokens, Effect, Moves, RunDone, TypeOK
<1>18. ASSUME OperatorPause \/ OperatorResume PROVE Effect
  BY <1>18, SetRunStatusMoves DEF OperatorPause, OperatorResume, RunDone
<1>19. ASSUME RetryFailed \/ CancelPilot PROVE FALSE
  BY <1>19 DEF RetryFailed, CancelPilot, Disturb, Calm
<1>20. ASSUME NEW j \in Jobs, BackoffElapses(j) \/ LeaseExpires(j) PROVE Effect
  BY <1>20 DEF BackoffElapses, LeaseExpires, Effect, Moves
<1>21. ASSUME TokensLost \/ TokensRestored \/ UNCHANGED vars PROVE Effect
  BY <1>21, StillMoves DEF TokensLost, TokensRestored, vars
<1> QED
  BY <1>1, <1>2, <1>3, <1>4, <1>5, <1>6, <1>7, <1>8, <1>9, <1>10, <1>11, <1>12,
     <1>13, <1>14, <1>15, <1>16, <1>17, <1>18, <1>19, <1>20, <1>21
  DEF Next, LoopStep, TaskStep, CommandStep, EnvStep

-----------------------------------------------------------------------------
(* What effects keep.                                                       *)

LEMMA EffectKeepsNoneCancelled ==
  ASSUME TypeOK, NoneCancelled, Effect PROVE NoneCancelled'
<1>1. CASE Moves
  BY <1>1 DEF NoneCancelled, Moves
<1>2. ASSUME NEW S \in SUBSET Jobs, Takes(S) \/ Returns(S) \/ Adds(S) PROVE NoneCancelled'
  BY <1>2 DEF NoneCancelled, Takes, Returns, Adds
<1>3. ASSUME NEW j \in Jobs, NEW st \in Outcomes, Settles(j, st) PROVE NoneCancelled'
  BY <1>3 DEF NoneCancelled, Settles, Outcomes, Finished, TypeOK
<1>4. ASSUME NEW w \in Workers, Recounts(w) PROVE NoneCancelled'
  BY <1>4 DEF NoneCancelled, Recounts
<1> QED BY <1>1, <1>2, <1>3, <1>4 DEF Effect

(* A task at work was at work before, for the same job, or has just claimed *)
(* it.                                                                      *)
SameTask(s) == phase[s] \in Working /\ held'[s] = held[s] /\ seenAttempt'[s] = seenAttempt[s]

LEMMA TaskContinues ==
  ASSUME TypeOK, [Next]_vars, NEW t \in Slots, phase'[t] \in Working
  PROVE  SameTask(t) \/ ClaimCommit(t)
<1>0. /\ phase \in [Slots -> TaskPhase] /\ held \in [Slots -> Jobs \cup {NoJob}]
      /\ seenAttempt \in [Slots -> Nat]
  BY DEF TypeOK
<1>1. CASE UNCHANGED slotVars
  BY <1>1 DEF slotVars, SameTask
<1>2. ASSUME NEW s \in Slots, FreeSlot(s) PROVE SameTask(t)
  <2>1. s # t
    BY <1>0, <1>2 DEF FreeSlot, Working
  <2> QED BY <1>0, <1>2, <2>1 DEF FreeSlot, SameTask
<1>3. ASSUME NEW s \in Slots, NEW j \in Jobs, ClaimSelect(s, j) PROVE SameTask(t)
  <2>1. s # t
    BY <1>0, <1>3 DEF ClaimSelect, Working
  <2> QED BY <1>0, <1>3, <2>1 DEF ClaimSelect, SameTask
<1>4. ASSUME NEW s \in Slots, ClaimCommit(s), s # t PROVE SameTask(t)
  BY <1>0, <1>4 DEF ClaimCommit, SameTask
<1>5. ASSUME NEW s \in Slots,
             \/ \E X \in SUBSET BatchJobs : ClaimBatch(s, X)
             \/ Release(s)
             \/ \E j \in Jobs : FinishExtra(s, j)
      PROVE  SameTask(t)
  BY <1>0, <1>5 DEF ClaimBatch, Release, FinishExtra, SameTask, Working
<1>6. ASSUME NEW s \in Slots, NoTokens(s) PROVE SameTask(t)
  <2>1. s # t
    BY <1>0, <1>6 DEF NoTokens, Working
  <2> QED BY <1>0, <1>6, <2>1 DEF NoTokens, SameTask
<1>7. ASSUME NEW w \in Workers, Crash(w) PROVE SameTask(t)
  BY <1>0, <1>7 DEF Crash, SameTask, Working
<1>8. ASSUME NEW w \in Workers, LoopStep(w) PROVE UNCHANGED slotVars
  BY <1>8 DEF LoopStep, ListRun, Start, StartWithoutTokens, RejectRun, MethodsBlocked,
              WaitForMethods, DiskStop, QuantumReached, StopRequested, RefreshCount, RefreshRun
<1>9. ASSUME CommandStep PROVE UNCHANGED slotVars
  BY <1>9 DEF CommandStep, RecoverExpired, ResumePausedNoTokens, OperatorPause,
              OperatorResume, RetryFailed, CancelPilot
<1>10. ASSUME NEW s \in Slots,
              \/ Complete(s) \/ Skip(s) \/ Forbidden(s) \/ RetryOrFail(s)
              \/ Miss(s) \/ DeferMethod(s) \/ PauseForTokens(s)
       PROVE  FreeSlot(s)
  BY <1>10 DEF Complete, Skip, Forbidden, RetryOrFail, Miss, DeferMethod, PauseForTokens
<1>11. ASSUME NEW s \in Slots, NEW X \in SUBSET Jobs, Discover(s, X) PROVE UNCHANGED slotVars
  BY <1>11 DEF Discover
<1>12. ASSUME NEW j \in Jobs, BackoffElapses(j) \/ LeaseExpires(j) PROVE UNCHANGED slotVars
  BY <1>12 DEF BackoffElapses, LeaseExpires
<1>13. ASSUME TokensLost \/ TokensRestored \/ UNCHANGED vars PROVE UNCHANGED slotVars
  BY <1>13 DEF TokensLost, TokensRestored, vars
<1> QED
  BY <1>1, <1>2, <1>3, <1>4, <1>5, <1>6, <1>7, <1>8, <1>9, <1>10, <1>11, <1>12, <1>13
  DEF Next, TaskStep, EnvStep

(* The attempt of a job changes under nobody who works on it.               *)
LEMMA EffectKeepsAttempts ==
  ASSUME BaseInv, Effect, NEW t \in Slots, phase[t] \in Working,
         phase'[t] \in Working, held'[t] = held[t]
  PROVE  attempt'[held[t]] = attempt[held[t]]
<1> DEFINE j == held[t]
<1>1. j \in Jobs /\ WorksOn(t, j)
  BY DEF BaseInv, TypeOK, WorksOn, Working
<1>2. status[j] = "running" /\ lease[j] # "expired"
  BY <1>1, WorkedOnRuns
<1> HIDE DEF j
<1>3. ASSUME NEW S \in SUBSET Jobs, Takes(S) PROVE attempt'[j] = attempt[j]
  BY <1>1, <1>2, <1>3 DEF Takes, Waiting
<1>4. ASSUME NEW S \in SUBSET Jobs, Returns(S) PROVE attempt'[j] = attempt[j]
  <2>1. j \notin S
    <3> SUFFICES ASSUME j \in S PROVE FALSE
      OBVIOUS
    <3>1. PICK s \in Slots : WorksOn(s, j) /\ ~(phase'[s] \in Working /\ held'[s] = j)
      BY <1>2, <1>4 DEF Returns
    <3>2. s = t
      BY <1>1, <3>1 DEF BaseInv, OwnerInv, SingleOwner, Owns
    <3> QED BY <3>1, <3>2 DEF j
  <2> QED BY <1>1, <1>4, <2>1 DEF Returns
<1> QED BY <1>3, <1>4 DEF Effect, Moves, Adds, Settles, Recounts, j

LEMMA BaseStep == ASSUME Calm, BaseInv, [Next]_vars PROVE BaseInv'
<1>1. TypeOK' /\ OwnerInv'
  BY NextType, NextKeepsOwners DEF BaseInv, Calm
<1>2. Effect
  BY Effects
<1>3. NoneCancelled'
  BY <1>2, EffectKeepsNoneCancelled DEF BaseInv
<1>4. SeenInv'
  <2> SUFFICES ASSUME NEW t \in Slots, phase'[t] \in Working
               PROVE  seenAttempt'[t] = attempt'[held'[t]]
    BY DEF SeenInv
  <2>1. CASE SameTask(t)
    <3>1. seenAttempt[t] = attempt[held[t]]
      BY <2>1 DEF BaseInv, SeenInv, SameTask
    <3>2. attempt'[held[t]] = attempt[held[t]]
      BY <1>2, <2>1, EffectKeepsAttempts DEF SameTask
    <3> QED BY <2>1, <3>1, <3>2 DEF SameTask
  <2>2. CASE ClaimCommit(t)
    <3>1. held[t] \in Jobs /\ seenAttempt \in [Slots -> Nat] /\ attempt \in [Jobs -> Nat]
      BY <2>2 DEF ClaimCommit, BaseInv, TypeOK
    <3> QED BY <2>2, <3>1 DEF ClaimCommit, Lease
  <2> QED BY <2>1, <2>2, TaskContinues DEF BaseInv
<1> QED BY <1>1, <1>3, <1>4 DEF BaseInv

LEMMA InitBase == Init => BaseInv
<1>1. Init => TypeOK
  BY InitType
<1>2. Init => OwnerInv
  BY DEF Init, OwnerInv, SingleOwner, Owns, WorksOn, Working
<1>3. Init => NoneCancelled /\ SeenInv
  BY DEF Init, NoneCancelled, SeenInv, Working
<1> QED BY <1>1, <1>2, <1>3 DEF BaseInv

LEMMA Base == ASSUME Calm PROVE Spec => []BaseInv
  BY InitBase, BaseStep, PTL DEF Spec

-----------------------------------------------------------------------------
(* Attempts.                                                                *)

LEMMA EffectKeepsAccounts ==
  ASSUME TypeOK, AttemptAccounting, Effect PROVE AttemptAccounting'
<1> USE DEF AttemptAccounting, TypeOK
<1>1. CASE Moves
  BY <1>1 DEF Moves
<1>2. ASSUME NEW S \in SUBSET Jobs, Takes(S) PROVE AttemptAccounting'
  BY <1>2 DEF Takes, Waiting
<1>3. ASSUME NEW S \in SUBSET Jobs, Returns(S), NEW j \in Jobs
      PROVE  attempt'[j] = tries'[j] + (IF status'[j] = "running" THEN 1 ELSE 0)
  <2>1. CASE j \in S
    <3>1. attempt[j] = tries[j] + 1 /\ tries[j] \in Nat
      BY <1>3, <2>1 DEF Returns
    <3>2. \A n \in Nat : Monus(n + 1) = n
      BY DEF Monus
    <3>3. Monus(attempt[j]) = tries[j]
      BY <3>1, <3>2
    <3> QED BY <1>3, <2>1, <3>3 DEF Returns
  <2>2. CASE j \notin S
    BY <1>3, <2>2 DEF Returns
  <2> QED BY <2>1, <2>2
<1>4. ASSUME NEW S \in SUBSET Jobs, Adds(S) PROVE AttemptAccounting'
  BY <1>4 DEF Adds
<1>5. ASSUME NEW j \in Jobs, NEW st \in Outcomes, Settles(j, st) PROVE AttemptAccounting'
  <2>1. st # "running"
    BY DEF Outcomes, Finished
  <2> QED BY <1>5, <2>1 DEF Settles
<1>6. ASSUME NEW w \in Workers, Recounts(w) PROVE AttemptAccounting'
  BY <1>6 DEF Recounts
<1> QED BY <1>1, <1>2, <1>3, <1>4, <1>5, <1>6 DEF Effect

(* Recovery, release and deferral return exactly the attempt a claim took,  *)
(* over all interleavings of processes (recover_expired, release,           *)
(* defer_method).                                                           *)
THEOREM AttemptsAreExact == ASSUME Calm PROVE Spec => []AttemptAccounting
<1>1. Init => AttemptAccounting
  BY DEF Init, AttemptAccounting
<1>2. BaseInv /\ AttemptAccounting /\ [Next]_vars => AttemptAccounting'
  BY Effects, EffectKeepsAccounts DEF BaseInv
<1> QED BY <1>1, <1>2, Base, PTL DEF Spec

LEMMA EffectFailsLate ==
  ASSUME TypeOK, AttemptAccounting, NoEarlyFailure, Effect PROVE NoEarlyFailure'
<1> USE DEF NoEarlyFailure, TypeOK
<1>1. CASE Moves
  BY <1>1 DEF Moves
<1>2. ASSUME NEW S \in SUBSET Jobs, Takes(S) \/ Returns(S) \/ Adds(S) PROVE NoEarlyFailure'
  BY <1>2 DEF Takes, Returns, Adds
<1>3. ASSUME NEW j \in Jobs, NEW st \in Outcomes, Settles(j, st) PROVE NoEarlyFailure'
  <2>1. attempt[j] = tries[j] + 1
    BY <1>3 DEF AttemptAccounting, Settles
  <2>2. \A k \in Jobs : /\ status'[k] = IF k = j THEN st ELSE status[k]
                        /\ tries'[k] = IF k = j THEN tries[j] + 1 ELSE tries[k]
    BY <1>3 DEF Settles
  <2> QED BY <1>3, <2>1, <2>2 DEF Settles
<1>4. ASSUME NEW w \in Workers, Recounts(w) PROVE NoEarlyFailure'
  BY <1>4 DEF Recounts
<1> QED BY <1>1, <1>2, <1>3, <1>4 DEF Effect

(* A job fails only after max_attempts outcomes were written for it         *)
(* (_retry_or_fail, which looks at a copy of the attempt count).            *)
THEOREM FailuresAreEarned == ASSUME Calm PROVE Spec => []NoEarlyFailure
<1>1. Init => NoEarlyFailure
  BY DEF Init, NoEarlyFailure
<1>2. BaseInv /\ AttemptAccounting /\ NoEarlyFailure /\ [Next]_vars => NoEarlyFailure'
  BY Effects, EffectFailsLate DEF BaseInv
<1> QED BY <1>1, <1>2, Base, AttemptsAreExact, PTL DEF Spec

-----------------------------------------------------------------------------
(* Results, the run's verdict and its counters.                             *)

LEMMA EffectKeepsResults ==
  ASSUME TypeOK, Effect, NEW j \in Jobs, status[j] \in Finished
  PROVE  status'[j] = status[j]
<1> USE DEF Finished
<1>1. CASE Moves
  BY <1>1 DEF Moves
<1>2. ASSUME NEW S \in SUBSET Jobs, Takes(S) \/ Returns(S) \/ Adds(S)
      PROVE  status'[j] = status[j]
  BY <1>2 DEF Takes, Returns, Adds, Waiting
<1>3. ASSUME NEW k \in Jobs, NEW st \in Outcomes, Settles(k, st) PROVE status'[j] = status[j]
  BY <1>3 DEF Settles, TypeOK
<1>4. ASSUME NEW w \in Workers, Recounts(w) PROVE status'[j] = status[j]
  BY <1>4 DEF Recounts
<1> QED BY <1>1, <1>2, <1>3, <1>4 DEF Effect

(* A result is never taken back, nor replaced by another (finish,           *)
(* recover_expired, release).                                               *)
THEOREM ResultsStay == ASSUME Calm PROVE Spec => ResultsFinal
<1>1. BaseInv /\ [Next]_vars =>
        [\A j \in Jobs : status[j] \in {"completed", "skipped"} => status'[j] = status[j]]_vars
  BY Effects, EffectKeepsResults DEF BaseInv, Finished
<1> QED BY <1>1, Base, PTL DEF Spec, ResultsFinal

(* What refresh_run has counted may be out of date, but only in jobs that   *)
(* had no result then, and if none was active, none is.                     *)
HoldsOf(count) ==
  /\ \A j \in Jobs : count[j] \in Finished => status[j] = count[j]
  /\ (\A j \in Jobs : count[j] \notin Active) => \A j \in Jobs : status[j] \notin Active

SnapInv == \A w \in Workers : pc[w] \in Refreshing => HoldsOf(snap[w])

LEMMA EffectKeepsRest ==
  ASSUME TypeOK, Effect, \A j \in Jobs : status[j] \notin Active
  PROVE  \A j \in Jobs : status'[j] \notin Active
<1> USE DEF Active
<1>1. CASE Moves
  BY <1>1 DEF Moves
<1>2. ASSUME NEW S \in SUBSET Jobs, Takes(S) \/ Returns(S) \/ Adds(S)
      PROVE  \A j \in Jobs : status'[j] \notin Active
  BY <1>2 DEF Takes, Returns, Adds, Waiting
<1>3. ASSUME NEW j \in Jobs, NEW st \in Outcomes, Settles(j, st) PROVE FALSE
  BY <1>3 DEF Settles
<1>4. ASSUME NEW w \in Workers, Recounts(w) PROVE \A j \in Jobs : status'[j] \notin Active
  BY <1>4 DEF Recounts
<1> QED BY <1>1, <1>2, <1>3, <1>4 DEF Effect

(* A worker that refreshes was refreshing before, or counts now.            *)
LEMMA RefreshContinues ==
  ASSUME TypeOK, [Next]_vars, NEW w \in Workers, pc'[w] \in Refreshing
  PROVE  \/ pc[w] \in Refreshing /\ snap'[w] = snap[w]
         \/ snap'[w] = status /\ status' = status
<1>0. pc \in [Workers -> LoopState] /\ snap \in [Workers -> [Jobs -> JobStatus]]
  BY DEF TypeOK
<1> DEFINE Goal == \/ pc[w] \in Refreshing /\ snap'[w] = snap[w]
                   \/ snap'[w] = status /\ status' = status
<1>1. CASE UNCHANGED loopVars
  BY <1>1 DEF loopVars
<1>2. ASSUME NEW v \in Workers, RefreshCount(v) PROVE Goal
  BY <1>0, <1>2 DEF RefreshCount, jobVars
<1>3. ASSUME NEW v \in Workers, RefreshRun(v) PROVE Goal
  BY <1>0, <1>3 DEF RefreshRun, Refreshing
<1>4. ASSUME NEW v \in Workers,
             \/ ListRun(v) \/ Start(v) \/ RejectRun(v) \/ MethodsBlocked(v)
             \/ WaitForMethods(v) \/ DiskStop(v) \/ QuantumReached(v) \/ StopRequested(v)
      PROVE  Goal
  BY <1>0, <1>4 DEF ListRun, Start, RejectRun, MethodsBlocked, WaitForMethods, DiskStop,
                    QuantumReached, StopRequested, Refreshing
<1>5. ASSUME NEW s \in Slots, NEW j \in Jobs, ClaimSelect(s, j) PROVE Goal
  BY <1>0, <1>5 DEF ClaimSelect, Refreshing
<1>6. ASSUME NEW v \in Workers, Crash(v) PROVE Goal
  BY <1>0, <1>6 DEF Crash, Refreshing
<1>7. ASSUME NEW s \in Slots, TaskStep(s), \A j \in Jobs : ~ClaimSelect(s, j)
      PROVE  UNCHANGED loopVars
  BY <1>7 DEF TaskStep, ClaimCommit, ClaimBatch, Release, FinishExtra, Discover, Complete,
              Skip, Forbidden, RetryOrFail, Miss, DeferMethod, NoTokens, PauseForTokens
<1>8. ASSUME CommandStep PROVE UNCHANGED loopVars
  BY <1>8 DEF CommandStep, RecoverExpired, ResumePausedNoTokens, OperatorPause,
              OperatorResume, RetryFailed, CancelPilot
<1>9. ASSUME NEW v \in Workers, StartWithoutTokens(v) PROVE UNCHANGED loopVars
  BY <1>9 DEF StartWithoutTokens
<1>10. ASSUME NEW j \in Jobs, BackoffElapses(j) \/ LeaseExpires(j) PROVE UNCHANGED loopVars
  BY <1>10 DEF BackoffElapses, LeaseExpires
<1>11. ASSUME TokensLost \/ TokensRestored \/ UNCHANGED vars PROVE UNCHANGED loopVars
  BY <1>11 DEF TokensLost, TokensRestored, vars
<1> QED
  BY <1>1, <1>2, <1>3, <1>4, <1>5, <1>6, <1>7, <1>8, <1>9, <1>10, <1>11
  DEF Next, LoopStep, EnvStep

LEMMA SnapStep == ASSUME Calm, BaseInv, SnapInv, [Next]_vars PROVE SnapInv'
<1> SUFFICES ASSUME NEW w \in Workers, pc'[w] \in Refreshing
             PROVE  /\ \A j \in Jobs : snap'[w][j] \in Finished => status'[j] = snap'[w][j]
                    /\ (\A j \in Jobs : snap'[w][j] \notin Active)
                         => \A j \in Jobs : status'[j] \notin Active
  BY DEF SnapInv, HoldsOf
<1>1. Effect /\ TypeOK
  BY Effects DEF BaseInv
<1>2. CASE pc[w] \in Refreshing /\ snap'[w] = snap[w]
  <2>1. HoldsOf(snap[w])
    BY <1>2 DEF SnapInv
  <2> QED BY <1>1, <1>2, <2>1, EffectKeepsResults, EffectKeepsRest DEF HoldsOf
<1>3. CASE snap'[w] = status /\ status' = status
  BY <1>3
<1> QED BY <1>1, <1>2, <1>3, RefreshContinues

LEMMA Snapshots == ASSUME Calm PROVE Spec => []SnapInv
<1>1. Init => SnapInv
  BY DEF Init, SnapInv, Refreshing
<1>2. BaseInv /\ SnapInv /\ [Next]_vars => SnapInv'
  BY SnapStep
<1> QED BY <1>1, <1>2, Base, PTL DEF Spec

LEMMA EffectClosesSoundly ==
  ASSUME TypeOK, SnapInv, RunDoneSound, Effect PROVE RunDoneSound'
<1> USE DEF RunDoneSound
<1>1. CASE Moves
  BY <1>1 DEF Moves, Active
<1>2. ASSUME NEW S \in SUBSET Jobs, Takes(S) PROVE RunDoneSound'
  <2>1. \E j \in Jobs : status[j] \in Active
    BY <1>2 DEF Takes, Waiting, Active
  <2> QED BY <1>2, <2>1 DEF Takes, RunDone
<1>3. ASSUME NEW S \in SUBSET Jobs, Returns(S) PROVE RunDoneSound'
  BY <1>3 DEF Returns, Active, RunDone
<1>4. ASSUME NEW S \in SUBSET Jobs, Adds(S) PROVE RunDoneSound'
  BY <1>4 DEF Adds, Active
<1>5. ASSUME NEW j \in Jobs, NEW st \in Outcomes, Settles(j, st) PROVE RunDoneSound'
  BY <1>5 DEF Settles, Active
<1>6. ASSUME NEW w \in Workers, Recounts(w) PROVE RunDoneSound'
  BY <1>6 DEF Recounts, SnapInv, HoldsOf, RunDone
<1> QED BY <1>1, <1>2, <1>3, <1>4, <1>5, <1>6 DEF Effect

(* A run that is reported as completed has nothing left to do (finish,      *)
(* refresh_run from old counts, and the plans of further jobs).             *)
THEOREM DoneRunsAreDone == ASSUME Calm PROVE Spec => []RunDoneSound
<1>1. Init => RunDoneSound
  BY DEF Init, RunDoneSound, RunDone
<1>2. BaseInv /\ SnapInv /\ RunDoneSound /\ [Next]_vars => RunDoneSound'
  BY Effects, EffectClosesSoundly DEF BaseInv
<1> QED BY <1>1, <1>2, Base, Snapshots, PTL DEF Spec

-----------------------------------------------------------------------------
(* Counting.                                                                *)

LEMMA JobsAreFinite == ASSUME NEW f, NEW st PROVE IsFiniteSet({j \in Jobs : f[j] = st})
  BY QueueAssumption, FS_Subset DEF QueueAssumption

(* More jobs with a status, a larger count; one more job, one more.         *)
LEMMA CountGrows ==
  ASSUME NEW f, NEW g, NEW st, \A j \in Jobs : f[j] = st => g[j] = st
  PROVE  CountIn(f, st) \in Nat /\ CountIn(g, st) \in Nat /\ CountIn(f, st) <= CountIn(g, st)
<1> DEFINE F == {j \in Jobs : f[j] = st}
           G == {j \in Jobs : g[j] = st}
<1>1. F \subseteq G /\ IsFiniteSet(F) /\ IsFiniteSet(G)
  BY JobsAreFinite
<1>2. Cardinality(F) <= Cardinality(G) /\ Cardinality(F) \in Nat /\ Cardinality(G) \in Nat
  <2> HIDE DEF F, G
  <2> QED BY <1>1, FS_Subset, FS_CardinalityType
<1> QED BY <1>2 DEF CountIn

LEMMA CountOneMore ==
  ASSUME NEW f, NEW g, NEW st, NEW j \in Jobs, f[j] # st, g[j] = st,
         \A k \in Jobs \ {j} : g[k] = f[k]
  PROVE  CountIn(g, st) = CountIn(f, st) + 1
<1> DEFINE F == {k \in Jobs : f[k] = st}
           G == {k \in Jobs : g[k] = st}
<1>1. G = F \cup {j} /\ j \notin F /\ IsFiniteSet(F)
  BY JobsAreFinite
<1>2. Cardinality(G) = Cardinality(F) + 1
  <2> HIDE DEF F, G
  <2> QED BY <1>1, FS_AddElement
<1> QED BY <1>2 DEF CountIn

LEMMA EffectKeepsCounters ==
  ASSUME TypeOK, SnapInv, CountersNeverAhead, Effect PROVE CountersNeverAhead'
<1> SUFFICES ASSUME NEW st \in Finished PROVE counted'[st] <= CountIn(status', st)
  BY DEF CountersNeverAhead
<1>1. counted[st] <= CountIn(status, st) /\ counted[st] \in Nat
  BY DEF CountersNeverAhead, TypeOK
<1>2. \A j \in Jobs : status[j] = st => status'[j] = st
  BY EffectKeepsResults
<1>3. CountIn(status, st) \in Nat /\ CountIn(status', st) \in Nat
      /\ CountIn(status, st) <= CountIn(status', st)
  BY <1>2, CountGrows
<1>4. CASE counted'[st] = counted[st]
  BY <1>1, <1>3, <1>4
<1>5. ASSUME NEW j \in Jobs, NEW out \in Outcomes, Settles(j, out)
      PROVE  counted'[st] <= CountIn(status', st)
  <2>1. CASE out = st
    <3>1. counted'[st] = counted[st] + 1
      BY <1>5, <2>1 DEF Settles, CountOne, TypeOK
    <3>2. status[j] # st /\ status'[j] = st /\ \A k \in Jobs \ {j} : status'[k] = status[k]
      BY <1>5, <2>1 DEF Settles, TypeOK, Finished
    <3>3. CountIn(status', st) = CountIn(status, st) + 1
      BY <3>2, CountOneMore
    <3> QED BY <1>1, <1>3, <3>1, <3>3
  <2>2. CASE out # st
    <3>1. counted'[st] = counted[st]
      BY <1>5, <2>2 DEF Settles, CountOne, TypeOK
    <3> QED BY <1>4, <3>1
  <2> QED BY <2>1, <2>2
<1>6. ASSUME NEW w \in Workers, Recounts(w) PROVE counted'[st] <= CountIn(status', st)
  <2>1. counted'[st] = CountIn(snap[w], st)
    BY <1>6 DEF Recounts, CountsOf
  <2>2. \A j \in Jobs : snap[w][j] = st => status'[j] = st
    BY <1>6 DEF Recounts, SnapInv, HoldsOf
  <2> QED BY <2>1, <2>2, CountGrows
<1>7. ASSUME Moves \/ \E S \in SUBSET Jobs : Takes(S) \/ Returns(S) \/ Adds(S)
      PROVE  counted'[st] = counted[st]
  BY <1>7 DEF Moves, Takes, Returns, Adds
<1> QED BY <1>4, <1>5, <1>6, <1>7 DEF Effect

(* Neither two processes that finish jobs nor a refresh from old counts     *)
(* make the run's counters run ahead of its jobs.                           *)
THEOREM CountersAreSound == ASSUME Calm PROVE Spec => []CountersNeverAhead
<1>1. Init => CountersNeverAhead
  <2> SUFFICES ASSUME Init, NEW st \in Finished PROVE counted[st] <= CountIn(status, st)
    BY DEF CountersNeverAhead
  <2>1. CountIn(status, st) \in Nat
    BY CountGrows
  <2> QED BY <2>1 DEF Init
<1>2. BaseInv /\ SnapInv /\ CountersNeverAhead /\ [Next]_vars => CountersNeverAhead'
  BY Effects, EffectKeepsCounters DEF BaseInv
<1> QED BY <1>1, <1>2, Base, Snapshots, PTL DEF Spec

-----------------------------------------------------------------------------
(* Without any restriction on the disturbances: who can reopen a job.       *)

(* A row that a claim has locked still waits to be claimed, and is locked   *)
(* once.                                                                    *)
LockInv ==
  \A s \in Slots : phase[s] = "claiming" =>
    /\ Waiting(held[s])
    /\ \A t \in Slots : phase[t] = "claiming" /\ held[t] = held[s] => t = s

(* What a step may do to a row: nothing if it is locked, and take back a    *)
(* result only as a task that works on the job.                             *)
Permitted(j) ==
  /\ Waiting(j) /\ ~RowFree(j) => Waiting(j)'
  /\ status[j] \in {"completed", "skipped"} /\ status'[j] # status[j]
       => \E s \in Slots : WorksOn(s, j)

LEMMA FinishPermitted ==
  ASSUME TypeOK, NEW k \in Jobs, NEW st, Finish(k, st), NEW j \in Jobs PROVE Permitted(j)
<1>1. CASE status[k] \in Finished
  BY <1>1 DEF Finish, Permitted, Waiting, jobVars
<1>2. CASE status[k] \notin Finished
  <2>1. status' = [status EXCEPT ![k] = st] /\ RowFree(k)
    BY <1>2 DEF Finish
  <2>2. j # k => status'[j] = status[j]
    BY <2>1 DEF TypeOK
  <2> QED BY <1>2, <2>1, <2>2 DEF Permitted, Waiting, Finished
<1> QED BY <1>1, <1>2

LEMMA SetRunStatusPermitted ==
  ASSUME TypeOK, NEW st, SetRunStatus(st), NEW j \in Jobs PROVE Permitted(j)
  BY DEF SetRunStatus, Permitted, Waiting, TypeOK

LEMMA RecoverPermitted == ASSUME TypeOK, Recover, NEW j \in Jobs PROVE Permitted(j)
  BY DEF Recover, GiveBack, Expired, Permitted, Waiting, TypeOK

LEMMA StepPermitted ==
  ASSUME TypeOK, LockInv, [Next]_vars, NEW j \in Jobs
  PROVE  Permitted(j) \/ \E s \in Slots : ClaimCommit(s) /\ held[s] = j
<1> USE DEF jobVars
<1>1. CASE UNCHANGED status
  BY <1>1 DEF Permitted, Waiting
<1>2. ASSUME NEW w \in Workers, LoopStep(w) PROVE Permitted(j)
  <2>1. CASE Start(w)
    BY <2>1, RecoverPermitted DEF Start
  <2>2. CASE StartWithoutTokens(w) \/ RejectRun(w) \/ DiskStop(w)
    BY <2>2, SetRunStatusPermitted DEF StartWithoutTokens, RejectRun, DiskStop
  <2>3. ASSUME \/ ListRun(w) \/ MethodsBlocked(w) \/ WaitForMethods(w) \/ QuantumReached(w)
               \/ StopRequested(w) \/ RefreshCount(w) \/ RefreshRun(w)
        PROVE  UNCHANGED status
    BY <2>3 DEF ListRun, MethodsBlocked, WaitForMethods, QuantumReached, StopRequested,
                RefreshCount, RefreshRun
  <2> QED BY <1>1, <1>2, <2>1, <2>2, <2>3 DEF LoopStep, Permitted, Waiting
<1>3. ASSUME NEW s \in Slots, ClaimCommit(s), held[s] # j PROVE Permitted(j)
  BY <1>3 DEF ClaimCommit, Lease, Permitted, Waiting
<1>4. ASSUME NEW s \in Slots, NEW X \in SUBSET BatchJobs, ClaimBatch(s, X) PROVE Permitted(j)
  BY <1>4 DEF ClaimBatch, Lease, Claimable, Permitted, Waiting
<1>5. ASSUME NEW s \in Slots, Release(s) PROVE Permitted(j)
  <2>1. j \in extras[s] => WorksOn(s, j) /\ RowFree(j)
    BY <1>5 DEF Release, WorksOn, Working
  <2> QED BY <1>5, <2>1 DEF Release, GiveBack, Permitted, Waiting
<1>6. ASSUME NEW s \in Slots, NEW k \in Jobs, FinishExtra(s, k) PROVE Permitted(j)
  BY <1>6, FinishPermitted DEF FinishExtra
<1>7. ASSUME NEW s \in Slots, NEW X \in SUBSET Jobs, Discover(s, X) PROVE Permitted(j)
  BY <1>7 DEF Discover, Permitted, Waiting
<1>8. ASSUME NEW s \in Slots,
             \/ Complete(s) \/ Skip(s) \/ Forbidden(s) \/ RetryOrFail(s)
             \/ Miss(s) \/ NoTokens(s)
      PROVE  Permitted(j)
  <2>1. held[s] \in Jobs /\ \E st : Finish(held[s], st)
    BY <1>8 DEF Complete, Skip, Forbidden, RetryOrFail, Miss, NoTokens, TypeOK, Working
  <2> QED BY <2>1, FinishPermitted
<1>9. ASSUME NEW s \in Slots, DeferMethod(s) PROVE Permitted(j)
  <2>1. /\ status' = [status EXCEPT ![held[s]] = "retry_wait"] /\ RowFree(held[s])
        /\ phase[s] \in {"calling", "failing"}
    BY <1>9 DEF DeferMethod
  <2>2. CASE j = held[s]
    BY <2>1, <2>2 DEF Permitted, WorksOn, Working
  <2>3. CASE j # held[s]
    BY <2>1, <2>3 DEF Permitted, Waiting, TypeOK
  <2> QED BY <2>2, <2>3
<1>10. ASSUME NEW s \in Slots, PauseForTokens(s) PROVE Permitted(j)
  BY <1>10, SetRunStatusPermitted DEF PauseForTokens
<1>11. ASSUME CommandStep PROVE Permitted(j)
  <2>1. CASE RecoverExpired
    BY <2>1, RecoverPermitted DEF RecoverExpired
  <2>2. CASE OperatorPause \/ OperatorResume
    BY <2>2, SetRunStatusPermitted DEF OperatorPause, OperatorResume
  <2>3. CASE ResumePausedNoTokens
    BY <2>3 DEF ResumePausedNoTokens, Permitted, Waiting
  <2>4. CASE RetryFailed
    BY <2>4 DEF RetryFailed, Permitted, Waiting
  <2>5. CASE CancelPilot
    BY <2>5 DEF CancelPilot, Permitted, Waiting, Active
  <2> QED BY <1>11, <2>1, <2>2, <2>3, <2>4, <2>5 DEF CommandStep
<1>12. ASSUME NEW s \in Slots, NEW k \in Jobs, ClaimSelect(s, k) PROVE UNCHANGED status
  BY <1>12 DEF ClaimSelect
<1>13. ASSUME EnvStep \/ UNCHANGED vars PROVE UNCHANGED status
  BY <1>13 DEF EnvStep, BackoffElapses, LeaseExpires, TokensLost, TokensRestored, Crash, vars
<1> QED
  BY <1>1, <1>2, <1>3, <1>4, <1>5, <1>6, <1>7, <1>8, <1>9, <1>10, <1>11, <1>12, <1>13
  DEF Next, TaskStep

(* A claim that is under way was so before, or has just locked a free row.  *)
LEMMA ClaimContinues ==
  ASSUME TypeOK, [Next]_vars, NEW t \in Slots, phase'[t] = "claiming"
  PROVE  \/ phase[t] = "claiming" /\ held'[t] = held[t]
         \/ \E j \in Jobs : ClaimSelect(t, j)
<1>0. phase \in [Slots -> TaskPhase] /\ held \in [Slots -> Jobs \cup {NoJob}]
  BY DEF TypeOK
<1> DEFINE Goal == phase[t] = "claiming" /\ held'[t] = held[t]
<1>1. CASE UNCHANGED slotVars
  BY <1>1 DEF slotVars
<1>2. ASSUME NEW s \in Slots, FreeSlot(s) PROVE Goal
  BY <1>0, <1>2 DEF FreeSlot
<1>3. ASSUME NEW s \in Slots, NEW j \in Jobs, ClaimSelect(s, j), s # t PROVE Goal
  BY <1>0, <1>3 DEF ClaimSelect
<1>4. ASSUME NEW s \in Slots,
             \/ ClaimCommit(s)
             \/ \E X \in SUBSET BatchJobs : ClaimBatch(s, X)
             \/ Release(s)
             \/ \E j \in Jobs : FinishExtra(s, j)
             \/ NoTokens(s)
      PROVE  Goal
  BY <1>0, <1>4 DEF ClaimCommit, ClaimBatch, Release, FinishExtra, NoTokens
<1>5. ASSUME NEW w \in Workers, Crash(w) PROVE Goal
  BY <1>0, <1>5 DEF Crash
<1>6. ASSUME NEW w \in Workers, LoopStep(w) PROVE UNCHANGED slotVars
  BY <1>6 DEF LoopStep, ListRun, Start, StartWithoutTokens, RejectRun, MethodsBlocked,
              WaitForMethods, DiskStop, QuantumReached, StopRequested, RefreshCount, RefreshRun
<1>7. ASSUME CommandStep PROVE UNCHANGED slotVars
  BY <1>7 DEF CommandStep, RecoverExpired, ResumePausedNoTokens, OperatorPause,
              OperatorResume, RetryFailed, CancelPilot
<1>8. ASSUME NEW s \in Slots,
             \/ Complete(s) \/ Skip(s) \/ Forbidden(s) \/ RetryOrFail(s)
             \/ Miss(s) \/ DeferMethod(s) \/ PauseForTokens(s)
      PROVE  FreeSlot(s)
  BY <1>8 DEF Complete, Skip, Forbidden, RetryOrFail, Miss, DeferMethod, PauseForTokens
<1>9. ASSUME NEW s \in Slots, NEW X \in SUBSET Jobs, Discover(s, X) PROVE UNCHANGED slotVars
  BY <1>9 DEF Discover
<1>10. ASSUME NEW j \in Jobs, BackoffElapses(j) \/ LeaseExpires(j) PROVE UNCHANGED slotVars
  BY <1>10 DEF BackoffElapses, LeaseExpires
<1>11. ASSUME TokensLost \/ TokensRestored \/ UNCHANGED vars PROVE UNCHANGED slotVars
  BY <1>11 DEF TokensLost, TokensRestored, vars
<1> QED
  BY <1>1, <1>2, <1>3, <1>4, <1>5, <1>6, <1>7, <1>8, <1>9, <1>10, <1>11
  DEF Next, TaskStep, EnvStep

LEMMA LockStep == TypeOK /\ LockInv /\ [Next]_vars => LockInv'
<1> SUFFICES ASSUME TypeOK, LockInv, [Next]_vars, NEW s \in Slots, phase'[s] = "claiming"
             PROVE  /\ status'[held'[s]] \in {"pending", "retry_wait"}
                    /\ \A t \in Slots : phase'[t] = "claiming" /\ held'[t] = held'[s] => t = s
  BY DEF LockInv, Waiting
<1> DEFINE Held(t) == phase[t] = "claiming" /\ held'[t] = held[t]
<1>0. phase \in [Slots -> TaskPhase] /\ held \in [Slots -> Jobs \cup {NoJob}]
  BY DEF TypeOK
<1>1. ASSUME NEW t \in Slots, NEW j \in Jobs, ClaimSelect(t, j)
      PROVE  /\ held'[t] = j /\ RowFree(j) /\ UNCHANGED status /\ Waiting(j)
             /\ \A u \in Slots \ {t} : phase'[u] = phase[u] /\ held'[u] = held[u]
  BY <1>0, <1>1 DEF ClaimSelect, Claimable, Waiting, jobVars
<1>2. CASE \E t \in Slots, j \in Jobs : ClaimSelect(t, j)
  <2>1. PICK t \in Slots, j \in Jobs : ClaimSelect(t, j)
    BY <1>2
  <2>2. \A u \in Slots : phase[u] = "claiming" => held[u] # j
    BY <1>1, <2>1 DEF RowFree
  <2> QED BY <1>1, <2>1, <2>2 DEF LockInv, Waiting
<1>3. CASE ~\E t \in Slots, j \in Jobs : ClaimSelect(t, j)
  <2>1. \A t \in Slots : phase'[t] = "claiming" => Held(t)
    BY <1>3, ClaimContinues
  <2>2. held[s] \in Jobs /\ ~RowFree(held[s]) /\ Waiting(held[s])
    BY <2>1 DEF LockInv, RowFree, TypeOK
  <2>3. ASSUME NEW t \in Slots, ClaimCommit(t), held[t] = held[s] PROVE FALSE
    <3>1. t = s
      BY <2>1, <2>3 DEF LockInv, ClaimCommit
    <3> QED BY <1>0, <2>3, <3>1 DEF ClaimCommit
  <2>4. Waiting(held[s])'
    <3>1. PICK j \in Jobs : j = held[s]
      BY <2>2
    <3>2. Permitted(j)
      BY <2>3, <3>1, StepPermitted
    <3>3. status'[j] \in {"pending", "retry_wait"}
      BY <2>2, <3>1, <3>2 DEF Permitted, Waiting
    <3> QED BY <2>1, <3>1, <3>3 DEF Waiting
  <2> QED BY <2>1, <2>4 DEF LockInv, Waiting
<1> QED BY <1>2, <1>3

(* Whatever processes overrun their leases, operators retry or pilots are   *)
(* cancelled, a completed or skipped job is only ever taken back by a task  *)
(* that still works on it.                                                  *)
THEOREM OnlyItsTaskReopens == Spec => OnlyTasksReopen
<1>1. Init => LockInv
  BY DEF Init, LockInv
<1>2. TypeOK /\ LockInv /\ [Next]_vars => LockInv'
  BY LockStep
<1>3. ASSUME TypeOK, LockInv, [Next]_vars, NEW j \in Jobs,
             status[j] \in {"completed", "skipped"}, status'[j] # status[j]
      PROVE  \E s \in Slots : WorksOn(s, j)
  <2>1. \A s \in Slots : ClaimCommit(s) => held[s] # j
    BY <1>3 DEF LockInv, ClaimCommit, Waiting
  <2> QED BY <1>3, <2>1, StepPermitted DEF Permitted
<1>4. TypeOK /\ LockInv /\ [Next]_vars =>
        [\A j \in Jobs :
           status[j] \in {"completed", "skipped"} /\ status'[j] # status[j]
             => \E s \in Slots : WorksOn(s, j)]_vars
  BY <1>3
<1> QED BY <1>1, <1>2, <1>4, TypeCorrect, PTL DEF Spec, OnlyTasksReopen

-----------------------------------------------------------------------------
(* The refinement.                                                          *)

Known  == {j \in Jobs : status[j] # "unplanned"}
Result == [j \in Jobs |-> IF status[j] \in Finished THEN status[j] ELSE "none"]
Taken  == {j \in Jobs : status[j] = "running"}

(* The ledger's state, in these terms.                                      *)
LedgerStep == [Ledger!Next]_Ledger!ledgerVars

LEMMA EffectImplements ==
  ASSUME TypeOK, TypeOK', NoneCancelled, NoneCancelled', SnapInv, RunDoneSound, RunDoneSound',
         Effect
  PROVE  LedgerStep
<1> DEFINE closed == runStatus \in RunDone
<1> USE DEF Ledger!ledgerVars
<1>1. CASE Moves
  <2>1. Known' = Known /\ Taken' = Taken /\ Result' = Result
    BY <1>1 DEF Moves, Known, Taken, Result, Finished
  <2>2. closed' = closed \/ closed' = FALSE
    BY <1>1 DEF Moves
  <2> QED BY <2>1, <2>2 DEF LedgerStep, Ledger!Next, Ledger!Reopen, Known, Taken, Result
<1>2. ASSUME NEW S \in SUBSET Jobs, Takes(S) PROVE LedgerStep
  <2>1. Known' = Known /\ Taken' = Taken \cup S /\ Result' = Result
    BY <1>2 DEF Takes, Waiting, Known, Taken, Result, Finished
  <2>2. closed' = closed \/ closed' = FALSE
    BY <1>2 DEF Takes, RunDone
  <2>3. S # {} /\ S \subseteq {j \in Known : Result[j] = "none"} \ Taken
    BY <1>2 DEF Takes, Waiting, Known, Taken, Result, Finished
  <2>4. Ledger!Take(S)
    BY <2>1, <2>2, <2>3 DEF Ledger!Take, Ledger!Open, Known, Taken, Result
  <2> QED BY <2>4 DEF LedgerStep, Ledger!Next
<1>3. ASSUME NEW S \in SUBSET Jobs, Returns(S) PROVE LedgerStep
  <2>1. Known' = Known /\ Taken' = Taken \ S /\ Result' = Result /\ S \subseteq Taken
    BY <1>3 DEF Returns, Known, Taken, Result, Finished
  <2>2. closed' = closed \/ closed' = FALSE
    BY <1>3 DEF Returns, RunDone
  <2>3. CASE S # {}
    <3>1. Ledger!GiveBack(S)
      BY <2>1, <2>2, <2>3 DEF Ledger!GiveBack, Known, Taken, Result
    <3> QED BY <3>1 DEF LedgerStep, Ledger!Next
  <2>4. CASE S = {}
    BY <2>1, <2>2, <2>4 DEF LedgerStep, Ledger!Next, Ledger!Reopen, Known, Taken, Result
  <2> QED BY <2>3, <2>4
<1>4. ASSUME NEW X \in SUBSET Jobs, Adds(X) PROVE LedgerStep
  <2>1. Known' = Known \cup X /\ Taken' = Taken /\ Result' = Result
    BY <1>4 DEF Adds, Known, Taken, Result, Finished
  <2>2. ~closed /\ closed' = closed /\ Taken # {} /\ X \subseteq Jobs \ Known
    BY <1>4 DEF Adds, RunDoneSound, Active, Taken, Known
  <2>3. Ledger!Discover(X)
    BY <2>1, <2>2 DEF Ledger!Discover, Known, Taken, Result
  <2> QED BY <2>3 DEF LedgerStep, Ledger!Next
<1>5. ASSUME NEW j \in Jobs, NEW st \in Outcomes, Settles(j, st) PROVE LedgerStep
  <2>0. /\ \A k \in Jobs : status'[k] = IF k = j THEN st ELSE status[k]
        /\ status[j] = "running"
    BY <1>5 DEF Settles, TypeOK
  <2>1. st \notin {"running", "unplanned", "none"}
    BY DEF Outcomes, Finished
  <2>2. Known' = Known /\ Taken' = Taken \ {j} /\ j \in Taken
    BY <2>0, <2>1 DEF Known, Taken
  <2>3. CASE st \in Finished
    <3>1. Result' = [Result EXCEPT ![j] = st]
      BY <2>0, <2>3 DEF Result
    <3>2. closed' => {k \in Known' : Result'[k] = "none"} = {}
      <4> SUFFICES ASSUME closed', NEW k \in Jobs, status'[k] # "unplanned",
                          status'[k] \notin Finished
                   PROVE  FALSE
        BY DEF Known, Result, Finished
      <4>1. status'[k] \notin Active /\ status'[k] # "cancelled"
        BY DEF RunDoneSound, NoneCancelled
      <4>2. status'[k] \in JobStatus
        BY DEF TypeOK
      <4> QED BY <4>1, <4>2 DEF JobStatus
    <3>3. Ledger!Settle(j, st)
      BY <2>2, <2>3, <3>1, <3>2 DEF Ledger!Settle, Ledger!Open, Known, Taken, Result
    <3> QED BY <2>3, <3>3 DEF LedgerStep, Ledger!Next
  <2>4. CASE st \notin Finished
    <3>1. Result' = Result
      BY <2>0, <2>4 DEF Result, Finished
    <3>2. closed' = closed
      <4>1. status'[j] \in Active
        BY <2>0, <2>4 DEF Outcomes, Active
      <4>2. runStatus' = runStatus
        BY <1>5, <4>1 DEF Settles
      <4> QED BY <4>2
    <3>3. Ledger!GiveBack({j})
      BY <2>2, <3>1, <3>2 DEF Ledger!GiveBack, Known, Taken, Result
    <3>4. {j} \in SUBSET Jobs
      OBVIOUS
    <3> QED BY <3>3, <3>4 DEF LedgerStep, Ledger!Next
  <2> QED BY <2>3, <2>4
<1>6. ASSUME NEW w \in Workers, Recounts(w) PROVE LedgerStep
  <2>1. Known' = Known /\ Taken' = Taken /\ Result' = Result
    BY <1>6 DEF Recounts, Known, Taken, Result
  <2>2. CASE closed' /\ ~closed
    <3>1. {k \in Known : Result[k] = "none"} = {}
      <4> SUFFICES ASSUME NEW k \in Jobs, status[k] # "unplanned", status[k] \notin Finished
                   PROVE  FALSE
        BY DEF Known, Result, Finished
      <4>1. status'[k] = status[k] /\ status'[k] \notin Active /\ status[k] # "cancelled"
        BY <1>6, <2>2 DEF RunDoneSound, NoneCancelled, Recounts
      <4> QED BY <4>1 DEF TypeOK, JobStatus
    <3>2. Ledger!Close
      BY <2>1, <2>2, <3>1 DEF Ledger!Close, Ledger!Open, Known, Taken, Result
    <3> QED BY <3>2 DEF LedgerStep, Ledger!Next
  <2>3. CASE ~(closed' /\ ~closed)
    BY <2>1, <2>3 DEF LedgerStep, Ledger!Next, Ledger!Reopen, Known, Taken, Result
  <2> QED BY <2>2, <2>3
<1> QED BY <1>1, <1>2, <1>3, <1>4, <1>5, <1>6 DEF Effect

(* The queue implements the ledger: over all interleavings, crashes and     *)
(* recoveries a job has one holder, only its holder gives it a result,      *)
(* once, and the run is closed only when every job has one.                 *)
THEOREM QueueImplementsLedger == ASSUME Calm PROVE Spec => ImplementsLedger
<1>1. Init => Ledger!Init
  BY DEF Init, Ledger!Init, Finished, RunDone
<1>2. /\ BaseInv /\ BaseInv' /\ SnapInv /\ RunDoneSound /\ RunDoneSound' /\ [Next]_vars
      => [Ledger!Next]_Ledger!ledgerVars
  BY Effects, EffectImplements DEF BaseInv, LedgerStep
<1> QED
  BY <1>1, <1>2, Base, Snapshots, DoneRunsAreDone, PTL DEF Spec, ImplementsLedger, Ledger!Spec
=============================================================================
