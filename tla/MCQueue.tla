------------------------------ MODULE MCQueue ------------------------------
(* Instances of CollectionQueue for TLC.                                    *)
EXTENDS CollectionQueue, TLC

CONSTANTS j1, j2, s1, s2, s3, w1, w2

TwoJobs      == {j1, j2}
TwoWorkers   == {w1, w2}
ThreeSlots   == {s1, s2, s3}
TwoSlots     == {s1, s2}
(* w1 runs two tasks at once, w2 one.                                       *)
ThreeSlotsOf == s1 :> w1 @@ s2 :> w1 @@ s3 :> w2
TwoSlotsOf   == s1 :> w1 @@ s2 :> w2
OneWorker    == {w1}
OneWorkerOf  == s1 :> w1 @@ s2 :> w1

JobSymmetry  == Permutations({j1, j2})
Symmetry     == JobSymmetry \cup Permutations({s1, s2})
=============================================================================
