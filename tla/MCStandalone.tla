---------------------------- MODULE MCStandalone ----------------------------
(* Instances of the standalone components for TLC.                          *)
EXTENDS Standalone, Sequences

(* Lists of VK at most as long as the maximum of a job, the top-up target,  *)
(* or the sample; in the walls, 4 is an old post and 5 an old pinned one.   *)
FirstLists ==
  [links    |-> <<1, 2, 3>>,       members  |-> <<1, 2, 3>>, baseline |-> <<1, 2, 3>>,
   wall     |-> <<1, 2, 3>>,       userWall |-> <<5, 1, 2, 4>>,
   latest   |-> <<1, 2, 3>>]

FirstTotal == <<3, 0>>
=============================================================================
