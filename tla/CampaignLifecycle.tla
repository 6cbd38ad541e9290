------------------------- MODULE CampaignLifecycle --------------------------
(***************************************************************************)
(* What a campaign promises whoever reads its phase: it leaves a stage only *)
(* when the work of that stage is done, or to fail or be cancelled, and it  *)
(* never goes back.  (A finished campaign may still be cancelled: it can be *)
(* parked for the disk after its last job, and then superseded.)            *)
(***************************************************************************)
VARIABLES
  stage,
  open       (* users of the snapshot that are still to be collected         *)

Init == stage = "absent" /\ open = {}

Plan ==
  /\ stage = "absent"
  /\ \/ stage' = "collecting"
     \/ stage' \in {"gated", "done"} /\ open' = {}

Collect == stage' = stage

Collected ==
  /\ stage = "collecting" /\ open = {}
  /\ stage' \in {"gated", "done"}

Describe == stage = "gated" /\ stage' = "describing"
Finished == stage = "describing" /\ stage' = "done"
Stop     == stage # "absent" /\ stage' \in {"failed", "cancelled"}

(* A stopped campaign is not quite over: the service process may be at one  *)
(* of its runs still, and parking that run or deferring a job of it wakes   *)
(* the campaign.                                                            *)
Revived  == stage \in {"failed", "cancelled"} /\ stage' # "absent"

Next == Plan \/ Collect \/ Collected \/ Describe \/ Finished \/ Stop \/ Revived

Spec == Init /\ [][Next]_<<stage, open>>
=============================================================================
