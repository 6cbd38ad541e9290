------------------------------ MODULE Campaigns ------------------------------
(***************************************************************************)
(* One campaign of either type, the service process, the control script and *)
(* the operators.                                                           *)
(***************************************************************************)
EXTENDS SubscriptionCampaign, UserPostCampaign

(* campaign resume, of a campaign the operator has paused; the manager of   *)
(* user posts reconciles at once.                                           *)
ResumeCampaign ==
  /\ campaign.status = "paused"
  /\ ChangeStatus("running")
  /\ asked' = (asked \/ campaign.type = "user_posts_enrichment")
  /\ UNCHANGED <<snapshot, dataVars, workVars, reading, renewing, faultVars>>

Plan      == PlanSubscriptions \/ PlanUserPosts
Reconcile == ReconcileSubscriptions \/ ReconcileUserPosts \/ ReconcileCount
             \/ DecideSubscriptions \/ DecideUserPosts
Control   == ControlDecision \/ ApplyGate \/ RenewalRejected
Store(i)  == StoreSubscriptions(i) \/ StoreWall(i) \/ Describe(i)
Error(i)  == SubscriptionsError(i) \/ WallError(i) \/ CommunityError(i)
Operate   == PauseCampaign \/ ResumeCampaign \/ Supersede

Next ==
  \/ Plan \/ Reconcile \/ Recheck \/ Control \/ Operate
  \/ \E r \in NewRuns : ListRun(r)
  \/ \E i \in Items : Claim(i) \/ Store(i) \/ Error(i) \/ Defer(i) \/ Done(i)
  \/ StopClaiming \/ LeaveRun \/ DiskStop \/ Crash
  \/ RoomLost \/ RoomFound

Spec == Init /\ [][Next]_vars

(* The service process keeps going round its runs, and a retry falls due;   *)
(* the recheck is a timer; a control script that has decided goes on to its *)
(* end; and room is made again.  Nothing makes the operator dispatch it.    *)
Fairness ==
  /\ WF_vars(Reconcile) /\ WF_vars(Recheck)
  /\ WF_vars(ApplyGate \/ RenewalRejected) /\ WF_vars(RoomFound)
  /\ WF_vars(\E r \in NewRuns : ListRun(r)) /\ SF_vars(\E i \in Items : Claim(i))
  /\ WF_vars(\E i \in Items : Store(i) \/ Done(i))
  /\ WF_vars(StopClaiming \/ LeaveRun)

FairSpec == Spec /\ Fairness

(* An operator who does not leave it at that: while the script would act,   *)
(* it is dispatched again some time.                                        *)
OperatorReturns == WF_vars(ControlDecision)

-----------------------------------------------------------------------------
(* Properties.                                                              *)

(* The state keeps its shape, and a job belongs to a run that exists.       *)
TypeOK ==
  /\ campaign \in [type: {"none", "subscription_enrichment", "user_posts_enrichment"},
                   status: Active \cup {"absent", "completed", "failed", "cancelled"},
                   phase: {"none", "subscription_discovery", "subscription_metadata",
                           "user_posts", "completed", "failed", "cancelled"},
                   cursor: 0 .. UserCount, metaCursor: 0 .. UserCount + CommunityCount,
                   gate: {"none", "pending", "passed"}]
  /\ \A r \in NewRuns :
       /\ run[r].scope \in {"subscription_discovery", "subscription_metadata", "user_posts"}
       /\ run[r].status \in Active \cup RunDone
  /\ \A i \in Items :
       /\ job[i].status \in {"none", "done", "failed", "cancelled"} \cup ActiveJob
       /\ job[i].run \in {0} \cup NewRuns
       /\ job[i].run = 0 <=> job[i].status = "none"
  /\ tasks \subseteq Items /\ draining \in {0} \cup NewRuns /\ renewing \in {0} \cup NewRuns
  /\ reading \in {"idle", "noFailures", "noWork"}

(* Nobody is left behind: a user of the snapshot the cursor has passed is   *)
(* resolved, or has a job that will still be tried or has failed for good,  *)
(* over every crash, retry, pause and cohort in between.  Only superseding  *)
(* the campaign gives up a user, whose job was at work then.                *)
NoUserLeftBehind ==
  \A u \in Unresolved : u <= campaign.cursor =>
    \/ job[u].status \in ActiveJob \cup {"failed"}
    \/ "supersede" \in happened /\ job[u].status = "cancelled"

(* A completed campaign is complete: the users of its snapshot are resolved *)
(* and, unless a job was put off or failed, every community they subscribe *)
(* to has been described.                                                   *)
CompletedIsComplete ==
  campaign.phase = "completed" =>
    /\ Unresolved = {}
    /\ campaign.type = "subscription_enrichment" /\ happened \cap {"transient", "fatal", "defer"} = {}
         => Due(snapshot) = {}

(* No user and no community is planned twice by one campaign.               *)
PlannedOnce == [][\A i \in Items : job[i].run # 0 => job'[i].run = job[i].run]_vars

(* A reconcile that looked at a running campaign does not plan a cohort for *)
(* it once the operator has paused it.                                      *)
PausedPlansNothing == [][campaign.status = "paused" => Len(run') = Len(run)]_vars

stage ==
  CASE campaign.phase = "none" -> "absent"
    [] campaign.phase \in {"subscription_discovery", "user_posts"} -> "collecting"
    [] campaign.phase = "subscription_metadata" ->
         IF campaign.gate = "passed" THEN "describing" ELSE "gated"
    [] campaign.phase = "completed" -> "done"
    [] OTHER -> campaign.phase

(* Users no campaign has collected, and those the managers say are not      *)
(* resolved.  A user an earlier campaign has collected is no longer open    *)
(* once an attempt has met a transient error: the code takes the old answer *)
(* and ends discovery while the retry waits, where                          *)
(* PHASED_SUBSCRIPTION_IMPLEMENTATION.md:81-83 lets every such error block. *)
Open == Unresolved \cup (snapshot \ (CollectedBefore \cup collected))

Lifecycle == INSTANCE CampaignLifecycle WITH open <- Open

(* Phases follow one another in order, and collecting is over only when no  *)
(* user of the snapshot is open, however many retries that takes.           *)
LifecycleKept == Lifecycle!Spec

(* Retries, and a lack of room for the next cohort, only delay a campaign,  *)
(* with no help but the operator's at the gate of the metadata phase.       *)
Delays  == {"transient", "room"}
Settled == campaign.status \in {"completed", "failed"}
AtGate  == campaign.gate = "pending"
CampaignSettles ==
  (campaign.status # "absent" /\ ~AtGate) ~> (Settled \/ AtGate \/ ~(happened \subseteq Delays))

(* A campaign at its pending gate stays where the control script finds it:  *)
(* neither the recheck nor a reconcile in between wakes it, and an operator *)
(* who keeps dispatching the script gets it past the gate and to its end.   *)
GateOpens == OperatorReturns => (AtGate ~> (Settled \/ ~(happened \subseteq Delays)))

-----------------------------------------------------------------------------
(* What the documents say, and the code does not do.                        *)

(* A user-post campaign that was parked for the disk goes on when there is  *)
(* room again.                                                              *)
ParkedCampaignResumes ==
  (campaign.type = "user_posts_enrichment" /\ campaign.status = "paused_capacity_limit")
    ~> Settled
=============================================================================
