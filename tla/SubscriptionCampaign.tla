------------------------ MODULE SubscriptionCampaign ------------------------
(***************************************************************************)
(* CampaignManager: a subscription campaign.  Its discovery phase collects  *)
(* the users of the snapshot in cohorts; when every one of them is resolved *)
(* a run without jobs waits for the metadata capacity gate; the metadata    *)
(* phase then refreshes, in cohorts again, the communities they subscribe   *)
(* to.  The capacity gates are applied by the control script, when the      *)
(* operator dispatches it.                                                  *)
(***************************************************************************)
EXTENDS CampaignRuns

(* What is subscribed to, as far as it is known, and is not fresh.          *)
Due(S) == stale \cap UNION {Links[u] : u \in {v \in S : user[v].success}}

-----------------------------------------------------------------------------
(* Cohorts.                                                                 *)

(* Room is looked at again for every cohort but the first.                  *)
DiscoveryBudget(c) == c.cursor = 0 \/ room
MetadataBudget(c)  == c.metaCursor = 0 \/ room

(* Faulty variants: the cursor of the users is forgotten; the one of the    *)
(* communities is off by one.                                               *)
DiscoveryCohortAgain(c)  == FirstOf(Unresolved)
MetadataCohortSkipping(c) == FirstOf(After(Due(snapshot), IF c.metaCursor = 0 THEN 0
                                                           ELSE c.metaCursor + 1))

DiscoveryCohort(c) == FirstOf(After(Unresolved, c.cursor))
MetadataCohort(c)  == FirstOf(After(Due(snapshot), c.metaCursor))

PlanDiscovery(c) ==
  /\ campaign' = [c EXCEPT !.status = "running", !.cursor = Last(DiscoveryCohort(c))]
  /\ InsertRun("subscription_discovery", "planned", DiscoveryCohort(c))

PlanMetadata(c) ==
  /\ campaign' = [c EXCEPT !.status = "running", !.metaCursor = Last(MetadataCohort(c))]
  /\ InsertRun("subscription_metadata", "planned", MetadataCohort(c))

(* _prepare_metadata_gate: a run without jobs, or nothing is left to do.    *)
PrepareGate(c, S) ==
  IF Due(S) = {}
  THEN campaign' = Completed(c) /\ NoNewRun
  ELSE /\ campaign' = Paused([c EXCEPT !.phase = "subscription_metadata",
                                       !.metaCursor = 0, !.gate = "pending"])
       /\ InsertRun("subscription_metadata", "paused_capacity_limit", {})

(* plan: a snapshot of the eligible users, bounded to those that are due or *)
(* not, and its first cohort.                                               *)
PlanSubscriptions ==
  /\ campaign.status = "absent"
  /\ \E S \in {Users, {u \in Users : ~Resolved(u)}} :
       LET c   == [campaign EXCEPT !.type = "subscription_enrichment",
                     !.status = "paused_capacity_limit", !.phase = "subscription_discovery"]
           ids == FirstOf({u \in S : ~Resolved(u)})
       IN /\ snapshot' = S
          /\ \/ /\ S = {}
                /\ campaign' = Completed(c) /\ NoNewRun
             \/ /\ S # {} /\ ids # {}
                /\ campaign' = [c EXCEPT !.status = "running", !.cursor = Last(ids)]
                /\ InsertRun("subscription_discovery", "planned", ids)
             \/ /\ S # {} /\ ids = {}
                /\ PrepareGate(c, S)
  /\ UNCHANGED <<dataVars, workVars, reconcileVars, renewing, faultVars>>

-----------------------------------------------------------------------------
(* Reconcile.                                                               *)

(* Faulty variant: a campaign at its pending gate is woken like any other.  *)
ReconcileAnyGate ==
  /\ campaign.type = "subscription_enrichment"
  /\ ReconcileLook(campaign.status \in Active, room)

ReconcileSubscriptions ==
  /\ campaign.type = "subscription_enrichment"
  /\ ReconcileLook(campaign.status \in Active,
                   \/ campaign.phase = "subscription_discovery" /\ room
                   \/ campaign.phase = "subscription_metadata" /\ campaign.gate = "passed" /\ room)

(* No job is ready.  The deferred ones keep a phase from ending, unless     *)
(* their users count as resolved.                                           *)
DecideDiscovery ==
  /\ campaign.phase = "subscription_discovery"
  /\ \/ /\ Unresolved # {} /\ ~DiscoveryBudget(campaign)
        /\ campaign' = Paused(campaign) /\ NoNewRun
     \/ /\ Unresolved # {} /\ DiscoveryBudget(campaign) /\ DiscoveryCohort(campaign) # {}
        /\ PlanDiscovery(campaign)
     \/ /\ Unresolved # {} /\ DiscoveryBudget(campaign) /\ DiscoveryCohort(campaign) = {}
        /\ campaign' = IF HasJob({"retry_wait"})
                       THEN [campaign EXCEPT !.status = "running"]
                       ELSE Failed(campaign)
        /\ NoNewRun
     \/ /\ Unresolved = {}
        /\ PrepareGate(campaign, snapshot)

DecideMetadata ==
  /\ campaign.phase = "subscription_metadata"
  /\ \/ /\ HasJob({"retry_wait"}) \/ campaign.gate # "passed"
        /\ UNCHANGED campaign /\ NoNewRun
     \/ /\ ~HasJob({"retry_wait"}) /\ campaign.gate = "passed"
        /\ IF ~MetadataBudget(campaign)
           THEN campaign' = Paused(campaign) /\ NoNewRun
           ELSE IF MetadataCohort(campaign) # {}
                THEN PlanMetadata(campaign)
                ELSE campaign' = Completed(campaign) /\ NoNewRun

DecideSubscriptions ==
  /\ campaign.type = "subscription_enrichment" /\ reading = "noWork"
  /\ \/ DecideDiscovery
     \/ DecideMetadata
     \/ /\ campaign.phase \notin {"subscription_discovery", "subscription_metadata"}
        /\ UNCHANGED campaign /\ NoNewRun
  /\ reading' = "idle"
  /\ UNCHANGED <<snapshot, dataVars, workVars, asked, renewing, faultVars>>

-----------------------------------------------------------------------------
(* The control script (production-collection-control.sh), in a process of   *)
(* its own, which the operator dispatches by hand: the scheduled workflow   *)
(* only reports.  It decides, stops the service process, and with the       *)
(* evidence of a new pilot capacity-apply looks at everything again.        *)

Parked == {r \in NewRuns : run[r].status = "paused_capacity_limit"}

(* start_subscriptions goes on with the one parked run of a campaign that   *)
(* waits for capacity; it reports and returns when the operator has paused  *)
(* the campaign, when it is at work, and when a run is.                     *)
ControlDecision ==
  /\ campaign.type = "subscription_enrichment" /\ renewing = 0
  /\ campaign.status = "paused_capacity_limit" /\ Cardinality(Parked) = 1
  /\ \A r \in NewRuns : run[r].status \notin Runnable \cup {"paused"}
  /\ renewing' \in Parked
  /\ UNCHANGED <<campaign, snapshot, run, job, dataVars, workVars, reconcileVars, faultVars>>

(* Stopped: what was going on has ended.  Started again, the process        *)
(* reconciles the campaigns of its unfinished runs.                         *)
ServiceStopped   == renewing # 0 /\ draining = 0 /\ ~asked /\ reading = "idle"
ServiceRestarted ==
  /\ renewing' = 0
  /\ asked' = \E r \in DOMAIN run' : run'[r].status \in Runnable

(* A run with jobs may go on, unless the operator has paused the campaign.  *)
(* The run of the pending gate gets its first cohort, and goes on even then. *)
ApplyGate ==
  LET r       == renewing
      held    == campaign.status = "paused"
      gate    == run[r].scope = "subscription_metadata"
      pending == gate /\ JobsOf(r) = {}
      c       == [campaign EXCEPT !.status = IF held THEN "paused" ELSE "running",
                                  !.gate = IF gate THEN "passed" ELSE campaign.gate]
  IN /\ ServiceStopped /\ r \in Parked
     /\ gate => room /\ Due(snapshot) # {}
     /\ \/ /\ ~pending
           /\ run' = [run EXCEPT ![r].status = IF held THEN "paused" ELSE "planned"]
           /\ campaign' = c
           /\ UNCHANGED job
        \/ /\ pending
           /\ run' = [run EXCEPT ![r].status = "planned"]
           /\ job' = [i \in Items |-> IF i \in MetadataCohort(c)
                                      THEN [status |-> "pending", run |-> r] ELSE job[i]]
           /\ campaign' = [c EXCEPT !.status = "running", !.metaCursor = Last(MetadataCohort(c))]
     /\ ServiceRestarted
     /\ UNCHANGED <<snapshot, dataVars, workVars, reading, faultVars>>

(* The gate is rejected, or the run has moved on.                           *)
RenewalRejected ==
  /\ ServiceStopped
  /\ \/ renewing \notin Parked
     \/ run[renewing].scope = "subscription_metadata" /\ (~room \/ Due(snapshot) = {})
  /\ UNCHANGED <<campaign, snapshot, run, job, dataVars, workVars, reading, faultVars>>
  /\ ServiceRestarted

-----------------------------------------------------------------------------
(* A community task.                                                        *)

(* Its metadata is stored, or it is marked unavailable for good.            *)
Describe(i) ==
  /\ i \in tasks \cap stale
  /\ stale' = stale \ {i}
  /\ UNCHANGED <<campaign, snapshot, run, job, userVars, workVars, reconcileVars, renewing,
                 faultVars>>

(* VK leaves the community out, or fails: it is tried again, and fails when *)
(* its attempts are used up.                                                *)
CommunityError(i) ==
  /\ i \in tasks \cap Communities
  /\ \/ Disturbed("transient") /\ Finish(i, "retry_wait")
     \/ Disturbed("fatal") /\ Finish(i, "failed")
  /\ UNCHANGED <<campaign, snapshot, dataVars, draining, claiming, reading, renewing>>

-----------------------------------------------------------------------------
(* A user task of a subscription campaign.                                  *)

(* Its pages are stored; or the user's subscriptions are not accessible.    *)
StoreSubscriptions(u) ==
  /\ campaign.type = "subscription_enrichment"
  /\ u \in (tasks \cap Users) \ collected
  /\ \E terminal \in BOOLEAN :
       user' = [user EXCEPT ![u] = [success  |-> user[u].success \/ ~terminal,
                                    terminal |-> terminal, sched |-> TRUE]]
  /\ collected' = collected \cup {u}
  /\ UNCHANGED <<campaign, snapshot, run, job, stale, workVars, reconcileVars, renewing,
                 faultVars>>

(* _mark_subscriptions_transient, then the job is tried again for as long   *)
(* as it takes; an error of another kind ends it.                           *)
SubscriptionsError(u) ==
  /\ campaign.type = "subscription_enrichment"
  /\ u \in (tasks \cap Users) \ collected
  /\ user' = [user EXCEPT ![u].terminal = FALSE, ![u].sched = TRUE]
  /\ \/ Disturbed("transient") /\ Finish(u, "retry_wait")
     \/ Disturbed("fatal") /\ Finish(u, "failed")
  /\ UNCHANGED <<campaign, snapshot, stale, collected, draining, claiming, reading, renewing>>
=============================================================================
