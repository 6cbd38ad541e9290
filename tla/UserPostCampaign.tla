-------------------------- MODULE UserPostCampaign --------------------------
(***************************************************************************)
(* UserPostCampaignManager: the personal walls of the users of a snapshot,  *)
(* in cohorts.  There is one phase, and the capacity gate is passed before  *)
(* the campaign exists.                                                     *)
(***************************************************************************)
EXTENDS CampaignRuns

Cohort(c) == FirstOf(After(Unresolved, c.cursor))
Budget(c) == c.cursor = 0 \/ room

PlanCohort(c) ==
  /\ campaign' = [c EXCEPT !.status = "running", !.cursor = Last(Cohort(c))]
  /\ InsertRun("user_posts", "planned", Cohort(c))

(* plan                                                                     *)
PlanUserPosts ==
  /\ campaign.status = "absent"
  /\ \E S \in {Users, {u \in Users : ~Resolved(u)}} :
       LET c   == [campaign EXCEPT !.type = "user_posts_enrichment",
                                   !.status = "running", !.phase = "user_posts"]
           ids == FirstOf({u \in S : ~Resolved(u)})
       IN /\ snapshot' = S
          /\ \/ /\ ids # {}
                /\ campaign' = [c EXCEPT !.cursor = Last(ids)]
                /\ InsertRun("user_posts", "planned", ids)
             \/ /\ ids = {}
                /\ campaign' = Completed(c) /\ NoNewRun
  /\ UNCHANGED <<dataVars, workVars, reconcileVars, renewing, faultVars>>

(* Faulty variant: a paused campaign is left alone.                         *)
ReconcileNoResume ==
  /\ campaign.type = "user_posts_enrichment"
  /\ ReconcileLook(TRUE, FALSE)

(* Failed jobs count whatever the status of the campaign.                   *)
ReconcileUserPosts ==
  /\ campaign.type = "user_posts_enrichment"
  /\ ReconcileLook(TRUE, room)

(* No job is ready: the next cohort, or the campaign waits for deferred     *)
(* jobs, or it ends.                                                        *)
DecideUserPosts ==
  /\ campaign.type = "user_posts_enrichment" /\ reading = "noWork"
  /\ \/ /\ Unresolved # {} /\ ~Budget(campaign)
        /\ campaign' = Paused(campaign) /\ NoNewRun
     \/ /\ Unresolved # {} /\ Budget(campaign) /\ Cohort(campaign) # {}
        /\ PlanCohort(campaign)
     \/ /\ Unresolved = {} \/ (Budget(campaign) /\ Cohort(campaign) = {})
        /\ campaign' = IF HasJob({"retry_wait"}) THEN [campaign EXCEPT !.status = "running"]
                       ELSE IF Unresolved # {} THEN Failed(campaign) ELSE Completed(campaign)
        /\ NoNewRun
  /\ reading' = "idle"
  /\ UNCHANGED <<snapshot, dataVars, workVars, asked, renewing, faultVars>>

-----------------------------------------------------------------------------
(* A user task of a user-post campaign.                                     *)

(* The wall is stored, or it is private or gone.                            *)
StoreWall(u) ==
  /\ campaign.type = "user_posts_enrichment"
  /\ u \in (tasks \cap Users) \ collected
  /\ \E terminal \in BOOLEAN :
       user' = [user EXCEPT ![u] = [success  |-> user[u].success \/ ~terminal,
                                    terminal |-> terminal, sched |-> TRUE]]
  /\ collected' = collected \cup {u}
  /\ UNCHANGED <<campaign, snapshot, run, job, stale, workVars, reconcileVars, renewing,
                 faultVars>>

(* _mark_user_post_failure: the user is due again.                          *)
WallError(u) ==
  /\ campaign.type = "user_posts_enrichment"
  /\ u \in (tasks \cap Users) \ collected
  /\ user' = [user EXCEPT ![u].terminal = FALSE, ![u].sched = FALSE]
  /\ \/ Disturbed("transient") /\ Finish(u, "retry_wait")
     \/ Disturbed("fatal") /\ Finish(u, "failed")
  /\ UNCHANGED <<campaign, snapshot, stale, collected, draining, claiming, reading, renewing>>
=============================================================================
