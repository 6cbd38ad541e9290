---------------------------- MODULE MCCampaigns ----------------------------
(* Three users and three communities, in cohorts of two.                    *)
EXTENDS Campaigns, TLC

MCLinks == 1 :> {4} @@ 2 :> {4, 5} @@ 3 :> {6}
=============================================================================
