------------------------------- MODULE MCCampaigns -------------------------------
(* The campaign on small instances. *)
EXTENDS Campaigns
================================================================================
