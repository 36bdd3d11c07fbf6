----------------------------- MODULE MCCampaigns -----------------------------
(***************************************************************************)
(* One campaign with one milestone, both out of the reach of its payments, *)
(* for what the consumer's comments say of deliveries.                     *)
(***************************************************************************)
EXTENDS Campaigns

MCTarget == [m \in Milestones |-> Goal]

=============================================================================
