-------------------------- MODULE MCCampaignDispatch --------------------------
(* Small instances of CampaignDispatch for TLC. *)
EXTENDS CampaignDispatch, TLC

(* Dealers are interchangeable and so are request threads; used by runs    *)
(* that check no liveness.                                                 *)
Symmetry == Permutations(Dealers) \cup Permutations(Workers)
=============================================================================
