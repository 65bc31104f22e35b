--------------------------- MODULE MCSingleCampaign ---------------------------
(* Small instances of SingleCampaign for TLC. *)
EXTENDS SingleCampaign, TLC

(* Campaign ids, mails and request threads are interchangeable. *)
Symmetry == Permutations(Campaigns) \cup Permutations(Messages) \cup Permutations(Workers)
=============================================================================
