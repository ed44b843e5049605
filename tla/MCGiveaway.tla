------------------------------ MODULE MCGiveaway ------------------------------
(* Giveaway as TLC checks it: its constants get their values in MCGiveaway.cfg. *)
EXTENDS Giveaway
=============================================================================
