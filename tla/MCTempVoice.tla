---------------------------- MODULE MCTempVoice ----------------------------
(* Instances of TempVoice for TLC.                                           *)
EXTENDS TempVoice, TLC

MCSymmetry == Permutations(Users) \cup Permutations(Rooms)
=============================================================================
