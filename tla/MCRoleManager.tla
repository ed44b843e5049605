--------------------------- MODULE MCRoleManager ---------------------------
(* Instances of RoleManager for TLC.                                         *)
EXTENDS RoleManager, TLC

MCSymmetry == Permutations(Threads) \cup Permutations(Roles)
=============================================================================
