---------------------------- MODULE MCRadioSession ----------------------------
(***************************************************************************)
(* TLC instances of RadioSession.                                          *)
(***************************************************************************)
EXTENDS RadioSession

MCRequests == {<<t>> : t \in Tracks}

\* Nothing distinguishes one track, or one channel, from another.
MCSymmetry == Permutations(Tracks) \cup Permutations(Channels)
=============================================================================
