---------------------------- MODULE MCRadioFiles ----------------------------
(* Instances of RadioFiles for TLC: two guilds, the first has a prebuffer.    *)
EXTENDS RadioFiles

CONSTANTS p1, p2, k1

MCGuild == [w \in Workers |-> p1]
MCPlaylist == [p \in Players |-> IF p = p1 THEN Songs ELSE {k1}]
=============================================================================
