------------------------------ MODULE MCRipper ------------------------------
(* Instances of RipperPipeline for TLC: two requests of one user, the rest of *)
(* another.                                                                    *)
EXTENDS RipperPipeline, TLC

CONSTANTS a, b, r1, r2, r3

MCRequester == r1 :> a @@ r2 :> a @@ r3 :> b
=============================================================================
