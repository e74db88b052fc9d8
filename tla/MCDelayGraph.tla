---------------------------- MODULE MCDelayGraph ----------------------------
(***************************************************************************)
(* Four delayables, two of them with the same identity key, and up to two  *)
(* chains and groups.  In the passing run split() makes the fourth.        *)
(***************************************************************************)
EXTENDS DelayGraph, TLC

CONSTANTS a, b, c, d, u, v, k

MCKeyOf == (a :> NoKey) @@ (b :> k) @@ (c :> NoKey) @@ (d :> k)

MCSymmetry == Permutations({a, c})
=============================================================================
