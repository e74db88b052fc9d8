-------------------------- MODULE MCPriorityQueue --------------------------
(***************************************************************************)
(* Four objects, two of which compare equal.                               *)
(***************************************************************************)
EXTENDS PriorityQueue, TLC

CONSTANTS o1, o2, o3, o4

MCObj  == {o1, o2, o3, o4}
MCRank == (o1 :> 1) @@ (o2 :> 2) @@ (o3 :> 2) @@ (o4 :> 3)
============================================================================
