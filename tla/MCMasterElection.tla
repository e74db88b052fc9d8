-------------------------- MODULE MCMasterElection --------------------------
(***************************************************************************)
(* Two runners that list three databases in different orders, one of them  *)
(* without queue_job.                                                      *)
(***************************************************************************)
EXTENDS MasterElection, TLC

CONSTANTS r1, r2, d1, d2, d3

MCRunner == {r1, r2}
MCDb     == {d1, d2, d3}
MCName   == (d1 :> 1) @@ (d2 :> 2) @@ (d3 :> 3)
MCListed == (r1 :> MCName) @@ (r2 :> ((d1 :> 3) @@ (d2 :> 2) @@ (d3 :> 1)))
=============================================================================
