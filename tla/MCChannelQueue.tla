--------------------------- MODULE MCChannelQueue ---------------------------
(***************************************************************************)
(* Three jobs whose keys and etas may disagree in every way, and a clock   *)
(* that passes the last eta.                                               *)
(***************************************************************************)
EXTENDS ChannelQueue, TLC

CONSTANTS j1, j2, j3

MCJob == {j1, j2, j3}
MCKey == (j1 :> 1) @@ (j2 :> 2) @@ (j3 :> 3)
============================================================================
