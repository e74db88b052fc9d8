----------------------------- MODULE MCChannels -----------------------------
(***************************************************************************)
(* A root channel of capacity 2 with a sequential child and a throttled    *)
(* one; a job of each, and one whose channel, priority and eta change.     *)
(***************************************************************************)
EXTENDS Channels, TLC

CONSTANTS root, seq, thr, j1, j2, j3

MCChannel  == {root, seq, thr}
MCParent   == [c \in {seq, thr} |-> root]
MCCapacity == (root :> 2) @@ (seq :> 1) @@ (thr :> 0)
MCThrottle == (root :> 0) @@ (seq :> 0) @@ (thr :> 2)
MCJob      == {j1, j2, j3}
MCSeq      == (j1 :> 1) @@ (j2 :> 2) @@ (j3 :> 3)
MCDbOf     == [u \in MCJob |-> "db"]

P(c, p, e) == [channel |-> c, prio |-> p, eta |-> e]
MCProps == (j1 :> {P(seq, 1, 0)})
        @@ (j2 :> {P(thr, 1, 0)})
        @@ (j3 :> {P(seq, 0, 2), P(thr, 2, 0), P(root, 1, 0)})
=============================================================================
