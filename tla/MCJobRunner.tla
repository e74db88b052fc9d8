---------------------------- MODULE MCJobRunner ----------------------------
(***************************************************************************)
(* Two jobs, apart or one dependent on the other, two workers, and a root  *)
(* channel of capacity 1, alone or with a throttled channel below it.      *)
(***************************************************************************)
EXTENDS JobRunner, TLC

CONSTANTS root, sub, j1, j2, w1, w2

MCChannel  == {root}
MCParent   == [c \in {} |-> root]
MCCapacity == (root :> 1)
MCThrottle == (root :> 0)
MCJob      == {j1, j2}
MCSeq      == (j1 :> 1) @@ (j2 :> 2)
MCDbOf     == [u \in MCJob |-> "db"]
MCProps    == [u \in MCJob |-> {[channel |-> root, prio |-> 1, eta |-> 0]}]

MCChain    == (j1 :> {}) @@ (j2 :> {j1})   \* j2 depends on j1
MCNoParent == [u \in MCJob |-> {}]
MCOneGraph == {MCJob}
MCApart    == {{j1}, {j2}}

\* With a throttled channel of its own for j2
MCTree         == {root, sub}
MCTreeParent   == (sub :> root)
MCTreeCapacity == (root :> 1) @@ (sub :> 1)
MCTreeThrottle == (root :> 0) @@ (sub :> 1)
MCTreeProps    == (j1 :> {[channel |-> root, prio |-> 1, eta |-> 0]})
               @@ (j2 :> {[channel |-> sub, prio |-> 1, eta |-> 0]})

MCRetries  == [u \in MCJob |-> 1]
MCRetries2 == [u \in MCJob |-> 2]

WorkerSymmetry == Permutations({w1, w2})  \* for safety only

\* A bound: users act only as long as no two workers have been at a job at a time
CrossedAlone == crossed = {} \/ asks = 0
=============================================================================
