----------------------------- MODULE MCJobGraph -----------------------------
(***************************************************************************)
(* Two jobs in parallel, and jobs that wait for them: two that both wait   *)
(* for both, as groups in a chain make it; or one of which waits for one   *)
(* only; or one, with one more behind it.                                  *)
(***************************************************************************)
EXTENDS JobGraph, TLC

CONSTANTS a, b, c, d, w1, w2, u1, u2

MCJob     == {a, b, c, d}
MCGroups  == (a :> {}) @@ (b :> {}) @@ (c :> {a, b}) @@ (d :> {a, b})
MCOverlap == (a :> {}) @@ (b :> {}) @@ (c :> {a, b}) @@ (d :> {a})
MCParents == (a :> {}) @@ (b :> {}) @@ (c :> {a, b}) @@ (d :> {c})

\* Workers are alike, users are, and so are the jobs of a group in MCGroups
MCSymmetry == Permutations({w1, w2}) \cup Permutations({u1, u2})
                \cup Permutations({a, b}) \cup Permutations({c, d})
=============================================================================
