------------------------------ MODULE MCSchool ------------------------------
(***************************************************************************)
(* Two students, one of them with two enrollments of the level; a group,   *)
(* a teacher with two assignments, an invoice, two users.                  *)
(***************************************************************************)
EXTENDS School, TLC

CONSTANTS s1, s2, e1, e2, e3, g, t, a1, a2, i, c1, c2

MCStudentOf == (e1 :> s1) @@ (e2 :> s1) @@ (e3 :> s2)
MCLevelOf   == [x \in {e1, e2, e3, g} |-> 1]
MCDay       == 0..2
MCDates     == (a1 :> {0, 1}) @@ (a2 :> {0})
MCMaxLoad   == [x \in {t} |-> 1]

MCSymmetry == Permutations({c1, c2}) \cup Permutations({e1, e2})
=============================================================================
