---------------------------- MODULE SchoolProofs ----------------------------
(***************************************************************************)
(* The counts of the groups: each transaction has right counts in its      *)
(* snapshot, and a group whose row nobody else wrote has in the snapshot   *)
(* the students it has in the database.  So what a commit writes is right  *)
(* although the transactions overlap, and so is the check of the capacity. *)
(*                                                                         *)
(* The fees: the stored days of an invoice were right on some day.  The    *)
(* constraints that no common row guards: they hold while the transactions *)
(* do not overlap, since each then checks them on the rows there are.      *)
(***************************************************************************)
EXTENDS School, FiniteSetTheorems, WellFoundedInduction, TLAPS

Status == {"none", "draft", "active", "paused", "graduated", "cancelled"}
Work   == {"none", "draft", "active", "paused", "done", "cancelled"}

Rows == [status:   [Enrollment -> Status],
         group:    [Enrollment -> Group \cup {NoGroup}],
         capacity: [Group -> Nat],
         active:   [Group -> Nat],
         total:    [Group -> Nat],
         work:     [Assignment -> Work],
         teacher:  [Assignment -> Teacher \cup {Unborn}],
         target:   [Assignment -> Student \cup Group \cup {Unborn}],
         units:    [Assignment -> Nat],
         sessions: [Assignment -> [Day -> Nat]],
         bill:     [Invoice -> Enrollment \cup {Unborn}],
         due:      [Invoice -> Nat],
         owed:     [Invoice -> BOOLEAN],
         days:     [Invoice -> Nat]]

Counted(d) ==
  \A g \in Group : /\ d.active[g] = Cardinality(ActiveIn(d, g))
                   /\ d.total[g] = Cardinality(Members(d, g))

SameEnrollment(d, s, e) == d.status[e] = s.status[e] /\ d.group[e] = s.group[e]

SameGroup(d, s, g) ==
  /\ d.capacity[g] = s.capacity[g]
  /\ ActiveIn(d, g) = ActiveIn(s, g) /\ Members(d, g) = Members(s, g)

----------------------------------------------------------------------------
(* The stored fields *)

LEMMA CountType ==
  ASSUME NEW d, NEW g \in Group
  PROVE  /\ Cardinality(ActiveIn(d, g)) \in Nat /\ Cardinality(Members(d, g)) \in Nat
         /\ IsFiniteSet(ActiveIn(d, g)) /\ IsFiniteSet(Members(d, g))
<1>1. ActiveIn(d, g) \subseteq Enrollment /\ Members(d, g) \subseteq Enrollment
  BY DEF ActiveIn, Members
<1> QED
  BY <1>1, SchoolAssumption, FS_Subset, FS_CardinalityType

\* What Recompute makes of m, field by field
LEMMA Recomputed ==
  ASSUME NEW s \in Rows, NEW m \in Rows
  PROVE  LET n == Recompute(s, m) IN
         /\ n \in Rows
         /\ n.status = m.status /\ n.group = m.group /\ n.capacity = m.capacity
         /\ n.work = m.work /\ n.teacher = m.teacher /\ n.target = m.target
         /\ \A g \in Group :
              /\ n.active[g] = IF g \in Touched(s, m) THEN Cardinality(ActiveIn(m, g)) ELSE m.active[g]
              /\ n.total[g] = IF g \in Touched(s, m) THEN Cardinality(Members(m, g)) ELSE m.total[g]
         /\ \A a \in Assignment :
              n.units[a] = IF a \in Reweighed(s, m) THEN Units(n, a) ELSE m.units[a]
         /\ Reweighed(s, n) = Reweighed(s, m)
<1> DEFINE T == Touched(s, m)
           act == [g \in Group |-> IF g \in T THEN Cardinality(ActiveIn(m, g)) ELSE m.active[g]]
           tot == [g \in Group |-> IF g \in T THEN Cardinality(Members(m, g)) ELSE m.total[g]]
           k == [m EXCEPT !.active = act, !.total = tot]
           un == [a \in Assignment |-> IF a \in Reweighed(s, m) THEN Units(k, a) ELSE m.units[a]]
           n == [k EXCEPT !.units = un]
<1>1. Recompute(s, m) = n
  <2>2. DOMAIN m.active = Group /\ DOMAIN m.total = Group /\ DOMAIN m.units = Assignment
    BY DEF Rows
  <2> QED BY <2>2 DEF Recompute, Rows
<1>2. act \in [Group -> Nat] /\ tot \in [Group -> Nat]
  BY CountType DEF Rows
<1>3. k \in Rows /\ k.target = m.target /\ k.active = act
  BY <1>2 DEF Rows
<1>4. \A a \in Assignment : Units(k, a) \in Nat
  BY <1>2, <1>3 DEF Units, Rows
<1>5. un \in [Assignment -> Nat]
  BY <1>4 DEF Rows
<1>6. /\ n \in Rows
      /\ n.status = m.status /\ n.group = m.group /\ n.capacity = m.capacity
      /\ n.work = m.work /\ n.teacher = m.teacher /\ n.target = m.target
      /\ n.active = act /\ n.total = tot /\ n.units = un
  BY <1>2, <1>5 DEF Rows
<1>7. \A a \in Assignment : Units(n, a) = Units(k, a)
  BY <1>3, <1>6 DEF Units
<1>8. Reweighed(s, n) = Reweighed(s, m)
  BY <1>6 DEF Reweighed, Touched
<1> HIDE DEF n, k
<1> QED
  BY <1>1, <1>6, <1>7, <1>8

\* The groups that no moved enrollment is or was in keep their students.
LEMMA RecountedRight ==
  ASSUME NEW s \in Rows, NEW m \in Rows, Counted(s), m.active = s.active, m.total = s.total
  PROVE  Counted(Recompute(s, m))
<1> DEFINE n == Recompute(s, m)
<1>1. \A g \in Group : ActiveIn(n, g) = ActiveIn(m, g) /\ Members(n, g) = Members(m, g)
  BY Recomputed DEF ActiveIn, Members
<1>2. ASSUME NEW g \in Group, g \notin Touched(s, m)
      PROVE  Members(m, g) = Members(s, g) /\ ActiveIn(m, g) = ActiveIn(s, g)
  <2>1. \A e \in Enrollment : \/ m.status[e] = s.status[e] /\ m.group[e] = s.group[e]
                              \/ g # s.group[e] /\ g # m.group[e]
    BY <1>2 DEF Touched
  <2> QED BY <2>1 DEF Members, ActiveIn
<1>3. \A g \in Group :
        /\ n.active[g] = IF g \in Touched(s, m) THEN Cardinality(ActiveIn(m, g)) ELSE m.active[g]
        /\ n.total[g] = IF g \in Touched(s, m) THEN Cardinality(Members(m, g)) ELSE m.total[g]
  BY Recomputed
<1> HIDE DEF n
<1>4. ASSUME NEW g \in Group
      PROVE  n.active[g] = Cardinality(ActiveIn(n, g)) /\ n.total[g] = Cardinality(Members(n, g))
  <2>1. CASE g \in Touched(s, m)
    BY <1>1, <1>3, <2>1
  <2>2. CASE g \notin Touched(s, m)
    BY <1>1, <1>2, <1>3, <2>2 DEF Counted
  <2> QED BY <2>1, <2>2
<1>5. Counted(n)
  BY <1>4 DEF Counted
<1> QED
  BY <1>5 DEF n

----------------------------------------------------------------------------
(* Commits *)

\* Merge, row by row
LEMMA Merged ==
  ASSUME db \in Rows, NEW n \in Rows, NEW W, NEW S
  PROVE  LET m == Merge(n, W, S) IN
         /\ m \in Rows
         /\ \A e \in Enrollment : SameEnrollment(m, IF e \in W THEN n ELSE db, e)
         /\ \A g \in Group : LET f == IF g \in W THEN n ELSE db IN
              m.capacity[g] = f.capacity[g] /\ m.active[g] = f.active[g] /\ m.total[g] = f.total[g]
         /\ \A a \in Assignment : LET f == IF a \in W THEN n ELSE db IN
              /\ m.work[a] = f.work[a] /\ m.teacher[a] = f.teacher[a]
              /\ m.target[a] = f.target[a] /\ m.units[a] = f.units[a]
         /\ \A a \in Assignment, t \in Day :
              m.sessions[a][t] = IF <<a, t>> \in S THEN db.sessions[a][t] + 1 ELSE db.sessions[a][t]
         /\ m.bill = db.bill /\ m.due = db.due /\ m.owed = db.owed /\ m.days = db.days
<1> DEFINE Pick(f, h) == [x \in DOMAIN f |-> IF x \in W THEN h[x] ELSE f[x]]
           ses == [a \in Assignment |-> [t \in Day |->
                     IF <<a, t>> \in S THEN db.sessions[a][t] + 1 ELSE db.sessions[a][t]]]
           m == Merge(n, W, S)
<1>1. /\ Pick(db.status, n.status) \in [Enrollment -> Status]
      /\ Pick(db.group, n.group) \in [Enrollment -> Group \cup {NoGroup}]
  BY DEF Rows
<1>2. /\ Pick(db.capacity, n.capacity) \in [Group -> Nat]
      /\ Pick(db.active, n.active) \in [Group -> Nat]
      /\ Pick(db.total, n.total) \in [Group -> Nat]
  BY DEF Rows
<1>3. /\ Pick(db.work, n.work) \in [Assignment -> Work]
      /\ Pick(db.teacher, n.teacher) \in [Assignment -> Teacher \cup {Unborn}]
      /\ Pick(db.target, n.target) \in [Assignment -> Student \cup Group \cup {Unborn}]
      /\ Pick(db.units, n.units) \in [Assignment -> Nat]
  BY DEF Rows
<1>4. ses \in [Assignment -> [Day -> Nat]]
  BY DEF Rows
<1>5. /\ m.status = Pick(db.status, n.status) /\ m.group = Pick(db.group, n.group)
      /\ m.capacity = Pick(db.capacity, n.capacity) /\ m.active = Pick(db.active, n.active)
      /\ m.total = Pick(db.total, n.total) /\ m.work = Pick(db.work, n.work)
      /\ m.teacher = Pick(db.teacher, n.teacher) /\ m.target = Pick(db.target, n.target)
      /\ m.units = Pick(db.units, n.units) /\ m.sessions = ses
      /\ m.bill = db.bill /\ m.due = db.due /\ m.owed = db.owed /\ m.days = db.days
  BY DEF Merge, Rows
<1>6. m \in Rows
  BY <1>1, <1>2, <1>3, <1>4 DEF Merge, Rows
<1>7. \A e \in Enrollment : SameEnrollment(m, IF e \in W THEN n ELSE db, e)
  BY <1>5 DEF SameEnrollment, Rows
<1>8. \A g \in Group : LET f == IF g \in W THEN n ELSE db IN
        m.capacity[g] = f.capacity[g] /\ m.active[g] = f.active[g] /\ m.total[g] = f.total[g]
  BY <1>5 DEF Rows
<1>9. \A a \in Assignment : LET f == IF a \in W THEN n ELSE db IN
        /\ m.work[a] = f.work[a] /\ m.teacher[a] = f.teacher[a]
        /\ m.target[a] = f.target[a] /\ m.units[a] = f.units[a]
  BY <1>5 DEF Rows
<1> HIDE DEF m
<1>10. \A a \in Assignment, t \in Day :
         m.sessions[a][t] = IF <<a, t>> \in S THEN db.sessions[a][t] + 1 ELSE db.sessions[a][t]
  BY <1>5
<1>11. m.bill = db.bill /\ m.due = db.due /\ m.owed = db.owed /\ m.days = db.days
  BY <1>5
<1> QED
  BY <1>6, <1>7, <1>8, <1>9, <1>10, <1>11 DEF m

\* The rows a transaction writes, by the table they are in
LEMMA ChangedRows ==
  ASSUME NEW s, NEW n
  PROVE  /\ Changed(s, n) \subseteq Enrollment \cup Group \cup Assignment
         /\ \A e \in Enrollment : e \notin Changed(s, n) <=> SameEnrollment(n, s, e)
         /\ \A g \in Group : g \notin Changed(s, n) <=>
              n.capacity[g] = s.capacity[g] /\ n.active[g] = s.active[g] /\ n.total[g] = s.total[g]
         /\ \A a \in Assignment : a \notin Changed(s, n) <=>
              /\ n.work[a] = s.work[a] /\ n.teacher[a] = s.teacher[a]
              /\ n.target[a] = s.target[a] /\ n.units[a] = s.units[a]
  BY SchoolAssumption DEF Changed, SameEnrollment

LEMMA SameCardinality ==
  ASSUME NEW A, NEW B, NEW e, IsFiniteSet(A), IsFiniteSet(B), A \ {e} = B \ {e},
         Cardinality(A) = Cardinality(B)
  PROVE  A = B
<1>1. ASSUME NEW X, NEW Y, IsFiniteSet(X), X \ {e} = Y \ {e}, e \in X, e \notin Y
      PROVE  Cardinality(X) # Cardinality(Y)
  <2>1. Y = X \ {e}
    BY <1>1
  <2>2. Cardinality(Y) = Cardinality(X) - 1
    BY <1>1, <2>1, FS_RemoveElement
  <2>3. Cardinality(X) \in Nat
    BY <1>1, FS_CardinalityType
  <2> QED BY <2>2, <2>3
<1>2. ~ (e \in A /\ e \notin B)
  BY <1>1
<1>3. ~ (e \in B /\ e \notin A)
  BY <1>1
<1> QED
  BY <1>2, <1>3

\* What a request makes of the snapshot s, enrollment e being the only one it may write
Made(s, n, e) ==
  n \in Rows /\ Counted(n) /\ \A x \in Enrollment \ {e} : SameEnrollment(n, s, x)

\* A request that leaves the counts of a group leaves its students.
LEMMA CountsTell ==
  ASSUME NEW s, NEW n, NEW e, Counted(s), Made(s, n, e), NEW g \in Group,
         n.active[g] = s.active[g], n.total[g] = s.total[g]
  PROVE  ActiveIn(n, g) = ActiveIn(s, g) /\ Members(n, g) = Members(s, g)
<1>1. /\ ActiveIn(n, g) \ {e} = ActiveIn(s, g) \ {e}
      /\ Members(n, g) \ {e} = Members(s, g) \ {e}
  BY DEF Made, SameEnrollment, ActiveIn, Members
<1>2. /\ Cardinality(ActiveIn(n, g)) = Cardinality(ActiveIn(s, g))
      /\ Cardinality(Members(n, g)) = Cardinality(Members(s, g))
  BY DEF Made, Counted
<1> QED
  BY <1>1, <1>2, CountType, SameCardinality

SnapshotOk(x) ==
  /\ Counted(x.snap)
  /\ \A e \in Enrollment \ x.written : SameEnrollment(db, x.snap, e)
  /\ \A g \in Group \ x.written : SameGroup(db, x.snap, g)

Transactions ==
  [open : {FALSE}]
    \cup [open : {TRUE}, snap : Rows, written : SUBSET (Enrollment \cup Group \cup Assignment)]

CountInv ==
  /\ db \in Rows /\ Counted(db)
  /\ tx \in [Client -> Transactions]
  /\ \A c \in Client : tx[c].open => SnapshotOk(tx[c])

LEMMA OpenTransaction ==
  ASSUME CountInv, NEW c \in Client, tx[c].open
  PROVE  /\ tx[c] \in [open : {TRUE}, snap : Rows,
                       written : SUBSET (Enrollment \cup Group \cup Assignment)]
         /\ tx[c].snap \in Rows
         /\ SnapshotOk(tx[c])
  BY DEF CountInv, Transactions

\* What a commit makes of the groups: those it writes are as it left them, and nobody
\* else touched them since its snapshot; the others keep their students.
LEMMA Committed ==
  ASSUME CountInv, NEW c \in Client, tx[c].open, NEW n, NEW e, Made(tx[c].snap, n, e),
         NEW S, Commit(c, n, S)
  PROVE  LET s == tx[c].snap
             W == Changed(s, n)
         IN  /\ db' \in Rows /\ Counted(db')
             /\ \A x \in Enrollment \ W : SameEnrollment(db', db, x)
             /\ \A g \in Group : IF g \in W THEN SameGroup(db', n, g) /\ SameGroup(db, s, g)
                                            ELSE SameGroup(db', db, g)
<1> DEFINE s == tx[c].snap
           W == Changed(s, n)
<1>1. /\ db \in Rows /\ Counted(db) /\ s \in Rows /\ Counted(s) /\ n \in Rows /\ Counted(n)
      /\ \A x \in Enrollment \ tx[c].written : SameEnrollment(db, s, x)
      /\ \A g \in Group \ tx[c].written : SameGroup(db, s, g)
  BY OpenTransaction DEF CountInv, SnapshotOk, Made
<1>2. W \cap tx[c].written = {} /\ db' = Merge(n, W, S)
  BY DEF Commit
<1>3. \A x \in Enrollment : x \notin W <=> SameEnrollment(n, s, x)
  BY ChangedRows
<1>4. \A g \in Group : g \notin W <=>
        n.capacity[g] = s.capacity[g] /\ n.active[g] = s.active[g] /\ n.total[g] = s.total[g]
  BY ChangedRows
<1> HIDE DEF W, s
<1>5. /\ db' \in Rows
      /\ \A x \in Enrollment : SameEnrollment(db', IF x \in W THEN n ELSE db, x)
      /\ \A g \in Group : LET f == IF g \in W THEN n ELSE db IN
           db'.capacity[g] = f.capacity[g] /\ db'.active[g] = f.active[g] /\ db'.total[g] = f.total[g]
  BY <1>1, <1>2, Merged
<1>6. \A x \in Enrollment : IF x \in W THEN SameEnrollment(db', n, x) /\ SameEnrollment(db, s, x)
                                       ELSE SameEnrollment(db', db, x) /\ SameEnrollment(n, s, x)
  BY <1>1, <1>2, <1>3, <1>5
\* The students of a group that is not written
<1>7. ASSUME NEW g \in Group, g \notin W PROVE SameGroup(db', db, g)
  <2>1. ActiveIn(n, g) = ActiveIn(s, g) /\ Members(n, g) = Members(s, g)
    BY <1>1, <1>4, <1>7, CountsTell DEF s
  <2>2. \A x \in Enrollment : /\ x \in Members(db', g) <=> x \in Members(db, g)
                              /\ x \in ActiveIn(db', g) <=> x \in ActiveIn(db, g)
    <3> SUFFICES ASSUME NEW x \in Enrollment
                 PROVE  /\ x \in Members(db', g) <=> x \in Members(db, g)
                        /\ x \in ActiveIn(db', g) <=> x \in ActiveIn(db, g)
      OBVIOUS
    <3>1. CASE x \notin W
      BY <1>6, <3>1 DEF SameEnrollment, Members, ActiveIn
    <3>2. CASE x \in W
      <4>1. /\ x \in Members(db', g) <=> x \in Members(n, g)
            /\ x \in ActiveIn(db', g) <=> x \in ActiveIn(n, g)
            /\ x \in Members(db, g) <=> x \in Members(s, g)
            /\ x \in ActiveIn(db, g) <=> x \in ActiveIn(s, g)
        BY <1>6, <3>2 DEF SameEnrollment, Members, ActiveIn
      <4> QED BY <2>1, <4>1
    <3> QED BY <3>1, <3>2
  <2>3. Members(db', g) = Members(db, g) /\ ActiveIn(db', g) = ActiveIn(db, g)
    <3>1. /\ Members(db', g) \subseteq Enrollment /\ Members(db, g) \subseteq Enrollment
          /\ ActiveIn(db', g) \subseteq Enrollment /\ ActiveIn(db, g) \subseteq Enrollment
      BY DEF Members, ActiveIn
    <3> QED BY <2>2, <3>1
  <2> QED BY <1>5, <1>7, <2>3 DEF SameGroup
\* The students of a group that is written
<1>8. ASSUME NEW g \in Group, g \in W PROVE SameGroup(db', n, g) /\ SameGroup(db, s, g)
  <2>1. SameGroup(db, s, g)
    BY <1>1, <1>2, <1>8
  <2>2. \A x \in Enrollment : /\ x \in Members(db', g) <=> x \in Members(n, g)
                              /\ x \in ActiveIn(db', g) <=> x \in ActiveIn(n, g)
    <3> SUFFICES ASSUME NEW x \in Enrollment
                 PROVE  /\ x \in Members(db', g) <=> x \in Members(n, g)
                        /\ x \in ActiveIn(db', g) <=> x \in ActiveIn(n, g)
      OBVIOUS
    <3>1. CASE x \in W
      BY <1>6, <3>1 DEF SameEnrollment, Members, ActiveIn
    <3>2. CASE x \notin W
      <4>1. /\ x \in Members(db', g) <=> x \in Members(db, g)
            /\ x \in ActiveIn(db', g) <=> x \in ActiveIn(db, g)
            /\ x \in Members(n, g) <=> x \in Members(s, g)
            /\ x \in ActiveIn(n, g) <=> x \in ActiveIn(s, g)
        BY <1>6, <3>2 DEF SameEnrollment, Members, ActiveIn
      <4> QED BY <2>1, <4>1 DEF SameGroup
    <3> QED BY <3>1, <3>2
  <2>3. Members(db', g) = Members(n, g) /\ ActiveIn(db', g) = ActiveIn(n, g)
    <3>1. /\ Members(db', g) \subseteq Enrollment /\ Members(n, g) \subseteq Enrollment
          /\ ActiveIn(db', g) \subseteq Enrollment /\ ActiveIn(n, g) \subseteq Enrollment
      BY DEF Members, ActiveIn
    <3> QED BY <2>2, <3>1
  <2> QED BY <1>5, <1>8, <2>1, <2>3 DEF SameGroup
<1>9. Counted(db')
  <2> SUFFICES ASSUME NEW g \in Group
               PROVE  /\ db'.active[g] = Cardinality(ActiveIn(db', g))
                      /\ db'.total[g] = Cardinality(Members(db', g))
    BY DEF Counted
  <2>1. CASE g \in W
    BY <1>1, <1>5, <1>8, <2>1 DEF SameGroup, Counted
  <2>2. CASE g \notin W
    BY <1>1, <1>5, <1>7, <2>2 DEF SameGroup, Counted
  <2> QED BY <2>1, <2>2
<1> QED
  BY <1>5, <1>6, <1>7, <1>8, <1>9 DEF W, s

LEMMA CommitKeepsCounts ==
  ASSUME CountInv, NEW c \in Client, tx[c].open, NEW n, NEW e, Made(tx[c].snap, n, e),
         NEW S, Commit(c, n, S)
  PROVE  CountInv'
<1> DEFINE W == Changed(tx[c].snap, n)
<1>1. /\ db' \in Rows /\ Counted(db')
      /\ \A x \in Enrollment \ W : SameEnrollment(db', db, x)
      /\ \A g \in Group \ W : SameGroup(db', db, g)
  BY Committed
<1>2. W \subseteq Enrollment \cup Group \cup Assignment
  BY ChangedRows
<1>3. tx' = Wrote(c, W)
  BY DEF Commit
<1> HIDE DEF W
<1>4. ASSUME NEW x \in Client
      PROVE  tx'[x] \in Transactions /\ (tx'[x].open => SnapshotOk(tx[x])')
  <2>1. tx[x] \in Transactions
    BY DEF CountInv
  <2>2. CASE x = c
    <3>1. tx'[x] = Idle
      BY <1>3, <2>2 DEF Wrote
    <3> QED BY <3>1 DEF Idle, Transactions
  <2>3. CASE x # c /\ ~tx[x].open
    <3>1. tx'[x] = tx[x]
      BY <1>3, <2>3 DEF Wrote
    <3> QED BY <2>1, <2>3, <3>1
  <2>4. CASE x # c /\ tx[x].open
    <3>1. tx'[x] = [tx[x] EXCEPT !.written = @ \cup W]
      BY <1>3, <2>4 DEF Wrote
    <3>2. /\ tx[x] \in [open : {TRUE}, snap : Rows,
                        written : SUBSET (Enrollment \cup Group \cup Assignment)]
          /\ SnapshotOk(tx[x])
      BY <2>4, OpenTransaction
    <3>3. /\ tx'[x] \in [open : {TRUE}, snap : Rows,
                         written : SUBSET (Enrollment \cup Group \cup Assignment)]
          /\ tx'[x].snap = tx[x].snap /\ tx'[x].written = tx[x].written \cup W
      BY <1>2, <3>1, <3>2
    <3>4. ASSUME NEW y \in Enrollment \ tx'[x].written PROVE SameEnrollment(db', tx'[x].snap, y)
      BY <1>1, <3>2, <3>3, <3>4 DEF SnapshotOk, SameEnrollment
    <3>5. ASSUME NEW g \in Group \ tx'[x].written PROVE SameGroup(db', tx'[x].snap, g)
      BY <1>1, <3>2, <3>3, <3>5 DEF SnapshotOk, SameGroup
    <3> QED BY <3>2, <3>3, <3>4, <3>5 DEF SnapshotOk, Transactions
  <2> QED BY <2>2, <2>3, <2>4
<1>5. tx' = [x \in Client |-> tx'[x]]
  BY <1>3 DEF Wrote
<1> QED
  BY <1>1, <1>4, <1>5 DEF CountInv

----------------------------------------------------------------------------
(* Requests *)

UnitsRight(d, a) == d.target[a] # Unborn => d.units[a] = Units(d, a)

TargetSet(d, a) == d.target[a] = Unborn => d.work[a] = Unborn

\* What is true of a request that passed the constraints: it made n of the snapshot s
\* and created the sessions of S
Granted(s, n, S, e) ==
  /\ Made(s, n, e)
  /\ \A g \in Group : ActiveIn(n, g) \ ActiveIn(s, g) # {} => HasRoom(n, g)
  /\ \A x \in Enrollment : n.status[x] \in Open /\ n.status[x] # s.status[x] => IsUnique(n, x)
  /\ \A a \in Assignment : /\ AssignmentOk(s, n, a)
                           /\ a \in Reweighed(s, n) \/ n.units[a] = s.units[a]
                           /\ UnitsRight(s, a) => UnitsRight(n, a)
                           /\ TargetSet(s, a) => TargetSet(n, a)
  /\ \A a \in Assignment, t \in Day : <<a, t>> \in S => s.sessions[a][t] = 0

\* The units of an assignment follow its group
LEMMA RecomputedUnits ==
  ASSUME NEW s \in Rows, NEW m \in Rows, m.active = s.active, m.units = s.units,
         NEW a \in Assignment, UnitsRight(s, a), m.target[a] = Unborn => s.target[a] = Unborn
  PROVE  UnitsRight(Recompute(s, m), a)
<1> DEFINE n == Recompute(s, m)
<1>1. /\ n.target = m.target
      /\ n.units[a] = IF a \in Reweighed(s, m) THEN Units(n, a) ELSE m.units[a]
      /\ \A g \in Group \ Touched(s, m) : n.active[g] = s.active[g]
  <2>1. \A g \in Group : n.active[g] = IF g \in Touched(s, m)
                                       THEN Cardinality(ActiveIn(m, g)) ELSE m.active[g]
    BY Recomputed
  <2>2. n.target = m.target
    BY Recomputed
  <2>3. n.units[a] = IF a \in Reweighed(s, m) THEN Units(n, a) ELSE m.units[a]
    BY Recomputed
  <2> HIDE DEF n
  <2> QED BY <2>1, <2>2, <2>3
<1> HIDE DEF n
<1>2. CASE a \in Reweighed(s, m)
  BY <1>1, <1>2 DEF UnitsRight, n
<1>3. CASE a \notin Reweighed(s, m)
  <2>1. m.target[a] \notin Touched(s, m) /\ m.target[a] = s.target[a]
    BY <1>3 DEF Reweighed
  <2>2. Units(n, a) = Units(s, a)
    BY <1>1, <2>1 DEF Units
  <2> QED BY <1>1, <1>3, <2>1, <2>2 DEF UnitsRight, n
<1> QED
  BY <1>2, <1>3

LEMMA EnrollmentGranted ==
  ASSUME NEW s \in Rows, NEW n \in Rows, NEW e \in Enrollment, EnrollmentOk(s, n, e),
         \A x \in Enrollment \ {e} : SameEnrollment(n, s, x)
  PROVE  /\ \A g \in Group : ActiveIn(n, g) \ ActiveIn(s, g) # {} => HasRoom(n, g)
         /\ \A x \in Enrollment : n.status[x] \in Open /\ n.status[x] # s.status[x] => IsUnique(n, x)
<1>1. ASSUME NEW g \in Group, NEW x \in ActiveIn(n, g) \ ActiveIn(s, g) PROVE HasRoom(n, g)
  <2>1. x \in Enrollment /\ n.status[x] = "active" /\ n.group[x] = g
    BY <1>1 DEF ActiveIn, Members
  <2>2. x = e
    BY <1>1, <2>1 DEF ActiveIn, Members, SameEnrollment
  <2> QED BY <2>1, <2>2 DEF EnrollmentOk
<1>2. ASSUME NEW x \in Enrollment, n.status[x] \in Open, n.status[x] # s.status[x]
      PROVE  IsUnique(n, x)
  BY <1>2 DEF EnrollmentOk, SameEnrollment
<1> QED
  BY <1>1, <1>2

LEMMA NewSessionsNew ==
  ASSUME NEW d, NEW b \in Assignment, NEW a, NEW t, <<a, t>> \in NewSessions(d, b)
  PROVE  a = b /\ d.sessions[a][t] = 0
  BY DEF NewSessions

\* A request that recomputes the stored fields
LEMMA RecomputeGranted ==
  ASSUME NEW s \in Rows, Counted(s), NEW m \in Rows, NEW S, NEW e,
         m.capacity = s.capacity, m.active = s.active, m.total = s.total, m.units = s.units,
         \A x \in Enrollment \ {e} : SameEnrollment(m, s, x),
         (m.status = s.status /\ m.group = s.group)
           \/ (e \in Enrollment /\ EnrollmentOk(s, Recompute(s, m), e)),
         AssignmentsOk(s, Recompute(s, m)),
         \A a \in Assignment : /\ m.target[a] = Unborn => s.target[a] = Unborn
                               /\ TargetSet(s, a) => TargetSet(m, a),
         \A a \in Assignment, t \in Day : <<a, t>> \in S => s.sessions[a][t] = 0
  PROVE  Granted(s, Recompute(s, m), S, e)
<1> DEFINE n == Recompute(s, m)
<1>1. n \in Rows /\ n.status = m.status /\ n.group = m.group /\ n.work = m.work /\ n.target = m.target
  BY Recomputed
<1>2. Counted(n)
  BY RecountedRight
<1>3. \A a \in Assignment : UnitsRight(s, a) => UnitsRight(n, a)
  BY RecomputedUnits
<1>8. \A a \in Assignment : AssignmentOk(s, n, a)
  BY DEF AssignmentsOk
<1>9. \A a \in Assignment : a \in Reweighed(s, n) \/ n.units[a] = s.units[a]
  BY Recomputed
<1> HIDE DEF n
<1>4. \A x \in Enrollment \ {e} : SameEnrollment(n, s, x)
  BY <1>1 DEF SameEnrollment
<1>5. Made(s, n, e)
  BY <1>1, <1>2, <1>4 DEF Made
<1>6. CASE m.status = s.status /\ m.group = s.group
  <2>1. \A g \in Group : ActiveIn(n, g) \ ActiveIn(s, g) = {}
    BY <1>1, <1>6 DEF ActiveIn, Members
  <2>2. \A x \in Enrollment : n.status[x] = s.status[x]
    BY <1>1, <1>6
  <2>3. \A a \in Assignment : TargetSet(s, a) => TargetSet(n, a)
    BY <1>1 DEF TargetSet
  <2> QED BY <1>3, <1>5, <1>8, <1>9, <2>1, <2>2, <2>3 DEF Granted, n
<1>7. CASE e \in Enrollment /\ EnrollmentOk(s, n, e)
  <2>1. /\ \A g \in Group : ActiveIn(n, g) \ ActiveIn(s, g) # {} => HasRoom(n, g)
        /\ \A x \in Enrollment : n.status[x] \in Open /\ n.status[x] # s.status[x] => IsUnique(n, x)
    BY <1>1, <1>4, <1>7, EnrollmentGranted
  <2>2. \A a \in Assignment : TargetSet(s, a) => TargetSet(n, a)
    BY <1>1 DEF TargetSet
  <2> QED BY <1>3, <1>5, <1>8, <1>9, <2>1, <2>2 DEF Granted, n
<1> QED
  BY <1>6, <1>7 DEF n

LEMMA EnrollGranted ==
  ASSUME NEW s \in Rows, Counted(s), NEW e \in Enrollment, NEW st \in EnrollmentStatus,
         NEW g \in Group \cup {NoGroup},
         EnrollmentOk(s, Recompute(s, [s EXCEPT !.status[e] = st, !.group[e] = g]), e),
         AssignmentsOk(s, Recompute(s, [s EXCEPT !.status[e] = st, !.group[e] = g]))
  PROVE  Granted(s, Recompute(s, [s EXCEPT !.status[e] = st, !.group[e] = g]), {}, e)
<1> DEFINE m == [s EXCEPT !.status[e] = st, !.group[e] = g]
<1>1. /\ m \in Rows /\ m.capacity = s.capacity /\ m.active = s.active /\ m.total = s.total
      /\ m.units = s.units /\ m.work = s.work /\ m.teacher = s.teacher /\ m.target = s.target
      /\ \A x \in Enrollment \ {e} : SameEnrollment(m, s, x)
  BY SchoolAssumption DEF Rows, Status, SameEnrollment
<1>2. AssignmentsOk(s, Recompute(s, m)) /\ EnrollmentOk(s, Recompute(s, m), e)
  OBVIOUS
<1> HIDE DEF m
<1>3. \A a \in Assignment : TargetSet(s, a) => TargetSet(m, a)
  BY <1>1 DEF TargetSet
<1>4. Granted(s, Recompute(s, m), {}, e)
  BY <1>1, <1>2, <1>3, RecomputeGranted
<1> QED
  BY <1>4 DEF m

LEMMA CapacityGranted ==
  ASSUME NEW s \in Rows, Counted(s), NEW g \in Group, NEW k \in Capacity, NEW e
  PROVE  Granted(s, [s EXCEPT !.capacity[g] = k], {}, e)
<1> DEFINE n == [s EXCEPT !.capacity[g] = k]
<1>1. /\ n \in Rows /\ n.active = s.active /\ n.total = s.total /\ n.units = s.units
      /\ n.work = s.work /\ n.teacher = s.teacher /\ n.target = s.target
      /\ n.status = s.status /\ n.group = s.group
  BY SchoolAssumption DEF Rows
<1> HIDE DEF n
<1>2. \A x \in Group : ActiveIn(n, x) = ActiveIn(s, x) /\ Members(n, x) = Members(s, x)
  BY <1>1 DEF ActiveIn, Members
<1>3. Made(s, n, e)
  BY <1>1, <1>2 DEF Made, Counted, SameEnrollment
<1>6. Reweighed(s, n) = {}
  BY <1>1 DEF Reweighed, Touched
<1>4. \A a \in Assignment : /\ AssignmentOk(s, n, a)
                            /\ UnitsRight(s, a) => UnitsRight(n, a)
                            /\ TargetSet(s, a) => TargetSet(n, a)
  BY <1>1, <1>6 DEF AssignmentOk, UnitsRight, Units, TargetSet
<1>5. Granted(s, n, {}, e)
  BY <1>1, <1>2, <1>3, <1>4 DEF Granted
<1> QED
  BY <1>5 DEF n

LEMMA AssignGranted ==
  ASSUME NEW s \in Rows, Counted(s), NEW a \in Assignment, NEW t \in Teacher,
         NEW x \in Student \cup Group, NEW st \in AssignmentStatus, NEW e, NEW S,
         AssignmentsOk(s, Recompute(s, [s EXCEPT !.teacher[a] = t, !.target[a] = x, !.work[a] = st])),
         S = NewSessions(s, a) \/ S = {}
  PROVE  Granted(s, Recompute(s, [s EXCEPT !.teacher[a] = t, !.target[a] = x, !.work[a] = st]), S, e)
<1> DEFINE m == [s EXCEPT !.teacher[a] = t, !.target[a] = x, !.work[a] = st]
<1>1. /\ m \in Rows /\ m.capacity = s.capacity /\ m.active = s.active /\ m.total = s.total
      /\ m.units = s.units /\ m.status = s.status /\ m.group = s.group
      /\ m.target[a] = x /\ m.work[a] = st
      /\ \A b \in Assignment \ {a} : /\ m.work[b] = s.work[b] /\ m.teacher[b] = s.teacher[b]
                                     /\ m.target[b] = s.target[b]
  BY SchoolAssumption DEF Rows, Work
<1>2. x # Unborn /\ st # Unborn
  BY SchoolAssumption DEF Unborn
<1>3. AssignmentsOk(s, Recompute(s, m))
  OBVIOUS
<1> HIDE DEF m
<1>4. ASSUME NEW b \in Assignment
      PROVE  /\ m.target[b] = Unborn => s.target[b] = Unborn
             /\ TargetSet(s, b) => TargetSet(m, b)
  BY <1>1, <1>2 DEF TargetSet
<1>5. \A b \in Assignment, d \in Day : <<b, d>> \in S => s.sessions[b][d] = 0
  BY NewSessionsNew
<1>6. \A y \in Enrollment \ {e} : SameEnrollment(m, s, y)
  BY <1>1 DEF SameEnrollment
<1>7. Granted(s, Recompute(s, m), S, e)
  BY <1>1, <1>3, <1>4, <1>5, <1>6, RecomputeGranted
<1> QED
  BY <1>7 DEF m

LEMMA PlaceGranted ==
  ASSUME NEW s \in Rows, Counted(s), NEW e \in Enrollment, NEW g \in Group \cup {NoGroup},
         NEW a \in Assignment, NEW t \in Teacher, NEW x \in Student \cup Group, NEW m,
         m = [s EXCEPT !.status[e] = "active", !.group[e] = g,
                       !.teacher[a] = t, !.target[a] = x, !.work[a] = "active"],
         EnrollmentOk(s, Recompute(s, m), e), AssignmentsOk(s, Recompute(s, m))
  PROVE  Granted(s, Recompute(s, m), NewSessions(s, a), e)
<1>1. /\ m \in Rows /\ m.capacity = s.capacity /\ m.active = s.active /\ m.total = s.total
      /\ m.units = s.units /\ m.target[a] = x /\ m.work[a] = "active"
      /\ \A b \in Assignment \ {a} : /\ m.work[b] = s.work[b] /\ m.teacher[b] = s.teacher[b]
                                     /\ m.target[b] = s.target[b]
      /\ \A y \in Enrollment \ {e} : SameEnrollment(m, s, y)
  BY SchoolAssumption DEF Rows, Status, Work, SameEnrollment
<1>2. x # Unborn /\ "active" # Unborn
  BY SchoolAssumption DEF Unborn
<1>3. ASSUME NEW b \in Assignment
      PROVE  /\ m.target[b] = Unborn => s.target[b] = Unborn
             /\ TargetSet(s, b) => TargetSet(m, b)
  BY <1>1, <1>2 DEF TargetSet
<1>4. \A b \in Assignment, d \in Day : <<b, d>> \in NewSessions(s, a) => s.sessions[b][d] = 0
  BY NewSessionsNew
<1> QED
  BY <1>1, <1>3, <1>4, RecomputeGranted

LEMMA SessionsGranted ==
  ASSUME NEW s \in Rows, Counted(s), NEW a \in Assignment, NEW e
  PROVE  Granted(s, s, NewSessions(s, a), e)
<1>1. \A b \in Assignment, d \in Day : <<b, d>> \in NewSessions(s, a) => s.sessions[b][d] = 0
  BY NewSessionsNew
<1>2. Reweighed(s, s) = {}
  BY DEF Reweighed, Touched
<1> QED
  BY <1>1, <1>2 DEF Granted, Made, SameEnrollment, AssignmentOk

LEMMA RequestGranted ==
  ASSUME CountInv, NEW c \in Client, Request(c)
  PROVE  \E n, S, e : tx[c].open /\ Granted(tx[c].snap, n, S, e) /\ Commit(c, n, S)
<1> DEFINE s == tx[c].snap
           Goal == \E n, S, e : tx[c].open /\ Granted(s, n, S, e) /\ Commit(c, n, S)
<1>1. tx[c].open => s \in Rows /\ Counted(s)
  BY OpenTransaction DEF SnapshotOk
<1>2. ASSUME NEW e \in Enrollment, NEW st \in EnrollmentStatus, NEW g \in Group \cup {NoGroup},
             Enroll(c, e, st, g)
      PROVE  Goal
  <2>1. /\ tx[c].open
        /\ EnrollmentOk(s, Recompute(s, [s EXCEPT !.status[e] = st, !.group[e] = g]), e)
        /\ AssignmentsOk(s, Recompute(s, [s EXCEPT !.status[e] = st, !.group[e] = g]))
        /\ Commit(c, Recompute(s, [s EXCEPT !.status[e] = st, !.group[e] = g]), {})
    BY <1>2 DEF Enroll
  <2> QED BY <1>1, <2>1, EnrollGranted
<1>3. ASSUME NEW g \in Group, NEW k \in Capacity, SetCapacity(c, g, k) PROVE Goal
  <2>1. tx[c].open /\ Commit(c, [s EXCEPT !.capacity[g] = k], {})
    BY <1>3 DEF SetCapacity
  <2> QED BY <1>1, <2>1, CapacityGranted
<1>4. ASSUME NEW a \in Assignment, NEW t \in Teacher, NEW x \in Student \cup Group,
             NEW st \in AssignmentStatus, Assign(c, a, t, x, st)
      PROVE  Goal
  <2> DEFINE n == Recompute(s, [s EXCEPT !.teacher[a] = t, !.target[a] = x, !.work[a] = st])
             S == IF st = "active" /\ s.work[a] # st THEN NewSessions(s, a) ELSE {}
  <2>1. tx[c].open /\ AssignmentsOk(s, n) /\ Commit(c, n, S)
    BY <1>4 DEF Assign
  <2>2. S = NewSessions(s, a) \/ S = {}
    OBVIOUS
  <2> HIDE DEF S
  <2>3. Granted(s, n, S, a)
    BY <1>1, <2>1, <2>2, AssignGranted
  <2> QED BY <2>1, <2>3
<1>5. ASSUME NEW a \in Assignment, GenerateSessions(c, a) PROVE Goal
  <2>1. tx[c].open /\ Commit(c, s, NewSessions(s, a))
    BY <1>5 DEF GenerateSessions
  <2> QED BY <1>1, <2>1, SessionsGranted
<1>6. ASSUME NEW e \in Enrollment, NEW g \in Group \cup {NoGroup}, NEW a \in Assignment,
             NEW t \in Teacher, Place(c, e, g, a, t)
      PROVE  Goal
  <2> DEFINE x == IF g \in Group THEN g ELSE StudentOf[e]
             m == [s EXCEPT !.status[e] = "active", !.group[e] = g,
                            !.teacher[a] = t, !.target[a] = x, !.work[a] = "active"]
             n == Recompute(s, m)
  <2>1. /\ tx[c].open /\ EnrollmentOk(s, n, e) /\ AssignmentsOk(s, n)
        /\ Commit(c, n, NewSessions(s, a))
    BY <1>6 DEF Place
  <2>2. x \in Student \cup Group
    BY SchoolAssumption
  <2> HIDE DEF x
  <2>3. Granted(s, n, NewSessions(s, a), e)
    BY <1>1, <2>1, <2>2, PlaceGranted
  <2> HIDE DEF n
  <2> QED BY <2>1, <2>3
<1> QED
  BY <1>2, <1>3, <1>4, <1>5, <1>6 DEF Request

SameSchool(d, s) ==
  /\ d.status = s.status /\ d.group = s.group
  /\ d.capacity = s.capacity /\ d.active = s.active /\ d.total = s.total
  /\ d.work = s.work /\ d.teacher = s.teacher /\ d.target = s.target /\ d.units = s.units
  /\ d.sessions = s.sessions

LEMMA InvoiceType ==
  ASSUME db \in Rows, NEW i \in Invoice, NEW e \in Enrollment \cup {Unborn}, NEW due \in Nat,
         NEW owed \in BOOLEAN, WriteInvoice(i, e, due, owed), today \in Nat
  PROVE  /\ db' \in Rows /\ UNCHANGED <<tx, today, overlapped>>
         /\ SameSchool(db', db)
         /\ \A j \in Invoice \ {i} : /\ db'.owed[j] = db.owed[j] /\ db'.due[j] = db.due[j]
                                     /\ db'.days[j] = db.days[j]
         /\ db'.owed[i] = owed /\ db'.due[i] = due /\ db'.days[i] = LateBy(due, owed)
<1>1. LateBy(due, owed) \in Nat
  BY DEF LateBy, Max0
<1> QED
  BY <1>1 DEF WriteInvoice, Rows, SameSchool

LEMMA BillingWrites ==
  ASSUME db \in Rows, Billing
  PROVE  \E i \in Invoice, e \in Enrollment \cup {Unborn}, due \in Nat, owed \in BOOLEAN :
           WriteInvoice(i, e, due, owed)
<1>1. DueDates \subseteq Nat
  BY SchoolAssumption
<1>2. \A i \in Invoice : /\ db.bill[i] \in Enrollment \cup {Unborn} /\ db.due[i] \in Nat
                         /\ db.owed[i] \in BOOLEAN
  BY DEF Rows
<1> QED
  BY <1>1, <1>2 DEF Billing, CreateInvoice, Settle, SetDueDate

\* Steps that are no commits leave the school as it is, but for the invoices.
LEMMA OtherSteps ==
  ASSUME CountInv, today \in Nat, [Next]_vars, \A c \in Client : ~Request(c)
  PROVE  /\ db' \in Rows /\ SameSchool(db', db) /\ overlapped' = overlapped /\ today' \in Nat
         /\ tx' \in [Client -> Transactions]
         /\ \A c \in Client : tx'[c].open =>
              \/ tx'[c] = tx[c]
              \/ tx'[c].snap = db /\ tx'[c].written = {}
<1>1. db \in Rows /\ tx \in [Client -> Transactions]
  BY DEF CountInv
<1>2. ASSUME NEW c \in Client, Begin(c) \/ Rollback(c)
      PROVE  /\ tx' \in [Client -> Transactions]
             /\ \A x \in Client : tx'[x].open => \/ tx'[x] = tx[x]
                                                 \/ tx'[x].snap = db /\ tx'[x].written = {}
  <2> DEFINE new == [open |-> TRUE, snap |-> db, written |-> {}]
  <2>1. new \in Transactions /\ Idle \in Transactions /\ ~Idle.open
        /\ new.snap = db /\ new.written = {}
    BY <1>1 DEF Transactions, Idle
  <2>2. tx' = [tx EXCEPT ![c] = new] \/ tx' = [tx EXCEPT ![c] = Idle]
    BY <1>2 DEF Begin, Rollback
  <2> HIDE DEF new
  <2> QED BY <1>1, <2>1, <2>2
<1>3. ASSUME NEW c \in Client, Begin(c) \/ Rollback(c) PROVE UNCHANGED <<db, today, overlapped>>
  BY <1>3 DEF Begin, Rollback
<1>4. CASE Billing
  BY <1>1, <1>4, BillingWrites, InvoiceType
<1>5. CASE NextDay
  <2>1. today' \in Nat
    BY <1>5, SchoolAssumption DEF NextDay
  <2> QED BY <1>1, <1>5, <2>1 DEF NextDay, SameSchool
<1>6. CASE UNCHANGED vars
  BY <1>1, <1>6 DEF vars, SameSchool
<1> QED
  BY <1>1, <1>2, <1>3, <1>4, <1>5, <1>6 DEF Next, SameSchool

SchoolInv == CountInv /\ today \in Nat

LEMMA SchoolInvStep == SchoolInv /\ [Next]_vars => SchoolInv'
<1> SUFFICES ASSUME CountInv, today \in Nat, [Next]_vars PROVE CountInv' /\ today' \in Nat
  BY DEF SchoolInv
<1>1. ASSUME NEW c \in Client, Request(c) PROVE CountInv' /\ today' = today
  <2>1. PICK n, S, e : tx[c].open /\ Granted(tx[c].snap, n, S, e) /\ Commit(c, n, S)
    BY <1>1, RequestGranted
  <2> QED BY <2>1, CommitKeepsCounts DEF Granted, Commit
<1>2. CASE \A c \in Client : ~Request(c)
  <2>1. /\ db' \in Rows /\ SameSchool(db', db) /\ today' \in Nat
        /\ tx' \in [Client -> Transactions]
        /\ \A c \in Client : tx'[c].open =>
             \/ tx'[c] = tx[c]
             \/ tx'[c].snap = db /\ tx'[c].written = {}
    BY <1>2, OtherSteps
  <2>2. \A g \in Group : SameGroup(db', db, g) /\ db'.active[g] = db.active[g] /\ db'.total[g] = db.total[g]
    BY <2>1 DEF SameSchool, SameGroup, ActiveIn, Members
  <2>3. Counted(db')
    BY <2>2 DEF Counted, SameGroup, CountInv
  <2>4. ASSUME NEW c \in Client, tx'[c].open PROVE SnapshotOk(tx[c])' 
    <3>1. CASE tx'[c] = tx[c]
      <4>1. SnapshotOk(tx[c])
        BY <2>4, <3>1 DEF CountInv
      <4>2. \A x \in Enrollment \ tx[c].written : SameEnrollment(db', tx[c].snap, x)
        BY <2>1, <4>1 DEF SnapshotOk, SameEnrollment, SameSchool
      <4>3. \A g \in Group \ tx[c].written : SameGroup(db', tx[c].snap, g)
        BY <2>2, <4>1 DEF SnapshotOk, SameGroup
      <4> QED BY <3>1, <4>1, <4>2, <4>3 DEF SnapshotOk
    <3>2. CASE tx'[c].snap = db /\ tx'[c].written = {}
      BY <2>1, <2>2, <3>2 DEF SnapshotOk, SameEnrollment, SameSchool, CountInv
    <3> QED BY <2>1, <2>4, <3>1, <3>2
  <2> QED BY <2>1, <2>3, <2>4 DEF CountInv
<1> QED
  BY <1>1, <1>2

LEMMA SchoolInvInit == Init => SchoolInv
<1> SUFFICES ASSUME Init PROVE SchoolInv
  OBVIOUS
<1>1. db \in Rows
  <2>1. /\ {[e \in Enrollment |-> Unborn]} \subseteq [Enrollment -> Status]
        /\ {[e \in Enrollment |-> NoGroup]} \subseteq [Enrollment -> Group \cup {NoGroup}]
        /\ {[g \in Group |-> 0]} \subseteq [Group -> Nat]
    BY DEF Status, Unborn
  <2>2. /\ {[a \in Assignment |-> Unborn]} \subseteq [Assignment -> Work]
        /\ {[a \in Assignment |-> Unborn]} \subseteq [Assignment -> Teacher \cup {Unborn}]
        /\ {[a \in Assignment |-> Unborn]} \subseteq [Assignment -> Student \cup Group \cup {Unborn}]
        /\ {[a \in Assignment |-> 0]} \subseteq [Assignment -> Nat]
    BY DEF Work, Unborn
  <2>3. {[a \in Assignment |-> [t \in Day |-> 0]]} \subseteq [Assignment -> [Day -> Nat]]
    OBVIOUS
  <2>4. /\ {[i \in Invoice |-> Unborn]} \subseteq [Invoice -> Enrollment \cup {Unborn}]
        /\ {[i \in Invoice |-> 0]} \subseteq [Invoice -> Nat]
        /\ {[i \in Invoice |-> FALSE]} \subseteq [Invoice -> BOOLEAN]
    OBVIOUS
  <2>5. [Group -> Capacity] \subseteq [Group -> Nat]
    <3>1. Capacity \subseteq Nat
      BY SchoolAssumption
    <3> QED BY <3>1
  <2> QED BY <2>1, <2>2, <2>3, <2>4, <2>5 DEF Init, Rows
<1>2. \A g \in Group : Members(db, g) = {} /\ ActiveIn(db, g) = {}
  BY DEF Init, Members, ActiveIn
<1>3. Counted(db)
  <2>1. \A g \in Group : db.active[g] = 0 /\ db.total[g] = 0
    BY DEF Init
  <2> QED BY <1>2, <2>1, FS_EmptySet DEF Counted
<1>4. tx \in [Client -> Transactions] /\ \A c \in Client : ~tx[c].open
  BY DEF Init, Idle, Transactions
<1> QED
  BY <1>1, <1>3, <1>4 DEF SchoolInv, CountInv, Init

LEMMA SchoolInvariant == Spec => []SchoolInv
  BY SchoolInvInit, SchoolInvStep, PTL DEF Spec

\* For any number of groups, enrollments and users, and however their transactions
\* overlap: the stored counts of a group are the numbers of its enrollments.
THEOREM CountsHold == Spec => []CountsRight
<1>1. SchoolInv => CountsRight
  BY DEF SchoolInv, CountInv, Counted, CountsRight
<1> QED
  BY <1>1, SchoolInvariant, PTL

\* No commit adds an active student to a group beyond the capacity the group then has.
THEOREM NoOverbooking == Spec => NeverOverbooked
<1>1. ASSUME SchoolInv, [Next]_vars, NEW g \in Group,
             Cardinality(ActiveIn(db', g)) > Cardinality(ActiveIn(db, g))
      PROVE  HasRoom(db', g)
  <2>1. Cardinality(ActiveIn(db', g)) \in Nat /\ Cardinality(ActiveIn(db, g)) \in Nat
    BY CountType
  <2>2. ~SameGroup(db', db, g)
    BY <1>1, <2>1 DEF SameGroup
  <2>3. PICK c \in Client : Request(c)
    <3> SUFFICES ASSUME \A c \in Client : ~Request(c) PROVE FALSE
      OBVIOUS
    <3>1. SameSchool(db', db)
      BY <1>1, OtherSteps DEF SchoolInv
    <3> QED BY <2>2, <3>1 DEF SameSchool, SameGroup, ActiveIn, Members
  <2>4. PICK n, S, e : tx[c].open /\ Granted(tx[c].snap, n, S, e) /\ Commit(c, n, S)
    BY <1>1, <2>3, RequestGranted DEF SchoolInv
  <2>5. SameGroup(db', n, g) /\ SameGroup(db, tx[c].snap, g)
    BY <1>1, <2>2, <2>4, Committed DEF Granted, SchoolInv
  <2>6. ActiveIn(n, g) \ ActiveIn(tx[c].snap, g) # {}
    <3> SUFFICES ASSUME ActiveIn(n, g) \subseteq ActiveIn(tx[c].snap, g) PROVE FALSE
      OBVIOUS
    <3>1. ActiveIn(db', g) \subseteq ActiveIn(db, g)
      BY <2>5 DEF SameGroup
    <3>2. Cardinality(ActiveIn(db', g)) <= Cardinality(ActiveIn(db, g))
      BY <3>1, CountType, FS_Subset
    <3> QED BY <1>1, <2>1, <3>2
  <2>7. HasRoom(n, g)
    BY <2>4, <2>6 DEF Granted
  <2> QED BY <2>5, <2>7 DEF HasRoom, SameGroup
<1>2. SchoolInv /\ [Next]_vars =>
        \A g \in Group : Cardinality(ActiveIn(db', g)) > Cardinality(ActiveIn(db, g)) => HasRoom(db', g)
  BY <1>1
<1> QED
  BY <1>2, SchoolInvariant, PTL DEF Spec, NeverOverbooked

----------------------------------------------------------------------------
(* Fees *)

\* The days of an invoice are behind, never ahead
FeesInv ==
  \A i \in Invoice : db.days[i] # 0 => db.owed[i] /\ db.days[i] <= today - db.due[i]

LEMMA FeesInvStep == SchoolInv /\ FeesInv /\ [Next]_vars => FeesInv'
<1> SUFFICES ASSUME SchoolInv, FeesInv, [Next]_vars PROVE FeesInv'
  OBVIOUS
<1>1. db \in Rows /\ today \in Nat /\ CountInv
  BY DEF SchoolInv, CountInv
<1>2. \A i \in Invoice : db.days[i] \in Nat /\ db.due[i] \in Nat
  BY <1>1 DEF Rows
<1>3. ASSUME db'.days = db.days, db'.due = db.due, db'.owed = db.owed, today' = today \/ today' = today + 1
      PROVE  FeesInv'
  BY <1>1, <1>2, <1>3 DEF FeesInv
<1>4. ASSUME NEW c \in Client, Request(c) PROVE FeesInv'
  <2>1. PICK n, S, e : tx[c].open /\ Granted(tx[c].snap, n, S, e) /\ Commit(c, n, S)
    BY <1>1, <1>4, RequestGranted
  <2>2. n \in Rows /\ db' = Merge(n, Changed(tx[c].snap, n), S) /\ today' = today
    BY <2>1 DEF Granted, Made, Commit
  <2>3. db'.days = db.days /\ db'.due = db.due /\ db'.owed = db.owed
    BY <1>1, <2>2, Merged
  <2> QED BY <1>3, <2>2, <2>3
<1>5. ASSUME NEW c \in Client, Begin(c) \/ Rollback(c) PROVE FeesInv'
  BY <1>3, <1>5 DEF Begin, Rollback
<1>6. CASE Billing
  <2>1. PICK i \in Invoice, e \in Enrollment \cup {Unborn}, due \in Nat, owed \in BOOLEAN :
          WriteInvoice(i, e, due, owed)
    BY <1>1, <1>6, BillingWrites
  <2>2. /\ today' = today
        /\ \A j \in Invoice \ {i} : /\ db'.owed[j] = db.owed[j] /\ db'.due[j] = db.due[j]
                                    /\ db'.days[j] = db.days[j]
        /\ db'.owed[i] = owed /\ db'.due[i] = due /\ db'.days[i] = LateBy(due, owed)
    BY <1>1, <2>1, InvoiceType
  <2>3. LateBy(due, owed) # 0 => owed /\ LateBy(due, owed) <= today - due
    BY <1>1 DEF LateBy, Max0
  <2> QED BY <2>2, <2>3 DEF FeesInv
<1>7. CASE NextDay
  BY <1>3, <1>7 DEF NextDay
<1>8. CASE UNCHANGED vars
  BY <1>3, <1>8 DEF vars
<1> QED
  BY <1>4, <1>5, <1>6, <1>7, <1>8 DEF Next

LEMMA LeastNat ==
  ASSUME NEW S \in SUBSET Nat, S # {}
  PROVE  \E n \in S : \A m \in S : n <= m
<1> DEFINE R == {x \in Nat \X Nat : x[1] < x[2]}
<1>1. IsWellFoundedOn(R, Nat)
  BY NatLessThanWellFounded DEF OpToRel
<1>2. \A m, n \in Nat : ~ (<<m, n>> \in R) => n <= m
  OBVIOUS
<1> HIDE DEF R
<1>3. PICK n \in S : \A m \in S : ~ (<<m, n>> \in R)
  BY <1>1, WFMin
<1> QED
  BY <1>2, <1>3

\* Max is defined on a bounded set of numbers.
LEMMA MaxIn ==
  ASSUME NEW S \in SUBSET Nat, S # {}, NEW b \in Nat, \A n \in S : n <= b
  PROVE  Max(S) \in S
<1> DEFINE T == {b - n : n \in S}
<1>1. T \in SUBSET Nat /\ T # {}
  <2>1. \A n \in S : b - n \in Nat
    OBVIOUS
  <2>2. \E n \in S : b - n \in T
    OBVIOUS
  <2> QED BY <2>1, <2>2
<1>2. PICK m \in T : \A k \in T : m <= k
  <2> HIDE DEF T
  <2> QED BY <1>1, LeastNat
<1>3. PICK x \in S : m = b - x
  BY <1>2
<1>4. \A y \in S : x >= y
  BY <1>2, <1>3
<1> QED
  BY <1>4 DEF Max

\* Sessions are refused only to a student who owes an invoice overdue for more days than
\* the threshold, on whatever day the stored days were computed.
THEOREM NoUnfairBlock == Spec => []BlocksOnlyTheLate
<1>1. Init => FeesInv
  BY DEF Init, FeesInv
<1>2. ASSUME SchoolInv, FeesInv, NEW a \in Assignment, NEW e \in Enrollment, Refused(db, a, e)
      PROVE  \E i \in Invoice : /\ db.owed[i] /\ today - db.due[i] > MaxOverdue
                                /\ StudentOf[db.bill[i]] = db.target[a]
  <2>1. e \in Current(db, db.target[a]) /\ OverdueDays(db, e) > MaxOverdue
    BY <1>2 DEF Refused
  <2>2. StudentOf[e] = db.target[a]
    BY <2>1 DEF Current
  <2> DEFINE D == {db.days[i] : i \in {j \in Invoice : db.bill[j] = e}} \cup {0}
  <2>3. \A i \in Invoice : db.days[i] \in Nat /\ db.due[i] \in Nat
    BY <1>2 DEF SchoolInv, CountInv, Rows
  <2>4. today \in Nat /\ MaxOverdue \in Nat
    BY <1>2, SchoolAssumption DEF SchoolInv
  <2>5. \A i \in Invoice : db.days[i] <= today
    BY <1>2, <2>3, <2>4 DEF FeesInv
  <2>6. D \in SUBSET Nat /\ D # {} /\ \A n \in D : n <= today
    BY <2>3, <2>4, <2>5
  <2>7. OverdueDays(db, e) = Max(D)
    BY DEF OverdueDays
  <2>8. Max(D) \in D
    <3> HIDE DEF D
    <3> QED BY <2>4, <2>6, MaxIn
  <2>9. PICK i \in Invoice : db.bill[i] = e /\ db.days[i] > MaxOverdue
    BY <2>1, <2>4, <2>7, <2>8
  <2>10. db.owed[i] /\ today - db.due[i] > MaxOverdue
    BY <1>2, <2>3, <2>4, <2>9 DEF FeesInv
  <2> QED BY <2>2, <2>9, <2>10
<1>3. SchoolInv /\ FeesInv => BlocksOnlyTheLate
  BY <1>2 DEF BlocksOnlyTheLate
<1> QED
  BY <1>1, <1>3, FeesInvStep, SchoolInvariant, PTL DEF Spec

----------------------------------------------------------------------------
(* Transactions that do not overlap *)

\* A commit on a snapshot that is still the database makes what the request made.
LEMMA SerialCommit ==
  ASSUME CountInv, NEW c \in Client, tx[c].open, NEW n \in Rows, NEW S, Commit(c, n, S),
         ~overlapped'
  PROVE  /\ ~overlapped /\ tx[c].snap = db /\ db' \in Rows
         /\ db'.status = n.status /\ db'.active = n.active
         /\ db'.work = n.work /\ db'.teacher = n.teacher
         /\ db'.target = n.target /\ db'.units = n.units
         /\ \A a \in Assignment, t \in Day :
              db'.sessions[a][t] = IF <<a, t>> \in S THEN db.sessions[a][t] + 1 ELSE db.sessions[a][t]
<1>1. ~overlapped /\ tx[c].snap = db /\ db' = Merge(n, Changed(db, n), S)
  BY DEF Commit
<1> DEFINE W == Changed(db, n)
<1>2. db \in Rows
  BY DEF CountInv
<1>3. /\ db' \in Rows
      /\ \A e \in Enrollment : SameEnrollment(db', IF e \in W THEN n ELSE db, e)
      /\ \A g \in Group : LET f == IF g \in W THEN n ELSE db IN db'.active[g] = f.active[g]
      /\ \A a \in Assignment : LET f == IF a \in W THEN n ELSE db IN
           /\ db'.work[a] = f.work[a] /\ db'.teacher[a] = f.teacher[a]
           /\ db'.target[a] = f.target[a] /\ db'.units[a] = f.units[a]
      /\ \A a \in Assignment, t \in Day :
           db'.sessions[a][t] = IF <<a, t>> \in S THEN db.sessions[a][t] + 1 ELSE db.sessions[a][t]
  BY <1>1, <1>2, Merged
<1>4. /\ \A e \in Enrollment : e \notin W => SameEnrollment(n, db, e)
      /\ \A g \in Group : g \notin W => n.active[g] = db.active[g]
      /\ \A a \in Assignment : a \notin W => /\ n.work[a] = db.work[a] /\ n.teacher[a] = db.teacher[a]
                                             /\ n.target[a] = db.target[a] /\ n.units[a] = db.units[a]
  BY ChangedRows
<1> HIDE DEF W
<1>5. \A e \in Enrollment : db'.status[e] = n.status[e]
  BY <1>3, <1>4 DEF SameEnrollment
<1>6. \A g \in Group : db'.active[g] = n.active[g]
  BY <1>3, <1>4
<1>7. \A a \in Assignment : /\ db'.work[a] = n.work[a] /\ db'.teacher[a] = n.teacher[a]
                            /\ db'.target[a] = n.target[a] /\ db'.units[a] = n.units[a]
  BY <1>3, <1>4
<1>8. db'.status = n.status /\ db'.active = n.active
  BY <1>3, <1>5, <1>6 DEF Rows
<1>9. db'.work = n.work /\ db'.teacher = n.teacher /\ db'.target = n.target /\ db'.units = n.units
  BY <1>3, <1>7 DEF Rows
<1> QED
  BY <1>1, <1>3, <1>8, <1>9

OwnInv ==
  /\ \A e \in Enrollment : db.status[e] \in Open => IsUnique(db, e)
  /\ \A a \in Assignment, t \in Day : db.sessions[a][t] <= 1
  /\ \A a \in Assignment : UnitsRight(db, a) /\ TargetSet(db, a)

LEMMA OwnInvStep == SchoolInv /\ (~overlapped => OwnInv) /\ [Next]_vars => (~overlapped' => OwnInv')
<1> SUFFICES ASSUME SchoolInv, ~overlapped => OwnInv, [Next]_vars, ~overlapped' PROVE OwnInv'
  OBVIOUS
<1>1. CountInv /\ db \in Rows /\ today \in Nat
  BY DEF SchoolInv, CountInv
<1>2. ASSUME NEW c \in Client, Request(c) PROVE OwnInv'
  <2>1. PICK n, S, e : tx[c].open /\ Granted(tx[c].snap, n, S, e) /\ Commit(c, n, S)
    BY <1>1, <1>2, RequestGranted
  <2>2. n \in Rows
    BY <2>1 DEF Granted, Made
  <2>3. /\ ~overlapped /\ tx[c].snap = db /\ db' \in Rows
        /\ db'.status = n.status /\ db'.active = n.active
        /\ db'.work = n.work /\ db'.target = n.target /\ db'.units = n.units
        /\ \A a \in Assignment, t \in Day :
             db'.sessions[a][t] = IF <<a, t>> \in S THEN db.sessions[a][t] + 1 ELSE db.sessions[a][t]
    BY <1>1, <2>1, <2>2, SerialCommit
  <2>4. OwnInv /\ Granted(db, n, S, e)
    BY <2>1, <2>3
  <2>5. ASSUME NEW x \in Enrollment, n.status[x] \in Open PROVE IsUnique(n, x)
    <3>1. CASE n.status[x] # db.status[x]
      BY <2>4, <2>5, <3>1 DEF Granted
    <3>2. CASE n.status[x] = db.status[x]
      <4>1. IsUnique(db, x)
        BY <2>4, <2>5, <3>2 DEF OwnInv
      <4>2. ASSUME NEW f \in Enrollment \ {x}, StudentOf[f] = StudentOf[x], LevelOf[f] = LevelOf[x],
                   n.status[f] \in Open
            PROVE  FALSE
        <5>1. n.status[f] # db.status[f]
          BY <4>1, <4>2 DEF IsUnique
        <5>2. IsUnique(n, f)
          BY <2>4, <4>2, <5>1 DEF Granted
        <5> QED BY <2>5, <4>2, <5>2 DEF IsUnique
      <4> QED BY <4>2 DEF IsUnique
    <3> QED BY <3>1, <3>2
  <2>6. \A x \in Enrollment : db'.status[x] \in Open => IsUnique(db', x)
    BY <2>3, <2>5 DEF IsUnique
  <2>7. ASSUME NEW a \in Assignment, NEW t \in Day PROVE db'.sessions[a][t] <= 1
    <3>1. <<a, t>> \in S => db.sessions[a][t] = 0
      BY <2>4 DEF Granted
    <3>2. db.sessions[a][t] <= 1
      BY <2>4 DEF OwnInv
    <3> QED BY <2>3, <3>1, <3>2
  <2>8. ASSUME NEW a \in Assignment PROVE UnitsRight(db', a) /\ TargetSet(db', a)
    <3>1. UnitsRight(n, a) /\ TargetSet(n, a)
      BY <2>4 DEF OwnInv, Granted
    <3> QED BY <2>3, <3>1 DEF UnitsRight, Units, TargetSet
  <2> QED BY <2>6, <2>7, <2>8 DEF OwnInv
<1>3. CASE \A c \in Client : ~Request(c)
  <2>1. SameSchool(db', db) /\ overlapped' = overlapped
    BY <1>1, <1>3, OtherSteps
  <2>2. OwnInv
    BY <2>1
  <2> QED BY <2>1, <2>2 DEF OwnInv, SameSchool, IsUnique, UnitsRight, Units, TargetSet
<1> QED
  BY <1>2, <1>3

\* As long as no transactions overlap, a student has one open enrollment of a level, no
\* session is generated twice, and an assignment weighs what its group counts.
THEOREM SerialHolds == Spec => []SerialInv
<1>1. Init => OwnInv
  BY DEF Init, OwnInv, Open, Unborn, UnitsRight, TargetSet
<1>2. OwnInv => (/\ \A e \in Enrollment : db.status[e] \in Open => IsUnique(db, e)
                 /\ \A a \in Assignment, t \in Day : db.sessions[a][t] <= 1
                 /\ \A a \in Assignment : db.work[a] # Unborn => db.units[a] = Units(db, a))
  BY DEF OwnInv, UnitsRight, TargetSet
<1>3. (~overlapped => OwnInv) => SerialInv
  BY <1>2 DEF SerialInv
<1> QED
  BY <1>1, <1>3, OwnInvStep, SchoolInvariant, PTL DEF Spec

LoadUnits(d, t) == UNION {{a} \X (1..d.units[a]) : a \in ActiveOf(d, t)}

LEMMA LoadType ==
  ASSUME NEW s \in Rows, NEW t
  PROVE  IsFiniteSet(LoadUnits(s, t)) /\ CurrentLoad(s, t) \in Nat
<1>1. ActiveOf(s, t) \subseteq Assignment /\ IsFiniteSet(ActiveOf(s, t))
  BY SchoolAssumption, FS_Subset DEF ActiveOf
<1>2. ASSUME NEW a \in Assignment PROVE IsFiniteSet({a} \X (1..s.units[a]))
  <2>1. s.units[a] \in Nat
    BY DEF Rows
  <2>2. IsFiniteSet({a})
    BY FS_Singleton
  <2>3. IsFiniteSet(1..s.units[a])
    BY <2>1, FS_Interval
  <2> QED BY <2>2, <2>3, FS_Product
<1>3. IsFiniteSet(LoadUnits(s, t))
  <2> DEFINE B == {{a} \X (1..s.units[a]) : a \in ActiveOf(s, t)}
             f == [a \in ActiveOf(s, t) |-> {a} \X (1..s.units[a])]
  <2>1. f \in [ActiveOf(s, t) -> B] /\ \A X \in B : \E a \in ActiveOf(s, t) : f[a] = X
    OBVIOUS
  <2>2. \A X \in B : IsFiniteSet(X)
    BY <1>1, <1>2
  <2>3. B = {{a} \X (1..s.units[a]) : a \in ActiveOf(s, t)}
    OBVIOUS
  <2> HIDE DEF B, f
  <2>4. f \in Surjection(ActiveOf(s, t), B)
    BY <2>1 DEF Surjection
  <2>5. IsFiniteSet(B)
    BY <1>1, <2>4, FS_Surjection
  <2>6. IsFiniteSet(UNION B)
    BY <2>2, <2>5, FS_UNION
  <2> QED BY <2>3, <2>6 DEF LoadUnits
<1> QED
  BY <1>3, FS_CardinalityType DEF CurrentLoad, LoadUnits

\* Who has no more assignments, and none of them heavier, has no more load.
LEMMA LighterLoad ==
  ASSUME NEW s \in Rows, NEW n \in Rows, NEW t, ActiveOf(n, t) \subseteq ActiveOf(s, t),
         \A a \in ActiveOf(n, t) : n.units[a] = s.units[a]
  PROVE  CurrentLoad(n, t) <= CurrentLoad(s, t)
<1>1. IsFiniteSet(LoadUnits(s, t))
  BY LoadType
<1>2. LoadUnits(n, t) \subseteq LoadUnits(s, t)
  BY DEF LoadUnits
<1> QED
  BY <1>1, <1>2, FS_Subset DEF CurrentLoad, LoadUnits

\* A request whose constraints passed overloads nobody who was not overloaded.
LEMMA GrantedBears ==
  ASSUME NEW s \in Rows, NEW n \in Rows, NEW S, NEW e, Granted(s, n, S, e),
         NEW t \in Teacher, Bears(s, t)
  PROVE  Bears(n, t)
<1>1. CASE \E a \in ActiveOf(n, t) :
             n.work[a] # s.work[a] \/ n.teacher[a] # s.teacher[a] \/ a \in Reweighed(s, n)
  BY <1>1 DEF Granted, AssignmentOk, ActiveOf
<1>2. CASE \A a \in ActiveOf(n, t) :
             n.work[a] = s.work[a] /\ n.teacher[a] = s.teacher[a] /\ a \notin Reweighed(s, n)
  <2>1. ActiveOf(n, t) \subseteq ActiveOf(s, t)
    BY <1>2 DEF ActiveOf
  <2>2. \A a \in ActiveOf(n, t) : n.units[a] = s.units[a]
    BY <1>2 DEF Granted, ActiveOf
  <2>3. CurrentLoad(n, t) <= CurrentLoad(s, t)
    BY <2>1, <2>2, LighterLoad
  <2>4. CurrentLoad(n, t) \in Nat /\ CurrentLoad(s, t) \in Nat /\ MaxLoad[t] \in Nat
    BY LoadType, SchoolAssumption
  <2> QED BY <2>3, <2>4 DEF Bears
<1> QED
  BY <1>1, <1>2

\* As long as no transactions overlap, no request overloads a teacher: not the one that
\* gives him an assignment, and not those that add students to the groups he has.
THEOREM NoOverload == Spec => []NeverOverloaded
<1> DEFINE Light == \A t \in Teacher : Bears(db, t)
<1>1. Init => Light
  <2> SUFFICES ASSUME Init, NEW t \in Teacher PROVE Bears(db, t)
    OBVIOUS
  <2>1. ActiveOf(db, t) = {}
    BY DEF Init, ActiveOf, Unborn
  <2>2. CurrentLoad(db, t) = 0
    <3>1. UNION {{a} \X (1..db.units[a]) : a \in ActiveOf(db, t)} = {}
      BY <2>1
    <3> QED BY <3>1, FS_EmptySet DEF CurrentLoad
  <2>3. MaxLoad[t] \in Nat
    BY SchoolAssumption
  <2> QED BY <2>2, <2>3 DEF Bears
<1>2. SchoolInv /\ (~overlapped => Light) /\ [Next]_vars => (~overlapped' => Light')
  <2> SUFFICES ASSUME SchoolInv, ~overlapped => Light, [Next]_vars, ~overlapped', NEW t \in Teacher
               PROVE  Bears(db', t)
    OBVIOUS
  <2>1. CountInv /\ today \in Nat /\ db \in Rows
    BY DEF SchoolInv, CountInv
  <2>2. ASSUME NEW c \in Client, Request(c) PROVE Bears(db', t)
    <3>1. PICK n, S, e : tx[c].open /\ Granted(tx[c].snap, n, S, e) /\ Commit(c, n, S)
      BY <2>1, <2>2, RequestGranted
    <3>2. n \in Rows
      BY <3>1 DEF Granted, Made
    <3>3. /\ ~overlapped /\ tx[c].snap = db
          /\ db'.work = n.work /\ db'.teacher = n.teacher /\ db'.units = n.units
      BY <2>1, <3>1, <3>2, SerialCommit
    <3>4. Bears(n, t)
      BY <2>1, <3>1, <3>2, <3>3, GrantedBears
    <3> QED BY <3>3, <3>4 DEF Bears, CurrentLoad, ActiveOf
  <2>3. CASE \A c \in Client : ~Request(c)
    <3>1. SameSchool(db', db) /\ overlapped' = overlapped
      BY <2>1, <2>3, OtherSteps
    <3> QED BY <3>1 DEF SameSchool, Bears, CurrentLoad, ActiveOf
  <2> QED BY <2>2, <2>3
<1>3. (~overlapped => Light) => NeverOverloaded
  BY DEF NeverOverloaded
<1> QED
  BY <1>1, <1>2, <1>3, SchoolInvariant, PTL DEF Spec
=============================================================================
