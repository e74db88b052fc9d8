------------------------------- MODULE School -------------------------------
(***************************************************************************)
(* Enrollments, class groups, assignments of teachers, generated sessions  *)
(* and fees of edu_islamic_complex.                                        *)
(*                                                                         *)
(* Each request of a user is a REPEATABLE READ transaction: the ORM        *)
(* recomputes the stored fields that depend on what is written, checks the *)
(* constraints of the fields written, and all of it sees the snapshot of   *)
(* the transaction's start.  The commit fails when a row it writes was     *)
(* written since; rows that were only read, and new rows, make no          *)
(* conflict.  A stored field that gets the value it had is not written.    *)
(*                                                                         *)
(* The student and the level of an enrollment, and the weekdays and the    *)
(* start of an assignment, are settled when it is created.                 *)
(***************************************************************************)
EXTENDS Integers, FiniteSets, FiniteSetsExt

CONSTANTS Student, Group, Teacher, Enrollment, Assignment, Invoice, Client,
          NoGroup,
          StudentOf,    \* per enrollment its student
          LevelOf,      \* per enrollment and per group its level
          Day,          \* the days of the calendar, 0 the first
          Dates,        \* per assignment the dates its recurrence comes to
          MaxLoad,      \* per teacher max_load, 0 for none
          MaxOverdue,   \* max_overdue_days, 0 when sessions are not blocked
          Capacity,     \* the capacities a group may be given, 0 for none
          EnrollmentStatus, AssignmentStatus,  \* the statuses that requests set
          DueDates,     \* the days on which invoices fall due
          MaxRequests   \* bound on the requests that change something

Unborn == "none"       \* of a record that does not exist yet

ASSUME SchoolAssumption ==
  /\ NoGroup \notin Group /\ Unborn \notin Student \cup Group
  /\ IsFiniteSet(Enrollment) /\ IsFiniteSet(Assignment)
  /\ Enrollment \cap Group = {} /\ Enrollment \cap Assignment = {}
  /\ Group \cap Assignment = {} /\ Student \cap Group = {}
  /\ StudentOf \in [Enrollment -> Student]
  /\ MaxLoad \in [Teacher -> Nat]
  /\ Day \subseteq Nat /\ DueDates \subseteq Day
  /\ MaxOverdue \in Nat /\ Capacity \subseteq Nat
  /\ EnrollmentStatus \subseteq {"draft", "active", "paused", "graduated", "cancelled"}
  /\ AssignmentStatus \subseteq {"draft", "active", "paused", "done", "cancelled"}

VARIABLES db,          \* the committed rows
          tx,          \* per client its transaction
          today,
          requests,
          overlapped   \* history: a transaction committed on an outdated snapshot

vars == <<db, tx, today, requests, overlapped>>

Open   == {"active", "paused"}

Idle == [open |-> FALSE]

Max0(n) == IF n > 0 THEN n ELSE 0

----------------------------------------------------------------------------
(* Fields                                                                  *)

Members(d, g) == {e \in Enrollment : d.group[e] = g /\ d.status[e] # Unborn}
ActiveIn(d, g) == {e \in Members(d, g) : d.status[e] = "active"}

\* _compute_load_units()
Units(d, a) ==
  IF d.target[a] \in Group THEN d.active[d.target[a]] ELSE 1

ActiveOf(d, t) == {a \in Assignment : d.work[a] = "active" /\ d.teacher[a] = t}

\* _compute_current_load(): the sum of their units, counted one by one
CurrentLoad(d, t) == Cardinality(UNION {{a} \X (1..d.units[a]) : a \in ActiveOf(d, t)})

\* The groups that the enrollments which n moves are or were in
Touched(s, n) ==
  {g \in Group : \E e \in Enrollment : /\ n.status[e] # s.status[e] \/ n.group[e] # s.group[e]
                                       /\ g \in {s.group[e], n.group[e]}}

\* The assignments whose load_units are computed again
Reweighed(s, n) ==
  {a \in Assignment : n.target[a] \in Touched(s, n) \/ n.target[a] # s.target[a]}

\* Mutant: the counts are not stored
RecomputeNoCounts(s, n) == n

\* The stored fields of n, which the writes of a transaction made of s
Recompute(s, n) ==
  LET counted == [n EXCEPT
        !.active = [g \in Group |-> IF g \in Touched(s, n) THEN Cardinality(ActiveIn(n, g)) ELSE @[g]],
        !.total  = [g \in Group |-> IF g \in Touched(s, n) THEN Cardinality(Members(n, g)) ELSE @[g]]]
  IN [counted EXCEPT !.units =
        [a \in Assignment |-> IF a \in Reweighed(s, n) THEN Units(counted, a) ELSE @[a]]]

----------------------------------------------------------------------------
(* Transactions                                                            *)

\* The rows in which s and n differ; sessions are only inserted
Changed(s, n) ==
  {e \in Enrollment : n.status[e] # s.status[e] \/ n.group[e] # s.group[e]}
  \cup {g \in Group : \/ n.capacity[g] # s.capacity[g]
                      \/ n.active[g] # s.active[g] \/ n.total[g] # s.total[g]}
  \cup {a \in Assignment : \/ n.work[a] # s.work[a] \/ n.teacher[a] # s.teacher[a]
                           \/ n.target[a] # s.target[a] \/ n.units[a] # s.units[a]}

\* The rows of W as in n, the sessions of S added
Merge(n, W, S) ==
  LET Pick(f, h) == [x \in DOMAIN f |-> IF x \in W THEN h[x] ELSE f[x]] IN
  [db EXCEPT !.status = Pick(@, n.status), !.group = Pick(@, n.group),
             !.capacity = Pick(@, n.capacity), !.active = Pick(@, n.active),
             !.total = Pick(@, n.total),
             !.work = Pick(@, n.work), !.teacher = Pick(@, n.teacher),
             !.target = Pick(@, n.target), !.units = Pick(@, n.units),
             !.sessions = [a \in Assignment |-> [t \in Day |->
                IF <<a, t>> \in S THEN @[a][t] + 1 ELSE @[a][t]]]]

Running == {c \in Client : tx[c].open}

MayRequest == requests + Cardinality(Running) < MaxRequests

Begin(c) ==
  /\ ~tx[c].open /\ MayRequest
  /\ tx' = [tx EXCEPT ![c] = [open |-> TRUE, snap |-> db, written |-> {}]]
  /\ UNCHANGED <<db, today, requests, overlapped>>

\* A ValidationError, a UserError or a serialization failure
Rollback(c) ==
  /\ tx[c].open
  /\ tx' = [tx EXCEPT ![c] = Idle]
  /\ UNCHANGED <<db, today, requests, overlapped>>

Wrote(c, W) ==
  [x \in Client |-> IF x = c THEN Idle
                    ELSE IF tx[x].open THEN [tx[x] EXCEPT !.written = @ \cup W] ELSE tx[x]]

\* Client c made n of its snapshot and created the sessions of S
Commit(c, n, S) ==
  LET W == Changed(tx[c].snap, n) IN
  /\ W \cap tx[c].written = {}
  /\ db' = Merge(n, W, S)
  /\ tx' = Wrote(c, W)
  /\ requests' = requests + 1
  /\ overlapped' = (overlapped \/ tx[c].snap # db)
  /\ UNCHANGED today

----------------------------------------------------------------------------
(* Constraints                                                             *)

\* EduEnrollment._check_capacity()
HasRoom(n, g) ==
  n.capacity[g] = 0 \/ Cardinality(ActiveIn(n, g)) <= n.capacity[g]

\* _check_unique_active()
IsUnique(n, e) ==
  \A f \in Enrollment \ {e} :
     StudentOf[f] = StudentOf[e] /\ LevelOf[f] = LevelOf[e] => n.status[f] \notin Open

\* _check_teacher_load()
Bears(n, t) == MaxLoad[t] = 0 \/ CurrentLoad(n, t) <= MaxLoad[t]

EnrollmentOk(s, n, e) ==
  /\ n.group[e] \in Group /\ n.group[e] # s.group[e] => LevelOf[e] = LevelOf[n.group[e]]
  /\ n.status[e] = "active" /\ n.group[e] \in Group => HasRoom(n, n.group[e])
  /\ n.status[e] \in Open /\ n.status[e] # s.status[e] => IsUnique(n, e)

\* Mutant: load_units is not among the fields of the constraint
WrittenOk(s, n, a) ==
  n.work[a] = "active" /\ (n.work[a] # s.work[a] \/ n.teacher[a] # s.teacher[a])
    => Bears(n, n.teacher[a])

\* Checked when the status or the teacher is written, and when the load_units are
\* computed again, as they are for the group of an enrollment
AssignmentOk(s, n, a) ==
  /\ n.work[a] = "active"
  /\ n.work[a] # s.work[a] \/ n.teacher[a] # s.teacher[a] \/ a \in Reweighed(s, n)
  => Bears(n, n.teacher[a])

AssignmentsOk(s, n) == \A a \in Assignment : AssignmentOk(s, n, a)

----------------------------------------------------------------------------
(* Requests                                                                *)

\* An enrollment is created or written
Enroll(c, e, st, g) ==
  LET s == tx[c].snap
      n == Recompute(s, [s EXCEPT !.status[e] = st, !.group[e] = g])
  IN /\ tx[c].open
     /\ s.status[e] # st \/ s.group[e] # g
     /\ EnrollmentOk(s, n, e) /\ AssignmentsOk(s, n)
     /\ Commit(c, n, {})

SetCapacity(c, g, k) ==
  /\ tx[c].open /\ k # tx[c].snap.capacity[g]
  /\ Commit(c, [tx[c].snap EXCEPT !.capacity[g] = k], {})

OverdueDays(d, e) == Max({d.days[i] : i \in {j \in Invoice : d.bill[j] = e}} \cup {0})

\* _compute_current_enrollment(): the first of these
Current(d, s) == {e \in Enrollment : StudentOf[e] = s /\ d.status[e] = "active"}

\* _block_if_overdue(), enrollment e being the first
Refused(d, a, e) ==
  /\ d.target[a] \in Student /\ Dates[a] # {}
  /\ MaxOverdue # 0 /\ e \in Current(d, d.target[a])
  /\ OverdueDays(d, e) > MaxOverdue

\* Which of them is the first is left open: the sessions come if one lets them, and a
\* Rollback stands for the UserError
Blocked(d, a) ==
  /\ Current(d, d.target[a]) # {}
  /\ \A e \in Current(d, d.target[a]) : Refused(d, a, e)

\* Mutant: the sessions that exist are not looked for
AllSessions(d, a) == {a} \X Dates[a]

\* _create_sessions_for_weekday()
NewSessions(d, a) == {x \in {a} \X Dates[a] : d.sessions[a][x[2]] = 0}

\* An assignment is created or written
Assign(c, a, t, x, st) ==
  LET s == tx[c].snap
      n == Recompute(s, [s EXCEPT !.teacher[a] = t, !.target[a] = x, !.work[a] = st])
      generates == st = "active" /\ s.work[a] # st
  IN /\ tx[c].open
     /\ s.work[a] # st \/ s.teacher[a] # t \/ s.target[a] # x
     /\ AssignmentsOk(s, n)
     /\ generates => ~Blocked(n, a)
     /\ Commit(c, n, IF generates THEN NewSessions(s, a) ELSE {})

\* The button, or a write of the status the assignment has
GenerateSessions(c, a) ==
  LET s == tx[c].snap IN
  /\ tx[c].open /\ s.work[a] = "active" /\ ~Blocked(s, a)
  /\ Commit(c, s, NewSessions(s, a))

\* The placement wizard: an enrollment and an assignment, or neither
Place(c, e, g, a, t) ==
  LET s == tx[c].snap
      x == IF g \in Group THEN g ELSE StudentOf[e]
      n == Recompute(s, [s EXCEPT !.status[e] = "active", !.group[e] = g,
                                  !.teacher[a] = t, !.target[a] = x, !.work[a] = "active"])
  IN /\ tx[c].open /\ s.status[e] = Unborn /\ s.work[a] = Unborn
     /\ EnrollmentOk(s, n, e) /\ AssignmentsOk(s, n) /\ ~Blocked(n, a)
     /\ Commit(c, n, NewSessions(s, a))

----------------------------------------------------------------------------
(* Fees.  One request at a time writes an invoice                          *)

\* _compute_overdue(), today
LateBy(due, owed) == IF owed THEN Max0(today - due) ELSE 0

\* Mutant: a new due date does not recompute the days
KeepsDays(i, e, due, owed) ==
  /\ MayRequest /\ requests' = requests + 1
  /\ db' = [db EXCEPT !.bill[i] = e, !.due[i] = due, !.owed[i] = owed,
                      !.days[i] = IF owed # db.owed[i] THEN LateBy(due, owed) ELSE @]
  /\ UNCHANGED <<tx, today, overlapped>>

WriteInvoice(i, e, due, owed) ==
  /\ MayRequest /\ requests' = requests + 1
  /\ db' = [db EXCEPT !.bill[i] = e, !.due[i] = due, !.owed[i] = owed,
                      !.days[i] = LateBy(due, owed)]
  /\ UNCHANGED <<tx, today, overlapped>>

CreateInvoice(i, e, due) ==
  db.bill[i] = Unborn /\ db.status[e] # Unborn /\ WriteInvoice(i, e, due, TRUE)

Settle(i) == db.owed[i] /\ WriteInvoice(i, db.bill[i], db.due[i], FALSE)

SetDueDate(i, due) ==
  db.bill[i] # Unborn /\ due # db.due[i] /\ WriteInvoice(i, db.bill[i], due, db.owed[i])

\* Nothing is recomputed when a day has passed; no request lasts into the next day
NextDay ==
  /\ today + 1 \in Day /\ Running = {}
  /\ today' = today + 1
  /\ UNCHANGED <<db, tx, requests, overlapped>>

----------------------------------------------------------------------------
Init ==
  /\ db \in [status:   {[e \in Enrollment |-> Unborn]},
             group:    {[e \in Enrollment |-> NoGroup]},
             capacity: [Group -> Capacity],
             active:   {[g \in Group |-> 0]},
             total:    {[g \in Group |-> 0]},
             work:     {[a \in Assignment |-> Unborn]},
             teacher:  {[a \in Assignment |-> Unborn]},
             target:   {[a \in Assignment |-> Unborn]},
             units:    {[a \in Assignment |-> 0]},
             sessions: {[a \in Assignment |-> [t \in Day |-> 0]]},
             bill:     {[i \in Invoice |-> Unborn]},
             due:      {[i \in Invoice |-> 0]},
             owed:     {[i \in Invoice |-> FALSE]},
             days:     {[i \in Invoice |-> 0]}]
  /\ tx = [c \in Client |-> Idle]
  /\ today = 0
  /\ requests = 0
  /\ overlapped = FALSE

Request(c) ==
  \/ \E e \in Enrollment, st \in EnrollmentStatus, g \in Group \cup {NoGroup} : Enroll(c, e, st, g)
  \/ \E g \in Group, k \in Capacity : SetCapacity(c, g, k)
  \/ \E a \in Assignment, t \in Teacher, x \in Student \cup Group, st \in AssignmentStatus :
       Assign(c, a, t, x, st)
  \/ \E a \in Assignment : GenerateSessions(c, a)
  \/ \E e \in Enrollment, g \in Group \cup {NoGroup}, a \in Assignment, t \in Teacher :
       Place(c, e, g, a, t)

Billing ==
  \E i \in Invoice :
     \/ \E e \in Enrollment, due \in DueDates : CreateInvoice(i, e, due)
     \/ Settle(i)
     \/ \E due \in DueDates : SetDueDate(i, due)

Next ==
  \/ \E c \in Client : Begin(c) \/ Rollback(c) \/ Request(c)
  \/ Billing
  \/ NextDay

Spec == Init /\ [][Next]_vars

----------------------------------------------------------------------------
(* Properties                                                              *)

\* The stored counts of a group are the numbers of its enrollments, although the
\* transactions that changed them overlapped (class_group.py, _compute_student_counts)
CountsRight ==
  \A g \in Group : /\ db.active[g] = Cardinality(ActiveIn(db, g))
                   /\ db.total[g] = Cardinality(Members(db, g))

\* The stored days of an invoice are days gone by, so sessions are refused only to a
\* student who owes an invoice that is overdue by more than the threshold, whichever of
\* his enrollments is the first (fees.py, _compute_overdue, which no day that passes
\* triggers; assignment.py, _block_if_overdue)
BlocksOnlyTheLate ==
  \A a \in Assignment, e \in Enrollment : Refused(db, a, e) =>
    \E i \in Invoice : /\ db.owed[i] /\ today - db.due[i] > MaxOverdue
                       /\ StudentOf[db.bill[i]] = db.target[a]

\* No step that adds a student to a group leaves it beyond the capacity it has by
\* then.  Each of two overlapping enrollments sees the group without the other; that
\* both write the stored count is what stops the second (enrollment.py, _check_capacity)
NeverOverbooked ==
  [][\A g \in Group :
       Cardinality(ActiveIn(db', g)) > Cardinality(ActiveIn(db, g))
         => HasRoom(db', g)]_vars

\* As long as no transactions overlap: a student has one open enrollment of a level, no
\* session is generated twice, and the load of a group is its count (enrollment.py,
\* _check_unique_active; assignment.py, _create_sessions_for_weekday, _compute_load_units)
SerialInv ==
  ~overlapped =>
    /\ \A e \in Enrollment : db.status[e] \in Open => IsUnique(db, e)
    /\ \A a \in Assignment, t \in Day : db.sessions[a][t] <= 1
    /\ \A a \in Assignment : db.work[a] # Unborn => db.units[a] = Units(db, a)

\* As long as no transactions overlap, nobody's load is beyond what he bears.  The load
\* grows by requests that name no teacher, of which each student enrolled in his group
\* is one (assignment.py, _check_teacher_load on the load_units computed again)
NeverOverloaded == ~overlapped => \A t \in Teacher : Bears(db, t)
=============================================================================
