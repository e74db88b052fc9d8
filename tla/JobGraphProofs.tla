--------------------------- MODULE JobGraphProofs ---------------------------
(***************************************************************************)
(* A job of a graph is started only after each of its parents was done,    *)
(* for every graph, any number of workers and users, and whatever the      *)
(* users ask.  The invariant speaks of the snapshots as well: what a       *)
(* transaction reads is old, and a job that was done stays in wasDone.     *)
(***************************************************************************)
EXTENDS JobGraph, TLAPS

\* A committed transaction keeps the invariant when each row it writes is in order
\* and the one that follows begins with a snapshot that is.
LEMMA WriteKeepsOrder ==
  ASSUME OrderInv, NEW c \in Client, NEW S \in SUBSET Job, NEW st, NEW next,
         Write(c, S, st, next),
         \A v \in S : /\ st[v] \in State
                      /\ st[v] \in {"pending", "started"} => Parents[v] \subseteq wasDone',
         next \in Transactions,
         (\A u \in Job : /\ next.snap[u] = "done" => u \in wasDone'
                         /\ next.snap[u] \in {"pending", "started"} => Parents[u] \subseteq wasDone'),
         asks' \in Nat
  PROVE  OrderInv'
<1>1. wasDone \subseteq wasDone' /\ wasDone' \subseteq Job
  BY DEF Write, OrderInv, TypeOK
<1>2. state' \in [Job -> State]
  BY DEF Write, OrderInv, TypeOK
<1>3. \A v \in Job : state'[v] = IF v \in S THEN st[v] ELSE state[v]
  BY DEF Write
<1>4. \A v \in S : st[v] = "done" => v \in wasDone'
  BY DEF Write
<1>5. OnlyAfterParents'
  BY <1>1, <1>3, <1>4 DEF OrderInv, OnlyAfterParents, ParentsWereDone
<1>6. \A x \in Client : /\ tx'[x].snap = IF x = c THEN next.snap ELSE tx[x].snap
                        /\ tx'[x] \in Transactions
  <2> SUFFICES ASSUME NEW x \in Client
               PROVE  /\ tx'[x].snap = IF x = c THEN next.snap ELSE tx[x].snap
                      /\ tx'[x] \in Transactions
    OBVIOUS
  <2>1. CASE x = c
    BY <2>1 DEF Write
  <2>2. CASE x # c
    <3>1. tx'[x] = [tx[x] EXCEPT !.written = @ \cup S]
      BY <2>2 DEF Write
    <3>2. tx[x] \in Transactions
      BY DEF OrderInv, TypeOK
    <3> QED BY <2>2, <3>1, <3>2 DEF Transactions, TxFields
  <2> QED BY <2>1, <2>2
<1>7. DOMAIN tx' = Client
  BY DEF Write
<1>8. \A x \in Client : ParentsWereDone(tx[x].snap)'
  <2> SUFFICES ASSUME NEW x \in Client PROVE ParentsWereDone(tx[x].snap)'
    OBVIOUS
  <2>1. ParentsWereDone(tx[x].snap)
    BY DEF OrderInv
  <2>2. CASE x = c
    BY <1>6, <2>2 DEF ParentsWereDone
  <2>3. CASE x # c
    BY <1>1, <1>6, <2>1, <2>3 DEF ParentsWereDone
  <2> QED BY <2>2, <2>3
<1> QED
  BY <1>1, <1>2, <1>5, <1>6, <1>7, <1>8 DEF OrderInv, TypeOK

\* A transaction that begins or ends without writing keeps the invariant.
LEMMA GoesKeepsOrder ==
  ASSUME OrderInv, NEW c \in Client, NEW next, Goes(c, next),
         next \in Transactions,
         ParentsWereDone(next.snap), asks' \in Nat
  PROVE  OrderInv'
<1>1. state' = state /\ wasDone' = wasDone
  BY DEF Goes
<1>2. \A x \in Client : tx'[x] = IF x = c THEN next ELSE tx[x]
  BY DEF Goes, OrderInv, TypeOK
<1>3. DOMAIN tx' = Client
  BY DEF Goes, OrderInv, TypeOK
<1>4. \A x \in Client : ParentsWereDone(tx[x].snap)'
  BY <1>1, <1>2 DEF OrderInv, ParentsWereDone
<1> QED
  BY <1>1, <1>2, <1>3, <1>4 DEF OrderInv, TypeOK, OnlyAfterParents, ParentsWereDone

\* The transaction of an idle client is of the right type, and in order.
LEMMA NoTxInOrder ==
  /\ NoTx \in Transactions /\ NoTx.at = "idle" /\ NoTx.snap = Created
  /\ \A u \in Job : Created[u] # "done" /\ Created[u] # "started"
                    /\ (Created[u] = "pending" => Parents[u] = {})
  BY DEF NoTx, Transactions, TxFields, Created, State

\* The dependents that a client resolves, on a snapshot that is in order but for
\* the job it has just done, have parents that were done.
LEMMA ResolvedInOrder ==
  ASSUME NEW st, NEW u \in Job, NEW D, NEW v \in Resolved(st, u, "done"),
         \A p \in Job : st[p] = "done" => p \in D
  PROVE  Parents[v] \subseteq D
  BY GraphAssumption DEF Resolved

\* What the wizards and buttons that decide a job write is in order.
LEMMA DecidedInOrder ==
  ASSUME OrderInv, NEW c \in Client, tx[c].at = "asking",
         NEW s \in {"done", "cancelled"}, NEW t \in {"pending", "cancelled"},
         s = "done" \/ t = "cancelled",
         NEW D, wasDone \subseteq D, s = "done" => tx[c].job \in D
  PROVE  LET d == Decided(c, s, t) IN
           /\ d.rows \subseteq Job
           /\ \A v \in d.rows : /\ d.st[v] \in State
                                /\ d.st[v] \in {"pending", "started"} => Parents[v] \subseteq D
<1> DEFINE u  == tx[c].job
           st == [tx[c].snap EXCEPT ![u] = s]
           S  == Resolved(st, u, s)
           d  == Decided(c, s, t)
<1>1. u \in Job /\ tx[c].snap \in [Job -> State] /\ ParentsWereDone(tx[c].snap)
  BY DEF OrderInv, TypeOK, Transactions, TxFields
<1>2. d.rows = {u} \cup S /\ d.st = [v \in Job |-> IF v \in S THEN t ELSE st[v]]
  BY DEF Decided
<1>3. S \subseteq Job
  BY DEF Resolved
<1>4. st[u] = s /\ \A p \in Job : st[p] = "done" => p \in D
  BY <1>1 DEF ParentsWereDone
<1>5. ASSUME NEW v \in S, t = "pending" PROVE Parents[v] \subseteq D
  <2>1. s = "done"
    BY <1>5
  <2> QED BY <2>1, <1>1, <1>4, <1>5, ResolvedInOrder
<1>6. ASSUME NEW v \in d.rows
      PROVE  /\ d.st[v] \in State
             /\ d.st[v] \in {"pending", "started"} => Parents[v] \subseteq D
  <2>1. CASE v \in S
    <3>1. d.st[v] = t
      BY <1>2, <1>3, <2>1
    <3> QED BY <3>1, <1>5, <2>1 DEF State
  <2>2. CASE v \notin S
    <3>1. v = u /\ d.st[v] = s
      BY <1>1, <1>2, <1>4, <1>6, <2>2
    <3> QED BY <3>1 DEF State
  <2> QED BY <2>1, <2>2
<1> QED
  BY <1>1, <1>2, <1>3, <1>6

LEMMA OrderInvStep == OrderInv /\ [Next]_vars => OrderInv'
<1> SUFFICES ASSUME OrderInv, [Next]_vars PROVE OrderInv'
  OBVIOUS
<1>1. \A c \in Client : /\ tx[c] \in Transactions /\ tx[c].snap \in [Job -> State]
                        /\ ParentsWereDone(tx[c].snap)
                        /\ tx[c].at # "idle" => tx[c].job \in Job
                        /\ tx[c].at = "asking" => tx[c].ask \in Asks
  BY DEF OrderInv, TypeOK, Transactions, TxFields
<1>2. state \in [Job -> State] /\ ParentsWereDone(state) /\ asks \in Nat /\ wasDone \subseteq Job
  BY DEF OrderInv, OnlyAfterParents, TypeOK
<1>3. ASSUME NEW w \in Worker, NEW u \in Job, Start(w, u) PROVE OrderInv'
  <2> DEFINE st   == [state EXCEPT ![u] = "started"]
             next == Begin("performing", "none", u, st)
  <2>1. Write(w, {u}, st, next) /\ asks' = asks /\ state[u] = "pending" /\ w \in Client
    BY <1>3 DEF Start, Client
  <2>2. next \in Transactions /\ next.job = u /\ next.snap = st
    BY <1>2, NoTxInOrder DEF Begin, Transactions, TxFields, NoTx, State
  <2>3. \A v \in Job : st[v] = IF v = u THEN "started" ELSE state[v]
    BY <1>2
  <2>4. Parents[u] \subseteq wasDone /\ wasDone \subseteq wasDone'
    BY <1>2, <2>1 DEF ParentsWereDone, Write
  <2>5. \A v \in Job : /\ st[v] = "done" => v \in wasDone'
                       /\ st[v] \in {"pending", "started"} => Parents[v] \subseteq wasDone'
    BY <1>2, <2>3, <2>4 DEF ParentsWereDone
  <2> HIDE DEF st, next
  <2> QED BY <1>2, <2>1, <2>2, <2>3, <2>4, <2>5, WriteKeepsOrder DEF State
<1>4. ASSUME NEW w \in Worker, NEW s \in {"done", "failed"}, NEW next,
             tx[w].at = "performing",
             Write(w, {tx[w].job}, [state EXCEPT ![tx[w].job] = s], next),
             next \in Transactions, next.snap = Created,
             UNCHANGED asks
      PROVE  OrderInv'
  <2>1. w \in Client /\ tx[w].job \in Job /\ [state EXCEPT ![tx[w].job] = s][tx[w].job] = s
    BY <1>1, <1>2, <1>4 DEF Client
  <2>2. \A u \in Job : /\ next.snap[u] = "done" => u \in wasDone'
                       /\ next.snap[u] \in {"pending", "started"} => Parents[u] \subseteq wasDone'
    BY <1>4, NoTxInOrder
  <2>3. {tx[w].job} \in SUBSET Job
    BY <2>1
  <2>4. \A v \in {tx[w].job} :
          LET st == [state EXCEPT ![tx[w].job] = s] IN
          /\ st[v] \in State
          /\ st[v] \in {"pending", "started"} => Parents[v] \subseteq wasDone'
    BY <2>1 DEF State
  <2>5. asks' \in Nat
    BY <1>2, <1>4
  <2> QED BY <1>4, <2>1, <2>2, <2>3, <2>4, <2>5, WriteKeepsOrder
<1>5. ASSUME NEW w \in Worker, Done(w) PROVE OrderInv'
  <2> DEFINE next == Begin("done", "none", tx[w].job, Created)
  <2>1. tx[w].at = "performing" /\ tx[w].job \in Job
    BY <1>1, <1>5 DEF Done, Client
  <2>2. next \in Transactions /\ next.snap = Created /\ next.job \in Job
    BY <2>1, NoTxInOrder DEF Begin, Transactions, TxFields, State
  <2> QED BY <1>4, <1>5, <2>1, <2>2 DEF Done
<1>6. ASSUME NEW w \in Worker, Fail(w) PROVE OrderInv'
  BY <1>4, <1>6, NoTxInOrder DEF Fail
<1>7. ASSUME NEW w \in Worker, Postpone(w) PROVE OrderInv'
  <2> DEFINE u == tx[w].job
             s == PendingState(tx[w].snap, u)
  <2>1. w \in Client /\ u \in Job /\ [state EXCEPT ![u] = s][u] = s
    BY <1>1, <1>2, <1>7 DEF Postpone, Client
  <2>2. s \in State /\ (s = "pending" => Parents[u] \subseteq wasDone) /\ s # "started"
    BY <1>1, <2>1, GraphAssumption DEF PendingState, State, ParentsWereDone
  <2>3. wasDone \subseteq wasDone' /\ asks' = asks /\ Write(w, {u}, [state EXCEPT ![u] = s], NoTx)
    BY <1>7 DEF Postpone, Write
  <2>4. \A v \in Job : /\ NoTx.snap[v] = "done" => v \in wasDone'
                       /\ NoTx.snap[v] \in {"pending", "started"} => Parents[v] \subseteq wasDone'
    BY NoTxInOrder
  <2>5. {u} \in SUBSET Job /\ asks' \in Nat
    BY <1>2, <2>1, <2>3
  <2>6. \A v \in {u} :
          LET st == [state EXCEPT ![u] = s] IN
          /\ st[v] \in State
          /\ st[v] \in {"pending", "started"} => Parents[v] \subseteq wasDone'
    BY <2>1, <2>2, <2>3
  <2> HIDE DEF u, s
  <2> QED BY <2>1, <2>3, <2>4, <2>5, <2>6, NoTxInOrder, WriteKeepsOrder
<1>8. ASSUME NEW c \in Client, Goes(c, NoTx), asks' \in Nat PROVE OrderInv'
  BY <1>8, NoTxInOrder, GoesKeepsOrder DEF ParentsWereDone
<1>9. ASSUME NEW c \in Client, NEW at \in {"enqueueing", "asking"}, NEW u \in Job,
             NEW ask \in Asks \cup {"none"}, at = "asking" => ask \in Asks,
             Goes(c, Begin(at, ask, u, state)), asks' \in Nat
      PROVE  OrderInv'
  <2> DEFINE next == Begin(at, ask, u, state)
  <2>1. next \in Transactions /\ next.job = u /\ next.snap = state
    BY <1>2, <1>9 DEF Begin, Transactions, TxFields
  <2> HIDE DEF next
  <2> QED BY <1>2, <1>9, <2>1, GoesKeepsOrder DEF next
<1>10. ASSUME NEW w \in Worker, EnqueueWaiting(w) PROVE OrderInv'
  <2>1. w \in Client /\ tx[w].job \in Job
    BY <1>1, <1>10 DEF EnqueueWaiting, Client
  <2>2. asks' \in Nat /\ Goes(w, Begin("enqueueing", "none", tx[w].job, state))
    BY <1>2, <1>10 DEF EnqueueWaiting
  <2> QED BY <1>9, <2>1, <2>2
<1>11. ASSUME NEW w \in Worker, EnqueueDependentJobs(w) PROVE OrderInv'
  <2> DEFINE S == Resolved(tx[w].snap, tx[w].job, "done")
  <2>1. w \in Client /\ tx[w].job \in Job /\ S \subseteq Job /\ asks' = asks
    BY <1>1, <1>11 DEF EnqueueDependentJobs, Client, Resolved
  <2>2. CASE Goes(w, NoTx)
    BY <1>2, <1>8, <2>1, <2>2
  <2>3. CASE Write(w, S, [v \in Job |-> "pending"], NoTx)
    <3>1. wasDone \subseteq wasDone'
      BY <2>3 DEF Write
    <3>2. \A v \in S : Parents[v] \subseteq wasDone'
      <4>1. \A p \in Job : tx[w].snap[p] = "done" => p \in wasDone'
        BY <1>1, <2>1, <3>1 DEF ParentsWereDone
      <4> QED BY <2>1, <4>1, ResolvedInOrder
    <3>3. \A v \in Job : /\ NoTx.snap[v] = "done" => v \in wasDone'
                         /\ NoTx.snap[v] \in {"pending", "started"} => Parents[v] \subseteq wasDone'
      BY NoTxInOrder
    <3> HIDE DEF S
    <3> QED BY <1>2, <2>1, <2>3, <3>2, <3>3, NoTxInOrder, WriteKeepsOrder DEF State
  <2> QED BY <1>11, <2>2, <2>3 DEF EnqueueDependentJobs
<1>12. ASSUME NEW c \in User, NEW ask \in Asks, NEW u \in Job, Ask(c, ask, u) PROVE OrderInv'
  BY <1>2, <1>9, <1>12 DEF Ask, Client
<1>13. ASSUME NEW c \in User, Commit(c) PROVE OrderInv'
  <2>1. c \in Client /\ tx[c].at = "asking" /\ tx[c].job \in Job /\ asks' = asks
    BY <1>1, <1>13 DEF Commit, Client
  <2>2. \A v \in Job : /\ NoTx.snap[v] = "done" => v \in wasDone'
                       /\ NoTx.snap[v] \in {"pending", "started"} => Parents[v] \subseteq wasDone'
    BY NoTxInOrder
  <2>3. ASSUME NEW S \in SUBSET Job, NEW st, Write(c, S, st, NoTx),
               \A v \in S : /\ st[v] \in State
                            /\ st[v] \in {"pending", "started"} => Parents[v] \subseteq wasDone'
        PROVE  OrderInv'
    BY <1>2, <2>1, <2>2, <2>3, NoTxInOrder, WriteKeepsOrder
  <2>4. wasDone \subseteq wasDone'
    BY <1>13 DEF Commit, Write
  <2>5. Write(c, Change(c).rows, Change(c).st, NoTx)
    BY <1>13 DEF Commit
  <2>6. CASE tx[c].ask \in {"button_done", "wizard_done"}
    <3> DEFINE d == Decided(c, "done", "pending")
    <3>1. Change(c) = d
      BY <2>6 DEF Change
    <3>2. tx[c].job \in d.rows /\ d.st[tx[c].job] = "done"
      BY <1>1, <2>1 DEF Decided, Resolved
    <3>3. tx[c].job \in wasDone'
      BY <2>5, <3>1, <3>2 DEF Write
    <3>4. /\ d.rows \subseteq Job
          /\ \A v \in d.rows : /\ d.st[v] \in State
                               /\ d.st[v] \in {"pending", "started"} => Parents[v] \subseteq wasDone'
      BY <2>1, <2>4, <3>3, DecidedInOrder
    <3> HIDE DEF d
    <3> QED BY <2>3, <2>5, <3>1, <3>4
  <2>7. CASE tx[c].ask = "button_cancelled"
    <3> DEFINE d == Decided(c, "cancelled", "cancelled")
    <3>1. Change(c) = d
      BY <2>7 DEF Change
    <3>2. /\ d.rows \subseteq Job
          /\ \A v \in d.rows : /\ d.st[v] \in State
                               /\ d.st[v] \in {"pending", "started"} => Parents[v] \subseteq wasDone'
      BY <2>1, <2>4, DecidedInOrder
    <3> HIDE DEF d
    <3> QED BY <2>3, <2>5, <3>1, <3>2
  <2>8. CASE tx[c].ask = "requeue"
    <3> DEFINE u  == tx[c].job
               S  == Change(c).rows
               st == Change(c).st
    <3>1. S \subseteq {u} /\ st = [tx[c].snap EXCEPT ![u] = PendingState(tx[c].snap, u)]
      BY <2>8 DEF Change
    <3>2. st[u] = PendingState(tx[c].snap, u)
      BY <1>1, <2>1, <3>1
    <3>3. /\ PendingState(tx[c].snap, u) \in State \ {"started"}
          /\ PendingState(tx[c].snap, u) = "pending" => Parents[u] \subseteq wasDone
      BY <1>1, <2>1, GraphAssumption DEF PendingState, State, ParentsWereDone
    <3> HIDE DEF S, st
    <3>4. \A v \in S : /\ st[v] \in State
                       /\ st[v] \in {"pending", "started"} => Parents[v] \subseteq wasDone'
      BY <2>4, <3>1, <3>2, <3>3
    <3>5. S \in SUBSET Job
      BY <2>1, <3>1
    <3> QED BY <2>3, <2>5, <3>4, <3>5 DEF S, st
  <2>9. CASE tx[c].ask = "edit"
    <3>1. Change(c).rows = {tx[c].job} /\ Change(c).st = tx[c].snap
      BY <2>9 DEF Change
    <3>2. \A v \in {tx[c].job} :
             /\ tx[c].snap[v] \in State
             /\ tx[c].snap[v] \in {"pending", "started"} => Parents[v] \subseteq wasDone'
      BY <1>1, <2>1, <2>4 DEF ParentsWereDone
    <3>3. {tx[c].job} \in SUBSET Job
      BY <2>1
    <3> QED BY <2>3, <2>5, <3>1, <3>2, <3>3
  <2> QED BY <1>1, <2>1, <2>6, <2>7, <2>8, <2>9, GraphAssumption
<1>14. ASSUME NEW c \in User, Retry(c) PROVE OrderInv'
  <2> DEFINE next == Begin("asking", tx[c].ask, tx[c].job, state)
  <2>1. c \in Client /\ Goes(c, next) /\ asks' = asks
    BY <1>14 DEF Retry, Client
  <2>2. next \in Transactions /\ next.snap = state
    BY <1>1, <1>2, <1>14, <2>1 DEF Retry, Begin, Transactions, TxFields
  <2> HIDE DEF next
  <2> QED BY <1>2, <2>1, <2>2, GoesKeepsOrder
<1>15. CASE UNCHANGED vars
  BY <1>15 DEF vars, OrderInv, TypeOK, OnlyAfterParents, ParentsWereDone
<1> QED
  BY <1>3, <1>5, <1>6, <1>7, <1>10, <1>11, <1>12, <1>13, <1>14, <1>15
     DEF Next, WorkerStep, UserStep

LEMMA OrderInvInit == Init => OrderInv
<1> SUFFICES ASSUME Init PROVE OrderInv
  OBVIOUS
<1>1. ParentsWereDone(Created)
  BY NoTxInOrder DEF ParentsWereDone
<1>2. Created \in [Job -> State]
  BY DEF Created, State
<1> QED BY <1>1, <1>2, NoTxInOrder DEF Init, OrderInv, TypeOK, OnlyAfterParents

\* Whatever transactions run at the same time, a job of a graph is ready or runs only
\* after each of its parents was done.
THEOREM JobsFollowTheirParents == Spec => []OrderInv
  BY OrderInvInit, OrderInvStep, PTL DEF Spec

(***************************************************************************)
(* Workers forget no job that users leave alone: ForgetInv is inductive    *)
(* together with OrderInv, whose type invariant it needs.                  *)
(***************************************************************************)

\* The jobs related to one that is left alone are left alone, and related alike.
LEMMA FamilyIsShared ==
  ASSUME NEW v \in Job, NEW x \in Job, LeftAlone(v), Related(x, v)
  PROVE  /\ Parents[x] = Parents[v] /\ Parents[x] # {} /\ Parents[v] # {}
         /\ LeftAlone(x) /\ Related(v, x)
<1>1. Parents[x] = Parents[v] /\ Parents[x] # {}
  BY DEF LeftAlone, Related
<1>2. \A y \in Job : Related(y, x) <=> Related(y, v)
  BY <1>1 DEF Related
<1>3. Family(x) = Family(v)
  BY <1>1, <1>2 DEF Family
<1> QED
  BY <1>1, <1>2, <1>3 DEF LeftAlone, Related

\* As users touch more and more rows, a job that is left alone was left alone before;
\* it, its parents and its siblings are untouched.
LEMMA LeftAloneLasts ==
  ASSUME NEW v \in Job, touched \subseteq touched', LeftAlone(v)'
  PROVE  /\ LeftAlone(v)
         /\ \A p \in Parents[v] : p \notin touched'
         /\ \A x \in Job : Related(x, v) => x \notin touched' /\ LeftAlone(x)'
         /\ Parents[v] # {} => Related(v, v) /\ v \notin touched'
<1>1. LeftAlone(v)
  BY DEF LeftAlone, Family, Related
<1>2. Family(v) \cap touched' = {}
  BY DEF LeftAlone, Family, Related
<1>3. \A x \in Job : Related(x, v) => LeftAlone(x)'
  <2> SUFFICES ASSUME NEW x \in Job, Related(x, v) PROVE LeftAlone(x)'
    OBVIOUS
  <2>1. Parents[x] = Parents[v]
    BY <1>1 DEF LeftAlone
  <2>2. (\A y \in Job : Related(y, x) => Parents[y] = Parents[x]) /\ Family(x) = Family(v)
    BY <1>1, <2>1 DEF LeftAlone, Related, Family
  <2> QED BY <1>2, <2>2 DEF LeftAlone, Family, Related
<1> QED
  BY <1>1, <1>2, <1>3 DEF Family, Related

\* In the state in which a graph is created, the jobs of a family wait together.
LEMMA CreatedTogether ==
  ASSUME NEW v \in Job, Parents[v] # {}, LeftAlone(v)
  PROVE  Together(Created, v) /\ Created[v] = "wait_dependencies"
<1>1. \A x \in Job : Related(x, v) => Created[x] = "wait_dependencies"
  BY FamilyIsShared DEF Created
<1>2. Created[v] = "wait_dependencies"
  BY DEF Created
<1> QED
  BY <1>1, <1>2 DEF Together

LEMMA ForgetInit == Init => ForgetInv
<1> SUFFICES ASSUME Init PROVE ForgetInv
  OBVIOUS
<1>1. state = Created /\ \A c \in Client : tx[c] = NoTx
  BY DEF Init
<1>2. NoTx.at = "idle" /\ NoTx.snap = Created
  BY DEF NoTx
<1>3. SnapshotsHold /\ OneWorker /\ \A c \in Client : ~Reads(c)
  BY <1>1, <1>2 DEF SnapshotsHold, OneWorker, Reads, Client
<1>4. DoneForGood
  BY <1>1, <1>2, NoTxInOrder DEF DoneForGood
<1>5. ASSUME NEW v \in Job, Parents[v] # {}, LeftAlone(v)
      PROVE  FamilyInv(v) /\ ~AllDone(v)
  <2>1. FamilyInv(v)
    BY <1>1, <1>2, <1>3, <1>5, CreatedTogether DEF FamilyInv
  <2>2. ~AllDone(v)
    BY <1>1, <1>5, NoTxInOrder, GraphAssumption DEF AllDone
  <2> QED BY <2>1, <2>2
<1> QED
  BY <1>3, <1>4, <1>5 DEF ForgetInv

\* What a transaction must respect for its writes to keep the invariant.
Respects(c, S, st, next) ==
  /\ next.snap \in {state', Created} /\ next.written = {}
  /\ next.at \in {"performing", "enqueueing", "asking"} => next.snap = state'
  /\ next.at = "performing" => next.job \in S /\ st[next.job] = "started" /\ state[next.job] # "started"
  /\ \A x \in S : x \notin touched' =>
       /\ state[x] # "done"
       /\ state[x] = "started" => c \in Worker /\ tx[c].at = "performing" /\ tx[c].job = x
       /\ st[x] = "done" => c \in Worker /\ next.at = "done" /\ next.job = x
  /\ \A x \in S : Parents[x] # {} /\ LeftAlone(x)' =>
       /\ st[x] # "wait_dependencies"
       /\ \A p \in Parents[x] : state[p] = "done"
       /\ state[x] = "wait_dependencies" => \A v \in Job : Related(v, x) => v \in S
  /\ tx[c].at # "done"
  /\ tx[c].at = "enqueueing" => Resolved(tx[c].snap, tx[c].job, "done") \subseteq S

LEMMA WriteForgetsNone ==
  ASSUME OrderInv, ForgetInv, NEW c \in Client, NEW S \in SUBSET Job, NEW st, NEW next,
         Write(c, S, st, next), next \in Transactions, touched \subseteq touched',
         Respects(c, S, st, next)
  PROVE  ForgetInv'
<1>1. \A v \in Job : state'[v] = IF v \in S THEN st[v] ELSE state[v]
  BY DEF Write
<1>2. /\ tx'[c] = next
      /\ \A x \in Client : x # c => /\ tx'[x].at = tx[x].at /\ tx'[x].job = tx[x].job
                                    /\ tx'[x].snap = tx[x].snap
                                    /\ tx'[x].written = tx[x].written \cup S
  <2>1. tx'[c] = next
    BY DEF Write
  <2>2. ASSUME NEW x \in Client, x # c
        PROVE  /\ tx'[x].at = tx[x].at /\ tx'[x].job = tx[x].job
               /\ tx'[x].snap = tx[x].snap /\ tx'[x].written = tx[x].written \cup S
    <3>1. tx'[x] = [tx[x] EXCEPT !.written = @ \cup S]
      BY <2>2 DEF Write
    <3>2. tx[x] \in TxFields
      BY DEF OrderInv, TypeOK, Transactions
    <3> QED BY <3>1, <3>2 DEF TxFields
  <2> QED BY <2>1, <2>2
<1>3. Worker \subseteq Client
  BY DEF Client
<1>4. /\ next.snap \in {state', Created} /\ next.written = {}
      /\ next.at \in {"performing", "enqueueing", "asking"} => next.snap = state'
  BY DEF Respects
<1>5. SnapshotsHold'
  <2> SUFFICES ASSUME NEW x \in Client, NEW v \in Job, Reads(x)', v \notin tx'[x].written
               PROVE  tx'[x].snap[v] = state'[v]
    BY DEF SnapshotsHold
  <2>1. CASE x = c
    BY <1>2, <1>4, <2>1 DEF Reads
  <2>2. CASE x # c
    BY <1>1, <1>2, <2>2 DEF Reads, ForgetInv, SnapshotsHold
  <2> QED BY <2>1, <2>2
<1>6. OneWorker'
  <2> SUFFICES ASSUME NEW w \in Worker, tx'[w].at = "performing", tx'[w].job \notin touched'
               PROVE  /\ state'[tx'[w].job] = "started" /\ tx'[w].snap[tx'[w].job] = "started"
                      /\ \A x \in Worker : tx'[x].at = "performing" /\ tx'[x].job = tx'[w].job
                                           => x = w
    BY DEF OneWorker
  <2> DEFINE u == tx'[w].job
  <2>1. tx'[w] \in Transactions \/ w # c
    BY <1>2
  <2>2. ASSUME NEW x \in Worker, x # c, tx'[x].at = "performing", tx'[x].job = u
        PROVE  /\ tx[x].at = "performing" /\ tx[x].job = u /\ u \in Job
               /\ state[u] = "started" /\ tx[x].snap[u] = "started"
               /\ u \notin S
               /\ \A y \in Worker : tx[y].at = "performing" /\ tx[y].job = u => y = x
    <3>1. tx[x].at = "performing" /\ tx[x].job = u
      BY <1>2, <1>3, <2>2
    <3>2. u \in Job /\ u \notin touched
      BY <1>3, <3>1 DEF OrderInv, TypeOK, Transactions, TxFields
    <3>3. /\ state[u] = "started" /\ tx[x].snap[u] = "started"
          /\ \A y \in Worker : tx[y].at = "performing" /\ tx[y].job = u => y = x
      BY <3>1, <3>2 DEF ForgetInv, OneWorker
    <3>4. u \notin S
      BY <2>2, <3>3 DEF Respects
    <3> QED BY <3>1, <3>2, <3>3, <3>4
  <2>3. CASE w # c
    <3>1. state'[u] = "started" /\ tx'[w].snap[u] = "started"
      BY <1>1, <1>2, <1>3, <2>2, <2>3
    <3>2. ASSUME NEW x \in Worker, tx'[x].at = "performing", tx'[x].job = u PROVE x = w
      <4>1. CASE x = c
        <5>1. u \in S
          BY <1>2, <3>2, <4>1 DEF Respects
        <5> QED BY <5>1, <2>2, <2>3
      <4>2. CASE x # c
        BY <2>2, <2>3, <3>2, <4>2
      <4> QED BY <4>1, <4>2
    <3> QED BY <3>1, <3>2
  <2>4. CASE w = c
    <3>1. u = next.job /\ next.at = "performing"
      BY <1>2, <2>4
    <3>2. u \in S /\ st[u] = "started"
      BY <3>1 DEF Respects
    <3>3. state'[u] = "started" /\ tx'[w].snap[u] = "started"
      BY <1>1, <1>2, <1>4, <2>4, <3>1, <3>2
    <3> QED BY <2>2, <2>4, <3>2, <3>3
  <2> QED BY <2>3, <2>4
<1>7. DoneForGood'
  <2> SUFFICES ASSUME NEW x \in Client, NEW u \in Job, u \notin touched', tx'[x].snap[u] = "done"
               PROVE  state'[u] = "done"
    BY DEF DoneForGood
  <2>1. CASE x = c
    BY <1>2, <1>4, <2>1, NoTxInOrder
  <2>2. CASE x # c
    <3>1. state[u] = "done"
      BY <1>2, <2>2 DEF ForgetInv, DoneForGood
    <3>2. u \notin S
      BY <3>1 DEF Respects
    <3> QED BY <1>1, <3>1, <3>2
  <2> QED BY <2>1, <2>2
<1>8. ASSUME NEW v \in Job, Parents[v] # {}, LeftAlone(v)'
      PROVE  FamilyInv(v)' /\ (Waits(v)' /\ AllDone(v)' => \E w \in Worker : Carries(w, v)')
  <2>1. /\ LeftAlone(v) /\ Related(v, v) /\ v \notin touched'
        /\ \A p \in Parents[v] : p \notin touched' /\ p \in Job
        /\ \A x \in Job : Related(x, v) =>
             /\ x \notin touched' /\ LeftAlone(x)' /\ LeftAlone(x)
             /\ Related(v, x) /\ Parents[x] # {} /\ Parents[x] = Parents[v]
    BY <1>8, LeftAloneLasts, FamilyIsShared, GraphAssumption
  <2>2. /\ Together(state, v)
        /\ \A x \in Client : /\ Together(tx[x].snap, v)
                             /\ Waits(v) => /\ tx[x].snap[v] = "wait_dependencies"
                                            /\ Reads(x) => v \notin tx[x].written
        /\ Waits(v) /\ AllDone(v) => \E w \in Worker : Carries(w, v)
    BY <1>8, <2>1 DEF ForgetInv, FamilyInv
  <2>3. \A p \in Parents[v] : state[p] = "done" => state'[p] = "done"
    BY <1>1, <2>1 DEF Respects
  <2>4. \A x \in Job : Related(x, v) /\ x \in S =>
          /\ state'[x] # "wait_dependencies"
          /\ \A p \in Parents[v] : state[p] = "done"
          /\ state[x] = "wait_dependencies" => \A y \in Job : Related(y, v) => y \in S
    <3> SUFFICES ASSUME NEW x \in Job, Related(x, v), x \in S
                 PROVE  /\ state'[x] # "wait_dependencies"
                        /\ \A p \in Parents[v] : state[p] = "done"
                        /\ state[x] = "wait_dependencies" => \A y \in Job : Related(y, v) => y \in S
      OBVIOUS
    <3>1. Parents[x] # {} /\ LeftAlone(x)' /\ Parents[x] = Parents[v]
      BY <2>1
    <3>2. /\ st[x] # "wait_dependencies" /\ \A p \in Parents[x] : state[p] = "done"
          /\ state[x] = "wait_dependencies" => \A y \in Job : Related(y, x) => y \in S
      BY <3>1 DEF Respects
    <3> QED BY <1>1, <3>1, <3>2 DEF Related
  <2>5. Together(state', v)
    <3>1. state'[v] # "wait_dependencies" => \A p \in Parents[v] : state'[p] = "done"
      BY <1>1, <2>1, <2>2, <2>3, <2>4 DEF Together
    <3>2. ASSUME NEW x \in Job, Related(x, v)
          PROVE  state'[x] = "wait_dependencies" <=> state'[v] = "wait_dependencies"
      BY <1>1, <2>1, <2>2, <2>4, <3>2 DEF Together
    <3> QED BY <3>1, <3>2 DEF Together
  <2>6. Waits(v)' => Waits(v) /\ v \notin S
    BY <1>1, <2>1, <2>4 DEF Waits
  <2>7. ASSUME NEW x \in Client
        PROVE  /\ Together(tx'[x].snap, v)
               /\ Waits(v)' => /\ tx'[x].snap[v] = "wait_dependencies"
                               /\ Reads(x)' => v \notin tx'[x].written
    <3>1. CASE x = c
      <4>1. Together(next.snap, v)
        BY <1>4, <1>8, <2>1, <2>5, CreatedTogether
      <4>2. Waits(v)' => next.snap[v] = "wait_dependencies"
        BY <1>4, <1>8, <2>1, CreatedTogether DEF Waits
      <4> QED BY <1>2, <1>4, <3>1, <4>1, <4>2
    <3>2. CASE x # c
      BY <1>2, <2>2, <2>6, <3>2 DEF Reads
    <3> QED BY <3>1, <3>2
  <2>8. FamilyInv(v)'
    BY <2>5, <2>7 DEF FamilyInv, Together, Related
  <2>9. ASSUME Waits(v)', AllDone(v)' PROVE \E w \in Worker : Carries(w, v)'
    <3>1. CASE AllDone(v)
      <4>1. PICK w \in Worker : Carries(w, v)
        BY <2>2, <2>6, <2>9, <3>1
      <4>2. w # c
        <5> SUFFICES ASSUME w = c PROVE FALSE
          OBVIOUS
        <5>1. tx[c].at # "done"
          BY DEF Respects
        <5>2. tx[c].at = "enqueueing" /\ \A p \in Parents[v] : tx[c].snap[p] = "done"
          BY <4>1, <5>1 DEF Carries
        <5>3. tx[c].snap[v] = "wait_dependencies" /\ tx[c].job \in Parents[v]
          BY <2>2, <2>6, <2>9, <4>1 DEF Carries
        <5>4. v \in Resolved(tx[c].snap, tx[c].job, "done")
          BY <5>2, <5>3 DEF Resolved
        <5> QED BY <2>6, <2>9, <5>2, <5>4 DEF Respects
      <4> QED BY <1>2, <1>3, <4>1, <4>2 DEF Carries
    <3>2. CASE ~AllDone(v)
      <4>1. PICK p \in Parents[v] : state[p] # "done" /\ state'[p] = "done"
        BY <1>8, <2>9, <3>2 DEF AllDone
      <4>2. p \in S /\ st[p] = "done" /\ p \notin touched'
        BY <1>1, <2>1, <4>1
      <4>3. c \in Worker /\ next.at = "done" /\ next.job = p
        BY <4>2 DEF Respects
      <4> QED BY <1>2, <4>1, <4>3 DEF Carries
    <3> QED BY <3>1, <3>2
  <2> QED BY <2>8, <2>9
<1> QED
  BY <1>5, <1>6, <1>7, <1>8 DEF ForgetInv
\* A transaction that begins on the committed state, or ends, without writing.
LEMMA GoesForgetsNone ==
  ASSUME OrderInv, ForgetInv, NEW c \in Client, NEW next, Goes(c, next), touched' = touched,
         \/ next = NoTx
         \/ /\ next.at \in {"enqueueing", "asking"}
            /\ next.snap = state /\ next.written = {},
         \A v \in Job : /\ Parents[v] # {} /\ LeftAlone(v) /\ Waits(v) /\ AllDone(v)
                        /\ c \in Worker /\ Carries(c, v)
           => /\ next.job = tx[c].job
              /\ next.at = "enqueueing" /\ \A p \in Parents[v] : next.snap[p] = "done"
  PROVE  ForgetInv'
<1>1. state' = state /\ tx'[c] = next /\ \A x \in Client : x # c => tx'[x] = tx[x]
  BY DEF Goes, OrderInv, TypeOK
<1>2. /\ next.snap \in {state, Created} /\ next.at # "performing" /\ next.written = {}
      /\ next.at \in {"enqueueing", "asking"} => next.snap = state
  BY DEF NoTx
<1>3. Worker \subseteq Client
  BY DEF Client
<1>4. SnapshotsHold'
  <2> SUFFICES ASSUME NEW x \in Client, NEW v \in Job, Reads(x)', v \notin tx'[x].written
               PROVE  tx'[x].snap[v] = state'[v]
    BY DEF SnapshotsHold
  <2>1. CASE x = c
    BY <1>1, <1>2, <2>1 DEF Reads
  <2>2. CASE x # c
    BY <1>1, <2>2 DEF Reads, ForgetInv, SnapshotsHold
  <2> QED BY <2>1, <2>2
<1>5. OneWorker'
  <2>1. \A w \in Worker : tx'[w].at = "performing" => w # c
    BY <1>1, <1>2
  <2> QED BY <1>1, <1>3, <2>1 DEF ForgetInv, OneWorker
<1>6. DoneForGood'
  <2> SUFFICES ASSUME NEW x \in Client, NEW u \in Job, u \notin touched, tx'[x].snap[u] = "done"
               PROVE  state[u] = "done"
    BY <1>1 DEF DoneForGood
  <2> QED BY <1>1, <1>2, NoTxInOrder DEF ForgetInv, DoneForGood
<1>7. \A v \in Job : LeftAlone(v)' <=> LeftAlone(v)
  BY DEF LeftAlone, Family, Related
<1>8. ASSUME NEW v \in Job, Parents[v] # {}, LeftAlone(v)
      PROVE  FamilyInv(v)' /\ (Waits(v)' /\ AllDone(v)' => \E w \in Worker : Carries(w, v)')
  <2>1. FamilyInv(v) /\ (Waits(v) /\ AllDone(v) => \E w \in Worker : Carries(w, v))
    BY <1>8 DEF ForgetInv
  <2>2. Together(state, v) /\ Together(next.snap, v)
    BY <1>2, <1>8, <2>1, CreatedTogether DEF FamilyInv
  <2>3. Waits(v) => next.snap[v] = "wait_dependencies"
    BY <1>2, <1>8, CreatedTogether DEF Waits
  <2>4. ASSUME NEW x \in Client
        PROVE  /\ Together(tx'[x].snap, v)
               /\ Waits(v) => /\ tx'[x].snap[v] = "wait_dependencies"
                              /\ Reads(x)' => v \notin tx'[x].written
    <3>1. CASE x = c
      BY <1>1, <1>2, <2>2, <2>3, <3>1
    <3>2. CASE x # c
      BY <1>1, <2>1, <3>2 DEF FamilyInv, Reads
    <3> QED BY <3>1, <3>2
  <2>5. FamilyInv(v)'
    BY <1>1, <2>2, <2>4 DEF FamilyInv, Together, Related, Waits
  <2>6. ASSUME Waits(v)', AllDone(v)' PROVE \E w \in Worker : Carries(w, v)'
    <3>1. Waits(v) /\ AllDone(v)
      BY <1>1, <2>6 DEF Waits, AllDone
    <3>2. PICK w \in Worker : Carries(w, v)
      BY <2>1, <3>1
    <3>3. CASE w = c
      <4>1. next.job = tx[c].job /\ next.at = "enqueueing"
            /\ \A p \in Parents[v] : next.snap[p] = "done"
        BY <1>8, <3>1, <3>2, <3>3
      <4> QED BY <1>1, <3>2, <3>3, <4>1 DEF Carries
    <3>4. CASE w # c
      BY <1>1, <1>3, <3>2, <3>4 DEF Carries
    <3> QED BY <3>3, <3>4
  <2> QED BY <2>5, <2>6
<1> QED
  BY <1>4, <1>5, <1>6, <1>7, <1>8 DEF ForgetInv

\* A performing worker's job, when users leave it alone: its parents are done, and were
\* in the worker's snapshot.
LEMMA ParentsOfPerformed ==
  ASSUME OrderInv, ForgetInv, NEW w \in Worker, tx[w].at = "performing",
         Parents[tx[w].job] # {}, LeftAlone(tx[w].job)
  PROVE  \A p \in Parents[tx[w].job] : state[p] = "done" /\ tx[w].snap[p] = "done"
<1> DEFINE u == tx[w].job
<1>1. w \in Client /\ u \in Job
  BY DEF Client, OrderInv, TypeOK, Transactions, TxFields
<1>2. u \notin touched
  BY <1>1 DEF LeftAlone, Family, Related
<1>3. state[u] = "started" /\ tx[w].snap[u] = "started"
  BY <1>2 DEF ForgetInv, OneWorker
<1>4. Together(state, u) /\ Together(tx[w].snap, u)
  BY <1>1 DEF ForgetInv, FamilyInv
<1> QED
  BY <1>3, <1>4 DEF Together

\* A worker that ends performing its job, with the state s for it.
LEMMA PerformedRespects ==
  ASSUME OrderInv, ForgetInv, NEW w \in Worker, tx[w].at = "performing", touched' = touched,
         NEW st, NEW next, Write(w, {tx[w].job}, st, next),
         next = NoTx \/ next = Begin("done", "none", tx[w].job, Created),
         st[tx[w].job] = "done" => next.at = "done",
         st[tx[w].job] = "wait_dependencies"
           => \E p \in Parents[tx[w].job] : tx[w].snap[p] # "done"
  PROVE  ForgetInv'
<1> DEFINE u == tx[w].job
<1>1. w \in Client /\ u \in Job
  BY DEF Client, OrderInv, TypeOK, Transactions, TxFields
<1>2. /\ next.snap = Created /\ next.written = {} /\ next.at \in {"idle", "done"}
      /\ next.at = "done" => next.job = u
  BY DEF NoTx, Begin
<1>3. next \in Transactions
  <2>1. Created \in [Job -> State]
    BY DEF Created, State
  <2> QED BY <1>1, <2>1, NoTxInOrder DEF Begin, Transactions, TxFields
<1>4. u \notin touched => state[u] = "started"
  BY DEF ForgetInv, OneWorker
<1>5. ASSUME NEW x \in {u}, Parents[x] # {}, LeftAlone(x)'
      PROVE  /\ st[x] # "wait_dependencies"
             /\ \A p \in Parents[x] : state[p] = "done"
             /\ state[x] # "wait_dependencies"
  <2>1. x \in Job /\ LeftAlone(x) /\ x \notin touched
    BY <1>1, <1>5, LeftAloneLasts
  <2>2. \A p \in Parents[x] : state[p] = "done" /\ tx[w].snap[p] = "done"
    BY <1>5, <2>1, ParentsOfPerformed
  <2> QED BY <1>4, <1>5, <2>1, <2>2
<1>6. Respects(w, {u}, st, next)
  BY <1>2, <1>4, <1>5 DEF Respects
<1> HIDE DEF u
<1> QED
  BY <1>1, <1>3, <1>6, WriteForgetsNone DEF u

LEMMA StartForgetsNone ==
  ASSUME OrderInv, ForgetInv, NEW w \in Worker, NEW u \in Job, Start(w, u)
  PROVE  ForgetInv'
<1> DEFINE st   == [state EXCEPT ![u] = "started"]
           next == Begin("performing", "none", u, st)
<1>1. /\ Write(w, {u}, st, next) /\ touched' = touched /\ w \in Client
      /\ state[u] = "pending" /\ tx[w].at = "idle" /\ state \in [Job -> State]
  BY DEF Start, Client, OrderInv, TypeOK
<1>2. next.snap = st /\ next.written = {} /\ next.at = "performing" /\ next.job = u
  BY DEF Begin
<1>3. st[u] = "started" /\ st \in [Job -> State]
  BY <1>1 DEF State
<1>4. next \in Transactions
  BY <1>3 DEF Begin, Transactions, TxFields
<1>5. state' = st
  BY <1>1 DEF Write
<1>6. ASSUME Parents[u] # {}, LeftAlone(u)' PROVE \A p \in Parents[u] : state[p] = "done"
  <2>1. LeftAlone(u)
    BY <1>1, <1>6, LeftAloneLasts
  <2>2. Together(state, u)
    BY <1>6, <2>1 DEF ForgetInv, FamilyInv
  <2> QED BY <1>1, <2>2 DEF Together
<1>7. Respects(w, {u}, st, next)
  BY <1>1, <1>2, <1>3, <1>5, <1>6 DEF Respects
<1> HIDE DEF st, next
<1> QED
  BY <1>1, <1>4, <1>7, WriteForgetsNone

\* The UPDATE of a worker enqueues whole families, or, when it fails, one of the family
\* was enqueued before, and with it all.
LEMMA EnqueueForgetsNone ==
  ASSUME OrderInv, ForgetInv, NEW w \in Worker, EnqueueDependentJobs(w)
  PROVE  ForgetInv'
<1> DEFINE S  == Resolved(tx[w].snap, tx[w].job, "done")
           st == [v \in Job |-> "pending"]
<1>1. w \in Client /\ tx[w].at = "enqueueing" /\ touched' = touched /\ Reads(w) /\ S \subseteq Job
  BY DEF EnqueueDependentJobs, Client, Reads, Resolved
<1>2. \A x \in S : /\ tx[w].job \in Parents[x] /\ tx[w].snap[x] = "wait_dependencies"
                   /\ \A p \in Parents[x] : tx[w].snap[p] = "done"
  BY DEF Resolved
<1>3. CASE Outdated(w, S)
  <2>1. Goes(w, NoTx)
    BY <1>3 DEF EnqueueDependentJobs
  <2>2. ASSUME NEW v \in Job, Parents[v] # {}, LeftAlone(v), Waits(v), AllDone(v), Carries(w, v)
        PROVE  FALSE
    <3>1. PICK x \in S : x \in tx[w].written
      BY <1>3 DEF Outdated
    <3>2. Related(x, v) /\ x \in Job
      BY <1>1, <1>2, <2>2 DEF Related, Carries
    <3>3. Parents[x] # {} /\ LeftAlone(x)
      BY <2>2, <3>2, FamilyIsShared
    <3>4. ~Waits(x)
      BY <1>1, <3>1, <3>2, <3>3 DEF ForgetInv, FamilyInv
    <3>5. Together(state, v)
      BY <2>2 DEF ForgetInv, FamilyInv
    <3> QED BY <2>2, <3>2, <3>4, <3>5 DEF Together, Waits
  <2> QED BY <1>1, <2>1, <2>2, GoesForgetsNone
<1>4. CASE ~Outdated(w, S)
  <2>1. Write(w, S, st, NoTx)
    BY <1>4 DEF EnqueueDependentJobs
  <2>2. \A x \in S : state[x] = "wait_dependencies"
    BY <1>1, <1>2, <1>4 DEF Outdated, ForgetInv, SnapshotsHold
  <2>3. ASSUME NEW x \in S, Parents[x] # {}, LeftAlone(x)'
        PROVE  /\ \A p \in Parents[x] : state[p] = "done"
               /\ \A v \in Job : Related(v, x) => v \in S
    <3>1. /\ x \in Job /\ LeftAlone(x)
          /\ \A p \in Parents[x] : p \in Job /\ p \notin touched
      BY <1>1, <2>3, LeftAloneLasts, GraphAssumption
    <3>2. \A p \in Parents[x] : state[p] = "done"
      BY <1>1, <1>2, <3>1 DEF ForgetInv, DoneForGood
    <3>3. ASSUME NEW v \in Job, Related(v, x) PROVE v \in S
      <4>1. Parents[v] = Parents[x]
        BY <3>1, <3>3, FamilyIsShared
      <4>2. Together(tx[w].snap, x)
        BY <1>1, <2>3, <3>1 DEF ForgetInv, FamilyInv
      <4>3. tx[w].snap[v] = "wait_dependencies"
        BY <1>2, <3>3, <4>2 DEF Together
      <4> QED BY <1>2, <4>1, <4>3 DEF Resolved
    <3> QED BY <3>2, <3>3
  <2>4. NoTx.written = {} /\ NoTx.at = "idle" /\ NoTx.snap = Created /\ NoTx \in Transactions
    BY NoTxInOrder DEF NoTx
  <2>5. Respects(w, S, st, NoTx)
    BY <1>1, <2>2, <2>3, <2>4 DEF Respects
  <2> HIDE DEF S, st
  <2> QED BY <1>1, <2>1, <2>4, <2>5, WriteForgetsNone
<1> QED BY <1>3, <1>4

\* What a user commits touches its rows, but for a failed job that is requeued.
LEMMA CommitForgetsNone ==
  ASSUME OrderInv, ForgetInv, NEW c \in User, Commit(c)
  PROVE  ForgetInv'
<1> DEFINE u  == tx[c].job
           S  == Change(c).rows
           st == Change(c).st
<1>1. /\ c \in Client /\ c \notin Worker /\ tx[c].at = "asking" /\ Reads(c) /\ u \in Job
      /\ tx[c].ask \in Asks /\ ~Outdated(c, S) /\ Write(c, S, st, NoTx) /\ touched \subseteq touched'
  BY GraphAssumption DEF Commit, Client, Reads, OrderInv, TypeOK, Transactions, TxFields
<1>2. tx[c].snap \in [Job -> State]
  BY <1>1 DEF OrderInv, TypeOK, Transactions, TxFields
<1>3. NoTx.written = {} /\ NoTx.at = "idle" /\ NoTx.snap = Created /\ NoTx \in Transactions
  BY NoTxInOrder DEF NoTx
<1>4. S \subseteq Job
  BY <1>1, GraphAssumption DEF Change, Decided, Resolved
<1>5. CASE tx[c].ask = "requeue" /\ tx[c].snap[u] = "failed"
  <2>1. S = {u} /\ st[u] = PendingState(tx[c].snap, u)
    BY <1>1, <1>2, <1>5 DEF Change
  <2>2. state[u] = "failed"
    BY <1>1, <1>5, <2>1 DEF Outdated, ForgetInv, SnapshotsHold
  <2>3. ASSUME NEW x \in S, Parents[x] # {}, LeftAlone(x)'
        PROVE  st[x] # "wait_dependencies" /\ \A p \in Parents[x] : state[p] = "done"
    <3>1. x = u /\ x \in Job
      BY <1>1, <2>1
    <3>2. LeftAlone(x)
      BY <1>1, <2>3, <3>1, LeftAloneLasts
    <3>3. Together(state, x) /\ Together(tx[c].snap, x)
      BY <1>1, <2>3, <3>1, <3>2 DEF ForgetInv, FamilyInv
    <3> QED BY <1>5, <2>1, <2>2, <3>1, <3>3 DEF Together, PendingState
  <2>4. st[u] # "done"
    BY <2>1 DEF PendingState
  <2>5. Respects(c, S, st, NoTx)
    BY <1>1, <1>3, <2>1, <2>2, <2>3, <2>4 DEF Respects
  <2> HIDE DEF S, st
  <2> QED BY <1>1, <1>3, <1>4, <2>5, WriteForgetsNone
<1>6. CASE ~(tx[c].ask = "requeue" /\ tx[c].snap[u] = "failed")
  <2>1. S \subseteq touched'
    BY <1>6 DEF Commit
  <2>2. \A x \in S : ~(Parents[x] # {} /\ LeftAlone(x)')
    BY <1>1, <1>4, <2>1, LeftAloneLasts
  <2>3. Respects(c, S, st, NoTx)
    BY <1>1, <1>3, <2>1, <2>2 DEF Respects
  <2> HIDE DEF S, st
  <2> QED BY <1>1, <1>3, <1>4, <2>3, WriteForgetsNone
<1> QED BY <1>5, <1>6

LEMMA ForgetInvStep == OrderInv /\ ForgetInv /\ [Next]_vars => ForgetInv'
<1> SUFFICES ASSUME OrderInv, ForgetInv, [Next]_vars PROVE ForgetInv'
  OBVIOUS
<1>1. \A w \in Worker : w \in Client /\ tx[w].job \in Job \cup {NoJob}
  BY DEF Client, OrderInv, TypeOK, Transactions, TxFields
<1>2. state \in [Job -> State] /\ \A w \in Worker : tx[w].at # "idle" => tx[w].job \in Job
  BY <1>1 DEF OrderInv, TypeOK, Transactions
<1>3. ASSUME NEW w \in Worker, Done(w) PROVE ForgetInv'
  <2> DEFINE st == [state EXCEPT ![tx[w].job] = "done"]
             next == Begin("done", "none", tx[w].job, Created)
  <2>1. tx[w].at = "performing" /\ touched' = touched /\ Write(w, {tx[w].job}, st, next)
    BY <1>3 DEF Done
  <2>2. st[tx[w].job] = "done" /\ next.at = "done"
    BY <1>2, <2>1 DEF Begin
  <2> QED BY <2>1, <2>2, PerformedRespects
<1>4. ASSUME NEW w \in Worker, Fail(w) PROVE ForgetInv'
  <2> DEFINE st == [state EXCEPT ![tx[w].job] = "failed"]
  <2>1. tx[w].at = "performing" /\ touched' = touched /\ Write(w, {tx[w].job}, st, NoTx)
    BY <1>4 DEF Fail
  <2>2. st[tx[w].job] = "failed"
    BY <1>2, <2>1
  <2> QED BY <2>1, <2>2, PerformedRespects
<1>5. ASSUME NEW w \in Worker, Postpone(w) PROVE ForgetInv'
  <2> DEFINE st == [state EXCEPT ![tx[w].job] = PendingState(tx[w].snap, tx[w].job)]
  <2>1. tx[w].at = "performing" /\ touched' = touched /\ Write(w, {tx[w].job}, st, NoTx)
    BY <1>5 DEF Postpone
  <2>2. st[tx[w].job] = PendingState(tx[w].snap, tx[w].job)
    BY <1>2, <2>1
  <2>3. /\ st[tx[w].job] # "done"
        /\ st[tx[w].job] = "wait_dependencies" => \E p \in Parents[tx[w].job] : tx[w].snap[p] # "done"
    BY <2>2 DEF PendingState
  <2> HIDE DEF st
  <2> QED BY <2>1, <2>3, PerformedRespects
<1>6. ASSUME NEW w \in Worker, EnqueueWaiting(w) PROVE ForgetInv'
  <2> DEFINE next == Begin("enqueueing", "none", tx[w].job, state)
  <2>1. Goes(w, next) /\ touched' = touched
    BY <1>6 DEF EnqueueWaiting
  <2>2. /\ next.at = "enqueueing" /\ next.snap = state /\ next.written = {}
        /\ next.job = tx[w].job
    BY DEF Begin
  <2>3. \A v \in Job : AllDone(v) => \A p \in Parents[v] : next.snap[p] = "done"
    BY <2>2 DEF AllDone
  <2> HIDE DEF next
  <2> QED BY <1>1, <2>1, <2>2, <2>3, GoesForgetsNone
<1>7. ASSUME NEW c \in User, NEW next, Goes(c, next), touched' = touched,
             next.at = "asking", next.snap = state, next.written = {}
      PROVE  ForgetInv'
  <2>1. c \in Client /\ c \notin Worker
    BY GraphAssumption DEF Client
  <2> QED BY <1>7, <2>1, GoesForgetsNone
<1>8. ASSUME NEW c \in User, NEW ask \in Asks, NEW u \in Job, Ask(c, ask, u) PROVE ForgetInv'
  BY <1>7, <1>8 DEF Ask, Begin
<1>9. ASSUME NEW c \in User, Retry(c) PROVE ForgetInv'
  BY <1>7, <1>9 DEF Retry, Begin
<1>10. CASE UNCHANGED vars
  BY <1>10 DEF vars, ForgetInv, SnapshotsHold, OneWorker, DoneForGood, LeftAlone, Family,
               Related, FamilyInv, Together, Waits, AllDone, Carries, Reads
<1> QED
  BY <1>3, <1>4, <1>5, <1>6, <1>8, <1>9, <1>10, StartForgetsNone, EnqueueForgetsNone,
     CommitForgetsNone DEF Next, WorkerStep, UserStep

\* In a graph of groups and chains the jobs that wait for the same parents are handled
\* together: when their last parent is done, a worker has the whole family in its hands
\* until all of them are enqueued, unless a user took a job out of it.
THEOREM FamiliesGoTogether == Spec => []ForgetInv
<1>1. Init => OrderInv /\ ForgetInv
  BY OrderInvInit, ForgetInit
<1> QED
  BY <1>1, OrderInvStep, ForgetInvStep, PTL DEF Spec

\* Workers that finish the parents of a job at the same time never leave it behind, when
\* its siblings wait for the same parents and no user interferes.
THEOREM NoneForgotten == Spec => []WorkersForgetNone
<1>1. ForgetInv => WorkersForgetNone
  <2> SUFFICES ASSUME ForgetInv, NEW v \in Job, Waits(v), AllDone(v), LeftAlone(v)
               PROVE  Handled(v)
    BY DEF WorkersForgetNone
  <2>1. PICK w \in Worker : Carries(w, v)
    BY DEF ForgetInv, AllDone
  <2> QED BY <2>1 DEF Carries, Handled, Handles, Client
<1> QED
  BY <1>1, FamiliesGoTogether, PTL
=============================================================================
