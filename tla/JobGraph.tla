------------------------------ MODULE JobGraph ------------------------------
(***************************************************************************)
(* The transactions that carry a graph of jobs on: a worker that is done   *)
(* with a job enqueues the jobs that waited for it in a second transaction *)
(* (queue_job/controllers/main.py, queue_job/job.py), while users set jobs *)
(* done, cancel, requeue and edit them (queue_job/models/queue_job.py).    *)
(*                                                                         *)
(* Every transaction is REPEATABLE READ: it decides on its snapshot, and   *)
(* fails when a row it writes was written since.  It does not fail when a  *)
(* row it has only read was.  The first to write a row is taken for the    *)
(* first to commit, as the other waits for it.                             *)
(*                                                                         *)
(* How a pending job comes to a worker is JobRunner.tla; here a worker     *)
(* takes it in one step, so that no user decides on a job that the runner  *)
(* has enqueued and no worker has started.                                 *)
(***************************************************************************)
EXTENDS Naturals

CONSTANTS Job,
          NoJob,
          Parents,  \* per job the jobs it depends on, of the same graph
          Worker,
          User,
          Asks,     \* what users may ask: see Clickable
          MaxAsks   \* bound on the users' requests

ASSUME GraphAssumption ==
  /\ NoJob \notin Job
  /\ Parents \in [Job -> SUBSET Job]
  /\ Worker \cap User = {}
  /\ Asks \subseteq {"button_done", "wizard_done", "button_cancelled", "requeue", "edit"}

VARIABLES state,     \* the committed state of each row
          tx,        \* per client its transaction
          asks,
          wasDone,   \* history: the jobs that were done at least once
          touched    \* history: the rows that users wrote, but for failed jobs requeued

vars == <<state, tx, asks, wasDone, touched>>

Client == Worker \cup User
State  == {"wait_dependencies", "pending", "started", "done", "failed", "cancelled"}

Created == [u \in Job |-> IF Parents[u] = {} THEN "pending" ELSE "wait_dependencies"]
NoTx    == [at |-> "idle", job |-> NoJob, ask |-> "none", snap |-> Created, written |-> {}]

\* Mutant: one parent in state s is enough
ResolvedByAny(st, u, s) ==
  {v \in Job : u \in Parents[v] /\ st[v] = "wait_dependencies"}

\* The common query of enqueue_waiting() and cancel_dependent_jobs()
Resolved(st, u, s) ==
  {v \in Job : /\ u \in Parents[v] /\ st[v] = "wait_dependencies"
               /\ \A p \in Parents[v] : st[p] = s}

\* Mutant: a job with parents waits for them, done or not
WaitsAnyway(st, u) == IF Parents[u] # {} THEN "wait_dependencies" ELSE "pending"

\* set_pending() asks the jobs it depends on
PendingState(st, u) ==
  IF \E p \in Parents[u] : st[p] # "done" THEN "wait_dependencies" ELSE "pending"

Begin(at, ask, u, st) ==
  [at |-> at, job |-> u, ask |-> ask, snap |-> st, written |-> {}]

\* Client c writes st to the rows of S and goes on as next
Write(c, S, st, next) ==
  /\ state' = [v \in Job |-> IF v \in S THEN st[v] ELSE state[v]]
  /\ tx' = [x \in Client |-> IF x = c THEN next
                             ELSE [tx[x] EXCEPT !.written = @ \cup S]]
  /\ wasDone' = wasDone \cup {v \in S : st[v] = "done"}

Goes(c, next) ==
  tx' = [tx EXCEPT ![c] = next] /\ UNCHANGED <<state, wasDone>>

Outdated(c, S) == S \cap tx[c].written # {}

----------------------------------------------------------------------------
(* Workers: runjob()                                                       *)

\* set_started() is committed; the transaction that performs the job begins
Start(w, u) ==
  LET st == [state EXCEPT ![u] = "started"] IN
  /\ tx[w].at = "idle" /\ state[u] = "pending"
  /\ Write(w, {u}, st, Begin("performing", "none", u, st))
  /\ UNCHANGED <<asks, touched>>

\* Mutant: done and the dependents are stored in one transaction
DoneWithDependents(w) ==
  LET u  == tx[w].job
      st == [tx[w].snap EXCEPT ![u] = "done"]
      S  == Resolved(st, u, "done")
  IN /\ tx[w].at = "performing" /\ ~Outdated(w, {u} \cup S)
     /\ Write(w, {u} \cup S, [v \in Job |-> IF v = u THEN "done" ELSE "pending"], NoTx)
     /\ UNCHANGED <<asks, touched>>

Done(w) ==
  LET u == tx[w].job IN
  /\ tx[w].at = "performing" /\ ~Outdated(w, {u})
  /\ Write(w, {u}, [state EXCEPT ![u] = "done"], Begin("done", "none", u, Created))
  /\ UNCHANGED <<asks, touched>>

\* The exception of the job's method, stored with a cursor of its own
Fail(w) ==
  LET u == tx[w].job IN
  /\ tx[w].at = "performing"
  /\ Write(w, {u}, [state EXCEPT ![u] = "failed"], NoTx)
  /\ UNCHANGED <<asks, touched>>

\* RetryableJobError, or the row was written: retry_postpone() looks at the parents
\* as they were when the job was loaded
Postpone(w) ==
  LET u == tx[w].job IN
  /\ tx[w].at = "performing"
  /\ Write(w, {u}, [state EXCEPT ![u] = PendingState(tx[w].snap, u)], NoTx)
  /\ UNCHANGED <<asks, touched>>

\* The snapshot of the UPDATE of enqueue_waiting()
EnqueueWaiting(w) ==
  /\ tx[w].at = "done"
  /\ Goes(w, Begin("enqueueing", "none", tx[w].job, state))
  /\ UNCHANGED <<asks, touched>>

\* The UPDATE is made.  When it fails, the loop of _enqueue_dependent_jobs() tries
\* again in the aborted transaction, and the error this raises ends the request.
EnqueueDependentJobs(w) ==
  LET S == Resolved(tx[w].snap, tx[w].job, "done") IN
  /\ tx[w].at = "enqueueing"
  /\ IF Outdated(w, S) THEN Goes(w, NoTx)
     ELSE Write(w, S, [v \in Job |-> "pending"], NoTx)
  /\ UNCHANGED <<asks, touched>>

----------------------------------------------------------------------------
(* Users: the buttons of the form, the wizards, and an edit of the form    *)

\* The wizard sets done, and the requeue wizard requeues, whatever job was selected
Clickable(ask, s) ==
  CASE ask = "button_done"      -> s \in {"wait_dependencies", "pending", "failed"}
    [] ask = "button_cancelled" -> s \in {"pending", "failed"}
    [] ask \in {"wizard_done", "requeue", "edit"} -> TRUE

Ask(c, ask, u) ==
  /\ tx[c].at = "idle" /\ asks < MaxAsks /\ Clickable(ask, state[u])
  /\ Goes(c, Begin("asking", ask, u, state))
  /\ asks' = asks + 1
  /\ UNCHANGED touched

\* _change_job_state(DONE) and (CANCELLED): the job, and the dependents that the
\* snapshot resolves
Decided(c, s, t) ==
  LET u  == tx[c].job
      st == [tx[c].snap EXCEPT ![u] = s]
      S  == Resolved(st, u, s)
  IN [rows |-> {u} \cup S, st |-> [v \in Job |-> IF v \in S THEN t ELSE st[v]]]

Change(c) ==
  LET u == tx[c].job IN
  CASE tx[c].ask \in {"button_done", "wizard_done"} -> Decided(c, "done", "pending")
    [] tx[c].ask = "button_cancelled" -> Decided(c, "cancelled", "cancelled")
    [] tx[c].ask = "requeue" ->
         [rows |-> IF tx[c].snap[u] = "wait_dependencies" THEN {} ELSE {u},
          st   |-> [tx[c].snap EXCEPT ![u] = PendingState(tx[c].snap, u)]]
    [] tx[c].ask = "edit" -> [rows |-> {u}, st |-> tx[c].snap]

Commit(c) ==
  /\ tx[c].at = "asking" /\ ~Outdated(c, Change(c).rows)
  /\ Write(c, Change(c).rows, Change(c).st, NoTx)
  /\ touched' = IF tx[c].ask = "requeue" /\ tx[c].snap[tx[c].job] = "failed" THEN touched
                ELSE touched \cup Change(c).rows
  /\ UNCHANGED asks

\* A serialization failure: Odoo runs the request again, on a new snapshot
Retry(c) ==
  /\ tx[c].at = "asking" /\ Outdated(c, Change(c).rows)
  /\ Goes(c, Begin("asking", tx[c].ask, tx[c].job, state))
  /\ UNCHANGED <<asks, touched>>

----------------------------------------------------------------------------
Init ==
  /\ state = Created
  /\ tx = [c \in Client |-> NoTx]
  /\ asks = 0
  /\ wasDone = {} /\ touched = {}

WorkerStep(w) ==
  \/ \E u \in Job : Start(w, u)
  \/ Done(w) \/ Fail(w) \/ Postpone(w) \/ EnqueueWaiting(w) \/ EnqueueDependentJobs(w)

UserStep(c) == \/ \E ask \in Asks, u \in Job : Ask(c, ask, u)
               \/ Commit(c) \/ Retry(c)

Next == (\E w \in Worker : WorkerStep(w)) \/ (\E c \in User : UserStep(c))

Spec == Init /\ [][Next]_vars

----------------------------------------------------------------------------
TxFields == [at      : {"idle", "performing", "done", "enqueueing", "asking"},
             job     : Job \cup {NoJob},
             ask     : Asks \cup {"none"},
             snap    : [Job -> State],
             written : SUBSET Job]

Transactions == {t \in TxFields : /\ t.at # "idle" => t.job \in Job
                                  /\ t.at = "asking" => t.ask \in Asks}

TypeOK ==
  /\ state \in [Job -> State]
  /\ DOMAIN tx = Client /\ \A c \in Client : tx[c] \in Transactions
  /\ asks \in Nat
  /\ wasDone \subseteq Job

ParentsWereDone(st) ==
  \A u \in Job : /\ st[u] = "done" => u \in wasDone
                 /\ st[u] \in {"pending", "started"} => Parents[u] \subseteq wasDone

\* A job is ready to run, or runs, only after each of its parents was done, whatever
\* snapshots the transactions decided on.  The inductive invariant says it of those
\* snapshots too.
OnlyAfterParents == ParentsWereDone(state)

OrderInv ==
  /\ TypeOK /\ OnlyAfterParents
  /\ \A c \in Client : ParentsWereDone(tx[c].snap)

Waits(v)      == state[v] = "wait_dependencies"
AllDone(v)    == Parents[v] # {} /\ \A p \in Parents[v] : state[p] = "done"
Handles(c, v) == tx[c].at # "idle" /\ tx[c].job \in Parents[v]

\* A client that is about to enqueue job v, having seen all its parents done
Handled(v) == \E c \in Client : Handles(c, v) /\ tx[c].at \in {"done", "enqueueing", "asking"}

Related(x, v) == Parents[x] \cap Parents[v] # {}
Family(v)     == Parents[v] \cup {x \in Job : Related(x, v)}

\* v waits for the same jobs as each job that waits for one of them, as in a graph of
\* groups and chains, and no user interfered
LeftAlone(v) == /\ \A x \in Job : Related(x, v) => Parents[x] = Parents[v]
                /\ Family(v) \cap touched = {}

\* When the last of a job's parents is done, a worker that saw all of them done is
\* about to enqueue the job: the commit of DONE before the dependents are looked for
\* makes it so, although each worker decides on its own snapshot and gives up when
\* another was faster.  Users may have requeued the parents that failed.
WorkersForgetNone ==
  \A v \in Job : Waits(v) /\ AllDone(v) /\ LeftAlone(v) => Handled(v)

Reads(c) == tx[c].at \in {"performing", "enqueueing", "asking"}

\* A snapshot tells the state of the rows that were not written since
SnapshotsHold ==
  \A c \in Client, x \in Job : Reads(c) /\ x \notin tx[c].written => tx[c].snap[x] = state[x]

\* A job that users leave alone is performed once at a time, and stays done
OneWorker ==
  \A w \in Worker :
    LET u == tx[w].job IN
    tx[w].at = "performing" /\ u \notin touched
      => /\ state[u] = "started" /\ tx[w].snap[u] = "started"
         /\ \A x \in Worker : tx[x].at = "performing" /\ tx[x].job = u => x = w

DoneForGood ==
  \A c \in Client, u \in Job : u \notin touched /\ tx[c].snap[u] = "done" => state[u] = "done"

\* Jobs of one family go on together, when their parents are done
Together(st, v) ==
  /\ st[v] # "wait_dependencies" => \A p \in Parents[v] : st[p] = "done"
  /\ \A x \in Job : Related(x, v) =>
       (st[x] = "wait_dependencies" <=> st[v] = "wait_dependencies")

FamilyInv(v) ==
  /\ Together(state, v)
  /\ \A c \in Client :
       /\ Together(tx[c].snap, v)
       /\ Waits(v) => /\ tx[c].snap[v] = "wait_dependencies"
                      /\ Reads(c) => v \notin tx[c].written

\* A worker that will enqueue v
Carries(w, v) ==
  /\ tx[w].job \in Parents[v]
  /\ \/ tx[w].at = "done"
     \/ tx[w].at = "enqueueing" /\ \A p \in Parents[v] : tx[w].snap[p] = "done"

\* The inductive invariant that WorkersForgetNone follows from
ForgetInv ==
  /\ SnapshotsHold /\ OneWorker /\ DoneForGood
  /\ \A v \in Job : Parents[v] # {} /\ LeftAlone(v) =>
       /\ FamilyInv(v)
       /\ Waits(v) /\ AllDone(v) => \E w \in Worker : Carries(w, v)

\* USAGE.md: the jobs that depend on a failed one "remain in a state wait_dependencies
\* until their "parent" job is successful", and then "the graph will continue to be
\* processed"; whatever else waits for the parents, and whoever sets them done.
NoChildForgotten ==
  \A v \in Job : Waits(v) /\ AllDone(v) => Handled(v)
=============================================================================
