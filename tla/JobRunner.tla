----------------------------- MODULE JobRunner -----------------------------
(***************************************************************************)
(* The life of the jobs of one database: the rows of queue_job, the job    *)
(* runner (queue_job/jobrunner/runner.py) with its channels, the HTTP      *)
(* requests it sends and forgets, and the Odoo workers that answer them    *)
(* (queue_job/controllers/main.py).                                        *)
(*                                                                         *)
(* The runner learns of the rows by NOTIFY only, and its channels          *)
(* (Channels.tla, extended here: the runner's steps are the manager's) are *)
(* its memory of them.  A worker starts a job in one transaction and       *)
(* performs it in another, under a lock on a row of queue_job_lock; a      *)
(* worker that dies leaves the job started and the lock free.              *)
(*                                                                         *)
(* Workers and users run REPEATABLE READ transactions: an update of a row  *)
(* that was changed after the snapshot fails and, but for the row the      *)
(* worker performs, is tried again, so it is one step.                     *)
(***************************************************************************)
EXTENDS Channels

CONSTANTS Worker,      \* Odoo workers (or threads) that answer /queue_job/runjob
          NoWork,      \* what an idle worker has
          Graphs,      \* the jobs that are created together, a set of sets
          Parents,     \* per job the jobs it depends on
          MaxRetries,  \* per job, 0 is infinite
          Outcome,     \* how the job's method may end: "ok", "error", "retry",
                       \* "ignored", a RetryableJobError with ignore_retry, or
                       \* "conflict", a serialization failure of its own
          Fault,       \* what may go wrong: "crash", "late crash", "loss", "restart",
                       \* "kill" or "slow"
          MaxFaults,   \* bound on the faults
          MaxAsks,     \* bound on the users' requests
          MaxRequests, \* bound on the HTTP requests in flight for a job
          MaxAttempts  \* bound on the retry counter

ASSUME DatabaseAssumption ==
  /\ IsFiniteSet(Job)
  /\ \A u, v \in Job : DbOf[u] = DbOf[v]

ASSUME GraphAssumption ==
  /\ UNION Graphs = Job
  /\ Parents \in [Job -> SUBSET Job]
  /\ MaxRetries \in [Job -> Nat]
  /\ NoWork \notin Job \cup Worker

VARIABLES state,     \* per job the state of its row; "none" before, "gone" after
          aged,      \* the rows with a date_enqueued older than 10 seconds
          retry,     \* the retry column
          lockable,  \* the jobs with a row in queue_job_lock
          overtaken, \* the jobs that the runner enqueued when they had been done or
                     \* cancelled, and that bear the date of it since
          notes,     \* the jobs with a NOTIFY on its way to the runner
          up,        \* the runner is connected and listens
          loading,   \* the states that initialize_databases() has yet to notify
          hand,      \* the job run_jobs() is at, and how far it is with it
          requests,  \* per job the HTTP requests in flight
          worker,    \* per worker where it is, its job, job.retry, and whether a
                     \* parent was not done when it read job.depends_on
          stale,     \* the workers whose job's row changed after their snapshot
          faults, asks,
          setBack,   \* history: see Remember
          spent,
          crossed

memory == <<tree, pause, live, gen, now, sleep, lastYield>>
rows   == <<state, aged, retry, lockable, overtaken>>
runner == <<up, loading, hand>>
budget == <<faults, asks>>
system == <<memory, rows, notes, runner, requests, worker, stale, budget>>
history == <<setBack, spent, crossed>>
runnerVars == <<system, history>>

NotDone == {"wait_dependencies", "pending", "enqueued", "started", "failed"}
Active  == {"enqueued", "started"}
NoLoad  == [u \in Job |-> "none"]
NoHand  == [job |-> NoWork, at |-> "none"]
IdleWorker == [pc |-> "idle", job |-> NoWork, retry |-> 0, blocked |-> FALSE]

Exists(u)     == state[u] \in State
Dependents(u) == {v \in Job : u \in Parents[v]}

\* Job.depends_on holds the parents that still have a row
Blocked(u) == \E p \in Parents[u] : Exists(p) /\ state[p] # "done"

\* Mutant: the trigger is missing
WrittenUnheard(S, w) ==
  /\ notes' = notes
  /\ stale' = (stale \cup {x \in Worker : /\ worker[x].pc \in {"waiting", "performing"}
                                          /\ worker[x].job \in S}) \ {w}

\* The trigger queue_job_notify, and the snapshots that become stale, when the
\* rows of the jobs in set S are updated by worker w, or by NoWork
Written(S, w) ==
  /\ notes' = IF up THEN notes \cup S ELSE notes
  /\ stale' = (stale \cup {x \in Worker : /\ worker[x].pc \in {"waiting", "performing"}
                                          /\ worker[x].job \in S}) \ {w}

\* Job.enqueue_waiting() and cancel_dependent_jobs() of job u once the states are
\* st: the waiting dependents whose parents are all in state s
Resolved(st, u, s) ==
  {v \in Dependents(u) : /\ st[v] = "wait_dependencies"
                         /\ \A p \in Parents[v] : st[p] \in State => st[p] = s}

Locks(w, u) == worker[w].job = u /\ worker[w].pc \in {"performing", "leaving"}

\* What still has to happen for the job, before a worker locks it
Underway(u) == \/ hand.job = u \/ requests[u] > 0
               \/ \E w \in Worker : worker[w].job = u /\ worker[w].pc \in {"started", "waiting"}

Strike(f) == f \in Fault /\ faults < MaxFaults /\ faults' = faults + 1

----------------------------------------------------------------------------
(* The job runner: run(), with its exception recovery                      *)

\* Mutant: NOT_DONE forgets the jobs on their way
ConnectPendingOnly ==
  /\ ~up
  /\ up' = TRUE /\ notes' = {}
  /\ loading' = [u \in Job |-> IF state[u] = "pending" THEN state[u] ELSE "none"]
  /\ UNCHANGED <<memory, rows, hand, requests, worker, stale, budget>>

\* LISTEN, then the SELECT of initialize_databases()
Connect ==
  /\ ~up
  /\ up' = TRUE /\ notes' = {}
  /\ loading' = [u \in Job |-> IF state[u] \in NotDone THEN state[u] ELSE "none"]
  /\ UNCHANGED <<memory, rows, hand, requests, worker, stale, budget>>

LoadJob(u) ==
  /\ up /\ loading[u] # "none"
  /\ \E p \in Props[u] : Notify(u, p, loading[u])
  /\ loading' = [loading EXCEPT ![u] = "none"]
  /\ UNCHANGED <<rows, notes, up, hand, requests, worker, stale, budget>>

InLoop == up /\ loading = NoLoad

Dead == {u \in Job : /\ state[u] \in Active /\ u \in aged /\ u \in lockable
                     /\ \A w \in Worker : ~Locks(w, u)}

TooManyRetries(u) == MaxRetries[u] # 0 /\ retry[u] > MaxRetries[u]

\* One UPDATE; FOR UPDATE SKIP LOCKED leaves out the jobs that are performed
RequeueDeadJobs ==
  /\ InLoop /\ Idle /\ Dead # {}
  /\ state' = [u \in Job |-> IF u \in Dead
                             THEN IF TooManyRetries(u) THEN "failed" ELSE "pending"
                             ELSE state[u]]
  /\ retry' = [u \in Job |-> IF u \in Dead /\ state[u] = "started"
                             THEN retry[u] + 1 ELSE retry[u]]
  /\ aged' = aged \ Dead
  /\ Written(Dead, NoWork)
  /\ UNCHANGED <<memory, lockable, overtaken, runner, requests, worker, budget>>

ProcessNotification(u) ==
  /\ InLoop /\ u \in notes
  /\ notes' = notes \ {u}
  /\ IF Exists(u) THEN \E p \in Props[u] : Notify(u, p, state[u]) ELSE RemoveJob(u)
  /\ UNCHANGED <<rows, runner, requests, worker, stale, budget>>

\* run_jobs(): a turn of the generators, up to the next job of the root
RunJobs ==
  /\ InLoop /\ hand = NoHand
  /\ \/ \E t \in now .. MaxNow : BeginRun(t)
     \/ \E c \in Channel : Open(c) \/ Exhaust(c) \/ Pause(c)
     \/ \E c \in Channel \ {Root}, u \in Job : Yield(c, u)
     \/ EndRun
  /\ UNCHANGED <<rows, notes, runner, requests, worker, stale, budget>>

RunJob(u) ==
  /\ InLoop /\ hand = NoHand /\ requests[u] < MaxRequests
  /\ Yield(Root, u)
  /\ hand' = [job |-> u, at |-> "yielded"]
  /\ UNCHANGED <<rows, notes, up, loading, requests, worker, stale, budget>>

\* Whatever the row has become since the runner heard of it
SetJobEnqueued ==
  LET u == hand.job IN
  /\ hand.at = "yielded"
  /\ IF Exists(u)
     THEN /\ state' = [state EXCEPT ![u] = "enqueued"]
          /\ aged' = aged \ {u}
          /\ overtaken' = IF state[u] \in {"done", "cancelled"} THEN overtaken \cup {u}
                          ELSE overtaken
          /\ Written({u}, NoWork)
     ELSE UNCHANGED <<state, aged, overtaken, notes, stale>>
  /\ hand' = [hand EXCEPT !.at = "enqueued"]
  /\ UNCHANGED <<memory, retry, lockable, up, loading, requests, worker, budget>>

AsyncHttpGet ==
  /\ hand.at = "enqueued"
  /\ requests' = [requests EXCEPT ![hand.job] = @ + 1]
  /\ hand' = NoHand
  /\ UNCHANGED <<memory, rows, notes, up, loading, worker, stale, budget>>

\* Mutant: close_databases(remove_jobs=False)
RestartKeepsJobs ==
  /\ up /\ Strike("restart")
  /\ gen' = [c \in Channel |-> "off"]
  /\ up' = FALSE /\ notes' = {} /\ loading' = NoLoad /\ hand' = NoHand
  /\ UNCHANGED <<tree, pause, live, now, sleep, lastYield, rows, requests, worker, stale, asks>>

\* Any exception: close_databases(), sleep and connect again
Restart ==
  /\ up /\ Strike("restart")
  /\ \E db \in {DbOf[u] : u \in Job} : RemoveDb(db)
  /\ up' = FALSE /\ notes' = {} /\ loading' = NoLoad /\ hand' = NoHand
  /\ UNCHANGED <<rows, requests, worker, stale, asks>>

\* The process is killed and another one started.  The threads of async_get() that
\* have not sent their requests die with it.
Kill ==
  /\ Strike("kill")
  /\ Renew
  /\ \E S \in SUBSET Job :
       requests' = [u \in Job |-> IF u \in S THEN 0 ELSE requests[u]]
  /\ up' = FALSE /\ notes' = {} /\ loading' = NoLoad /\ hand' = NoHand
  /\ UNCHANGED <<rows, worker, stale, asks>>

----------------------------------------------------------------------------
(* The workers: runjob() and _try_perform_job()                            *)

\* Job.load(); store() is the first to ask for depends_on, which is kept
Loaded(u) == [pc |-> "started", job |-> u, retry |-> retry[u], blocked |-> Blocked(u)]

\* Mutant: the state of the job is not looked at
StartAnyState(w, u) ==
  /\ worker[w].pc = "idle" /\ requests[u] > 0
  /\ requests' = [requests EXCEPT ![u] = @ - 1]
  /\ state[u] \in {"enqueued", "done"}
  /\ state' = [state EXCEPT ![u] = "started"]
  /\ lockable' = lockable \cup {u}
  /\ worker' = [worker EXCEPT ![w] = Loaded(u)]
  /\ Written({u}, w)
  /\ UNCHANGED <<memory, aged, retry, overtaken, runner, budget>>

\* Mutant: set_started() without add_lock_record()
StartUnlockable(w, u) ==
  /\ worker[w].pc = "idle" /\ requests[u] > 0
  /\ requests' = [requests EXCEPT ![u] = @ - 1]
  /\ state[u] = "enqueued"
  /\ state' = [state EXCEPT ![u] = "started"]
  /\ worker' = [worker EXCEPT ![w] = Loaded(u)]
  /\ Written({u}, w)
  /\ UNCHANGED <<memory, aged, retry, lockable, overtaken, runner, budget>>

\* SELECT ... FOR UPDATE, set_started(), store() and the first commit
Start(w, u) ==
  /\ worker[w].pc = "idle" /\ requests[u] > 0
  /\ requests' = [requests EXCEPT ![u] = @ - 1]
  /\ state[u] = "enqueued"
  /\ state' = [state EXCEPT ![u] = "started"]
  /\ lockable' = lockable \cup {u}
  /\ worker' = [worker EXCEPT ![w] = Loaded(u)]
  /\ Written({u}, w)
  /\ UNCHANGED <<memory, aged, retry, overtaken, runner, budget>>

\* The job is not enqueued (any more): the worker answers "" and forgets it
Refuse(u) ==
  /\ requests[u] > 0 /\ state[u] # "enqueued"
  /\ requests' = [requests EXCEPT ![u] = @ - 1]
  /\ UNCHANGED <<memory, rows, notes, runner, worker, stale, budget>>

Goes(w, pc) == worker' = [worker EXCEPT ![w].pc = pc]

\* lock(): the query's snapshot is the transaction's; no row is a RetryableJobError
Lock(w) ==
  LET u == worker[w].job IN
  /\ worker[w].pc = "started"
  /\ Goes(w, IF state[u] = "started" /\ u \in lockable THEN "waiting" ELSE "aborted")
  /\ stale' = stale \ {w}
  /\ UNCHANGED <<memory, rows, notes, runner, requests, budget>>

\* The row lock is granted, with the snapshot of before; perform() counts the try
Perform(w) ==
  /\ worker[w].pc = "waiting" /\ worker[w].retry < MaxAttempts
  /\ \A x \in Worker : ~Locks(x, worker[w].job)
  /\ worker' = [worker EXCEPT ![w].pc = "performing", ![w].retry = @ + 1]
  /\ UNCHANGED <<memory, rows, notes, runner, requests, stale, budget>>

\* Job.store() of a worker: its own state and count of tries, over whatever the row has
Store(w, s, tries) ==
  LET u == worker[w].job IN
  /\ state' = [state EXCEPT ![u] = s]
  /\ retry' = [retry EXCEPT ![u] = tries]
  /\ aged' = aged \ {u}
  /\ Written({u}, w)

\* The job's method returned; set_done() is stored in the same transaction
Done(w) ==
  /\ worker[w].pc = "performing" /\ "ok" \in Outcome
  /\ w \notin stale
  /\ Store(w, "done", worker[w].retry)
  /\ Goes(w, "done")
  /\ UNCHANGED <<memory, lockable, overtaken, runner, requests, budget>>

\* A serialization failure, of the method or because the row changed; the
\* transaction is aborted and its locks are gone
Conflict(w) ==
  /\ worker[w].pc = "performing"
  /\ w \in stale \/ "conflict" \in Outcome
  /\ Goes(w, "aborted")
  /\ stale' = stale \ {w}
  /\ UNCHANGED <<memory, rows, notes, runner, requests, budget>>

Exhausted(w) == LET m == MaxRetries[worker[w].job] IN m # 0 /\ worker[w].retry >= m

\* perform() raises a retryable error: the number of tries that count
Retried(w, tries) ==
  \/ "retry" \in Outcome /\ ~Exhausted(w) /\ tries = worker[w].retry
  \/ "ignored" \in Outcome /\ tries = worker[w].retry - 1

\* retry_postpone(): set_pending() is stored with a cursor of its own; it looks at
\* the parents as they were when the job was started
Postpone(w) ==
  LET s == IF worker[w].blocked THEN "wait_dependencies" ELSE "pending" IN
  /\ \/ worker[w].pc = "performing" /\ Goes(w, "leaving")
          /\ \E tries \in {worker[w].retry, worker[w].retry - 1} :
               Retried(w, tries) /\ Store(w, s, tries)
     \/ worker[w].pc = "aborted" /\ worker' = [worker EXCEPT ![w] = IdleWorker]
          /\ Store(w, s, worker[w].retry)
  /\ overtaken' = overtaken \ {worker[w].job}
  /\ UNCHANGED <<memory, lockable, runner, requests, budget>>

\* An exception, or the last retry: set_failed() with a cursor of its own
Fail(w) ==
  /\ worker[w].pc = "performing"
  /\ "error" \in Outcome \/ ("retry" \in Outcome /\ Exhausted(w))
  /\ Store(w, "failed", worker[w].retry)
  /\ Goes(w, "leaving")
  /\ UNCHANGED <<memory, lockable, overtaken, runner, requests, budget>>

\* The transaction that holds the lock is rolled back
Leave(w) ==
  /\ worker[w].pc = "leaving"
  /\ worker' = [worker EXCEPT ![w] = IdleWorker]
  /\ stale' = stale \ {w}
  /\ UNCHANGED <<memory, rows, notes, runner, requests, budget>>

\* Mutant: _enqueue_dependent_jobs() is left out
ForgetDependents(w) ==
  /\ worker[w].pc = "done"
  /\ worker' = [worker EXCEPT ![w] = IdleWorker]
  /\ UNCHANGED <<memory, rows, notes, runner, requests, stale, budget>>

EnqueueDependentJobs(w) ==
  LET S == Resolved(state, worker[w].job, "done") IN
  /\ worker[w].pc = "done"
  /\ state' = [v \in Job |-> IF v \in S THEN "pending" ELSE state[v]]
  /\ Written(S, w)
  /\ worker' = [worker EXCEPT ![w] = IdleWorker]
  /\ UNCHANGED <<memory, aged, retry, lockable, overtaken, runner, requests, budget>>

\* The worker is killed: the database rolls its transaction back.  It is late when
\* the job is done and only its dependents are to be enqueued.
Crash(w) ==
  /\ worker[w].pc # "idle"
  /\ Strike(IF worker[w].pc = "done" THEN "late crash" ELSE "crash")
  /\ worker' = [worker EXCEPT ![w] = IdleWorker]
  /\ stale' = stale \ {w}
  /\ UNCHANGED <<memory, rows, notes, runner, requests, asks>>

\* urlopen() only logs the exception
LoseRequest(u) ==
  /\ requests[u] > 0 /\ Strike("loss")
  /\ requests' = [requests EXCEPT ![u] = @ - 1]
  /\ UNCHANGED <<memory, rows, notes, runner, worker, stale, asks>>

----------------------------------------------------------------------------
(* The database's other clients, and time                                  *)

Create(G) ==
  /\ \A u \in G : state[u] = "none"
  /\ state' = [u \in Job |-> IF u \in G
                             THEN IF Parents[u] = {} THEN "pending" ELSE "wait_dependencies"
                             ELSE state[u]]
  /\ Written(G, NoWork)
  /\ UNCHANGED <<memory, aged, retry, lockable, overtaken, runner, requests, worker, budget>>

Ask == asks < MaxAsks /\ asks' = asks + 1

\* queue.requeue.job: set_pending() of any job but those that wait
Requeue(u) ==
  /\ Ask /\ Exists(u) /\ state[u] # "wait_dependencies"
  /\ state' = [state EXCEPT ![u] = IF Blocked(u) THEN "wait_dependencies" ELSE "pending"]
  /\ retry' = [retry EXCEPT ![u] = 0]
  /\ aged' = aged \ {u} /\ overtaken' = overtaken \ {u}
  /\ Written({u}, NoWork)
  /\ UNCHANGED <<memory, lockable, runner, requests, worker, faults>>

\* A user decides that job u is in state s; the dependents it resolves become t
Decide(u, s, t) ==
  LET st == [state EXCEPT ![u] = s]
      S  == Resolved(st, u, s)
  IN /\ Ask
     /\ state' = [v \in Job |-> IF v \in S THEN t ELSE st[v]]
     /\ aged' = aged \ {u}
     /\ Written({u} \cup S, NoWork)
     /\ UNCHANGED <<memory, retry, lockable, overtaken, runner, requests, worker, faults>>

\* queue.jobs.to.cancelled keeps the selected jobs in these states
Cancel(u)  == state[u] \in {"pending", "failed", "enqueued"} /\ Decide(u, "cancelled", "cancelled")
SetDone(u) == Exists(u) /\ Decide(u, "done", "pending")

\* autovacuum(), long after, by the dates: the lock's row goes with the job's.  The
\* trigger is silent about a job that was done.
Autovacuum(u) ==
  /\ state[u] \in {"done", "cancelled"} \/ (Exists(u) /\ u \in overtaken)
  /\ ~Underway(u) /\ \A w \in Worker : worker[w].job # u
  /\ state' = [state EXCEPT ![u] = "gone"]
  /\ lockable' = lockable \ {u} /\ overtaken' = overtaken \ {u}
  /\ aged' = aged \ {u} /\ retry' = [retry EXCEPT ![u] = 0]
  /\ IF state[u] = "done" THEN UNCHANGED <<notes, stale>> ELSE Written({u}, NoWork)
  /\ UNCHANGED <<memory, runner, requests, worker, budget>>

\* Ten seconds after date_enqueued.  It is a fault when no worker has locked the
\* job by then although one is about to.
Age(u) ==
  /\ state[u] \in Active /\ u \notin aged
  /\ IF Underway(u) THEN Strike("slow") /\ UNCHANGED asks ELSE UNCHANGED budget
  /\ aged' = aged \cup {u}
  /\ UNCHANGED <<memory, state, retry, lockable, overtaken, notes, runner, requests, worker, stale>>

----------------------------------------------------------------------------
(* History                                                                 *)

\* A worker has job u and has not stored what became of it
At(w, u) == worker[w].job = u /\ worker[w].pc \in {"started", "waiting", "performing", "aborted"}

Crossing == {u \in Job : \E w, x \in Worker : w # x /\ At(w, u) /\ At(x, u)}

\* setBack: the jobs that wait and were set to wait again since the runner connected;
\* spent: the rows of jobs whose effects were committed, and that no user set otherwise since;
\* crossed: the jobs that two workers ever had at a time
Remember ==
  /\ setBack' = {u \in Job : /\ state'[u] = "wait_dependencies" /\ ~(up' /\ ~up)
                             /\ u \in setBack \/ state[u] \notin {"wait_dependencies", "none"}}
  /\ spent' = {u \in Job :
       /\ u \in spent \/ \E w \in Worker : /\ worker[w].job = u /\ worker[w].pc = "performing"
                                         /\ worker'[w].pc = "done"
       /\ state'[u] # "gone" /\ ~(asks' # asks /\ state'[u] # state[u])}
  /\ crossed' = crossed \cup Crossing'

----------------------------------------------------------------------------
RunnerInit ==
  /\ Init
  /\ state = [u \in Job |-> "none"]
  /\ retry = [u \in Job |-> 0]
  /\ aged = {} /\ lockable = {} /\ overtaken = {} /\ notes = {} /\ stale = {}
  /\ up = FALSE /\ loading = NoLoad /\ hand = NoHand
  /\ requests = [u \in Job |-> 0]
  /\ worker = [w \in Worker |-> IdleWorker]
  /\ faults = 0 /\ asks = 0
  /\ setBack = {} /\ spent = {} /\ crossed = {}

RunnerStep ==
  \/ Connect \/ RequeueDeadJobs \/ RunJobs \/ SetJobEnqueued \/ AsyncHttpGet
  \/ \E u \in Job : LoadJob(u) \/ ProcessNotification(u) \/ RunJob(u)

WorkerStep(w) ==
  \/ Lock(w) \/ Perform(w) \/ Done(w) \/ Conflict(w) \/ Postpone(w) \/ Fail(w)
  \/ Leave(w) \/ EnqueueDependentJobs(w)

Answer(u) == Refuse(u) \/ \E w \in Worker : Start(w, u)

UserStep == \E u \in Job : Requeue(u) \/ Cancel(u) \/ SetDone(u) \/ Autovacuum(u)

Happens ==
  \/ RunnerStep \/ Restart \/ Kill
  \/ \E w \in Worker : WorkerStep(w) \/ Crash(w)
  \/ \E u \in Job : Answer(u) \/ LoseRequest(u) \/ Age(u)
  \/ \E G \in Graphs : Create(G)
  \/ UserStep

RunnerNext == Happens /\ Remember

RunnerSpec == RunnerInit /\ [][RunnerNext]_runnerVars

(***************************************************************************)
(* Fairness: run() loops for ever, so that each round it requeues the dead *)
(* jobs and handles its notifications; workers go on with what they do, as *)
(* the jobs' methods end; Odoo answers the requests it received and        *)
(* PostgreSQL grants a lock that becomes free; time passes.  Nothing is    *)
(* assumed of users and faults.                                            *)
(***************************************************************************)
FairSpec ==
  /\ RunnerSpec
  /\ WF_system(RunnerStep) /\ SF_system(RequeueDeadJobs)
  /\ \A u \in Job : SF_system(ProcessNotification(u)) /\ SF_system(Answer(u))
                   /\ WF_system(Age(u))
  /\ \A w \in Worker : WF_system(WorkerStep(w)) /\ SF_system(Perform(w))

----------------------------------------------------------------------------
RunnerTypeOK ==
  /\ state \in [Job -> State \cup {"none", "gone"}]
  /\ aged \subseteq Job /\ lockable \subseteq Job /\ notes \subseteq Job
  /\ retry \in [Job -> Nat] /\ requests \in [Job -> Nat]
  /\ up \in BOOLEAN
  /\ loading \in [Job -> NotDone \cup {"none"}]
  /\ hand \in [job : Job \cup {NoWork}, at : {"none", "yielded", "enqueued"}]
  /\ \A w \in Worker : worker[w].pc # "idle" => worker[w].job \in Job
  /\ \A w \in Worker : worker[w].pc = "performing" => worker[w].retry > 0
  /\ worker \in [Worker -> [pc : {"idle", "started", "waiting", "performing",
                                 "aborted", "leaving", "done"},
                           job : Job \cup {NoWork}, retry : Nat, blocked : BOOLEAN]]
  /\ stale \subseteq Worker

ActiveJobs  == {u \in Job : state[u] \in Active}
ActiveLoads == {u \in Job : loading[u] \in Active}

\* The root channel's capacity bounds the jobs that are enqueued or started in the
\* database, whatever the users do, and through restarts of the runner: what it
\* does not remember it loads before it sends anything.
RootCapacity == Capacity[Root] # 0 => Cardinality(ActiveJobs) <= Capacity[Root]

\* A job that is enqueued or started holds its place in the root channel, unless
\* the runner is just starting.
ActiveIsCounted ==
  up => \A u \in ActiveJobs : u \in tree[Root].running \/ loading[u] \in Active

\* Where the runner's memory has the job of a row in state s
InMemory(u, s) ==
  CASE s = "pending"  -> u \in UNION {tree[c].queue : c \in Channel}
    [] s \in Active   -> u \in tree[Root].running
    [] s = "failed"   -> u \in UNION {tree[c].failed : c \in Channel}
    [] s = "wait_dependencies" -> live[u] = NoJob \/ u \in setBack
    [] OTHER          -> live[u] = NoJob

\* run_jobs() holds a job only while the root's generator waits to go on
HandInv ==
  hand.at # "none" => /\ up /\ loading = NoLoad
                      /\ hand.job \in tree[Root].running
                      /\ gen[Root] \in {"yielded", "throttled"}

\* A runner that starts knows no job but those it has loaded
LoadInv ==
  /\ ~up => Idle /\ \A u \in Job : live[u] = NoJob
  /\ \A u \in Job : loading[u] # "none" => Idle /\ live[u] = NoJob

\* The jobs that run in the root channel, or will when they are loaded
RunningBound ==
  Capacity[Root] # 0 => Cardinality(tree[Root].running \cup ActiveLoads) <= Capacity[Root]

\* The inductive invariant
RunnerInv ==
  /\ RunnerTypeOK /\ PlaceInv
  /\ gen \in [Channel -> {"off", "fresh", "open", "yielded", "throttled", "closed"}]
  /\ now \in Nat
  /\ HandInv /\ LoadInv /\ ActiveIsCounted /\ RunningBound /\ RootCapacity

\* What the runner remembers of a job is what its row says, or it will be told: no
\* sequence of writes, deletions and restarts makes it lose a job for good.  A job
\* that waits for its parents has no place in the channels, unless it had one and was
\* set back to waiting since the runner connected: notify() passes over that state, so
\* that it keeps what it had, a slot perhaps (ParentRuns).
MemoryFollows ==
  up => \A u \in Job : \/ u \in notes \/ loading[u] # "none"
                       \/ hand = [job |-> u, at |-> "yielded"]
                       \/ InMemory(u, state[u])

\* The effects of a job are committed once, although it is enqueued again after crashes,
\* restarts, etas and lost requests, and although old requests for it arrive late: they
\* are committed again only when a user asks for it, or when two workers were at the job
\* at a time (a slow one, whose job was requeued as a dead one's).
DoneOnce ==
  [][ \A w \in Worker : Done(w) => worker[w].job \notin spent \ crossed ]_runnerVars

\* A worker that dies does not leave its job started for ever
StartedEnds == \A u \in Job : state[u] = "started" ~> state[u] # "started"

\* A job that was never started and that nobody is about to start: requeue_dead_jobs()
\* does not know it, and it keeps its place in the channels.
Orphan(u) == state[u] = "enqueued" /\ u \notin lockable /\ ~Underway(u)

\* perform() takes the try back that it counted
TakesBack(w) == /\ worker[w].pc = "performing" /\ Goes(w, "leaving")
                /\ retry'[worker[w].job] = worker[w].retry - 1

\* With a limit on its retries and a bounded number of faults, a job comes to an
\* end, unless a request that was lost has left an orphan, or tries that are not
\* counted (ignore_retry) go on for ever.  It is said of jobs whose methods do not
\* conflict whenever they are performed, as such tries are not limited either.
JobEnds ==
  \/ []<><<\E w \in Worker : TakesBack(w)>>_system
  \/ \A u \in Job : state[u] = "pending" ~> \/ state[u] \in {"done", "failed", "cancelled"}
                                           \/ \E v \in Job : Orphan(v)

\* A job whose parents are done goes on
GraphGoesOn ==
  \A u \in Job : state[u] = "wait_dependencies" /\ ~Blocked(u) ~> state[u] # "wait_dependencies"

(***************************************************************************)
(* What the documentation says and the code does not do                    *)
(***************************************************************************)

\* CONFIGURE.md: "Jobs that remain in `enqueued` or `started` state [...] will be
\* automatically re-queued."
EnqueuedEnds == \A u \in Job : state[u] = "enqueued" ~> state[u] # "enqueued"

\* USAGE.md: when the parent job is successful on a second try, "the dependency is
\* resolved and the graph will continue to be processed."  So the parent is run.
ParentRuns ==
  \A u, v \in Job : u \in Parents[v] =>
    (state[u] = "pending" /\ state[v] = "wait_dependencies" ~> state[u] # "pending")
=============================================================================
