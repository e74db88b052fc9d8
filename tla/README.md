# Verification of ti_addons

TLA+ models of the parts of this repository that keep state and run concurrently, with the
TLC configurations that check them on small instances and TLAPS proofs for every instance.
Most of what is hard here is `queue_job`, the asynchronous job queue: several processes
and a database, joined by notifications and HTTP requests that may be lost. Beside it,
`edu_islamic_complex` checks its constraints in the snapshots of concurrent transactions.

## The system

| part | state | operations | interacts with |
|---|---|---|---|
| `jobrunner/channels.py` `PriorityQueue` | heap, known and removed objects | add, remove, pop, peek | the channel queue that owns it |
| `ChannelQueue` | one queue of ready jobs, one of jobs with an eta | add, remove, pop(now), get_wakeup_time | its channel |
| `Channel`, `ChannelManager` | a tree of channels, each with queue, running, failed and a pause; the live job objects | notify, remove_job, remove_db, get_jobs_to_run (generators), get_wakeup_time | the runner's thread, which alone calls them |
| `jobrunner/runner.py` `QueueJobRunner` | connections, notifications not yet read, the job it is sending | load, requeue dead jobs, read notifications, enqueue and send, recover | the rows (SQL), the workers (HTTP, never answered), the manager |
| `Database`, `jobrunner/__init__.py` | the master's advisory locks | connect, elect, close, stop, recover | other runners, through PostgreSQL |
| `controllers/main.py`, `job.py` | a worker's two transactions and its `Job` object | start, lock, perform, done, retry, fail, enqueue dependents | the rows, the lock records |
| `models/queue_job.py`, wizards | the rows | set done, cancel, requeue, edit, autovacuum | workers and runner, by the NOTIFY trigger |
| `delay.py`, `models/base.py` | graphs of delayables before they are stored | delayable, chain, group, split, on_done, delay, with_delay | creates rows, or executes directly |
| `models/queue_job_channel.py`, `queue_job_function.py` | channels by complete name, job functions, a cache of their configurations | create, write, unlink, job_config | name the channels of jobs for the manager |
| `ChannelManager`'s configuration | a text, the channels made of it and for jobs | parse, configure, find or make a channel | the rows' channel names |
| `edu_islamic_complex` | students, enrollments, groups, assignments, sessions, attendance, fees | constraints, generation of sessions, invoices | Odoo's ORM; snapshot isolation between users |
| `muk_web_*` | interface preferences, a refresh timer, colour assets | toggles, save and reset | browser, attachments |
| `ti_*`, `ab_debug` | declarations | - | - |

What makes it hard:

* *Concurrency.* Workers and users run REPEATABLE READ transactions on the same rows; the
  runner runs outside of them and acts on what it remembers. Several runners may be up.
* *Failure.* A worker may die between any two commits, the runner anywhere in its loop, a
  connection unnoticed; requests may be lost. Recovery rests on a row lock held by whoever
  performs the job and on loading all jobs again.
* *Ordering and staleness.* Notifications are read last in first out and merged; a `Job`
  object keeps what it read at its start; a generator goes on where it stopped.
* *Time.* Etas, throttles, a wake-up time, ten seconds before a job may be found dead.

What makes each part correct: the heap is an ordered set; a channel's queue gives no job
before its time and never stalls; a job is in one place of the tree and every channel above
counts it once; the runner's memory follows the rows and its capacity holds in the database;
the effects of a job are committed once and it comes to an end; a graph's jobs follow
their parents and go on when they may; one runner is master of a database at a time, and
runners do not keep each other out.

## The modules

### AbstractQueue, PriorityQueue (PriorityQueueProofs)

`PriorityQueue` is the class of that name. `heap` says how many copies of an object the
heapq list holds, `known` and `removed` are the two sets. Every call is a step and each turn
of the loops of `pop()` and `__getitem__()` is one, as they drop removed objects on the way.
`AbstractQueue` is what the callers rely on, a set of which a smallest member is returned;
`ImplementsQueue` maps `members` to `known \ removed`.

### ChannelQueue (ChannelQueueProofs)

The two queues of a channel as the sets that AbstractQueue promises. `Due`, `Ready` and
`Waiting` split the jobs as the `while` loop of `pop()` does, `HeldBack` is the test of a
sequential channel, `asked` remembers the eta that `set_no_eta()` clears.

### Channels (JobRunnerProofs)

`Channel` and `ChannelManager`. `tree[c]` holds `_queue`, `_running` and `_failed` of channel
`c`, `pause` is `_pause_until`, `live` stands for `_jobs_by_uuid`, which is weak: a job object
is alive as long as a channel holds it. The recursive walks to the root (`set_done`,
`set_running`, ...) are functions on the whole tree by `Down[c]`, the channels from `c` to the
root. `get_jobs_to_run()` is a tree of generators; `gen[c]` is where each is, and one turn is
one step (`Open`, `Yield`, `Exhaust`, `Pause`), because the runner acts, and may fail, between
two turns of the root's. The clock moves when the runner asks again (`BeginRun`). `RemoveDb` is
what an error does to a runner that goes on, `Renew` a new process, whose channels know neither
a job nor a pause.

### JobRunner (JobRunnerProofs)

Extends Channels: the steps of the runner are those of its manager. Added are the rows
(`state`, `aged` for a `date_enqueued` older than ten seconds, `retry`, `lockable` for the
lock record, `overtaken` for one that the runner enqueued after it was done or cancelled, and that
still bears that date), the notifications on their way, the requests in flight and the workers.
The runner is `Connect`, `LoadJob`, `RequeueDeadJobs`, `ProcessNotification`, `RunJobs`,
`RunJob`/`SetJobEnqueued`/`AsyncHttpGet`; after an error it goes on with the channels that it has
(`Restart`, `RemoveDb`), a process that died with new ones (`Kill`, `Renew`). A worker goes `Start`
(first commit), `Lock`, `Perform`, then `Done`/`EnqueueDependentJobs`, `Postpone`, `Fail` or
`Conflict`; a retry takes its try back when it is to be ignored (`Retried`). A snapshot is `stale`
once another client wrote the worker's row. Histories: `setBack` are the jobs that were set to
wait for their parents again since the runner connected, `spent` those whose effects were
committed and that no user set otherwise since, `crossed` those that two workers ever had at a
time. Only one database has jobs; others would take capacity in the same channels and nothing
else.

### JobGraph (JobGraphProofs)

The same commits again, but with what JobRunner leaves out: the snapshot each transaction
decides on. `tx[c]` is a client's transaction with its snapshot and the rows that were
written meanwhile; a write of one of them fails, a read does not. Users press the buttons in
the states in which the form shows them, and run the wizards on any job (`Clickable`): a job that
is done or runs may be requeued. How a pending job comes to a worker is left to JobRunner, and
with it what users decide on a job that is enqueued and not yet started.

### MasterElection (MasterElectionProofs)

Runner processes that connect to the databases in order, take each advisory lock or give
all up, lose connections without noticing, fail, are stopped, recovered or killed.

### ChannelNames, ChannelRecords (ChannelRecordsProofs)

The names of channels on both sides of the queue. `ChannelNames` is the manager's: the
configuration is parsed as a whole and applied an entry at a time (`ParseConfig`, `ReadEntry`),
`tree` maps full names to limits, and `PlaceOf` is `get_channel_by_name` with its fallback, which
walks the whole asked name again below the channel it falls back on. `ChannelRecords` adds the
records: `channels` with the recursive complete name, `channelOf` a job function, `jobConfig`
the cache, `rows` with the channel and the dates that the vacuum looks at; `SetJobEnqueued` is the
runner's update, which changes the state and leaves the dates. `LongKept` are
the channels with a removal interval that is not over yet for what was just finished. Of a
throttle only its errors are here, the rest is in Channels; a removal interval of a record is one
of two lengths.

### DelayGraph (DelayGraphProofs)

A program that builds a graph and delays it. `parts[n]` says what a delayable, chain or group
is made of and what its `_head()` and `_tail()` return, `edges[n]` is its own `_graph`, and
`Visited`, `WholeVertices`, `WholeEdges` are `_connect_graphs()` with its merges; `Visited` is the
least `Connected` set of nodes around the delayed one. `delay()` is
one step (`DelayWhole`): it refuses, executes directly, drops the jobs for their twins
or stores them; a direct execution is a step per job (`Execute`, `Fail`). Histories: `order`
is what the program asked for, `asked` the part of it that was stored. Of a stored job
`depends_on` is modelled. `reverse_depends_on`, by which a parent finds its children (job.py:524), is
the same relation read the other way as long as somebody holds the children's objects, since it
is a weak set (job.py:482-484); the delayables of the graph do.

### School (SchoolProofs)

`edu_islamic_complex` under snapshot isolation. `db` are the committed rows, `tx[c]` the
transaction of a user with its snapshot and the rows that others wrote meanwhile; `Commit`
fails when both wrote a row, as PostgreSQL has it. `Recompute` is the ORM's recomputation of
the stored fields that depend on what is written, which is what makes two transactions meet in
a group's row; a constraint that names such a field is checked when it was computed again
(`Reweighed`, `AssignmentsOk`: an enrollment may make an assignment of its group too heavy).
Constraints are operators on the snapshot with the request's writes. Which of a student's open
enrollments is his current one is left open. Invoices
are written by one request at a time, and a day does not pass within a transaction.

### MC modules

`MC<Module>` gives the constants of a module their small values, and `MC<Module>*.cfg`
names them. Definitions marked *Mutant* are plausible mistakes, kept beside the operator they
change to show that a property can fail.

## The runs

| run | properties | instance |
|---|---|---|
| `priority_queue` | `IInv`, `LengthTellsEmpty`, `ImplementsQueue`, `CallReturns` | 4 objects, two of them equal in rank, calls without bound |
| `channel_queue` | `IInv`, `NeverEarly`, `DueJobsCompete`, `NoStall`, `Drains` | 3 jobs, etas 0 to 2, clock to 3, 4 adds, sequential or not |
| `channels` | `PlaceInv`, `WakesInTime`, `WakeupAhead`, `Throttled` | root, a sequential and a throttled channel, 3 jobs whose properties may change, clock to 3 |
| `runner_safety` | `RunnerInv`, `RootCapacity`, `MemoryFollows`, `DoneOnce` | 2 jobs, one waiting for the other, in a throttled channel and the root, 2 workers, 1 fault (a worker dies, before or after its commit of *done*, or is slow, the runner fails or is killed), 1 request of a user, 2 requests in flight per job, 2 tries, methods that end well, fail, ask for a retry or for one that does not count |
| `runner_progress` | `StartedEnds`, `JobEnds`, `GraphGoesOn` | a chain of 2 jobs, 1 worker, 2 faults, max_retries 2, 4 tries, methods that end well or ask for a retry of either kind |
| `runner_lost_request` | `EnqueuedEnds` (fails) | 2 jobs, 1 lost request |
| `job_graph` | `OrderInv`, `ForgetInv`, `WorkersForgetNone` | a group of two jobs and a group of two that waits for it, 2 workers, 1 user, 1 request of any kind about any job |
| `job_graph_overlap` | `NoChildForgotten` (fails) | two jobs, one that waits for both, one for the first, 2 workers |
| `master_election` | `MasterInv`, `SomeoneServes` | 2 runners that list 3 databases in different orders, 3 faults |
| `channel_names` | `AsConfigured`, `KeepsItsLimits`, `NamesFollow`, `NeverMoved`, `VacuumTakesFinished` | 6 configurations, 4 of which fail, 2 channels besides the root, 1 function, 2 jobs, 3 writes and 3 requests about jobs, 5 together |
| `delay_graph` | `OrderKept`, `StoredGraph`, `DirectInOrder` | 4 delayables, 2 with the same identity key, 2 chains or groups, of two members or none, 4 calls, 2 of them `delay()`, with and without delay |
| `school` | `CountsRight`, `BlocksOnlyTheLate`, `SerialInv`, `NeverOverbooked`, `NeverOverloaded` | 2 students, 3 enrollments, a group, a teacher, 2 assignments, an invoice, 2 users, 3 requests |

What the properties mean is in the comment above each. The least obvious:

* `MemoryFollows` relates the runner's channels to the rows: whenever they differ, a
  notification, the load or the job in hand still stands between them. It is what makes the
  merged, reordered notifications and the restarts harmless. A job that waits for its parents
  must be in no channel, with one lasting exception, which the property names: a job that was
  set back to wait since the runner connected keeps what it had (`MCJobRunnerSlot`, below).
* `DoneOnce` is about commits: a job may be enqueued, sent and started several times, and its
  effects are committed once, unless a user asks for it again. Excepted are the jobs that two
  workers had at a time; without the exception TLC finds a job performed twice (below).
* `RootCapacity` is about the *rows*: the root's capacity bounds the jobs enqueued or
  started in the database, although the channels are rebuilt after each failure.
* `JobEnds` allows for two things: an `Orphan`, enqueued, never started, nobody on the way; and a
  method that asks for ever for retries that do not count (`TakesBack`).
* `WakesInTime` and `WakeupAhead` together say that the wake-up time is right: not after the
  first moment a job can run, and not now.
* `WorkersForgetNone` depends on the order of two commits: a worker that looked for the
  dependents in the transaction that makes its job done would forget a child. It is stated for
  jobs that wait for the same parents as their siblings do, which is what groups and chains
  make. With other graphs, as a few `on_done` make them, it is false (`job_graph_overlap`); an
  instance with one child does not tell.
* `NeverOverbooked` holds although the check of the capacity sees no other transaction: both
  write the stored count of the group. `SerialInv` and `NeverOverloaded` have no such row
  in common, so they are stated for what does not overlap; drop the condition and TLC finds
  two open enrollments of a student, a session twice, a teacher over his limit.
* `NeverOverloaded` is about more than assignments: a teacher's load grows with each student
  enrolled in one of his groups, by a request that names no teacher.
* `BlocksOnlyTheLate` is the half that the stored days keep: they are too few, never too many.
  It holds whichever open enrollment is the student's current one.
* `VacuumTakesFinished` excepts the rows that the runner enqueued after they were done or
  cancelled (`overtaken`), and no others.
* `OrderKept` compares what the program asked for with what the rows wait for, through all
  merges; it leaves out the nested chains whose ends are wrong (`ChainsAreDone`, below) and the
  chains that an empty group cuts.
* `NamesFollow` leaves out the functions whose channel was renamed since the cache was
  cleared: no write of a channel clears it.
* `KeepsItsLimits` and `NeverMoved` say that a job comes under the same limits whatever
  channels other jobs made before it.

*Bounds.* Two jobs are enough for dependence, competition for a slot and a job overtaken by
another; three in the queues let keys and etas disagree in every way and let the first of
the eta queue differ from the first by key. Capacity 1 makes every error of counting show.
Two workers are needed for a double start. One fault in `runner_safety` and two in
`runner_progress` include a crash during recovery; more add length, not kinds of step.
Three requests of two users are two that overlap and one before; two names of channels
make a parent, a child and a name used twice; four calls make a chain of a chain
that is followed, delayed, extended and delayed again.
`MaxRequests`, `MaxWrites`, `MaxCalls`, `MaxDelays`, `MaxAttempts`, `MaxFaults`, `MaxAsks` and
`MaxNow` are guards on counters. Two constraints keep a run small: `CrossedAlone`
(`runner_safety`), a job that two workers had at a time and a request of a user are not explored
together; `FewRequests` (`channel_names`), five writes and requests together. `CHECK_DEADLOCK FALSE`
stands where the system rests when all jobs have ended.

*Fairness.* A call on the heap runs to its end, as one thread makes it. `run()` loops without
end and in each round requeues the dead, reads its notifications and runs jobs, hence weak
fairness of `RunnerStep` and strong fairness of the parts of a round. Workers go on, since
jobs' methods end; Odoo answers the requests that reach it; PostgreSQL grants a lock that is
free. Time passes. Users and faults owe nothing, and faults are bounded: with unlimited
crashes nothing ends. In MasterElection each process goes on, and a dead connection is found
by the next use.

### Where the documentation and the code disagree

Two runs fail and show these, each with a trace:

1. `runner_lost_request`: dead jobs are looked for among the lock records, which a job gets
   when it is first started. A job whose only request was lost stays enqueued, and keeps its
   slot until the runner is restarted and beyond.
2. `job_graph_overlap`: the retry loop of `_enqueue_dependent_jobs` does not roll back, so that
   its second try fails in an aborted transaction, with an error it does not retry, and the
   request ends. When two workers enqueue a common child, the later one forgets its other
   children, whose parents are all done: no user and no crash is needed, only a graph in which
   `c` waits for `a` and `b`, and `d` for `a` alone.

More disagreements can be reproduced with configurations that are not among the runs (`tlc
-config MCChannelQueueOrder.cfg MCChannelQueue` and so on); their properties stand in the
modules:

* `MCChannelQueueOrder` (`SequentialOrder`): a sequential channel compares only the job with
  the *nearest* eta with the job it is about to start, so one that precedes it with a later
  eta is overtaken.
* `MCJobRunnerSlot` (`ParentRuns`): a job that the runner enqueued and that is set to wait for
  its parent again keeps its slot, since `notify()` ignores that state. With capacity 1 the
  parent never runs.
* `MCJobGraphSkew` (`NoChildForgotten`): a manual *set to done* looks for the dependents in the
  transaction that makes the job done. With a worker at the other parent each sees the other
  not done.
* `MCJobGraphEdit` (`NoChildForgotten`): the same loop forgets a child because a user saves its
  form at the time.
* `MCDelayGraphChain` (`ChainsAreDone`): `_head()` and `_tail()` of a chain (delay.py:331) ask its
  ends for the opposite end. A chain within a chain is then tied by the wrong job: with
  `a.on_done(chain(chain(b, c), d))` only `c` waits for `a`. delay.py:305-306 says "A job or a
  group of jobs depending on a group can be executed only after the last job of the chain is
  done."
* `MCChannelRecordsVacuum` (`VacuumTakesDone`): queue_job.py:386 says that the vacuum is to
  "Delete all jobs done based on the removal interval". `set_job_enqueued` overwrites the state of
  a job that was cancelled or done when the runner had it in hand, and leaves its date, as do the
  start and a failure: the job is deleted while it is enqueued, runs, or has failed.

Other gaps that the models show when asked, which the passing runs leave out by name:

* a worker that dies between the commit of *done* and the dependents (the fault
  `"late crash"` in `runner_progress`) leaves them waiting;
* a job cancelled after the runner took it from its channel is enqueued again, and performed;
* two workers may have a job at a time: one is slow to lock its lock record, the job is found
  dead and sent again, the second worker takes the lock and the first one's `lock()` fails, which
  is a retry (controllers/main.py:92). It is stored after the second has stored *done*, so that
  the job is pending again and performed a second time (`crossed`);
* a `RetryableJobError` with `ignore_retry` takes back the try that was counted (job.py:497-499):
  a job whose method always raises one is retried for ever, whatever `max_retries`;
* a new process of the runner knows of no pause: a throttled channel may yield at once, so that
  `Throttled` is about what one process yields;
* a serialization failure (`"conflict"` in `Outcome`) is retried past `max_retries`, which
  only `Job.perform()` looks at;
* a job postponed by a worker looks at the parents as they were when it started, and may
  wait for one that is done;
* the requeue wizard takes any job that does not wait, and so does a form's requeue that Odoo runs
  again after a serialization failure: a job that is done or runs is set pending, and a child that
  started in between may then wait for ever. Hence `touched` records each requeue but that of a
  failed job;
* cancelling a job cancels its direct dependents, theirs wait on;
* when all keyed jobs of a graph have twins, the other jobs of the graph are not stored
  either, and only one of the generated jobs is replaced (`Drop`, `dropped`);
* a chain with an empty group in it is cut there: in `chain(a, group(), b)` nothing ties `b` to
  `a`, although delay.py:42-44 says that the jobs of a chain are executed sequentially;
  and `group().on_done(b)` does not reach `b` when a neighbour is delayed, so it is not stored
  (`right` in `parts` is false for these);
* a channel's new name reaches neither the cache of job functions, nor the rows, nor the
  vacuum, which finds no job of the old name;
* a job on `root.a.x` without configuration makes `root.a.a.x`: the walk repeats the segments
  (`WalkFrom`). It comes under the limits of `root.a` all the same (`KeepsItsLimits` says that none
  is missed), and under those of `root.a.a` as well if that is configured, which nobody asked for.

## The proofs

TLAPS proves these for all values of the constants, from the named assumptions of the
modules (a finite tree rooted in `Root`, distinct sequence numbers, a graph of known jobs,
distinct database names, finite sets of nodes, configurations that are sequences of entries,
channel names that are sequences of segments, an `Unborn` that is neither student nor group,
limits on the load of teachers that are numbers, finitely many assignments):

| theorem | says | argument |
|---|---|---|
| `KeepsBookkeeping`, `LengthIsRight` | `IInv`, `LengthTellsEmpty` | the heap holds exactly the known objects, once; the length is a difference of cardinalities of a set and its subset |
| `Refinement` | `ImplementsQueue` | each step maps to a step of AbstractQueue or leaves it alone; a smallest live object is at the head once the removed ones before it are gone |
| `QueuesStayComparable`, `PopIsNeverEarly`, `PopReturnsFirstDue` | `IInv`, `NeverEarly`, `DueJobsCompete` | a job loses its eta only when it is due, so `asked` is past for all ready jobs |
| `NeverStalls` | `NoStall` | a pop that returns nothing has moved all due jobs; what is left has a least eta, and it lies ahead |
| `JobsInOnePlace` | `PlaceInv` | a job is failed at home, queued in one channel of its way and running above, or running all the way: each operation moves it from one of these to another; lemmas on `Down` replace induction over the tree |
| `ThrottleKept`, `NeverOversleeps`, `NeverSpins` | `Throttled`, `WakesInTime`, `WakeupAhead` | see below |
| `RunnerDrivesManager` | `RunnerSpec => Spec`, and with it the three before | refinement: every step of the runner, of a worker and of a user is one of the manager's or leaves it alone, a new process being a new manager (`Renew`) |
| `RunnerInvariant`, `CapacityHolds` | `RunnerInv`, `RootCapacity` | see below |
| `MemoryIsRight` | `MemoryFollows` | see below |
| `CommittedOnce` | `DoneOnce` | see below |
| `JobsFollowTheirParents` | `OrderInv` | the invariant must speak of every snapshot in use: an old snapshot may be wrong about the present, but a parent that it shows as done was done |
| `FamiliesGoTogether`, `NoneForgotten` | `ForgetInv`, `WorkersForgetNone` | see below |
| `OneMaster` | `MasterInv` | the locks held are exactly the live connections; a sleeping runner has none |
| `StoredGraphHolds` | `StoredGraph` | the jobs of a node keep one graph uuid once any of them has one, and generated and stored jobs agree; a merge adds parents only among the vertices it stores |
| `OrderHolds`, `DirectHolds` | `OrderKept`, `DirectInOrder` | see below |
| `ConfigurationHolds` | `AsConfigured` | after `k` entries each channel has what the last of the first `k` that names it says (`AppliedTo`); making channels disturbs none, applying the next makes it `k + 1`, and a running manager makes channels only |
| `CacheIsRight` | `NamesFollow` | the records are a forest, whose complete names are the only solution of `name = parent's name + own` (`IsForest`); the cache of a function whose channel was not renamed is empty or its name now |
| `LimitsHold`, `JobsStay` | `KeepsItsLimits`, `NeverMoved` | see below |
| `FinishedOnly` | `VacuumTakesFinished` | a row bears a date only while its job is finished, or when it was overtaken |
| `CountsHold`, `NoOverbooking` | `CountsRight`, `NeverOverbooked` | see below |
| `NoUnfairBlock` | `BlocksOnlyTheLate` | days stored for an invoice were right on some day, and since then they only became too few |
| `SerialHolds` | `SerialInv` | while no two transactions overlapped, a snapshot is the database, so that a constraint was checked on the rows there are |
| `NoOverload` | `NeverOverloaded` | the same, and a request checks each assignment that gets heavier or changes hands; a teacher of whom none was checked bears no more than before (`LighterLoad`) |

Every invariant and every action property that the passing runs check is among them.

The times of the manager rest on `ThrottleInv` and `WakeInv`. A generator that went on past its
children has closed all of theirs (`InTurn`), and a channel that may yield has either waited its
throttle since its last job or bears a pause that is as long (`Rests`). While the runner sleeps,
every channel that could hand a job up to the root (`Exposed`: those above have room and no
pause) is paused until after the wake-up time, or holds only jobs that are not due before it,
or has no room (`Sleeps`). The invariant must speak of the channels in the middle of a turn as
well, since the wake-up time is asked for with some of the generators closed (`WentQuiet`).

`MemoryFollows` becomes inductive (`MemoryInv`) once "in memory" is put in terms of where the
tree holds the job and what its object remembers (`Holds`), and once it says of the load that
a row it has read is still as it was or was notified since, and of the job in hand that it exists
or was notified since. That a job which waits is in no channel (`WaitInv`) is an invariant of its
own.

`DoneOnce` rests on what can still happen to a job whose effects were committed (`OnceInv`): unless
a user has set it otherwise or two workers ever had it at a time, it is done, nobody is at it and no
channel has it queued, so that no old request and no old snapshot can bring it back. That two
workers have a job is never forgotten (`Crossing`, `crossed`).

`RootCapacity` is not inductive. `RunnerInv` adds that an active row is counted in the root
channel or about to be loaded (`ActiveIsCounted`), that the two together are within the
capacity (`RunningBound`), that a job in hand is already counted (`HandInv`), that a runner
which loads has taken nothing yet (`LoadInv`), and `PlaceInv`. With these a row becomes
enqueued only while the root counts it, and counting rows is counting a subset.

`WorkersForgetNone` follows from `ForgetInv`. Of jobs that users leave alone: a job is performed by
one worker at a time and stays done (`OneWorker`, `DoneForGood`), so that a snapshot which shows
it done is right; the siblings of a family leave `wait_dependencies` in one write (`Together`), so
that a worker whose update fails on one of them finds none of them waiting; and while a job waits
with all parents done, some worker is between its commit of *done* and its update, or has a
snapshot with all parents done (`Carries`). A worker that commits *done* last is one, since its
snapshot is taken after. `Respects` lists what a transaction must respect for its writes to keep
this, and there is a lemma per action.

`OrderKept` needs an invariant of the program's objects. In every connected set of nodes that
contains a node `n`, and for every transitive relation that holds the set's edges, each job of `n` is
or follows one that `n` begins with, and is or precedes one it ends with (`NodesOk`); and such
a set contains what was put after `n`, with the edges between their ends (`OrderOk`). It is
stated of every connected set because `Visited` is the least of them; that the
rows respect it, of every set closed under dependencies (`AskedInv`), because
`Ancestors` is the least of these. Dependencies of rows only grow, so what was once asked and
stored stays. `DirectInOrder` follows from what the counters of a direct execution mean
(`DirectOk`): a job's counter is the number of its parents not performed yet, the ready jobs are those
with none, and when none is ready the jobs left form cycles or follow one.

`KeepsItsLimits` and `NeverMoved` rest on `PlacesInv`: the channels are closed under parents, and a
job whose name repeats no segment is where the walk would find it now, although channels were
made since. The lemmas say where the walk falls back (`FallsOn`), and that it still falls back on
the same channel when others were made for other jobs (`StillFallsOn`).

`CountsRight` is inductive only together with the snapshots (`CountInv`): the counts of each snapshot
are right in itself, and a group whose row nobody else wrote since has the same students
in the snapshot as in the database. A commit that moves a student writes both groups, so that
one of two that meet there fails; this is also why `NeverOverbooked` holds although its check
looks at the snapshot only.

*What the prover cannot do, and how far it matters.* All liveness is only model-checked
(`CallReturns`, `Drains`, `StartedEnds`, `JobEnds`, `GraphGoesOn`, `SomeoneServes`), and so are the two
properties that fail. Induction over data is avoided: what the code computes by recursion over a
graph, a tree or a name is defined as the least set closed under a step (`Visited`, `Ancestors`,
`Below`) or as the function that solves an equation (`CompleteNames`), which is what the recursion
ends in, and the proofs use that it is contained in every closed set.

## Not modelled

* JSON encoding of jobs, messages, subscriptions, views, migrations: no state that another
  step reads. Retry patterns and related actions are values of a job function's cached record.
* `create_test_job` and other demonstration code.
* `reverse_depends_on` of jobs apart from `depends_on` (see DelayGraph).
* PostgreSQL's rules (snapshots, row locks, advisory locks, merging of equal notifications)
  and the ORM's recomputation are modelled from how the code relies on them and marked external.
* Of `edu_islamic_complex`: attendance lines, which a unique index guards, the state of sessions,
  the scoring of the placement questionnaire, computed figures of the dashboard.
* `muk_web_*`: preferences of one user in one browser. `ti_*`, `ab_debug`: declarations.

## Plan

In this order; the first nine items are modelled, and their safety properties are proved.

1. PriorityQueue with AbstractQueue, and the refinement.
2. ChannelQueue.
3. Channels: places, throttles, wake-up times.
4. JobRunner: capacity, memory, effects committed once; progress checked.
5. JobGraph: order and dependents.
6. MasterElection.
7. School: constraints checked on a snapshot, stored counts, sessions, fees, teacher load.
8. DelayGraph: chains, groups, split and what is stored of them, direct execution.
9. ChannelNames and ChannelRecords: configuration, names, cache and vacuum.
10. To prove: that the set which Channels uses for both queues of a channel is what
    ChannelQueue promises (a refinement).
11. To model: the refresh timer of `muk_web_refresh` against a clock.
