------------------------------ MODULE Channels ------------------------------
(***************************************************************************)
(* The job runner's in-memory picture of the jobs: ChannelManager and the  *)
(* tree of Channels of queue_job/jobrunner/channels.py.                    *)
(*                                                                         *)
(* A job is queued in its own channel; when that channel has capacity the  *)
(* job is marked running there and queued in the parent channel, and so on *)
(* down to the root, which hands it to the runner.  notify() moves a job   *)
(* when its row in the database changed.                                   *)
(*                                                                         *)
(* One thread uses the manager.  get_jobs_to_run() is a tree of            *)
(* generators; every turn of theirs is one step here, because the runner   *)
(* acts on a job between two turns of the root's, and may fail there.      *)
(*                                                                         *)
(* The queue of a channel is one set: which of its two heaps holds a job   *)
(* is told by the eta of the job (ChannelQueue.tla, Comparable).           *)
(***************************************************************************)
EXTENDS Naturals, FiniteSets

CONSTANTS Channel,     \* the configured channels
          Root,        \* the root channel
          Parent,      \* the parent of every other channel
          Capacity,    \* 0 is unlimited
          Sequential,  \* the sequential channels
          Throttle,    \* seconds between two jobs of a channel, 0 is none
          Job,         \* the uuids
          Seq,         \* creation order: (date_created, seq) of the row
          DbOf,        \* the database the job is in
          Props,       \* per job, the [channel, prio, eta] its row may have
          NoJob,       \* the manager has no live ChannelJob for the uuid
          Never        \* no time: nothing was yielded, or the runner is awake

State == {"pending", "enqueued", "started", "done", "cancelled", "failed",
          "wait_dependencies"}

(***************************************************************************)
(* The channels a job passes on its way down from channel c: the least set *)
(* that holds c and, with a channel, its parent.                           *)
(***************************************************************************)
Down == [c \in Channel |->
          {d \in Channel : \A S \in SUBSET Channel :
             c \in S /\ (\A x \in S \ {Root} : Parent[x] \in S) => d \in S}]

Children(c) == {d \in Channel \ {Root} : Parent[d] = c}

JobProps == [channel : Channel, prio : Nat, eta : Nat]

ASSUME TreeAssumption ==
  /\ Root \in Channel
  /\ Parent \in [Channel \ {Root} -> Channel]
  /\ \A c \in Channel \ {Root} : c \notin Down[Parent[c]]
  /\ \A c \in Channel : Root \in Down[c]

\* configure() raises ValueError for a sequential channel of another capacity
ASSUME ConfigAssumption ==
  /\ Capacity \in [Channel -> Nat]
  /\ Throttle \in [Channel -> Nat]
  /\ Sequential \subseteq {c \in Channel : Capacity[c] = 1}

ASSUME JobAssumption ==
  /\ Seq \in [Job -> Nat]
  /\ \A u, v \in Job : Seq[u] = Seq[v] => u = v
  /\ \A u \in Job : Props[u] \subseteq JobProps

ASSUME NoneAssumption == Never \notin Nat /\ NoJob \notin JobProps

VARIABLES tree,       \* per channel its _queue, _running and _failed
          pause,      \* per channel _pause_until, 0 is none
          live,       \* per uuid the properties of its live ChannelJob
          gen,        \* per channel where its generator is, "off" between runs
          now,        \* the time of the last get_jobs_to_run()
          sleep,      \* history: the wakeup time asked for after that run
          lastYield   \* history: when a channel of this process last yielded a job

vars == <<tree, pause, live, gen, now, sleep, lastYield>>

Idle == \A c \in Channel : gen[c] = "off"

----------------------------------------------------------------------------
(* Channel.remove, set_done, set_pending, set_running and set_failed       *)

Empty == [queue |-> {}, running |-> {}, failed |-> {}]

Drop(ch, u) == [queue   |-> ch.queue \ {u},
                running |-> ch.running \ {u},
                failed  |-> ch.failed \ {u}]

Remove(t, u, c) == [d \in Channel |-> IF d \in Down[c] THEN Drop(t[d], u) ELSE t[d]]

\* Mutant: the job stays in the queues of the parent channels
SetPendingHere(t, u, c) ==
  IF u \in t[c].queue THEN t
  ELSE [t EXCEPT ![c] = [Drop(t[c], u) EXCEPT !.queue = @ \cup {u}]]

SetPending(t, u, c) ==
  IF u \in t[c].queue THEN t
  ELSE [Remove(t, u, c) EXCEPT ![c].queue = @ \cup {u}]

\* set_running goes down the tree and stops at the first channel where the job
\* is already running.
Reached(t, u, c) ==
  {d \in Down[c] : \A x \in Down[c] : d \in Down[x] => u \notin t[x].running}

SetRunning(t, u, c) ==
  [d \in Channel |->
     IF d \in Reached(t, u, c)
     THEN [Drop(t[d], u) EXCEPT !.running = @ \cup {u}] ELSE t[d]]

SetFailed(t, u, c) ==
  IF u \in t[c].failed THEN t
  ELSE [Remove(t, u, c) EXCEPT ![c].failed = @ \cup {u}]

----------------------------------------------------------------------------
(* ChannelManager.notify, remove_job and remove_db                         *)

\* The tree once notify() has put job u of channel c where its state says
Placed(t, u, c, s) ==
  CASE s = "pending"                -> SetPending(t, u, c)
    [] s \in {"enqueued", "started"} -> SetRunning(t, u, c)
    [] s = "failed"                 -> SetFailed(t, u, c)
    [] s \in {"done", "cancelled"}   -> Remove(t, u, c)
    [] s = "wait_dependencies"      -> t

\* remove_job: the ChannelJob, if there is one, leaves every channel
Forgotten(u) == IF live[u] = NoJob THEN tree ELSE Remove(tree, u, live[u].channel)

InChannel(t, u, c) == u \in t[c].queue \cup t[c].running \cup t[c].failed

\* When the properties of the row are not those of the ChannelJob any more, a
\* new one is made; an eta that was due was cleared in memory and always differs.
\* A ChannelJob lives as long as a channel holds it: _jobs_by_uuid is weak.
Notify(u, p, s) ==
  /\ Idle
  /\ LET t == IF live[u] = p THEN tree ELSE Forgotten(u) IN
       tree' = Placed(t, u, p.channel, s)
  /\ live' = [live EXCEPT ![u] = IF InChannel(tree', u, p.channel) THEN p ELSE NoJob]
  /\ sleep' = Never
  /\ UNCHANGED <<pause, gen, now, lastYield>>

\* The row of the job is gone
RemoveJob(u) ==
  /\ Idle
  /\ tree' = Forgotten(u)
  /\ live' = [live EXCEPT ![u] = NoJob]
  /\ sleep' = Never
  /\ UNCHANGED <<pause, gen, now, lastYield>>

\* close_databases() after an error, which may strike while the runner is busy
\* with a job the root has just yielded; the generators are then dropped and
\* the job was not sent.
RemoveDb(db) ==
  /\ Idle \/ gen[Root] \in {"yielded", "throttled"}
  /\ LET gone == {u \in Job : DbOf[u] = db} IN
       /\ tree' = [c \in Channel |-> [queue   |-> tree[c].queue \ gone,
                                      running |-> tree[c].running \ gone,
                                      failed  |-> tree[c].failed \ gone]]
       /\ live' = [u \in Job |-> IF u \in gone THEN NoJob ELSE live[u]]
  /\ gen' = [c \in Channel |-> "off"]
  /\ lastYield' = IF gen[Root] = "throttled"
                  THEN [lastYield EXCEPT ![Root] = Never] ELSE lastYield
  /\ sleep' = Never
  /\ UNCHANGED <<pause, now>>

\* A new process: QueueJobRunner() makes a manager with new channels, which know of
\* no job, of no pause and of nothing that was yielded before
Renew ==
  /\ tree' = [c \in Channel |-> Empty]
  /\ pause' = [c \in Channel |-> 0]
  /\ live' = [u \in Job |-> NoJob]
  /\ gen' = [c \in Channel |-> "off"]
  /\ lastYield' = [c \in Channel |-> Never]
  /\ sleep' = Never
  /\ UNCHANGED now

----------------------------------------------------------------------------
(* ChannelQueue.pop, on the jobs of one channel                            *)

Precedes(u, v) == \/ live[u].prio < live[v].prio
                  \/ live[u].prio = live[v].prio /\ Seq[u] < Seq[v]
First(S) == {u \in S : \A v \in S \ {u} : Precedes(u, v)}
FirstByEta(S) == {u \in S : \A v \in S \ {u} :
                    \/ live[u].eta < live[v].eta
                    \/ live[u].eta = live[v].eta /\ Precedes(u, v)}

Ready(c)   == {u \in tree[c].queue : live[u].eta <= now}
Waiting(c) == tree[c].queue \ Ready(c)

HeldBack(c) ==
  /\ c \in Sequential
  /\ \E w \in FirstByEta(Waiting(c)), r \in First(Ready(c)) : Precedes(w, r)

ClearDue(c) ==
  live' = [u \in Job |-> IF u \in Ready(c) THEN [live[u] EXCEPT !.eta = 0] ELSE live[u]]

Full(t, c) == Capacity[c] # 0 /\ Cardinality(t[c].running) >= Capacity[c]
HasCapacity(c) == ~(c \in Sequential /\ tree[c].failed # {}) /\ ~Full(tree, c)

----------------------------------------------------------------------------
(* Channel.get_jobs_to_run: the generators of the tree                     *)

\* The runner asks for jobs; a channel's generator goes on to its own queue once
\* those of its children are exhausted.
BeginRun(t) ==
  /\ Idle /\ t >= now
  /\ now' = t
  /\ gen' = [c \in Channel |-> "fresh"]
  /\ UNCHANGED <<tree, pause, live, sleep, lastYield>>

\* The children have nothing more to give: the throttle check
Open(c) ==
  /\ gen[c] = "fresh" /\ \A d \in Children(c) : gen[d] = "closed"
  /\ IF Throttle[c] # 0 /\ now < pause[c]
     THEN gen' = [gen EXCEPT ![c] = "closed"] /\ UNCHANGED pause
     ELSE /\ gen' = [gen EXCEPT ![c] = "open"]
          /\ pause' = [pause EXCEPT ![c] = IF Throttle[c] # 0 THEN 0 ELSE @]
  /\ UNCHANGED <<tree, live, now, sleep, lastYield>>

\* Job u goes from the queue of channel c to its running jobs, and to the queue
\* of the parent, whose loop over the children takes it from the generator.
Moved(t, u, c) ==
  [d \in Channel |->
     CASE d = c -> [t[d] EXCEPT !.queue = @ \ {u}, !.running = @ \cup {u}]
       [] c # Root /\ d = Parent[c] -> [t[d] EXCEPT !.queue = @ \cup {u}]
       [] OTHER -> t[d]]

Yield(c, u) ==
  /\ gen[c] \in {"open", "yielded"}
  /\ HasCapacity(c) /\ ~HeldBack(c)
  /\ u \in First(Ready(c))
  /\ tree' = Moved(tree, u, c)
  /\ ClearDue(c)
  /\ gen' = [gen EXCEPT ![c] = IF Throttle[c] # 0 THEN "throttled" ELSE "yielded"]
  /\ lastYield' = IF Throttle[c] # 0 THEN [lastYield EXCEPT ![c] = now] ELSE lastYield
  /\ UNCHANGED <<pause, now, sleep>>

\* The loop ends: no capacity, or pop() returned None after moving the due jobs
Exhaust(c) ==
  /\ gen[c] \in {"open", "yielded"}
  /\ IF HasCapacity(c)
     THEN (HeldBack(c) \/ Ready(c) = {}) /\ ClearDue(c)
     ELSE UNCHANGED live
  /\ gen' = [gen EXCEPT ![c] = "closed"]
  /\ UNCHANGED <<tree, pause, now, sleep, lastYield>>

\* Mutant: the pause is measured from nothing
PauseReset(c) ==
  /\ gen[c] = "throttled"
  /\ pause' = [pause EXCEPT ![c] = now]
  /\ gen' = [gen EXCEPT ![c] = "closed"]
  /\ UNCHANGED <<tree, live, now, sleep, lastYield>>

\* A throttled channel gives one job and pauses when it is asked for the next
Pause(c) ==
  /\ gen[c] = "throttled"
  /\ pause' = [pause EXCEPT ![c] = now + Throttle[c]]
  /\ gen' = [gen EXCEPT ![c] = "closed"]
  /\ UNCHANGED <<tree, live, now, sleep, lastYield>>

(***************************************************************************)
(* get_wakeup_time: the recursion looks into a channel's queue and its     *)
(* children only when the channel has capacity and is not paused.          *)
(***************************************************************************)
Runnable(c) == HasCapacity(c) /\ pause[c] = 0

EtasOf(c) == {live[u].eta : u \in tree[c].queue} \ {0}

\* Mutant: the pause of a channel is left out
WakeTimesNoPause ==
  UNION { EtasOf(c) : c \in {d \in Channel : \A x \in Down[d] : HasCapacity(x)} }

\* Mutant: full channels ask for the eta of their jobs as well
WakeTimesOfAll ==
  UNION { IF pause[c] # 0 THEN {pause[c]} ELSE EtasOf(c) : c \in Channel }

WakeTimes ==
  UNION { IF pause[c] # 0 THEN {pause[c]} ELSE EtasOf(c) :
          c \in {d \in Channel : /\ HasCapacity(d)
                                 /\ \A x \in Down[d] \ {d} : Runnable(x)} }

WakeupTime == IF WakeTimes = {} THEN 0
              ELSE CHOOSE w \in WakeTimes : \A x \in WakeTimes : w <= x

\* The root is exhausted; the runner asks for the wakeup time and sleeps
EndRun ==
  /\ gen[Root] = "closed"
  /\ gen' = [c \in Channel |-> "off"]
  /\ sleep' = WakeupTime
  /\ UNCHANGED <<tree, pause, live, now, lastYield>>

----------------------------------------------------------------------------
Init ==
  /\ tree = [c \in Channel |-> Empty]
  /\ pause = [c \in Channel |-> 0]
  /\ live = [u \in Job |-> NoJob]
  /\ gen = [c \in Channel |-> "off"]
  /\ now = 0
  /\ sleep = Never
  /\ lastYield = [c \in Channel |-> Never]

Generators == \E c \in Channel : \/ Open(c) \/ Exhaust(c) \/ Pause(c)
                                 \/ \E u \in Job : Yield(c, u)

CONSTANT MaxNow  \* bound on the clock

Next ==
  \/ \E u \in Job : \E p \in Props[u], s \in State : Notify(u, p, s)
  \/ \E u \in Job : RemoveJob(u) \/ RemoveDb(DbOf[u])
  \/ Renew
  \/ \E t \in 0 .. MaxNow : BeginRun(t)
  \/ Generators
  \/ EndRun

Spec == Init /\ [][Next]_vars

----------------------------------------------------------------------------
Trees == [Channel -> [queue : SUBSET Job, running : SUBSET Job, failed : SUBSET Job]]

QueuedIn(t, u)  == {c \in Channel : u \in t[c].queue}
RunningIn(t, u) == {c \in Channel : u \in t[c].running}
FailedIn(t, u)  == {c \in Channel : u \in t[c].failed}

\* The channels that the ChannelJob l goes through
Way(l) == IF l = NoJob THEN {} ELSE Down[l.channel]

RunsEverywhere(t, l, u) ==
  FailedIn(t, u) = {} /\ QueuedIn(t, u) = {} /\ RunningIn(t, u) = Way(l)

QueuedAt(t, l, u, c) ==
  FailedIn(t, u) = {} /\ QueuedIn(t, u) = {c} /\ RunningIn(t, u) = Way(l) \ Down[c]

FailedAtHome(t, l, u) ==
  /\ l # NoJob
  /\ FailedIn(t, u) = {l.channel} /\ QueuedIn(t, u) = {} /\ RunningIn(t, u) = {}

InOnePlace(t, l, u) ==
  \/ RunsEverywhere(t, l, u)
  \/ \E c \in Way(l) : QueuedAt(t, l, u, c)
  \/ FailedAtHome(t, l, u)

\* Where a job can be: failed in its own channel, queued in one channel and
\* running in those above it, or running all the way down to the root.  It is
\* then counted once against the capacity of every channel it went through, and
\* the root cannot hand it out twice.
OnePlace == \A u \in Job : InOnePlace(tree, live[u], u)

\* The inductive invariant, with the types of the variables it rests on; the others
\* do not decide where a job is
PlaceInv ==
  /\ tree \in Trees
  /\ live \in [Job -> JobProps \cup {NoJob}]
  /\ OnePlace

\* While nothing is notified, no job can go out before the wakeup time the
\* runner was given, and none at all if it was given none: the runner does not
\* sleep through the moment a job could run.
WakesInTime ==
  [][ \A u \in Job : Yield(Root, u) /\ sleep # Never => sleep # 0 /\ sleep <= now ]_vars

\* The wakeup time lies ahead of the run it follows: select() has a positive
\* timeout, and the runner does not spin.
WakeupAhead == [][ EndRun => sleep' = 0 \/ sleep' > now ]_vars

\* Two jobs that a throttled channel yields are at least its throttle apart, unless
\* they are yielded by two processes.
Throttled ==
  [][ \A c \in Channel, u \in Job :
        Yield(c, u) /\ Throttle[c] # 0 /\ lastYield[c] # Never
          => now >= lastYield[c] + Throttle[c] ]_vars
============================================================================
