---------------------------- MODULE ChannelQueue ----------------------------
(***************************************************************************)
(* ChannelQueue of queue_job/jobrunner/channels.py: the queue of one       *)
(* channel.  Jobs with an eta are set aside in a second priority queue     *)
(* until the eta is due; pop() then clears the eta of the job object and   *)
(* lets it compete with the others.  The two PriorityQueues are the sets   *)
(* that AbstractQueue.tla says they are.                                   *)
(***************************************************************************)
EXTENDS Naturals, FiniteSets

CONSTANTS Job,         \* the job objects
          Key,         \* sorting_key_ignoring_eta(): priority, date_created, seq
          NoJob,       \* None
          Etas,        \* the etas a job may come with; 0 is no eta
          MaxNow,      \* bound on the clock
          MaxAdds      \* bound on the calls of add()

ASSUME JobAssumption   == NoJob \notin Job
ASSUME KeyAssumption   == /\ Key \in [Job -> Nat]
                          /\ \A j, k \in Job : Key[j] = Key[k] => j = k
ASSUME TimeAssumption  == MaxNow \in Nat /\ MaxAdds \in Nat /\ Etas \subseteq Nat

VARIABLES sequential, \* as the channel is configured
          queue,     \* _queue, the jobs without eta
          etaQueue,  \* _eta_queue, the jobs waiting for their eta
          eta,       \* the eta the job object holds now; set_no_eta() clears it
          asked,     \* history: the eta the job was added with
          now,       \* the time passed to pop()
          popped,    \* what the last pop() returned
          adds       \* calls of add() so far

vars == <<sequential, queue, etaQueue, eta, asked, now, popped, adds>>

Queued == queue \cup etaQueue

First(S) == {j \in S : \A k \in S : Key[j] <= Key[k]}

\* The head of the eta queue: the sorting key starts with the eta
FirstByEta(S) ==
  {j \in S : \A k \in S : \/ eta[j] < eta[k]
                          \/ eta[j] = eta[k] /\ Key[j] <= Key[k]}

Init ==
  /\ sequential \in BOOLEAN
  /\ queue = {} /\ etaQueue = {}
  /\ eta = [j \in Job |-> 0]
  /\ asked = [j \in Job |-> 0]
  /\ now = 0
  /\ popped = NoJob
  /\ adds = 0

----------------------------------------------------------------------------
\* Mutant of add(): the eta is ignored
AddIgnoresEta(j, e) ==
  /\ adds < MaxAdds /\ j \notin Queued
  /\ eta' = [eta EXCEPT ![j] = e]
  /\ asked' = [asked EXCEPT ![j] = e]
  /\ adds' = adds + 1
  /\ queue' = queue \cup {j}
  /\ UNCHANGED <<sequential, etaQueue, now, popped>>

\* add(): Channel calls it with a job that is not in the queue, a new object
\* with the eta of the job's row.
Add(j, e) ==
  /\ adds < MaxAdds /\ j \notin Queued
  /\ eta' = [eta EXCEPT ![j] = e]
  /\ asked' = [asked EXCEPT ![j] = e]
  /\ adds' = adds + 1
  /\ IF e # 0
     THEN etaQueue' = etaQueue \cup {j} /\ UNCHANGED queue
     ELSE queue' = queue \cup {j} /\ UNCHANGED etaQueue
  /\ UNCHANGED <<sequential, now, popped>>

Remove(j) ==
  /\ queue' = queue \ {j}
  /\ etaQueue' = etaQueue \ {j}
  /\ UNCHANGED <<sequential, eta, asked, now, popped, adds>>

Tick ==
  /\ now < MaxNow
  /\ now' = now + 1
  /\ UNCHANGED <<sequential, queue, etaQueue, eta, asked, popped, adds>>

\* Mutants of the test on the eta: one second early, or only at the very second
DueEarly   == {j \in etaQueue : eta[j] <= now + 1}
DueExactly == {j \in etaQueue : eta[j] = now}

\* The while loop of pop(): the jobs that are due, and what it leaves behind
Due     == {j \in etaQueue : eta[j] <= now}
Ready   == queue \cup Due
Waiting == etaQueue \ Due

MoveDue ==
  /\ etaQueue' = Waiting
  /\ eta' = [j \in Job |-> IF j \in Due THEN 0 ELSE eta[j]]

\* Mutant of the sequential test: made before the due jobs are moved
HeldBackByDue == sequential /\ Ready # {} /\ etaQueue # {}

\* A sequential queue waits for the job at the head of the eta queue when it
\* comes before the job at the head of the queue.
HeldBack ==
  /\ sequential
  /\ \E w \in FirstByEta(Waiting), r \in First(Ready) : Key[w] < Key[r]

\* Mutant of pop(): the due jobs are not moved first
PopReadyOnly(j) ==
  /\ j \in First(queue)
  /\ queue' = queue \ {j}
  /\ popped' = j
  /\ UNCHANGED <<sequential, etaQueue, eta, asked, now, adds>>

PopJob(j) ==
  /\ ~HeldBack
  /\ j \in First(Ready)
  /\ MoveDue
  /\ queue' = Ready \ {j}
  /\ popped' = j
  /\ UNCHANGED <<sequential, asked, now, adds>>

PopNone ==
  /\ HeldBack \/ Ready = {}
  /\ MoveDue
  /\ queue' = Ready
  /\ popped' = NoJob
  /\ UNCHANGED <<sequential, asked, now, adds>>

Pop == PopNone \/ \E j \in Job : PopJob(j)

Next ==
  \/ \E j \in Job, e \in Etas : Add(j, e)
  \/ \E j \in Job : Remove(j)
  \/ Tick
  \/ Pop

Spec == Init /\ [][Next]_vars

\* The clock runs, and the runner keeps asking a channel that has capacity.
FairSpec == Spec /\ WF_vars(Tick) /\ WF_vars(Pop)

\* get_wakeup_time(), 0 when there is no job to wait for
WakeupTime ==
  IF etaQueue = {} THEN 0 ELSE eta[CHOOSE j \in etaQueue : j \in FirstByEta(etaQueue)]

----------------------------------------------------------------------------
TypeOK ==
  /\ sequential \in BOOLEAN
  /\ queue \in SUBSET Job
  /\ etaQueue \in SUBSET Job
  /\ eta \in [Job -> Nat]
  /\ asked \in [Job -> Nat]
  /\ now \in Nat
  /\ popped \in Job \cup {NoJob}
  /\ adds \in Nat

\* Each queue holds jobs that compare with one another: the jobs of _queue have
\* lost their eta, those of _eta_queue still have the one they came with.  A job
\* in the wrong queue makes the heap compare an int with None (TypeError).
Comparable ==
  /\ \A j \in queue : eta[j] = 0
  /\ \A j \in etaQueue : eta[j] # 0 /\ eta[j] = asked[j]

\* A job without its eta is a job whose eta has come: clearing the eta of the
\* object never lets a job of _queue overtake its time.
EtaHasCome == \A j \in queue : asked[j] <= now

IInv == TypeOK /\ Comparable /\ EtaHasCome

\* No job comes out before the eta it was added with.
NeverEarly == [][ \A j \in Job : PopJob(j) => asked[j] <= now ]_vars

\* The job that comes out is the first of all that are due, those that were
\* waiting for their eta when pop() was called included.
DueJobsCompete ==
  [][ \A j \in Job : Pop /\ popped' = j =>
        \A k \in Queued : asked[k] <= now => Key[j] <= Key[k] ]_vars

\* When pop() finds nothing to run and jobs remain, get_wakeup_time() asks for a
\* wakeup, and for one that lies ahead: the runner neither sleeps forever nor
\* spins on a time that has passed.
NoStall ==
  [][ PopNone /\ Queued' # {} => WakeupTime' > now ]_vars

\* Every queued job comes out in the end, also behind a job with a later eta.
Drains == \A j \in Job : j \in Queued ~> j \notin Queued

\* What the comment in pop() says of a sequential queue: no job comes out while
\* one of higher priority, eta ignored, still waits for its eta.
SequentialOrder ==
  [][ \A j \in Job : Pop /\ popped' = j /\ sequential =>
        \A k \in Queued : Key[j] <= Key[k] ]_vars
============================================================================
