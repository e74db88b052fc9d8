------------------------- MODULE ChannelQueueProofs -------------------------
(***************************************************************************)
(* The two queues of a channel never hold jobs that do not compare, and a  *)
(* job never comes out before its eta, for all jobs, keys and etas; and    *)
(* the queue asks for the wakeup that its jobs need.                       *)
(***************************************************************************)
EXTENDS ChannelQueue, WellFoundedInduction, TLAPS

LEMMA IInvStep == IInv /\ [Next]_vars => IInv'
<1> SUFFICES ASSUME IInv, [Next]_vars PROVE IInv'
  OBVIOUS
<1> USE TimeAssumption DEF IInv, TypeOK, Comparable, EtaHasCome
<1>1. ASSUME NEW j \in Job, NEW e \in Etas, Add(j, e) PROVE IInv'
  <2>1. j \notin queue /\ j \notin etaQueue
    BY <1>1 DEF Add, Queued
  <2>2. TypeOK'
    BY <1>1 DEF Add
  <2>3. Comparable'
    BY <1>1, <2>1 DEF Add
  <2>4. EtaHasCome'
    BY <1>1, <2>1 DEF Add
  <2> QED BY <2>2, <2>3, <2>4
<1>2. ASSUME NEW j \in Job, Remove(j) PROVE IInv'
  BY <1>2 DEF Remove
<1>3. CASE Tick
  BY <1>3 DEF Tick
<1>4. ASSUME MoveDue, queue' \in SUBSET Ready, popped' \in Job \cup {NoJob},
             UNCHANGED <<sequential, asked, now, adds>>
      PROVE  IInv'
  <2>1. Ready \subseteq Job /\ \A j \in Ready : j \in queue \/ j \in Due
    BY DEF Ready, Due
  <2>2. TypeOK'
    BY <1>4, <2>1 DEF MoveDue, Waiting
  <2>3. \A j \in queue' : eta'[j] = 0 /\ asked[j] <= now
    BY <1>4, <2>1 DEF MoveDue, Due
  <2>4. \A j \in etaQueue' : eta'[j] = eta[j] /\ j \in etaQueue
    BY <1>4 DEF MoveDue, Waiting
  <2> QED BY <1>4, <2>2, <2>3, <2>4
<1>5. ASSUME NEW j \in Job, PopJob(j) PROVE IInv'
  BY <1>5, <1>4 DEF PopJob
<1>6. CASE PopNone
  BY <1>6, <1>4 DEF PopNone
<1>7. CASE UNCHANGED vars
  BY <1>7 DEF vars
<1> QED
  BY <1>1, <1>2, <1>3, <1>5, <1>6, <1>7 DEF Next, Pop

\* A job whose eta has not come is in the eta queue with its eta, a job that may
\* run is in the other one without: the heaps never compare a time with None.
THEOREM QueuesStayComparable == Spec => []IInv
<1>1. Init => IInv
  BY DEF Init, IInv, TypeOK, Comparable, EtaHasCome
<1> QED
  BY <1>1, IInvStep, PTL DEF Spec

\* pop(now) never returns a job that was added with an eta later than now.
THEOREM PopIsNeverEarly == Spec => NeverEarly
<1>1. ASSUME IInv PROVE \A j \in Job : PopJob(j) => asked[j] <= now
  BY <1>1 DEF IInv, TypeOK, Comparable, EtaHasCome, PopJob, First, Ready, Due
<1> QED
  BY <1>1, QueuesStayComparable, PTL DEF NeverEarly

\* pop(now) returns the first, eta ignored, of all the jobs that are due at now.
THEOREM PopReturnsFirstDue == Spec => DueJobsCompete
<1>1. ASSUME IInv
      PROVE  \A j \in Job : Pop /\ popped' = j =>
               \A k \in Queued : asked[k] <= now => Key[j] <= Key[k]
  <2> USE <1>1 DEF IInv, TypeOK, Comparable, EtaHasCome
  <2>1. SUFFICES ASSUME NEW j \in Job, Pop, popped' = j,
                        NEW k \in Queued, asked[k] <= now
                 PROVE  Key[j] <= Key[k]
    OBVIOUS
  <2>2. j \in First(Ready)
    BY <2>1, JobAssumption DEF Pop, PopNone, PopJob
  <2>3. k \in Ready
    BY <2>1 DEF Queued, Ready, Due
  <2> QED BY <2>2, <2>3 DEF First
<1> QED
  BY <1>1, QueuesStayComparable, PTL DEF DueJobsCompete

----------------------------------------------------------------------------
(* The head of the eta queue *)

LEMMA LeastNat ==
  ASSUME NEW S \in SUBSET Nat, S # {}
  PROVE  \E n \in S : \A m \in S : n <= m
<1> DEFINE R == {x \in Nat \X Nat : x[1] < x[2]}
<1>1. IsWellFoundedOn(R, Nat)
  BY NatLessThanWellFounded DEF OpToRel
<1>2. \A m, n \in Nat : ~ (<<m, n>> \in R) => n <= m
  OBVIOUS
<1> HIDE DEF R
<1>3. PICK n \in S : \A m \in S : ~ (<<m, n>> \in R)
  BY <1>1, WFMin
<1>4. \A m \in S : n <= m
  BY <1>2, <1>3
<1> QED
  BY <1>4

\* A queue of jobs that wait has a head: the first key among the earliest etas.
LEMMA HeadExists ==
  ASSUME NEW f \in [Job -> Nat], NEW S \in SUBSET Job, S # {}
  PROVE  \E h \in S : \A j \in S : f[h] < f[j] \/ (f[h] = f[j] /\ Key[h] <= Key[j])
<1> DEFINE times == {f[j] : j \in S}
<1>1. PICK e \in times : \A d \in times : e <= d
  <2>1. times \in SUBSET Nat /\ times # {}
    OBVIOUS
  <2> HIDE DEF times
  <2> QED BY <2>1, LeastNat
<1> DEFINE T == {j \in S : f[j] = e}
           keys == {Key[j] : j \in T}
<1>2. PICK k \in keys : \A m \in keys : k <= m
  <2>1. keys \in SUBSET Nat /\ keys # {}
    BY <1>1, KeyAssumption
  <2> HIDE DEF keys
  <2> QED BY <2>1, LeastNat
<1>3. PICK h \in T : k = Key[h]
  OBVIOUS
<1>4. ASSUME NEW j \in S PROVE f[h] < f[j] \/ (f[h] = f[j] /\ Key[h] <= Key[j])
  <2>1. f[h] \in Nat /\ f[j] \in Nat /\ f[h] <= f[j] /\ f[h] = e
    BY <1>1, <1>3
  <2>2. f[j] = e => Key[h] <= Key[j]
    BY <1>2, <1>3
  <2> QED BY <2>1, <2>2
<1> QED
  BY <1>3, <1>4

\* When pop() returns nothing although jobs are queued, all of the queue waits for an
\* eta, or a sequential queue is held back by one: the wakeup that is then asked for
\* lies ahead.
THEOREM NeverStalls == Spec => NoStall
<1>1. ASSUME IInv, PopNone, Queued' # {} PROVE WakeupTime' > now
  <2> USE <1>1 DEF IInv, TypeOK
  <2>1. etaQueue' = Waiting /\ queue' = Ready /\ eta' = [j \in Job |-> IF j \in Due THEN 0 ELSE eta[j]]
    BY DEF PopNone, MoveDue
  <2>2. Waiting # {}
    <3>1. CASE HeldBack
      BY <3>1 DEF HeldBack, FirstByEta
    <3>2. CASE Ready = {}
      BY <2>1, <3>2 DEF Queued
    <3> QED BY <3>1, <3>2 DEF PopNone
  <2>3. \A j \in Waiting : j \in Job /\ eta'[j] > now
    BY <2>1 DEF Waiting, Due
  <2>4. eta' \in [Job -> Nat]
    BY <2>1
  <2>5. \E h \in etaQueue' : h \in FirstByEta(etaQueue)'
    <3>1. PICK h \in Waiting : \A j \in Waiting :
                 eta'[h] < eta'[j] \/ (eta'[h] = eta'[j] /\ Key[h] <= Key[j])
      <4>1. Waiting \in SUBSET Job
        BY DEF Waiting
      <4> QED BY <2>2, <2>4, <4>1, HeadExists
    <3>2. h \in etaQueue' /\ h \in FirstByEta(etaQueue)'
      BY <2>1, <3>1 DEF FirstByEta
    <3> QED BY <3>2
  <2>6. WakeupTime' = eta'[CHOOSE j \in etaQueue' : j \in FirstByEta(etaQueue)']
    BY <2>1, <2>2 DEF WakeupTime
  <2> QED BY <2>1, <2>3, <2>5, <2>6
<1> QED
  BY <1>1, QueuesStayComparable, PTL DEF NoStall
============================================================================
