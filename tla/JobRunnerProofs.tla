-------------------------- MODULE JobRunnerProofs --------------------------
(***************************************************************************)
(* The manager of the channels: whatever is notified and whatever the tree *)
(* of channels, a job is in one place of the tree at a time, the jobs of a *)
(* throttled channel go out apart, and the wakeup time is right.           *)
(*                                                                         *)
(* The runner, whose memory the manager is and whose steps are the         *)
(* manager's: whatever users, workers and faults do, the jobs that are     *)
(* enqueued or started in the database fit the capacity of the root        *)
(* channel, a job is performed by one worker at a time, and what the       *)
(* runner remembers is what the rows say, or it is about to hear.          *)
(***************************************************************************)
EXTENDS JobRunner, FiniteSetTheorems, WellFoundedInduction, TLAPS

----------------------------------------------------------------------------
(* The way down the tree *)

LEMMA DownIn == \A c \in Channel : Down[c] \subseteq Channel /\ c \in Down[c]
  BY DEF Down

\* Down[c] is the least of the sets that hold c and the parents of their members.
LEMMA DownLeast ==
  ASSUME NEW c \in Channel, NEW S \in SUBSET Channel, c \in S,
         \A x \in S \ {Root} : Parent[x] \in S
  PROVE  Down[c] \subseteq S
  BY DEF Down

LEMMA DownClosed ==
  ASSUME NEW c \in Channel, NEW d \in Down[c] \ {Root}
  PROVE  Parent[d] \in Down[c]
<1>1. d \in Channel /\ Parent[d] \in Channel
  BY DownIn, TreeAssumption
<1> DEFINE Closed(S) == c \in S /\ \A x \in S \ {Root} : Parent[x] \in S
<1>2. \A S \in SUBSET Channel : Closed(S) => Parent[d] \in S
  BY DownLeast
<1>3. Down[c] = {e \in Channel : \A S \in SUBSET Channel : Closed(S) => e \in S}
  BY DEF Down
<1> HIDE DEF Closed
<1> QED
  BY <1>1, <1>2, <1>3

LEMMA DownRoot == Down[Root] = {Root}
<1>1. Root \in Channel /\ {Root} \in SUBSET Channel /\ Root \in {Root}
  BY TreeAssumption
<1>2. \A x \in {Root} \ {Root} : Parent[x] \in {Root}
  OBVIOUS
<1>3. Down[Root] \subseteq {Root}
  BY <1>1, <1>2, DownLeast
<1> QED
  BY <1>1, <1>3, DownIn

LEMMA DownParent ==
  ASSUME NEW c \in Channel \ {Root}
  PROVE  /\ Parent[c] \in Channel
         /\ Down[c] = {c} \cup Down[Parent[c]]
         /\ c \notin Down[Parent[c]]
<1>1. Parent[c] \in Channel /\ c \notin Down[Parent[c]]
  BY TreeAssumption
<1>2. Down[c] \subseteq {c} \cup Down[Parent[c]]
  <2>1. {c} \cup Down[Parent[c]] \in SUBSET Channel
    BY <1>1, DownIn
  <2>2. \A x \in ({c} \cup Down[Parent[c]]) \ {Root} : Parent[x] \in {c} \cup Down[Parent[c]]
    BY <1>1, DownIn, DownClosed
  <2> QED BY <2>1, <2>2, DownLeast
<1>3. Down[Parent[c]] \subseteq Down[c]
  <2>1. Parent[c] \in Down[c]
    BY DownIn, DownClosed
  <2> QED BY <1>1, <2>1, DownIn, DownClosed, DownLeast
<1> QED
  BY <1>1, <1>2, <1>3, DownIn

LEMMA DownTransitive ==
  ASSUME NEW c \in Channel, NEW d \in Down[c]
  PROVE  Down[d] \subseteq Down[c]
  BY DownIn, DownClosed, DownLeast

LEMMA DownAntisymmetric ==
  ASSUME NEW c \in Channel, NEW d \in Down[c], c \in Down[d]
  PROVE  c = d
  BY DownIn, DownRoot, DownParent, DownTransitive

----------------------------------------------------------------------------
(* What the operations of a channel do to the place of a job *)

SamePlace(t, s, u) == /\ QueuedIn(t, u) = QueuedIn(s, u)
                      /\ RunningIn(t, u) = RunningIn(s, u)
                      /\ FailedIn(t, u) = FailedIn(s, u)

NoPlace(t, u) == QueuedIn(t, u) = {} /\ RunningIn(t, u) = {} /\ FailedIn(t, u) = {}

LEMMA SamePlaceKeeps ==
  ASSUME NEW t, NEW s, NEW u, NEW l, SamePlace(t, s, u), InOnePlace(s, l, u)
  PROVE  InOnePlace(t, l, u)
  BY DEF SamePlace, InOnePlace, RunsEverywhere, QueuedAt, FailedAtHome

LEMMA RemoveType ==
  ASSUME NEW t \in Trees, NEW u \in Job, NEW c \in Channel
  PROVE  /\ Remove(t, u, c) \in Trees
         /\ \A v \in Job \ {u} : SamePlace(Remove(t, u, c), t, v)
         /\ QueuedIn(Remove(t, u, c), u) = QueuedIn(t, u) \ Down[c]
         /\ RunningIn(Remove(t, u, c), u) = RunningIn(t, u) \ Down[c]
         /\ FailedIn(Remove(t, u, c), u) = FailedIn(t, u) \ Down[c]
  BY DEF Trees, Remove, Drop, SamePlace, QueuedIn, RunningIn, FailedIn

\* A ChannelJob that is removed from its channel is nowhere in the tree.
LEMMA RemoveClears ==
  ASSUME NEW t \in Trees, NEW u \in Job, NEW l \in JobProps, InOnePlace(t, l, u)
  PROVE  NoPlace(Remove(t, u, l.channel), u)
<1>1. l.channel \in Channel /\ l # NoJob
  BY NoneAssumption DEF JobProps
<1>2. Way(l) = Down[l.channel] /\ l.channel \in Way(l)
  BY <1>1, DownIn DEF Way
<1> QED
  BY <1>1, <1>2, RemoveType DEF InOnePlace, RunsEverywhere, QueuedAt, FailedAtHome, NoPlace

LEMMA NoJobNoPlace ==
  ASSUME NEW t, NEW u, InOnePlace(t, NoJob, u)
  PROVE  NoPlace(t, u)
  BY DEF InOnePlace, RunsEverywhere, FailedAtHome, NoPlace, Way

\* notify() puts a job that is nowhere, or the unchanged ChannelJob of the row,
\* in one place, and leaves the others where they are.
LEMMA PlacedInOnePlace ==
  ASSUME NEW t \in Trees, NEW u \in Job, NEW p \in JobProps, NEW s \in State,
         NoPlace(t, u) \/ InOnePlace(t, p, u)
  PROVE  LET r == Placed(t, u, p.channel, s)
             l == IF InChannel(r, u, p.channel) THEN p ELSE NoJob
         IN  /\ r \in Trees
             /\ \A v \in Job \ {u} : SamePlace(r, t, v)
             /\ InOnePlace(r, l, u)
             /\ s = "pending" => QueuedIn(r, u) # {}
             /\ s = "failed" => FailedIn(r, u) # {}
             /\ s \in {"done", "cancelled"} => l = NoJob
<1> DEFINE c == p.channel
           r == Placed(t, u, p.channel, s)
<1>1. c \in Channel /\ p # NoJob /\ Way(p) = Down[c] /\ c \in Down[c]
  BY NoneAssumption, DownIn DEF JobProps, Way
<1>2. Down[c] \subseteq Channel
  BY <1>1, DownIn
<1>3. NoPlace(Remove(t, u, c), u)
  <2>1. CASE NoPlace(t, u)
    BY <2>1, <1>1, RemoveType DEF NoPlace
  <2>2. CASE InOnePlace(t, p, u)
    BY <2>2, RemoveClears
  <2> QED BY <2>1, <2>2
<1>4. Remove(t, u, c) \in Trees /\ \A v \in Job \ {u} : SamePlace(Remove(t, u, c), t, v)
  BY <1>1, RemoveType
<1>5. ASSUME s = "pending" PROVE /\ r \in Trees
                                 /\ \A v \in Job \ {u} : SamePlace(r, t, v)
                                 /\ QueuedAt(r, p, u, c)
  <2>1. r = SetPending(t, u, c)
    BY <1>5 DEF Placed
  <2>2. CASE u \in t[c].queue
    <3>1. r = t /\ c \in QueuedIn(t, u)
      BY <2>1, <2>2, <1>1 DEF SetPending, QueuedIn
    <3>2. QueuedAt(t, p, u, c)
      BY <3>1 DEF NoPlace, InOnePlace, RunsEverywhere, QueuedAt, FailedAtHome
    <3> QED BY <3>1, <3>2 DEF SamePlace
  <2>3. CASE u \notin t[c].queue
    <3> DEFINE q == Remove(t, u, c)
    <3>1. r = [q EXCEPT ![c].queue = @ \cup {u}]
      BY <2>1, <2>3 DEF SetPending
    <3> HIDE DEF r, q
    <3>2. r \in Trees /\ \A v \in Job \ {u} : SamePlace(r, q, v)
      BY <3>1, <1>1, <1>4 DEF Trees, SamePlace, QueuedIn, RunningIn, FailedIn, q
    <3>3. QueuedIn(r, u) = {c} /\ RunningIn(r, u) = {} /\ FailedIn(r, u) = {}
      BY <3>1, <1>1, <1>3, <1>4 DEF Trees, QueuedIn, RunningIn, FailedIn, NoPlace, q
    <3> QED BY <3>2, <3>3, <1>1, <1>4 DEF QueuedAt, SamePlace, q
  <2> QED BY <2>2, <2>3
<1>6. ASSUME s \in {"enqueued", "started"}
      PROVE  /\ r \in Trees
             /\ \A v \in Job \ {u} : SamePlace(r, t, v)
             /\ u \in r[c].running
             /\ InOnePlace(r, p, u)
  <2>1. r = SetRunning(t, u, c)
    BY <1>6 DEF Placed
  <2>2. CASE u \in t[c].running
    <3>1. Reached(t, u, c) = {}
      BY <2>2, <1>1 DEF Reached
    <3>2. r = t
      BY <2>1, <3>1 DEF SetRunning, Trees
    <3>3. InOnePlace(t, p, u)
      BY <2>2, <1>1 DEF NoPlace, RunningIn
    <3> QED BY <2>2, <3>2, <3>3 DEF SamePlace
  <2>3. CASE u \notin t[c].running
    <3>1. RunningIn(t, u) = {}
      <4>1. c \notin RunningIn(t, u)
        BY <2>3 DEF RunningIn
      <4>2. CASE NoPlace(t, u)
        BY <4>2 DEF NoPlace
      <4>3. ASSUME NEW d \in Way(p), QueuedAt(t, p, u, d) PROVE RunningIn(t, u) = {}
        <5>1. c \in Down[d]
          BY <4>1, <4>3, <1>1 DEF QueuedAt
        <5>2. Down[c] \subseteq Down[d]
          BY <5>1, <4>3, <1>1, <1>2, DownTransitive
        <5> QED BY <4>3, <5>2, <1>1 DEF QueuedAt
      <4> QED BY <4>1, <4>2, <4>3, <1>1 DEF InOnePlace, RunsEverywhere, FailedAtHome
    <3>2. Reached(t, u, c) = Down[c]
      BY <3>1, <1>2 DEF Reached, RunningIn
    <3>3. r = [d \in Channel |-> IF d \in Down[c]
                THEN [Drop(t[d], u) EXCEPT !.running = @ \cup {u}] ELSE t[d]]
      BY <2>1, <3>2 DEF SetRunning
    <3> HIDE DEF r
    <3>4. r \in Trees /\ \A v \in Job \ {u} : SamePlace(r, t, v)
      BY <3>3, <1>2 DEF Trees, Drop, SamePlace, QueuedIn, RunningIn, FailedIn
    <3>5. /\ QueuedIn(r, u) = QueuedIn(t, u) \ Down[c]
          /\ FailedIn(r, u) = FailedIn(t, u) \ Down[c]
          /\ RunningIn(r, u) = RunningIn(t, u) \cup Down[c]
      BY <3>3, <1>2 DEF Trees, Drop, QueuedIn, RunningIn, FailedIn
    <3>6. QueuedIn(t, u) \subseteq Down[c] /\ FailedIn(t, u) \subseteq Down[c]
      BY <1>1 DEF NoPlace, InOnePlace, RunsEverywhere, QueuedAt, FailedAtHome
    <3>7. RunsEverywhere(r, p, u)
      BY <3>1, <3>5, <3>6, <1>1 DEF RunsEverywhere
    <3>8. u \in r[c].running
      BY <3>5, <1>1 DEF RunningIn
    <3> QED BY <3>4, <3>7, <3>8 DEF InOnePlace
  <2> QED BY <2>2, <2>3
<1>7. ASSUME s = "failed" PROVE /\ r \in Trees
                                /\ \A v \in Job \ {u} : SamePlace(r, t, v)
                                /\ FailedAtHome(r, p, u)
  <2>1. r = SetFailed(t, u, c)
    BY <1>7 DEF Placed
  <2>2. CASE u \in t[c].failed
    <3>1. r = t /\ c \in FailedIn(t, u)
      BY <2>1, <2>2, <1>1 DEF SetFailed, FailedIn
    <3>2. FailedAtHome(t, p, u)
      BY <3>1 DEF NoPlace, InOnePlace, RunsEverywhere, QueuedAt, FailedAtHome
    <3> QED BY <3>1, <3>2 DEF SamePlace
  <2>3. CASE u \notin t[c].failed
    <3> DEFINE q == Remove(t, u, c)
    <3>1. r = [q EXCEPT ![c].failed = @ \cup {u}]
      BY <2>1, <2>3 DEF SetFailed
    <3> HIDE DEF r, q
    <3>2. r \in Trees /\ \A v \in Job \ {u} : SamePlace(r, q, v)
      BY <3>1, <1>1, <1>4 DEF Trees, SamePlace, QueuedIn, RunningIn, FailedIn, q
    <3>3. QueuedIn(r, u) = {} /\ RunningIn(r, u) = {} /\ FailedIn(r, u) = {c}
      BY <3>1, <1>1, <1>3, <1>4 DEF Trees, QueuedIn, RunningIn, FailedIn, NoPlace, q
    <3> QED BY <3>2, <3>3, <1>1, <1>4 DEF FailedAtHome, SamePlace, q
  <2> QED BY <2>2, <2>3
<1>8. ASSUME s \in {"done", "cancelled"}
      PROVE  /\ r \in Trees
             /\ \A v \in Job \ {u} : SamePlace(r, t, v)
             /\ NoPlace(r, u)
  BY <1>8, <1>3, <1>4 DEF Placed
<1>9. ASSUME s = "wait_dependencies" PROVE r = t
  BY <1>9 DEF Placed
<1>10. ASSUME NoPlace(r, u) PROVE ~InChannel(r, u, c) /\ InOnePlace(r, NoJob, u)
  BY <1>10, <1>1 DEF NoPlace, InChannel, InOnePlace, RunsEverywhere, Way,
                     QueuedIn, RunningIn, FailedIn
<1>11. ASSUME InOnePlace(r, p, u) PROVE InChannel(r, u, c)
  <2>1. \/ c \in RunningIn(r, u) \/ c \in FailedIn(r, u) \/ c \in QueuedIn(r, u)
    <3>1. ASSUME NEW d \in Way(p), QueuedAt(r, p, u, d) 
          PROVE  c \in QueuedIn(r, u) \/ c \in RunningIn(r, u)
      <4>1. CASE c \in Down[d]
        BY <4>1, <3>1, <1>1, <1>2, DownAntisymmetric DEF QueuedAt
      <4>2. CASE c \notin Down[d]
        BY <4>2, <3>1, <1>1 DEF QueuedAt
      <4> QED BY <4>1, <4>2
    <3> QED BY <3>1, <1>11, <1>1 DEF InOnePlace, RunsEverywhere, FailedAtHome
  <2> QED BY <2>1 DEF InChannel, QueuedIn, RunningIn, FailedIn
<1> DEFINE l == IF InChannel(r, u, c) THEN p ELSE NoJob
<1>12. ASSUME InOnePlace(r, p, u) \/ NoPlace(r, u) PROVE InOnePlace(r, l, u)
  BY <1>10, <1>11, <1>12
<1>13. r \in Trees /\ \A v \in Job \ {u} : SamePlace(r, t, v)
  BY <1>5, <1>6, <1>7, <1>8, <1>9 DEF State, SamePlace
<1>14. InOnePlace(r, p, u) \/ NoPlace(r, u)
  <2>1. CASE s = "pending"
    BY <2>1, <1>1, <1>5 DEF InOnePlace
  <2>2. CASE s = "failed"
    BY <2>2, <1>7 DEF InOnePlace
  <2> QED BY <2>1, <2>2, <1>6, <1>8, <1>9 DEF State
<1>15. /\ s = "pending" => QueuedIn(r, u) # {}
       /\ s = "failed" => FailedIn(r, u) # {}
       /\ s \in {"done", "cancelled"} => l = NoJob
  BY <1>5, <1>7, <1>8, <1>10 DEF QueuedAt, FailedAtHome
<1> QED
  BY <1>12, <1>13, <1>14, <1>15

----------------------------------------------------------------------------
(* The steps of the manager *)

\* Only the channel of a ChannelJob matters for where it may be.
LEMMA PlaceOfChannel ==
  ASSUME NEW t, NEW u, NEW k \in JobProps, NEW l \in JobProps,
         k.channel = l.channel, InOnePlace(t, k, u)
  PROVE  InOnePlace(t, l, u)
<1>1. k # NoJob /\ l # NoJob
  BY NoneAssumption
<1>2. Way(k) = Way(l)
  BY <1>1 DEF Way
<1> QED
  BY <1>1, <1>2 DEF InOnePlace, RunsEverywhere, QueuedAt, FailedAtHome

\* Clearing the eta of the jobs that are due leaves every job where it is.
LEMMA ClearDuePlaces ==
  ASSUME PlaceInv, NEW c \in Channel, ClearDue(c)
  PROVE  /\ live' \in [Job -> JobProps \cup {NoJob}]
         /\ \A u \in Job : \A t : InOnePlace(t, live[u], u) => InOnePlace(t, live'[u], u)
<1>1. ASSUME NEW u \in Job, u \in Ready(c)
      PROVE  live[u] \in JobProps /\ live'[u] \in JobProps
                                 /\ live'[u].channel = live[u].channel
  <2>1. c \in QueuedIn(tree, u)
    BY <1>1 DEF Ready, QueuedIn
  <2>2. live[u] # NoJob
    BY <2>1, NoJobNoPlace DEF PlaceInv, OnePlace, NoPlace
  <2> QED
    BY <1>1, <2>2 DEF PlaceInv, ClearDue, JobProps
<1>2. \A u \in Job : u \notin Ready(c) => live'[u] = live[u]
  BY DEF ClearDue
<1>3. live' \in [Job -> JobProps \cup {NoJob}]
  BY <1>1, <1>2 DEF ClearDue, PlaceInv
<1> QED
  BY <1>1, <1>2, <1>3, PlaceOfChannel

\* A job that moves down one channel is queued in one place again.
LEMMA MovedInOnePlace ==
  ASSUME NEW t \in Trees, NEW c \in Channel, NEW u \in t[c].queue \cap Job,
         NEW l \in JobProps, InOnePlace(t, l, u)
  PROVE  /\ Moved(t, u, c) \in Trees
         /\ \A v \in Job \ {u} : SamePlace(Moved(t, u, c), t, v)
         /\ InOnePlace(Moved(t, u, c), l, u)
<1> DEFINE m == Moved(t, u, c)
<1>1. c \in Way(l) /\ QueuedAt(t, l, u, c)
  <2>1. c \in QueuedIn(t, u)
    BY DEF QueuedIn
  <2> QED BY <2>1 DEF InOnePlace, RunsEverywhere, QueuedAt, FailedAtHome
<1>2. l # NoJob /\ l.channel \in Channel /\ Way(l) = Down[l.channel]
  BY NoneAssumption DEF JobProps, Way
<1>3. /\ m \in Trees
      /\ \A v \in Job \ {u} : SamePlace(m, t, v)
      /\ RunningIn(m, u) = RunningIn(t, u) \cup {c}
      /\ FailedIn(m, u) = FailedIn(t, u)
  <2>1. CASE c = Root
    BY <2>1 DEF Moved, Trees, SamePlace, QueuedIn, RunningIn, FailedIn
  <2>2. CASE c # Root
    <3>1. Parent[c] \in Channel /\ Parent[c] # c
      BY <2>2, DownParent, DownIn
    <3> QED
      BY <2>2, <3>1 DEF Moved, Trees, SamePlace, QueuedIn, RunningIn, FailedIn
  <2> QED BY <2>1, <2>2
<1>4. CASE c = Root
  <2>1. QueuedIn(m, u) = QueuedIn(t, u) \ {c}
    BY <1>4 DEF Moved, Trees, QueuedIn
  <2>2. RunsEverywhere(m, l, u)
    BY <1>1, <1>3, <1>4, <2>1, DownRoot DEF QueuedAt, RunsEverywhere
  <2> QED BY <1>3, <2>2 DEF InOnePlace
<1>5. CASE c # Root
  <2>1. /\ Parent[c] \in Channel
        /\ Down[c] = {c} \cup Down[Parent[c]]
        /\ c \notin Down[Parent[c]]
    BY <1>5, DownParent
  <2>2. Parent[c] # c /\ Parent[c] \in Way(l)
    BY <1>1, <1>2, <1>5, <2>1, DownIn, DownClosed
  <2>3. QueuedIn(m, u) = (QueuedIn(t, u) \ {c}) \cup {Parent[c]}
    BY <1>5, <2>1, <2>2 DEF Moved, Trees, QueuedIn
  <2>4. QueuedAt(m, l, u, Parent[c])
    BY <1>1, <1>3, <2>1, <2>3 DEF QueuedAt
  <2> QED BY <1>3, <2>2, <2>4 DEF InOnePlace
<1> QED
  BY <1>4, <1>5

\* remove_job() clears the job's place and no other.
LEMMA ForgottenPlaces ==
  ASSUME PlaceInv, NEW u \in Job
  PROVE  /\ Forgotten(u) \in Trees
         /\ \A v \in Job \ {u} : SamePlace(Forgotten(u), tree, v)
         /\ NoPlace(Forgotten(u), u)
<1>1. tree \in Trees /\ live \in [Job -> JobProps \cup {NoJob}]
      /\ InOnePlace(tree, live[u], u)
  BY DEF PlaceInv, OnePlace
<1>2. CASE live[u] = NoJob
  BY <1>1, <1>2, NoJobNoPlace DEF Forgotten, SamePlace
<1>3. CASE live[u] # NoJob
  <2>1. live[u] \in JobProps /\ live[u].channel \in Channel
    BY <1>3, <1>1 DEF JobProps
  <2> QED BY <1>3, <2>1, <1>1, RemoveType, RemoveClears DEF Forgotten
<1> QED BY <1>2, <1>3

LEMMA PlaceInvStep == PlaceInv /\ [Next]_vars => PlaceInv'
<1> SUFFICES ASSUME PlaceInv, [Next]_vars PROVE PlaceInv'
  OBVIOUS
<1>1. tree \in Trees /\ live \in [Job -> JobProps \cup {NoJob}]
  BY DEF PlaceInv
<1>2. \A u \in Job : InOnePlace(tree, live[u], u)
  BY DEF PlaceInv, OnePlace
<1>3. ASSUME NEW u \in Job
      PROVE  /\ Forgotten(u) \in Trees
             /\ \A v \in Job \ {u} : SamePlace(Forgotten(u), tree, v)
             /\ NoPlace(Forgotten(u), u)
  BY ForgottenPlaces
\* A step that puts one job in one place and leaves the others where they are
<1>4. ASSUME NEW u \in Job, NEW l \in JobProps \cup {NoJob},
             live' = [live EXCEPT ![u] = l], tree' \in Trees,
             \A v \in Job \ {u} : SamePlace(tree', tree, v), InOnePlace(tree', l, u)
      PROVE  PlaceInv'
  <2>1. live' \in [Job -> JobProps \cup {NoJob}] /\ live'[u] = l
        /\ \A v \in Job \ {u} : live'[v] = live[v]
    BY <1>1, <1>4
  <2>2. \A v \in Job : InOnePlace(tree', live'[v], v)
    BY <1>2, <1>4, <2>1, SamePlaceKeeps
  <2> QED BY <1>4, <2>1, <2>2 DEF PlaceInv, OnePlace, InOnePlace, RunsEverywhere,
               QueuedAt, FailedAtHome, QueuedIn, RunningIn, FailedIn, Way
<1>5. ASSUME NEW u \in Job, NEW p \in Props[u], NEW s \in State, Notify(u, p, s)
      PROVE  PlaceInv'
  <2> DEFINE t == IF live[u] = p THEN tree ELSE Forgotten(u)
             r == Placed(t, u, p.channel, s)
             l == IF InChannel(r, u, p.channel) THEN p ELSE NoJob
  <2>1. p \in JobProps
    BY JobAssumption
  <2>2. /\ t \in Trees
        /\ \A v \in Job \ {u} : SamePlace(t, tree, v)
        /\ NoPlace(t, u) \/ InOnePlace(t, p, u)
    BY <1>1, <1>2, <1>3 DEF SamePlace
  <2>3. tree' = r /\ live' = [live EXCEPT ![u] = l]
    BY <1>5 DEF Notify
  <2> HIDE DEF t
  <2>4. /\ r \in Trees
        /\ \A v \in Job \ {u} : SamePlace(r, t, v)
        /\ InOnePlace(r, l, u)
    BY <2>1, <2>2, PlacedInOnePlace
  <2> HIDE DEF r
  <2>5. \A v \in Job \ {u} : SamePlace(r, tree, v)
    BY <2>2, <2>4 DEF SamePlace
  <2>6. l \in JobProps \cup {NoJob}
    BY <2>1
  <2> QED BY <1>4, <2>3, <2>4, <2>5, <2>6
<1>6. ASSUME NEW u \in Job, RemoveJob(u) PROVE PlaceInv'
  <2>1. InOnePlace(tree', NoJob, u)
    BY <1>6, <1>3 DEF RemoveJob, InOnePlace, RunsEverywhere, NoPlace, Way
  <2> QED BY <1>3, <1>4, <1>6, <2>1 DEF RemoveJob
<1>7. ASSUME NEW db, RemoveDb(db) PROVE PlaceInv'
  <2> DEFINE gone == {u \in Job : DbOf[u] = db}
  <2>1. /\ tree' = [c \in Channel |-> [queue   |-> tree[c].queue \ gone,
                                      running |-> tree[c].running \ gone,
                                      failed  |-> tree[c].failed \ gone]]
        /\ live' = [u \in Job |-> IF u \in gone THEN NoJob ELSE live[u]]
    BY <1>7 DEF RemoveDb
  <2> HIDE DEF gone
  <2>2. tree' \in Trees /\ live' \in [Job -> JobProps \cup {NoJob}]
    BY <1>1, <2>1 DEF Trees
  <2>3. ASSUME NEW u \in Job, u \in gone PROVE InOnePlace(tree', live'[u], u)
    <3>1. NoPlace(tree', u)
      BY <2>1, <2>3 DEF NoPlace, QueuedIn, RunningIn, FailedIn
    <3> QED BY <2>1, <2>3, <3>1 DEF InOnePlace, RunsEverywhere, NoPlace, Way
  <2>4. ASSUME NEW u \in Job, u \notin gone PROVE InOnePlace(tree', live'[u], u)
    <3>1. SamePlace(tree', tree, u)
      BY <1>1, <2>1, <2>4 DEF SamePlace, QueuedIn, RunningIn, FailedIn, Trees
    <3> QED BY <1>2, <2>1, <2>4, <3>1, SamePlaceKeeps
  <2> QED BY <2>2, <2>3, <2>4 DEF PlaceInv, OnePlace, InOnePlace, RunsEverywhere,
               QueuedAt, FailedAtHome, QueuedIn, RunningIn, FailedIn, Way
<1>8. ASSUME UNCHANGED <<tree, live>> PROVE PlaceInv'
  BY <1>8 DEF PlaceInv, OnePlace, InOnePlace, RunsEverywhere, QueuedAt, FailedAtHome,
              QueuedIn, RunningIn, FailedIn, Way
<1>9. ASSUME NEW c \in Channel, NEW u \in Job, Yield(c, u) PROVE PlaceInv'
  <2>1. tree' = Moved(tree, u, c) /\ ClearDue(c) /\ u \in tree[c].queue
    BY <1>9 DEF Yield, First, Ready
  <2>2. live[u] \in JobProps
    <3>1. c \in QueuedIn(tree, u)
      BY <2>1 DEF QueuedIn
    <3> QED BY <3>1, <1>1, <1>2, NoJobNoPlace DEF NoPlace
  <2>3. /\ tree' \in Trees
        /\ \A v \in Job \ {u} : SamePlace(tree', tree, v)
        /\ InOnePlace(tree', live[u], u)
    BY <1>1, <1>2, <2>1, <2>2, MovedInOnePlace
  <2>4. \A v \in Job : InOnePlace(tree', live[v], v)
    BY <1>2, <2>3, SamePlaceKeeps
  <2>5. /\ live' \in [Job -> JobProps \cup {NoJob}]
        /\ \A v \in Job : InOnePlace(tree', live'[v], v)
    BY <2>1, <2>4, ClearDuePlaces
  <2> QED BY <2>3, <2>5 DEF PlaceInv, OnePlace, InOnePlace, RunsEverywhere,
               QueuedAt, FailedAtHome, QueuedIn, RunningIn, FailedIn, Way
<1>10. ASSUME NEW c \in Channel, Exhaust(c) PROVE PlaceInv'
  <2>1. CASE UNCHANGED live
    BY <1>8, <1>10, <2>1 DEF Exhaust
  <2>2. CASE ClearDue(c)
    <3>1. tree' = tree
      BY <1>10 DEF Exhaust
    <3>2. /\ live' \in [Job -> JobProps \cup {NoJob}]
          /\ \A v \in Job : InOnePlace(tree, live'[v], v)
      BY <1>2, <2>2, ClearDuePlaces
    <3> QED BY <1>1, <3>1, <3>2 DEF PlaceInv, OnePlace, InOnePlace, RunsEverywhere,
                 QueuedAt, FailedAtHome, QueuedIn, RunningIn, FailedIn, Way
  <2> QED BY <1>10, <2>1, <2>2 DEF Exhaust
<1>11. ASSUME NEW t \in 0 .. MaxNow, BeginRun(t) PROVE PlaceInv'
  BY <1>8, <1>11 DEF BeginRun
<1>12. ASSUME NEW c \in Channel, Open(c) \/ Pause(c) PROVE PlaceInv'
  BY <1>8, <1>12 DEF Open, Pause
<1>13. CASE EndRun
  BY <1>8, <1>13 DEF EndRun
<1>14. CASE UNCHANGED vars
  BY <1>8, <1>14 DEF vars
<1>15. CASE Renew
  BY <1>15 DEF Renew, Empty, PlaceInv, Trees, OnePlace, InOnePlace, RunsEverywhere, QueuedAt,
               FailedAtHome, QueuedIn, RunningIn, FailedIn, Way
<1> QED
  BY <1>5, <1>6, <1>7, <1>9, <1>10, <1>11, <1>12, <1>13, <1>14, <1>15 DEF Next, Generators

\* Whatever the rows of the jobs become and whenever the runner hears of it, a
\* job is in one place of the tree of channels: it takes one slot of every
\* channel it went through, and the root cannot hand it out twice.
THEOREM JobsInOnePlace == Spec => []PlaceInv
<1>1. Init => PlaceInv
  BY DEF Init, PlaceInv, Trees, Empty, OnePlace, InOnePlace, RunsEverywhere, Way,
         QueuedIn, RunningIn, FailedIn
<1> QED
  BY <1>1, PlaceInvStep, PTL DEF Spec

----------------------------------------------------------------------------
(* What the steps do to the running jobs of the root channel *)

OnItsWay == {"enqueued", "started"}

\* A job that runs in the root channel runs all the way.
LEMMA RootRunsEverywhere ==
  ASSUME NEW t, NEW u, NEW l, InOnePlace(t, l, u), Root \in RunningIn(t, u)
  PROVE  RunsEverywhere(t, l, u)
<1>1. ASSUME NEW c \in Way(l), QueuedAt(t, l, u, c) PROVE FALSE
  <2>1. c \in Channel
    BY <1>1 DEF QueuedAt, QueuedIn
  <2> QED BY <1>1, <2>1, TreeAssumption DEF QueuedAt
<1> QED
  BY <1>1 DEF InOnePlace, FailedAtHome

\* notify() lets a job run in the root channel if its row says so, provided the job
\* was nowhere or ran there before; it is the only state that does.
LEMMA NotifyRoot ==
  ASSUME PlaceInv, NEW u \in Job, NEW p \in Props[u], NEW s \in State, Notify(u, p, s)
  PROVE  /\ \A v \in Job \ {u} : SamePlace(tree', tree, v)
         /\ s \in OnItsWay /\ (NoPlace(tree, u) \/ Root \in RunningIn(tree, u))
              => Root \in RunningIn(tree', u)
         /\ Root \in RunningIn(tree', u)
              => s \in OnItsWay \/ Root \in RunningIn(tree, u)
<1> DEFINE c == p.channel
           t == IF live[u] = p THEN tree ELSE Forgotten(u)
           r == Placed(t, u, c, s)
<1>1. p \in JobProps /\ p # NoJob /\ c \in Channel /\ Way(p) = Down[c] /\ Root \in Down[c]
      /\ c \in Down[c] /\ Down[c] \subseteq Channel
  BY JobAssumption, NoneAssumption, TreeAssumption, DownIn DEF JobProps, Way
<1>2. /\ t \in Trees
      /\ \A v \in Job \ {u} : SamePlace(t, tree, v)
      /\ NoPlace(t, u) \/ (t = tree /\ InOnePlace(t, p, u))
  BY ForgottenPlaces DEF PlaceInv, OnePlace, SamePlace
<1>3. tree' = r
  BY DEF Notify
<1>4. NoPlace(tree, u) => NoPlace(t, u)
  BY <1>2 DEF NoPlace
<1> HIDE DEF t
<1>5. \A v \in Job \ {u} : SamePlace(r, t, v)
  BY <1>1, <1>2, PlacedInOnePlace
<1>6. ASSUME s \in OnItsWay, NoPlace(t, u) PROVE Root \in RunningIn(r, u)
  <2>1. Reached(t, u, c) = Down[c]
    BY <1>1, <1>6 DEF Reached, NoPlace, RunningIn
  <2>2. r = SetRunning(t, u, c)
    BY <1>6 DEF Placed, OnItsWay
  <2>3. u \in r[Root].running
    BY <1>1, <1>2, <2>1, <2>2 DEF SetRunning, Drop, Trees
  <2> QED BY <1>1, <2>3 DEF RunningIn
<1>7. ASSUME s \in OnItsWay, Root \in RunningIn(t, u), InOnePlace(t, p, u)
      PROVE  Root \in RunningIn(r, u)
  <2>1. c \in RunningIn(t, u)
    BY <1>1, <1>7, RootRunsEverywhere DEF RunsEverywhere
  <2>2. Reached(t, u, c) = {}
    BY <1>1, <2>1 DEF Reached, RunningIn
  <2>3. r = t
    BY <1>2, <1>7, <2>2 DEF Placed, OnItsWay, SetRunning, Trees
  <2> QED BY <1>7, <2>3
<1>8. ASSUME s \notin OnItsWay, Root \in RunningIn(r, u) PROVE Root \in RunningIn(t, u)
  <2>1. CASE s = "wait_dependencies"
    BY <1>8, <2>1 DEF Placed
  <2> DEFINE q == Remove(t, u, c)
  <2>2. RunningIn(q, u) \subseteq RunningIn(t, u) /\ q \in Trees
    BY <1>1, <1>2, RemoveType
  <2>3. CASE s = "pending"
    <3>1. r = t \/ r = [q EXCEPT ![c].queue = @ \cup {u}]
      BY <2>3 DEF Placed, SetPending
    <3>2. RunningIn(r, u) = RunningIn(t, u) \/ RunningIn(r, u) = RunningIn(q, u)
      BY <3>1, <1>1, <2>2 DEF RunningIn, Trees
    <3> QED BY <1>8, <2>2, <3>2
  <2>4. CASE s = "failed"
    <3>1. r = t \/ r = [q EXCEPT ![c].failed = @ \cup {u}]
      BY <2>4 DEF Placed, SetFailed
    <3>2. RunningIn(r, u) = RunningIn(t, u) \/ RunningIn(r, u) = RunningIn(q, u)
      BY <3>1, <1>1, <2>2 DEF RunningIn, Trees
    <3> QED BY <1>8, <2>2, <3>2
  <2>5. CASE s \in {"done", "cancelled"}
    BY <1>8, <2>2, <2>5 DEF Placed
  <2> QED BY <1>8, <2>1, <2>3, <2>4, <2>5 DEF State, OnItsWay
<1> HIDE DEF r
<1>9. s \in OnItsWay /\ (NoPlace(tree, u) \/ Root \in RunningIn(tree, u))
        => Root \in RunningIn(tree', u)
  BY <1>2, <1>3, <1>4, <1>6, <1>7
<1>10. Root \in RunningIn(t, u) => Root \in RunningIn(tree, u)
  BY <1>2 DEF NoPlace
<1> QED
  BY <1>2, <1>3, <1>5, <1>8, <1>9, <1>10 DEF SamePlace

\* Only the root's own generator adds to the running jobs of the root.
LEMMA YieldRoot ==
  ASSUME PlaceInv, NEW c \in Channel, NEW u \in Job, Yield(c, u)
  PROVE  tree'[Root].running = IF c = Root THEN tree[Root].running \cup {u}
                               ELSE tree[Root].running
<1>1. tree' = Moved(tree, u, c) /\ Root \in Channel
  BY TreeAssumption DEF Yield
<1>2. tree \in Trees
  BY DEF PlaceInv
<1>3. CASE c = Root
  BY <1>1, <1>2, <1>3 DEF Moved, Trees
<1>4. CASE c # Root
  BY <1>1, <1>2, <1>4 DEF Moved, Trees
<1> QED
  BY <1>3, <1>4

----------------------------------------------------------------------------
(* The throttle.  A generator goes on when those of the channel's children *)
(* are closed, so that the others are closed when the root's is at work: a *)
(* run that breaks off there leaves only the root without its pause.       *)

Gens == {"off", "fresh", "open", "yielded", "throttled", "closed"}

TimesOK ==
  /\ gen \in [Channel -> Gens] /\ pause \in [Channel -> Nat] /\ now \in Nat
  /\ lastYield \in [Channel -> Nat \cup {Never}]

GoneOn(c) == gen[c] \notin {"off", "fresh"}

InTurn == \A c \in Channel : GoneOn(c) => \A d \in Children(c) : gen[d] = "closed"

\* A channel that may give its next job has waited, or it has a pause that is as long
Rests(c) ==
  /\ gen[c] = "yielded" => Throttle[c] = 0
  /\ gen[c] = "throttled" => Throttle[c] # 0
  /\ pause[c] # 0 => Throttle[c] # 0 /\ gen[c] \in {"off", "fresh", "closed"}
  /\ lastYield[c] # Never /\ Throttle[c] # 0 =>
       /\ lastYield[c] <= now
       /\ gen[c] = "open" => lastYield[c] + Throttle[c] <= now
       /\ gen[c] \in {"off", "fresh", "closed"} =>
            \/ lastYield[c] + Throttle[c] <= now
            \/ lastYield[c] + Throttle[c] <= pause[c]

ThrottleInv == TimesOK /\ InTurn /\ \A c \in Channel : Rests(c)

LEMMA OthersClosed ==
  ASSUME InTurn, GoneOn(Root), NEW c \in Channel \ {Root}
  PROVE  gen[c] = "closed"
<1> SUFFICES ASSUME gen[c] # "closed" PROVE FALSE
  OBVIOUS
<1> DEFINE S == {c} \cup {x \in Channel : ~GoneOn(x)}
<1>1. \A x \in Channel \ {Root} : gen[x] # "closed" => Parent[x] \in S
  BY TreeAssumption DEF InTurn, Children
<1>2. \A x \in S \ {Root} : Parent[x] \in S
  BY <1>1 DEF GoneOn
<1>3. S \in SUBSET Channel /\ c \in S
  OBVIOUS
<1> HIDE DEF S
<1>4. Root \in S
  BY <1>2, <1>3, DownLeast, TreeAssumption
<1> QED
  BY <1>4 DEF S

LEMMA TimesStep == TimesOK /\ [Next]_vars => TimesOK'
<1> SUFFICES ASSUME TimesOK, [Next]_vars PROVE TimesOK'
  OBVIOUS
<1> USE DEF TimesOK, Gens
<1>1. ASSUME NEW c \in Channel, Open(c) \/ Exhaust(c) PROVE TimesOK'
  BY <1>1 DEF Open, Exhaust
<1>2. ASSUME NEW c \in Channel, Pause(c) PROVE TimesOK'
  <2>1. now + Throttle[c] \in Nat
    BY ConfigAssumption
  <2> QED BY <1>2, <2>1 DEF Pause
<1>3. ASSUME NEW c \in Channel, NEW u \in Job, Yield(c, u) PROVE TimesOK'
  BY <1>3 DEF Yield
<1>4. ASSUME NEW t \in 0 .. MaxNow, BeginRun(t) PROVE TimesOK'
  BY <1>4 DEF BeginRun
<1>5. ASSUME NEW db, RemoveDb(db) PROVE TimesOK'
  BY <1>5 DEF RemoveDb
<1>6. ASSUME \/ \E u \in Job : \E p \in Props[u], s \in State : Notify(u, p, s)
             \/ \E u \in Job : RemoveJob(u)
             \/ EndRun
             \/ UNCHANGED vars
      PROVE  TimesOK'
  BY <1>6 DEF Notify, RemoveJob, EndRun, vars
<1>7. CASE Renew
  BY <1>7 DEF Renew
<1> QED
  BY <1>1, <1>2, <1>3, <1>4, <1>5, <1>6, <1>7 DEF Next, Generators

LEMMA InTurnStep == TimesOK /\ InTurn /\ [Next]_vars => InTurn'
<1> SUFFICES ASSUME TimesOK, InTurn, [Next]_vars PROVE InTurn'
  OBVIOUS
<1> USE DEF TimesOK, InTurn, GoneOn, Children
<1>1. ASSUME NEW c \in Channel, NEW g, gen' = [gen EXCEPT ![c] = g], g # "fresh", g # "off",
             gen[c] # "closed", \A d \in Children(c) : gen[d] = "closed"
      PROVE  InTurn'
  <2>1. c \in Channel \ {Root} => Parent[c] # c
    BY DownParent, DownIn
  <2> QED BY <1>1, <2>1
<1>2. ASSUME NEW c \in Channel, Open(c) PROVE InTurn'
  BY <1>1, <1>2 DEF Open
<1>3. ASSUME NEW c \in Channel, Exhaust(c) \/ Pause(c) \/ \E u \in Job : Yield(c, u)
      PROVE  InTurn'
  BY <1>1, <1>3 DEF Exhaust, Pause, Yield
<1>4. ASSUME \/ \E t \in 0 .. MaxNow : BeginRun(t)
             \/ \E u \in Job : RemoveDb(DbOf[u])
             \/ Renew
             \/ EndRun
      PROVE  InTurn'
  BY <1>4 DEF BeginRun, RemoveDb, Renew, EndRun
<1>5. ASSUME \/ \E u \in Job : \E p \in Props[u], s \in State : Notify(u, p, s)
             \/ \E u \in Job : RemoveJob(u)
             \/ UNCHANGED vars
      PROVE  InTurn'
  BY <1>5 DEF Notify, RemoveJob, vars
<1> QED
  BY <1>2, <1>3, <1>4, <1>5 DEF Next, Generators

LEMMA ThrottleInvStep == ThrottleInv /\ [Next]_vars => ThrottleInv'
<1> SUFFICES ASSUME ThrottleInv, [Next]_vars PROVE ThrottleInv'
  OBVIOUS
<1>1. TimesOK /\ InTurn /\ \A c \in Channel : Rests(c)
  BY DEF ThrottleInv
<1>2. TimesOK' /\ InTurn'
  BY <1>1, TimesStep, InTurnStep
<1> SUFFICES ASSUME NEW c \in Channel PROVE Rests(c)'
  BY <1>2 DEF ThrottleInv
<1>3. /\ gen[c] \in Gens /\ pause[c] \in Nat /\ now \in Nat
      /\ lastYield[c] \in Nat \cup {Never} /\ Throttle[c] \in Nat
  BY <1>1, ConfigAssumption DEF TimesOK
<1>4. ASSUME UNCHANGED <<gen[c], pause[c], now, lastYield[c]>> PROVE Rests(c)'
  BY <1>1, <1>4 DEF Rests
<1>5. ASSUME NEW d \in Channel,
             Open(d) \/ Exhaust(d) \/ Pause(d) \/ \E u \in Job : Yield(d, u)
      PROVE  Rests(c)'
  <2>1. CASE c # d
    BY <1>1, <1>4, <1>5, <2>1 DEF Open, Exhaust, Pause, Yield, TimesOK
  <2>2. CASE c = d /\ Open(d)
    BY <1>1, <1>3, <2>2, NoneAssumption DEF Open, Rests, TimesOK
  <2>3. CASE c = d /\ Exhaust(d)
    BY <1>1, <1>3, <2>3, NoneAssumption DEF Exhaust, Rests, TimesOK
  <2>4. CASE c = d /\ Pause(d)
    BY <1>1, <1>3, <2>4, NoneAssumption DEF Pause, Rests, TimesOK
  <2>5. ASSUME NEW u \in Job, c = d, Yield(d, u) PROVE Rests(c)'
    BY <1>1, <1>3, <2>5, NoneAssumption DEF Yield, Rests, TimesOK
  <2> QED BY <1>5, <2>1, <2>2, <2>3, <2>4, <2>5
<1>6. ASSUME NEW t \in 0 .. MaxNow, BeginRun(t) PROVE Rests(c)'
  BY <1>1, <1>3, <1>6, NoneAssumption DEF BeginRun, Rests, Idle
\* The generators are dropped: those of the other channels were closed.
<1>7. ASSUME gen' = [x \in Channel |-> "off"], UNCHANGED <<pause, now>>,
             GoneOn(Root), lastYield'[c] = lastYield[c],
             c = Root => gen[c] \in {"yielded", "closed"}
      PROVE  Rests(c)'
  <2>1. gen[c] \in {"yielded", "closed"}
    BY <1>1, <1>7, OthersClosed
  <2> QED BY <1>1, <1>3, <1>7, <2>1, NoneAssumption DEF Rests
<1>8. ASSUME NEW db, RemoveDb(db) PROVE Rests(c)'
  <2>1. CASE Idle
    BY <1>1, <1>4, <1>8, <2>1, TreeAssumption DEF RemoveDb, Idle
  <2>2. CASE gen[Root] = "yielded"
    BY <1>7, <1>8, <2>2 DEF RemoveDb, GoneOn
  <2>3. CASE gen[Root] = "throttled" /\ c # Root
    BY <1>1, <1>7, <1>8, <2>3 DEF RemoveDb, GoneOn, TimesOK
  <2>4. CASE gen[Root] = "throttled" /\ c = Root
    BY <1>1, <1>3, <1>8, <2>4 DEF RemoveDb, TimesOK, Rests
  <2> QED BY <1>8, <2>1, <2>2, <2>3, <2>4 DEF RemoveDb
<1>9. CASE EndRun
  BY <1>7, <1>9 DEF EndRun, GoneOn
<1>10. ASSUME \/ \E u \in Job : \E p \in Props[u], s \in State : Notify(u, p, s)
              \/ \E u \in Job : RemoveJob(u)
              \/ UNCHANGED vars
       PROVE  Rests(c)'
  BY <1>4, <1>10 DEF Notify, RemoveJob, vars
\* A new process has yielded nothing.
<1>11. CASE Renew
  BY <1>11 DEF Renew, Rests
<1> QED
  BY <1>5, <1>6, <1>8, <1>9, <1>10, <1>11 DEF Next, Generators

LEMMA ThrottleInvInit == Init => ThrottleInv
  BY DEF Init, ThrottleInv, TimesOK, Gens, InTurn, GoneOn, Rests

LEMMA ThrottleHeld ==
  ASSUME ThrottleInv, NEW c \in Channel, NEW u \in Job, Yield(c, u), Throttle[c] # 0,
         lastYield[c] # Never
  PROVE  now >= lastYield[c] + Throttle[c]
<1>1. /\ Rests(c) /\ gen[c] \in {"open", "yielded"} /\ now \in Nat
      /\ lastYield[c] \in Nat /\ Throttle[c] \in Nat
  BY ConfigAssumption DEF ThrottleInv, TimesOK, Yield
<1> QED
  BY <1>1 DEF Rests

\* In any tree of channels, and when a run breaks off with a job in hand, two jobs of a
\* throttled channel are at least its throttle apart.
THEOREM ThrottleKept == Spec => Throttled
<1>1. ThrottleInv => \A c \in Channel, u \in Job :
                       Yield(c, u) /\ Throttle[c] # 0 /\ lastYield[c] # Never
                         => now >= lastYield[c] + Throttle[c]
  BY ThrottleHeld
<1> QED
  BY <1>1, ThrottleInvInit, ThrottleInvStep, PTL DEF Spec, Throttled

----------------------------------------------------------------------------
(* The wakeup time.  A channel whose generator is exhausted can give no job *)
(* before its pause or its earliest eta is over.  While the runner sleeps,  *)
(* so it is with every channel that has only runnable channels below it,    *)
(* and with no other does a job come to the root.                           *)

LEMMA LeastNat ==
  ASSUME NEW S \in SUBSET Nat, S # {}
  PROVE  \E n \in S : \A m \in S : n <= m
<1> DEFINE R == {x \in Nat \X Nat : x[1] < x[2]}
<1>1. IsWellFoundedOn(R, Nat)
  BY NatLessThanWellFounded DEF OpToRel
<1>2. \A m, n \in Nat : ~ (<<m, n>> \in R) => n <= m
  OBVIOUS
<1> HIDE DEF R
<1>3. PICK n \in S : \A m \in S : ~ (<<m, n>> \in R)
  BY <1>1, WFMin
<1> QED
  BY <1>2, <1>3

\* What pop() finds when it returns None
Stuck(c) == HeldBack(c) \/ Ready(c) = {}

WentQuiet(c) ==
  gen[c] = "closed" =>
    /\ pause[c] # 0 => pause[c] > now
    /\ pause[c] = 0 /\ HasCapacity(c) =>
         Stuck(c) /\ \A u \in tree[c].queue : live[u].eta = 0 \/ live[u].eta > now

\* The runner has a wakeup time that is not over, or none
Asleep == sleep # Never /\ (sleep = 0 \/ now < sleep)

Later(n) == sleep # 0 /\ sleep <= n

\* No channel below, on the way to the root, is full or paused
Exposed(c) == \A x \in Down[c] \ {c} : Runnable(x)

Sleeps(c) ==
  /\ Exposed(c) => gen[c] \notin {"yielded", "throttled"}
  /\ Exposed(c) /\ HasCapacity(c) =>
       /\ pause[c] # 0 => Later(pause[c])
       /\ pause[c] = 0 =>
            Stuck(c) /\ \A u \in tree[c].queue : live[u].eta = 0 \/ Later(live[u].eta)

WakeInv ==
  /\ sleep \in Nat \cup {Never}
  /\ \A c \in Channel : WentQuiet(c)
  /\ Asleep => \A c \in Channel : Sleeps(c)

LEMMA QueuedIsLive ==
  ASSUME PlaceInv, NEW c \in Channel, NEW u \in tree[c].queue
  PROVE  u \in Job /\ live[u] \in JobProps /\ live[u].eta \in Nat /\ live[u].prio \in Nat
<1>1. u \in Job /\ c \in QueuedIn(tree, u)
  BY DEF PlaceInv, Trees, QueuedIn
<1>2. live[u] # NoJob
  BY <1>1, NoJobNoPlace DEF PlaceInv, OnePlace, NoPlace
<1> QED
  BY <1>1, <1>2 DEF PlaceInv, JobProps

\* The queues that one ClearDue leaves as they are keep their jobs ready or waiting.
LEMMA ClearDueKeeps ==
  ASSUME PlaceInv, now \in Nat, NEW c \in Channel, ClearDue(c) \/ UNCHANGED live,
         NEW d \in Channel, tree'[d].queue = tree[d].queue, now' = now
  PROVE  /\ Stuck(d)' <=> Stuck(d)
         /\ \A u \in tree[d].queue : live'[u].eta \in {0, live[u].eta}
<1>1. ASSUME NEW u \in Job, live[u] \in JobProps
      PROVE  /\ live'[u].prio = live[u].prio
             /\ live'[u].eta \in {0, live[u].eta}
             /\ live[u].eta > now => live'[u].eta = live[u].eta
             /\ live[u].eta \in Nat /\ live[u].eta <= now => live'[u].eta <= now
  <2>1. CASE UNCHANGED live
    BY <2>1, <1>1 DEF JobProps
  <2>2. CASE ClearDue(c) /\ u \in Ready(c)
    <3>1. live'[u] = [live[u] EXCEPT !.eta = 0] /\ live[u].eta <= now
      BY <2>2 DEF ClearDue, Ready
    <3> QED BY <1>1, <3>1 DEF JobProps
  <2>3. CASE ClearDue(c) /\ u \notin Ready(c)
    BY <2>3, <1>1 DEF ClearDue, JobProps
  <2> QED BY <2>1, <2>2, <2>3
<1>2. \A u \in tree[d].queue :
        /\ u \in Job /\ live[u] \in JobProps /\ live[u].eta \in Nat
        /\ live'[u].prio = live[u].prio
        /\ live'[u].eta \in {0, live[u].eta}
        /\ live[u].eta > now => live'[u].eta = live[u].eta
        /\ live'[u].eta <= now <=> live[u].eta <= now
  BY <1>1, QueuedIsLive
<1>3. Ready(d)' = Ready(d) /\ Waiting(d)' = Waiting(d)
  <2>1. \A u \in tree[d].queue : live'[u].eta <= now <=> live[u].eta <= now
    BY <1>2
  <2> QED BY <2>1 DEF Ready, Waiting
<1>4. \A u, v \in tree[d].queue : Precedes(u, v)' <=> Precedes(u, v)
  <2>1. \A u \in tree[d].queue : live'[u].prio = live[u].prio
    BY <1>2
  <2> QED BY <2>1 DEF Precedes
<1>5. Ready(d) \subseteq tree[d].queue /\ Waiting(d) \subseteq tree[d].queue
  BY DEF Ready, Waiting
<1>6. First(Ready(d))' = First(Ready(d))
  BY <1>3, <1>4, <1>5 DEF First
<1>7. \A u \in Waiting(d) : live'[u].eta = live[u].eta
  BY <1>2 DEF Waiting, Ready
<1>8. FirstByEta(Waiting(d))' = FirstByEta(Waiting(d))
  BY <1>3, <1>4, <1>5, <1>7 DEF FirstByEta
<1>9. HeldBack(d)' <=> HeldBack(d)
  <2>1. First(Ready(d)) \subseteq tree[d].queue /\ FirstByEta(Waiting(d)) \subseteq tree[d].queue
    BY <1>5 DEF First, FirstByEta
  <2> QED BY <1>4, <1>6, <1>8, <2>1 DEF HeldBack
<1> QED
  BY <1>2, <1>3, <1>9 DEF Stuck

LEMMA WentQuietKept ==
  ASSUME PlaceInv, now \in Nat, NEW c \in Channel, ClearDue(c) \/ UNCHANGED live,
         NEW d \in Channel, tree'[d] = tree[d], pause'[d] = pause[d], now' = now,
         gen'[d] = "closed" => gen[d] = "closed", WentQuiet(d)
  PROVE  WentQuiet(d)'
<1>1. Stuck(d)' <=> Stuck(d)
  BY ClearDueKeeps
<1>2. \A u \in tree[d].queue : live'[u].eta \in {0, live[u].eta}
  BY ClearDueKeeps
<1>3. HasCapacity(d)' <=> HasCapacity(d)
  BY DEF HasCapacity, Full
<1> QED
  BY <1>1, <1>2, <1>3 DEF WentQuiet

LEMMA SleepsKept ==
  ASSUME PlaceInv, now \in Nat, NEW c \in Channel, ClearDue(c) \/ UNCHANGED live,
         NEW d \in Channel, tree'[d] = tree[d], pause'[d] = pause[d], now' = now,
         sleep' = sleep, gen'[d] \in {gen[d], "open", "closed"},
         Exposed(d)' => Exposed(d), Sleeps(d)
  PROVE  Sleeps(d)'
<1>1. Stuck(d)' <=> Stuck(d)
  BY ClearDueKeeps
<1>2. \A u \in tree[d].queue : live'[u].eta \in {0, live[u].eta}
  BY ClearDueKeeps
<1>3. HasCapacity(d)' <=> HasCapacity(d)
  BY DEF HasCapacity, Full
<1>4. Later(pause[d]) => Later(pause[d])'
  BY DEF Later
<1>5. ASSUME NEW u \in tree[d].queue, live[u].eta = 0 \/ Later(live[u].eta)
      PROVE  live'[u].eta = 0 \/ Later(live[u].eta)'
  BY <1>2, <1>5 DEF Later
<1> QED
  BY <1>1, <1>3, <1>4, <1>5 DEF Sleeps

\* A channel that is not exposed hides those that go through it, whatever it becomes.
LEMMA HiddenKept ==
  ASSUME NEW c \in Channel, ~Exposed(c),
         \A x \in Channel \ {c} : Runnable(x)' <=> Runnable(x)
  PROVE  ~Exposed(c)' /\ \A d \in Channel : Exposed(d)' => Exposed(d)
<1>1. PICK x \in Down[c] \ {c} : ~Runnable(x)
  BY DEF Exposed
<1>2. x \in Channel \ {c} /\ ~Runnable(x)'
  BY <1>1, DownIn
<1>3. ~Exposed(c)'
  BY <1>1, <1>2 DEF Exposed
<1>4. ASSUME NEW d \in Channel, Exposed(d)' PROVE Exposed(d)
  <2>1. c \notin Down[d] \ {d}
    <3> SUFFICES ASSUME c \in Down[d], c # d PROVE FALSE
      OBVIOUS
    <3>1. x \in Down[d]
      BY <1>1, DownTransitive
    <3>2. x # d
      BY <1>1, DownAntisymmetric
    <3> QED BY <1>2, <1>4, <3>1, <3>2 DEF Exposed
  <2>2. \A y \in Down[d] \ {d} : y \in Channel \ {c} /\ Runnable(y)'
    BY <1>4, <2>1, DownIn DEF Exposed
  <2> QED BY <2>2 DEF Exposed
<1> QED
  BY <1>3, <1>4

\* While the runner sleeps, only a channel that is not exposed gives a job or pauses.
LEMMA OnlyHiddenYield ==
  ASSUME ThrottleInv, NEW c \in Channel, Sleeps(c),
         Pause(c) \/ \E u \in Job : Yield(c, u)
  PROVE  ~Exposed(c)
<1>1. CASE Pause(c)
  BY <1>1 DEF Pause, Sleeps
<1>2. ASSUME NEW u \in Job, Yield(c, u) PROVE ~Exposed(c)
  <2>1. HasCapacity(c) /\ ~Stuck(c) /\ gen[c] \in {"open", "yielded"}
    BY <1>2 DEF Yield, Stuck, First
  <2>2. pause[c] = 0
    BY <2>1 DEF ThrottleInv, Rests
  <2> QED BY <2>1, <2>2 DEF Sleeps
<1> QED
  BY <1>1, <1>2

LEMMA StaysQuiet ==
  ASSUME PlaceInv, ThrottleInv, WakeInv, [Next]_vars
  PROVE  \A d \in Channel : WentQuiet(d)'
<1>1. now \in Nat /\ gen \in [Channel -> Gens] /\ pause \in [Channel -> Nat]
      /\ (\A d \in Channel : WentQuiet(d)) /\ tree \in Trees
  BY DEF ThrottleInv, TimesOK, WakeInv, PlaceInv
<1> SUFFICES ASSUME NEW d \in Channel PROVE WentQuiet(d)'
  OBVIOUS
<1>2. ASSUME gen'[d] # "closed" PROVE WentQuiet(d)'
  BY <1>2 DEF WentQuiet
<1>3. ASSUME \/ \E u \in Job : \E p \in Props[u], s \in State : Notify(u, p, s)
             \/ \E u \in Job : RemoveJob(u)
             \/ \E u \in Job : RemoveDb(DbOf[u])
             \/ Renew
             \/ \E t \in 0 .. MaxNow : BeginRun(t)
             \/ EndRun
      PROVE  WentQuiet(d)'
  BY <1>2, <1>3 DEF Notify, RemoveJob, RemoveDb, Renew, BeginRun, EndRun, Idle
<1>4. ASSUME NEW c \in Channel, Open(c) PROVE WentQuiet(d)'
  <2>1. CASE c # d
    BY <1>1, <1>4, <2>1, WentQuietKept DEF Open
  <2>2. CASE c = d
    BY <1>1, <1>4, <2>2 DEF Open, WentQuiet
  <2> QED BY <2>1, <2>2
<1>5. ASSUME NEW c \in Channel, NEW u \in Job, Yield(c, u) PROVE WentQuiet(d)'
  <2>1. gen[c] # "closed" /\ gen'[c] # "closed"
    BY <1>1, <1>5 DEF Yield
  <2>2. CASE d # c /\ gen'[d] = "closed"
    <3>1. gen[d] = "closed"
      BY <1>1, <1>5, <2>2 DEF Yield
    <3>2. ~ (c # Root /\ d = Parent[c])
      BY <2>1, <3>1 DEF ThrottleInv, InTurn, GoneOn, Children
    <3>3. tree'[d] = tree[d] /\ ClearDue(c) /\ pause' = pause /\ now' = now
      BY <1>5, <2>2, <3>2 DEF Yield, Moved
    <3> QED BY <1>1, <3>1, <3>3, WentQuietKept
  <2> QED BY <1>2, <2>1, <2>2
<1>6. ASSUME NEW c \in Channel, Exhaust(c) PROVE WentQuiet(d)'
  <2>1. CASE c # d
    BY <1>1, <1>6, <2>1, WentQuietKept DEF Exhaust
  <2>2. CASE c = d
    <3>1. pause[d] = 0 /\ pause' = pause /\ now' = now /\ tree' = tree
      BY <1>6, <2>2 DEF Exhaust, ThrottleInv, Rests
    <3>2. HasCapacity(d)' <=> HasCapacity(d)
      BY <3>1 DEF HasCapacity, Full
    <3>3. ASSUME HasCapacity(d)
          PROVE  Stuck(d)' /\ \A u \in tree'[d].queue : live'[u].eta = 0 \/ live'[u].eta > now'
      <4>1. Stuck(d) /\ ClearDue(d)
        BY <1>6, <2>2, <3>3 DEF Exhaust, Stuck
      <4>2. Stuck(d)'
        BY <1>1, <3>1, <4>1, ClearDueKeeps
      <4>3. ASSUME NEW u \in tree[d].queue PROVE live'[u].eta = 0 \/ live'[u].eta > now
        <5>1. u \in Job /\ live[u] \in JobProps /\ live[u].eta \in Nat
          BY QueuedIsLive
        <5>2. CASE u \in Ready(d)
          BY <4>1, <5>1, <5>2 DEF ClearDue, JobProps
        <5>3. CASE u \notin Ready(d)
          BY <1>1, <4>1, <5>1, <5>3 DEF ClearDue, Ready
        <5> QED BY <5>2, <5>3
      <4> QED BY <3>1, <4>2, <4>3
    <3> QED BY <3>1, <3>2, <3>3 DEF WentQuiet
  <2> QED BY <2>1, <2>2
<1>7. ASSUME NEW c \in Channel, Pause(c) PROVE WentQuiet(d)'
  <2>1. CASE c # d
    BY <1>1, <1>7, <2>1, WentQuietKept DEF Pause
  <2>2. CASE c = d
    <3>1. Throttle[d] \in Nat \ {0}
      BY <1>7, <2>2, ConfigAssumption DEF Pause, ThrottleInv, Rests
    <3>2. pause'[d] > now'
      BY <1>1, <1>7, <2>2, <3>1 DEF Pause
    <3>3. pause'[d] # 0
      BY <1>1, <1>7, <2>2, <3>1 DEF Pause
    <3> QED BY <3>2, <3>3 DEF WentQuiet
  <2> QED BY <2>1, <2>2
<1>8. CASE UNCHANGED vars
  BY <1>1, <1>8, WentQuietKept DEF vars
<1> QED
  BY <1>3, <1>4, <1>5, <1>6, <1>7, <1>8 DEF Next, Generators

LEMMA SleepsOn ==
  ASSUME PlaceInv, ThrottleInv, sleep \in Nat \cup {Never},
         \A d \in Channel : Sleeps(d), NEW c \in Channel,
         Open(c) \/ Exhaust(c) \/ Pause(c) \/ \E u \in Job : Yield(c, u), Asleep
  PROVE  \A d \in Channel : Sleeps(d)'
<1>1. /\ now \in Nat /\ now' = now /\ sleep' = sleep /\ tree \in Trees
      /\ gen \in [Channel -> Gens] /\ pause \in [Channel -> Nat]
  BY DEF ThrottleInv, TimesOK, PlaceInv, Open, Exhaust, Pause, Yield
<1> SUFFICES ASSUME NEW d \in Channel PROVE Sleeps(d)'
  OBVIOUS
\* The channel's pause is over, so it is not exposed: the runner would not sleep.
<1>2. ASSUME Open(c) PROVE Sleeps(d)'
  <2>1. /\ tree' = tree /\ live' = live /\ \A x \in Channel \ {c} : pause'[x] = pause[x]
        /\ \A x \in Channel : gen'[x] \in {gen[x], "open", "closed"}
    BY <1>1, <1>2 DEF Open
  <2>2. \A x \in Channel \ {c} : Runnable(x)' <=> Runnable(x)
    BY <2>1 DEF Runnable, HasCapacity, Full
  <2>3. CASE pause'[c] = pause[c]
    <3>1. \A x \in Channel : Runnable(x)' <=> Runnable(x)
      BY <2>1, <2>2, <2>3 DEF Runnable, HasCapacity, Full
    <3>2. Exposed(d)' => Exposed(d)
      BY <3>1, DownIn DEF Exposed
    <3> QED BY <1>1, <2>1, <2>3, <3>2, SleepsKept
  <2>4. CASE pause'[c] # pause[c] /\ HasCapacity(c)
    <3>1. pause[c] # 0 /\ pause[c] <= now
      BY <1>1, <1>2, <2>4 DEF Open
    <3>2. ~Exposed(c)
      BY <1>1, <2>4, <3>1 DEF Sleeps, Asleep, Later
    <3>3. ~Exposed(c)' /\ (Exposed(d)' => Exposed(d))
      BY <2>2, <3>2, HiddenKept
    <3>4. CASE d = c
      BY <3>3, <3>4 DEF Sleeps
    <3>5. CASE d # c
      BY <1>1, <2>1, <3>3, <3>5, SleepsKept
    <3> QED BY <3>4, <3>5
  <2>5. CASE pause'[c] # pause[c] /\ ~HasCapacity(c)
    <3>1. ~HasCapacity(c)' /\ gen'[c] = "open"
      BY <1>1, <1>2, <2>1, <2>5 DEF Open, HasCapacity, Full
    <3>2. \A x \in Channel : Runnable(x)' <=> Runnable(x)
      BY <2>2, <2>5, <3>1 DEF Runnable
    <3>3. Exposed(d)' => Exposed(d)
      BY <3>2, DownIn DEF Exposed
    <3>4. CASE d = c
      BY <3>1, <3>4 DEF Sleeps
    <3>5. CASE d # c
      BY <1>1, <2>1, <3>3, <3>5, SleepsKept
    <3> QED BY <3>4, <3>5
  <2> QED BY <2>3, <2>4, <2>5
<1>3. ASSUME Exhaust(c) PROVE Sleeps(d)'
  <2>1. /\ tree' = tree /\ pause' = pause
        /\ \A x \in Channel : gen'[x] \in {gen[x], "open", "closed"}
    BY <1>1, <1>3 DEF Exhaust
  <2>2. ClearDue(c) \/ UNCHANGED live
    BY <1>3 DEF Exhaust
  <2>3. \A x \in Channel : Runnable(x)' <=> Runnable(x)
    BY <2>1 DEF Runnable, HasCapacity, Full
  <2>4. Exposed(d)' => Exposed(d)
    BY <2>3, DownIn DEF Exposed
  <2> QED BY <1>1, <2>1, <2>2, <2>4, SleepsKept
<1>4. ASSUME Pause(c) PROVE Sleeps(d)'
  <2>1. /\ tree' = tree /\ live' = live /\ \A x \in Channel \ {c} : pause'[x] = pause[x]
        /\ \A x \in Channel : gen'[x] \in {gen[x], "open", "closed"}
    BY <1>1, <1>4 DEF Pause
  <2>2. \A x \in Channel \ {c} : Runnable(x)' <=> Runnable(x)
    BY <2>1 DEF Runnable, HasCapacity, Full
  <2>3. ~Exposed(c)' /\ (Exposed(d)' => Exposed(d))
    BY <1>4, <2>2, OnlyHiddenYield, HiddenKept
  <2>4. CASE d = c
    BY <2>3, <2>4 DEF Sleeps
  <2>5. CASE d # c
    BY <1>1, <2>1, <2>3, <2>5, SleepsKept
  <2> QED BY <2>4, <2>5
<1>5. ASSUME NEW u \in Job, Yield(c, u) PROVE Sleeps(d)'
  <2>1. /\ ClearDue(c) /\ pause' = pause /\ tree' = Moved(tree, u, c)
        /\ \A x \in Channel \ {c} : gen'[x] = gen[x]
    BY <1>1, <1>5 DEF Yield
  <2>2. \A x \in Channel \ {c} : /\ tree'[x].running = tree[x].running
                                 /\ tree'[x].failed = tree[x].failed
    BY <1>1, <2>1 DEF Moved, Trees
  <2>3. \A x \in Channel \ {c} : Runnable(x)' <=> Runnable(x)
    BY <2>1, <2>2 DEF Runnable, HasCapacity, Full
  <2>4. ~Exposed(c) /\ ~Exposed(c)' /\ (Exposed(d)' => Exposed(d))
    BY <1>5, <2>3, OnlyHiddenYield, HiddenKept
  <2>5. CASE d = c
    BY <2>4, <2>5 DEF Sleeps
\* The parent gets a job; if it is exposed it is full or paused itself.
  <2>6. CASE d # c /\ c # Root /\ d = Parent[c]
    <3>1. HasCapacity(d)' <=> HasCapacity(d)
      BY <2>2, <2>6 DEF HasCapacity, Full
    <3>2. ASSUME Exposed(d) PROVE ~HasCapacity(d) \/ pause[d] # 0
      <4>1. Down[c] \ {c} = Down[d]
        BY <2>6, DownParent
      <4> QED BY <2>4, <3>2, <4>1 DEF Exposed, Runnable
    <3>3. gen'[d] = gen[d] /\ pause'[d] = pause[d]
      BY <2>1, <2>6
    <3>4. Later(pause[d]) => Later(pause[d])'
      BY <1>1, <2>1 DEF Later
    <3> QED BY <2>4, <3>1, <3>2, <3>3, <3>4 DEF Sleeps
  <2>7. CASE d # c /\ ~ (c # Root /\ d = Parent[c])
    <3>1. tree'[d] = tree[d] /\ gen'[d] \in {gen[d], "open", "closed"} /\ pause'[d] = pause[d]
      BY <2>1, <2>7 DEF Moved
    <3> QED BY <1>1, <2>1, <2>4, <3>1, SleepsKept
  <2> QED BY <2>5, <2>6, <2>7
<1> QED
  BY <1>2, <1>3, <1>4, <1>5

\* The runner asks for the time once every channel went quiet.
LEMMA WakeTimesAhead ==
  ASSUME PlaceInv, ThrottleInv, \A c \in Channel : WentQuiet(c), gen[Root] = "closed"
  PROVE  /\ WakeTimes \subseteq Nat /\ \A n \in WakeTimes : n > now
         /\ WakeTimes # {} => WakeupTime \in WakeTimes /\ \A n \in WakeTimes : WakeupTime <= n
         /\ WakeupTime \in Nat /\ (WakeupTime = 0 <=> WakeTimes = {})
<1>1. ASSUME NEW n \in WakeTimes PROVE n \in Nat /\ n > now
  <2>1. PICK c \in Channel : HasCapacity(c) /\ n \in (IF pause[c] # 0 THEN {pause[c]} ELSE EtasOf(c))
    BY DEF WakeTimes
  <2>2. gen[c] = "closed"
    BY OthersClosed DEF ThrottleInv, GoneOn
  <2>3. CASE pause[c] # 0
    BY <2>1, <2>2, <2>3 DEF WentQuiet, ThrottleInv, TimesOK
  <2>4. CASE pause[c] = 0
    <3>1. PICK u \in tree[c].queue : n = live[u].eta /\ n # 0
      BY <2>1, <2>4 DEF EtasOf
    <3> QED BY <2>1, <2>2, <2>4, <3>1, QueuedIsLive DEF WentQuiet
  <2> QED BY <2>3, <2>4
<1>2. WakeTimes \subseteq Nat
  BY <1>1
<1>3. ASSUME WakeTimes # {} PROVE WakeupTime \in WakeTimes /\ \A n \in WakeTimes : WakeupTime <= n
  <2>1. \E w \in WakeTimes : \A x \in WakeTimes : w <= x
    BY <1>2, <1>3, LeastNat
  <2> QED BY <1>3, <2>1 DEF WakeupTime
<1>4. now \in Nat
  BY DEF ThrottleInv, TimesOK
<1>5. ASSUME WakeTimes # {} PROVE WakeupTime # 0
  BY <1>1, <1>3, <1>4, <1>5
<1>6. WakeTimes = {} => WakeupTime = 0
  BY DEF WakeupTime
<1>7. WakeupTime \in Nat
  <2>1. CASE WakeTimes = {}
    BY <2>1 DEF WakeupTime
  <2>2. CASE WakeTimes # {}
    <3>1. WakeupTime \in WakeTimes
      BY <1>3, <2>2
    <3> QED BY <1>1, <3>1
  <2> QED BY <2>1, <2>2
<1> QED
  BY <1>1, <1>2, <1>3, <1>5, <1>6, <1>7

LEMMA WakeInvStep ==
  PlaceInv /\ ThrottleInv /\ WakeInv /\ [Next]_vars => WakeInv'
<1> SUFFICES ASSUME PlaceInv, ThrottleInv, WakeInv, [Next]_vars PROVE WakeInv'
  OBVIOUS
<1>1. now \in Nat /\ sleep \in Nat \cup {Never} /\ (\A c \in Channel : WentQuiet(c))
  BY DEF ThrottleInv, TimesOK, WakeInv
<1>2. \A c \in Channel : WentQuiet(c)'
  BY StaysQuiet
<1>3. ASSUME sleep' \in Nat \cup {Never}, Asleep' => \A c \in Channel : Sleeps(c)'
      PROVE  WakeInv'
  BY <1>2, <1>3 DEF WakeInv
<1>4. ASSUME \/ \E u \in Job : \E p \in Props[u], s \in State : Notify(u, p, s)
             \/ \E u \in Job : RemoveJob(u) \/ RemoveDb(DbOf[u])
             \/ Renew
      PROVE  WakeInv'
  <2>1. sleep' = Never
    BY <1>4 DEF Notify, RemoveJob, RemoveDb, Renew
  <2> QED BY <1>3, <2>1 DEF Asleep
\* The clock goes on, but not past the wakeup time.
<1>5. ASSUME NEW t \in 0 .. MaxNow, BeginRun(t) PROVE WakeInv'
  <2>1. /\ UNCHANGED <<tree, pause, live, sleep>> /\ now' = t /\ t >= now /\ t \in Nat
        /\ \A c \in Channel : gen'[c] = "fresh"
    BY <1>5 DEF BeginRun
  <2>2. ASSUME Asleep', NEW c \in Channel PROVE Sleeps(c)'
    <3>1. Asleep /\ Sleeps(c) /\ (sleep = 0 \/ t < sleep)
      BY <1>1, <2>1, <2>2 DEF Asleep, WakeInv
    <3>2. HasCapacity(c)' <=> HasCapacity(c)
      BY <2>1 DEF HasCapacity, Full
    <3>3. Exposed(c)' => Exposed(c)
      BY <2>1 DEF Exposed, Runnable, HasCapacity, Full
    <3>4. ASSUME \A u \in tree[c].queue : live[u].eta = 0 \/ Later(live[u].eta)
          PROVE  Stuck(c)' <=> Stuck(c)
      <4>1. \A u \in tree[c].queue : live[u].eta <= t <=> live[u].eta <= now
        <5> SUFFICES ASSUME NEW u \in tree[c].queue
                     PROVE  live[u].eta <= t <=> live[u].eta <= now
          OBVIOUS
        <5>1. live[u].eta \in Nat
          BY <1>1, QueuedIsLive
        <5>2. live[u].eta = 0 \/ (sleep # 0 /\ sleep <= live[u].eta)
          BY <3>4 DEF Later
        <5>3. now \in Nat /\ t \in Nat /\ t >= now /\ sleep \in Nat /\ (sleep = 0 \/ t < sleep)
          BY <1>1, <2>1, <3>1 DEF Asleep, TimesOK, WakeInv
        <5> HIDE DEF Later
        <5> QED BY <5>1, <5>2, <5>3
      <4>2. Ready(c)' = Ready(c)
        BY <2>1, <4>1 DEF Ready
      <4>3. HeldBack(c)' <=> HeldBack(c)
        BY <2>1, <4>2 DEF HeldBack, First, FirstByEta, Precedes, Waiting
      <4> QED BY <4>2, <4>3 DEF Stuck
    <3> QED BY <2>1, <3>1, <3>2, <3>3, <3>4 DEF Sleeps, Later
  <2> QED BY <1>1, <1>3, <2>1, <2>2
<1>6. ASSUME Generators PROVE WakeInv'
  <2>1. sleep' = sleep /\ now' = now
    BY <1>6 DEF Generators, Open, Exhaust, Pause, Yield
  <2>2. Asleep' => Asleep
    BY <2>1 DEF Asleep
  <2>3. Asleep => \A c \in Channel : Sleeps(c)'
    BY <1>1, <1>6, SleepsOn DEF Generators, WakeInv
  <2> QED BY <1>1, <1>3, <2>1, <2>2, <2>3
<1>7. CASE EndRun
  <2>1. /\ gen[Root] = "closed" /\ sleep' = WakeupTime /\ UNCHANGED <<tree, pause, live, now>>
        /\ \A c \in Channel : gen'[c] = "off"
    BY <1>7 DEF EndRun
  <2>2. /\ WakeTimes \subseteq Nat
        /\ WakeTimes # {} => WakeupTime \in WakeTimes /\ \A n \in WakeTimes : WakeupTime <= n
        /\ WakeupTime \in Nat /\ (WakeupTime = 0 <=> WakeTimes = {})
    BY <1>1, <2>1, WakeTimesAhead
  <2>3. \A n \in WakeTimes : sleep' # 0 /\ sleep' <= n
    BY <2>1, <2>2
  <2>4. ASSUME NEW c \in Channel PROVE Sleeps(c)'
    <3>1. gen[c] = "closed"
      BY <2>1, OthersClosed DEF ThrottleInv, GoneOn
    <3>2. HasCapacity(c)' <=> HasCapacity(c)
      BY <2>1 DEF HasCapacity, Full
    <3>3. Exposed(c)' => Exposed(c)
      BY <2>1 DEF Exposed, Runnable, HasCapacity, Full
    <3>4. ASSUME Exposed(c), HasCapacity(c)
          PROVE  /\ pause[c] # 0 => pause[c] \in WakeTimes
                 /\ pause[c] = 0 => EtasOf(c) \subseteq WakeTimes
      BY <3>4 DEF WakeTimes, Exposed
    <3>5. ASSUME Exposed(c), HasCapacity(c), pause[c] = 0
          PROVE  /\ Stuck(c)
                 /\ \A u \in tree[c].queue : live[u].eta = 0 \/ live[u].eta \in WakeTimes
      BY <1>1, <3>1, <3>4, <3>5 DEF WentQuiet, EtasOf
    <3>6. Stuck(c)' <=> Stuck(c)
      BY <2>1 DEF Stuck, HeldBack, First, FirstByEta, Precedes, Waiting, Ready
    <3> QED BY <2>1, <2>3, <3>2, <3>3, <3>4, <3>5, <3>6 DEF Sleeps, Later
  <2>5. sleep' \in Nat
    BY <2>1, <2>2
  <2> QED BY <1>3, <2>4, <2>5
<1>8. CASE UNCHANGED vars
  <2>1. UNCHANGED <<tree, pause, live, gen, now, sleep>>
    BY <1>8 DEF vars
  <2>2. \A c \in Channel : Sleeps(c) => Sleeps(c)'
    BY <2>1 DEF Sleeps, Exposed, Runnable, HasCapacity, Full, Stuck, HeldBack, First, FirstByEta,
                Precedes, Waiting, Ready, Later
  <2> QED BY <1>1, <1>3, <2>1, <2>2 DEF Asleep, WakeInv
<1> QED
  BY <1>4, <1>5, <1>6, <1>7, <1>8 DEF Next

LEMMA WakeInvInit == Init => WakeInv
  BY DEF Init, WakeInv, WentQuiet, Asleep

THEOREM ManagerInvariant == Spec => [](ThrottleInv /\ WakeInv)
  BY JobsInOnePlace, ThrottleInvInit, ThrottleInvStep, WakeInvInit, WakeInvStep, PTL DEF Spec

\* In any tree of channels, with any capacities, throttles and sequential channels:
\* while nothing is notified, no job comes out of the root before the wakeup time that
\* get_wakeup_time() gave, and none if it gave none.
THEOREM NeverOversleeps == Spec => WakesInTime
<1>1. ASSUME ThrottleInv, WakeInv, NEW u \in Job, Yield(Root, u), sleep # Never
      PROVE  sleep # 0 /\ sleep <= now
  <2>1. Root \in Channel /\ now \in Nat /\ sleep \in Nat
    BY <1>1, TreeAssumption DEF ThrottleInv, TimesOK, WakeInv
  <2>2. Exposed(Root)
    BY DownRoot DEF Exposed
  <2>3. ~Asleep
    BY <1>1, <2>1, <2>2, OnlyHiddenYield DEF WakeInv
  <2> QED BY <1>1, <2>1, <2>3 DEF Asleep
<1>2. ThrottleInv /\ WakeInv =>
        \A u \in Job : Yield(Root, u) /\ sleep # Never => sleep # 0 /\ sleep <= now
  BY <1>1
<1> QED
  BY <1>2, ManagerInvariant, PTL DEF WakesInTime, Spec

\* The time get_wakeup_time() gives lies ahead of the run it follows.
THEOREM NeverSpins == Spec => WakeupAhead
<1>1. ASSUME PlaceInv, ThrottleInv, WakeInv, EndRun PROVE sleep' = 0 \/ sleep' > now
  BY <1>1, WakeTimesAhead DEF EndRun, WakeInv
<1>2. PlaceInv /\ ThrottleInv /\ WakeInv => (EndRun => sleep' = 0 \/ sleep' > now)
  BY <1>1
<1> QED
  BY <1>2, JobsInOnePlace, ManagerInvariant, PTL DEF WakeupAhead, Spec

----------------------------------------------------------------------------
(* The runner *)

USE DEF Active, NotDone, State

----------------------------------------------------------------------------
(* Types *)

LEMMA WrittenType ==
  ASSUME NEW S \in SUBSET Job, NEW w, RunnerTypeOK, Written(S, w)
  PROVE  notes' \subseteq Job /\ stale' \subseteq Worker
  BY DEF Written, RunnerTypeOK

LEMMA ResolvedType ==
  ASSUME NEW st, NEW u, NEW s
  PROVE  Resolved(st, u, s) \subseteq Job
  BY DEF Resolved, Dependents

LEMMA LoadedType ==
  ASSUME RunnerTypeOK, NEW u \in Job
  PROVE  Loaded(u) \in [pc : {"started"}, job : Job, retry : Nat, blocked : BOOLEAN]
<1>1. retry[u] \in Nat /\ Blocked(u) \in BOOLEAN
  BY DEF RunnerTypeOK, Blocked
<1> QED BY <1>1 DEF Loaded

LEMMA HandInTree ==
  ASSUME RunnerInv, hand.at # "none"
  PROVE  hand.job \in Job
<1>1. tree \in Trees /\ hand.job \in tree[Root].running /\ Root \in Channel
  BY TreeAssumption DEF RunnerInv, HandInv, PlaceInv
<1> QED BY <1>1 DEF Trees

LEMMA TypeOfRunnerStep ==
  ASSUME RunnerInv, RunnerStep \/ Restart \/ Kill
  PROVE  RunnerTypeOK'
<1>1. RunnerTypeOK
  BY DEF RunnerInv
<1>2. CASE Connect
  BY <1>1, <1>2 DEF Connect, rows, RunnerTypeOK
<1>3. CASE RequeueDeadJobs
  <2>1. Dead \subseteq Job
    BY DEF Dead
  <2>2. notes' \subseteq Job /\ stale' \subseteq Worker
    BY <1>1, <1>3, <2>1, WrittenType DEF RequeueDeadJobs
  <2>3. state' \in [Job -> State \cup {"none", "gone"}] /\ retry' \in [Job -> Nat]
    BY <1>1, <1>3 DEF RequeueDeadJobs, RunnerTypeOK
  <2> QED BY <1>1, <1>3, <2>2, <2>3 DEF RequeueDeadJobs, runner, RunnerTypeOK
<1>4. ASSUME RunJobs PROVE RunnerTypeOK'
  BY <1>1, <1>4 DEF RunJobs, rows, runner, RunnerTypeOK
<1>5. CASE SetJobEnqueued
  <2>1. hand.job \in Job
    BY <1>5, HandInTree DEF SetJobEnqueued
  <2>2. notes' \subseteq Job /\ stale' \subseteq Worker
    BY <1>1, <1>5, <2>1, WrittenType DEF SetJobEnqueued, RunnerTypeOK
  <2> QED BY <1>1, <1>5, <2>2 DEF SetJobEnqueued, RunnerTypeOK
<1>6. CASE AsyncHttpGet
  <2>1. hand.job \in Job
    BY <1>6, HandInTree DEF AsyncHttpGet
  <2>2. requests' \in [Job -> Nat]
    BY <1>1, <1>6, <2>1 DEF AsyncHttpGet, RunnerTypeOK
  <2> QED BY <1>1, <1>6, <2>2 DEF AsyncHttpGet, NoHand, rows, RunnerTypeOK
<1>7. ASSUME NEW u \in Job, LoadJob(u) \/ ProcessNotification(u) \/ RunJob(u)
      PROVE  RunnerTypeOK'
  BY <1>1, <1>7 DEF LoadJob, ProcessNotification, RunJob, rows, runner, RunnerTypeOK
<1>8. CASE Restart
  BY <1>1, <1>8 DEF Restart, NoLoad, NoHand, rows, RunnerTypeOK
<1>9. CASE Kill
  <2>1. requests' \in [Job -> Nat]
    BY <1>1, <1>9 DEF Kill, RunnerTypeOK
  <2> QED BY <1>1, <1>9, <2>1 DEF Kill, NoLoad, NoHand, rows, RunnerTypeOK
<1> QED
  BY <1>2, <1>3, <1>4, <1>5, <1>6, <1>7, <1>8, <1>9 DEF RunnerStep

LEMMA TypeOfWorkerStep ==
  ASSUME RunnerTypeOK, NEW w \in Worker, WorkerStep(w) \/ Crash(w)
  PROVE  RunnerTypeOK'
<1> DEFINE WorkerType ==
     /\ \A x \in Worker : worker[x].pc # "idle" => worker[x].job \in Job
     /\ \A x \in Worker : worker[x].pc = "performing" => worker[x].retry > 0
     /\ worker \in [Worker -> [pc : {"idle", "started", "waiting", "performing",
                                     "aborted", "leaving", "done"},
                               job : Job \cup {NoWork}, retry : Nat, blocked : BOOLEAN]]
<1>1. WorkerType
  BY DEF RunnerTypeOK
<1>2. ASSUME worker' = [worker EXCEPT ![w] = IdleWorker] PROVE WorkerType'
  BY <1>1, <1>2 DEF IdleWorker
<1>3. ASSUME NEW pc \in {"waiting", "aborted", "leaving", "done"}, Goes(w, pc),
             worker[w].pc # "idle"
      PROVE  WorkerType'
  BY <1>1, <1>3 DEF Goes
<1>4. ASSUME worker[w].pc # "idle", NEW s \in State, NEW n \in Nat, Store(w, s, n)
      PROVE  /\ state' \in [Job -> State \cup {"none", "gone"}]
             /\ aged' \subseteq Job /\ retry' \in [Job -> Nat]
             /\ notes' \subseteq Job /\ stale' \subseteq Worker
  <2>1. worker[w].job \in Job
    BY <1>1, <1>4
  <2>2. notes' \subseteq Job /\ stale' \subseteq Worker
    BY <1>4, <2>1, WrittenType DEF Store
  <2> QED BY <1>4, <2>1, <2>2 DEF Store, RunnerTypeOK
<1>15. worker[w].retry \in Nat /\ (worker[w].pc = "performing" => worker[w].retry - 1 \in Nat)
  BY <1>1
<1> HIDE DEF WorkerType
<1>5. RunnerTypeOK' <=> /\ WorkerType'
                        /\ state' \in [Job -> State \cup {"none", "gone"}]
                        /\ aged' \subseteq Job /\ lockable' \subseteq Job /\ notes' \subseteq Job
                        /\ retry' \in [Job -> Nat] /\ requests' \in [Job -> Nat]
                        /\ up' \in BOOLEAN
                        /\ loading' \in [Job -> NotDone \cup {"none"}]
                        /\ hand' \in [job : Job \cup {NoWork}, at : {"none", "yielded", "enqueued"}]
                        /\ stale' \subseteq Worker
  BY DEF RunnerTypeOK, WorkerType
<1>6. CASE Lock(w)
  BY <1>3, <1>5, <1>6 DEF Lock, rows, runner, RunnerTypeOK
<1>7. CASE Perform(w)
  <2>1. WorkerType'
    BY <1>1, <1>7 DEF Perform, WorkerType
  <2> QED BY <1>5, <1>7, <2>1 DEF Perform, rows, runner, RunnerTypeOK
<1>8. CASE Done(w)
  BY <1>3, <1>4, <1>5, <1>8, <1>15 DEF Done, runner, RunnerTypeOK
<1>9. CASE Conflict(w)
  BY <1>3, <1>5, <1>9 DEF Conflict, rows, runner, RunnerTypeOK
<1>10. CASE Postpone(w)
  <2>1. worker[w].pc # "idle" /\ WorkerType'
    BY <1>2, <1>3, <1>10 DEF Postpone
  <2>2. PICK s \in State : \E n \in Nat : Store(w, s, n)
    BY <1>10, <1>15 DEF Postpone
  <2>3. PICK n \in Nat : Store(w, s, n)
    BY <2>2
  <2> QED BY <1>4, <1>5, <1>10, <2>1, <2>3 DEF Postpone, runner, RunnerTypeOK
<1>11. CASE Fail(w)
  BY <1>3, <1>4, <1>5, <1>11, <1>15 DEF Fail, runner, RunnerTypeOK
<1>12. CASE Leave(w)
  BY <1>2, <1>5, <1>12 DEF Leave, rows, runner, RunnerTypeOK
<1>13. CASE EnqueueDependentJobs(w)
  <2> DEFINE S == Resolved(state, worker[w].job, "done")
  <2>1. S \in SUBSET Job
    BY ResolvedType
  <2>2. Written(S, w) /\ state' = [v \in Job |-> IF v \in S THEN "pending" ELSE state[v]]
    BY <1>13 DEF EnqueueDependentJobs
  <2> HIDE DEF S
  <2>3. notes' \subseteq Job /\ stale' \subseteq Worker
    BY <2>1, <2>2, WrittenType
  <2> QED BY <1>2, <1>5, <1>13, <2>2, <2>3 DEF EnqueueDependentJobs, runner, RunnerTypeOK
<1>14. CASE Crash(w)
  BY <1>2, <1>5, <1>14 DEF Crash, rows, runner, RunnerTypeOK
<1> QED
  BY <1>6, <1>7, <1>8, <1>9, <1>10, <1>11, <1>12, <1>13, <1>14 DEF WorkerStep

LEMMA TypeOfOtherStep ==
  ASSUME RunnerTypeOK, NEW u \in Job,
         Answer(u) \/ LoseRequest(u) \/ Age(u) \/ Requeue(u) \/ Cancel(u) \/ SetDone(u)
         \/ Autovacuum(u)
  PROVE  RunnerTypeOK'
<1>1. ASSUME NEW w \in Worker, Start(w, u) PROVE RunnerTypeOK'
  <2>1. notes' \subseteq Job /\ stale' \subseteq Worker
    BY <1>1, WrittenType DEF Start
  <2>2. requests' \in [Job -> Nat]
    BY <1>1 DEF Start, RunnerTypeOK
  <2>3. /\ \A x \in Worker : worker'[x].pc # "idle" => worker'[x].job \in Job
        /\ \A x \in Worker : worker'[x].pc = "performing" => worker'[x].retry > 0
        /\ worker' \in [Worker -> [pc : {"idle", "started", "waiting", "performing",
                                         "aborted", "leaving", "done"},
                                   job : Job \cup {NoWork}, retry : Nat, blocked : BOOLEAN]]
    BY <1>1, LoadedType DEF Start, RunnerTypeOK
  <2> QED BY <1>1, <2>1, <2>2, <2>3 DEF Start, runner, RunnerTypeOK
<1>2. CASE Refuse(u) \/ LoseRequest(u)
  <2>1. requests' \in [Job -> Nat]
    BY <1>2 DEF Refuse, LoseRequest, RunnerTypeOK
  <2> QED BY <1>2, <2>1 DEF Refuse, LoseRequest, rows, runner, RunnerTypeOK
<1>3. CASE Age(u)
  BY <1>3 DEF Age, runner, RunnerTypeOK
<1>4. CASE Requeue(u)
  <2>1. notes' \subseteq Job /\ stale' \subseteq Worker
    BY <1>4, WrittenType DEF Requeue
  <2> QED BY <1>4, <2>1 DEF Requeue, runner, RunnerTypeOK
<1>5. ASSUME NEW s \in State, NEW t \in State, Decide(u, s, t) PROVE RunnerTypeOK'
  <2> DEFINE st == [state EXCEPT ![u] = s]
             S  == Resolved(st, u, s)
  <2>1. S \subseteq Job
    BY ResolvedType
  <2>2. Written({u} \cup S, NoWork) /\ state' = [v \in Job |-> IF v \in S THEN t ELSE st[v]]
    BY <1>5 DEF Decide
  <2> HIDE DEF S
  <2>3. notes' \subseteq Job /\ stale' \subseteq Worker
    BY <2>1, <2>2, WrittenType
  <2>4. state' \in [Job -> State \cup {"none", "gone"}]
    BY <2>2 DEF RunnerTypeOK
  <2> QED BY <1>5, <2>3, <2>4 DEF Decide, runner, RunnerTypeOK
<1>6. CASE Autovacuum(u)
  <2>1. notes' \subseteq Job /\ stale' \subseteq Worker
    BY <1>6, WrittenType DEF Autovacuum, RunnerTypeOK
  <2> QED BY <1>6, <2>1 DEF Autovacuum, runner, RunnerTypeOK
<1> QED
  BY <1>1, <1>2, <1>3, <1>4, <1>5, <1>6 DEF Answer, Cancel, SetDone

LEMMA TypeOfCreate ==
  ASSUME RunnerTypeOK, NEW G \in Graphs, Create(G)
  PROVE  RunnerTypeOK'
<1>1. G \subseteq Job
  BY GraphAssumption
<1>2. notes' \subseteq Job /\ stale' \subseteq Worker
  BY <1>1, WrittenType DEF Create
<1>3. state' \in [Job -> State \cup {"none", "gone"}]
  BY DEF Create, RunnerTypeOK
<1> QED BY <1>2, <1>3 DEF Create, runner, RunnerTypeOK

----------------------------------------------------------------------------
(* The runner's steps are the manager's *)

LEMMA ManagerStep ==
  ASSUME RunnerInv, [RunnerNext]_runnerVars
  PROVE  [Next]_vars
<1>1. CASE UNCHANGED memory
  BY <1>1 DEF memory, vars
<1>2. ASSUME NEW u \in Job, LoadJob(u) PROVE Next
  <2>1. loading[u] \in State
    BY <1>2 DEF LoadJob, RunnerInv, RunnerTypeOK
  <2> QED BY <1>2, <2>1 DEF LoadJob, Next
<1>3. ASSUME NEW u \in Job, ProcessNotification(u) PROVE Next
  BY <1>3 DEF ProcessNotification, Exists, Next
<1>4. ASSUME RunJobs PROVE Next
  <2>1. now .. MaxNow \subseteq 0 .. MaxNow
    BY DEF RunnerInv
  <2> QED BY <1>4, <2>1 DEF RunJobs, Next, Generators
<1>5. ASSUME NEW u \in Job, RunJob(u) PROVE Next
  BY <1>5, TreeAssumption DEF RunJob, Next, Generators
<1>6. ASSUME Restart PROVE Next
  BY <1>6 DEF Restart, Next
<1>7. CASE Connect \/ RequeueDeadJobs \/ SetJobEnqueued \/ AsyncHttpGet
  BY <1>1, <1>7 DEF Connect, RequeueDeadJobs, SetJobEnqueued, AsyncHttpGet
<1>8. ASSUME NEW w \in Worker, WorkerStep(w) \/ Crash(w) PROVE UNCHANGED memory
  BY <1>8 DEF WorkerStep, Crash, Lock, Perform, Done, Conflict, Postpone, Fail, Leave,
              EnqueueDependentJobs
<1>9. ASSUME NEW u \in Job, Answer(u) \/ LoseRequest(u) \/ Age(u) PROVE UNCHANGED memory
  BY <1>9 DEF Answer, Refuse, Start, LoseRequest, Age
<1>10. ASSUME NEW G \in Graphs, Create(G) PROVE UNCHANGED memory
  BY <1>10 DEF Create
<1>11. CASE UserStep
  BY <1>1, <1>11 DEF UserStep, Requeue, Cancel, SetDone, Decide, Autovacuum
<1>12. CASE UNCHANGED runnerVars
  BY <1>1, <1>12 DEF runnerVars, system
<1>13. CASE Kill
  BY <1>13 DEF Kill, Next
<1> QED
  BY <1>1, <1>2, <1>3, <1>4, <1>5, <1>6, <1>7, <1>8, <1>9, <1>10, <1>11, <1>12, <1>13
     DEF RunnerNext, Happens, RunnerStep

LEMMA GeneratorsType ==
  ASSUME gen \in [Channel -> Gens], now \in Nat, [Next]_vars
  PROVE  gen' \in [Channel -> Gens] /\ now' \in Nat
<1>1. ASSUME NEW c \in Channel, Open(c) \/ Exhaust(c) \/ Pause(c) \/ \E u \in Job : Yield(c, u)
      PROVE  gen' \in [Channel -> Gens] /\ now' \in Nat
  BY <1>1 DEF Open, Exhaust, Pause, Yield, Gens
<1>2. ASSUME NEW t \in 0 .. MaxNow, BeginRun(t) PROVE gen' \in [Channel -> Gens] /\ now' \in Nat
  BY <1>2 DEF BeginRun, Gens
<1>3. ASSUME \/ \E u \in Job : \E p \in Props[u], s \in State : Notify(u, p, s)
             \/ \E u \in Job : RemoveJob(u) \/ RemoveDb(DbOf[u])
             \/ Renew
             \/ EndRun
      PROVE  gen' \in [Channel -> Gens] /\ now' \in Nat
  BY <1>3 DEF Notify, RemoveJob, RemoveDb, Renew, EndRun, Gens
<1> QED
  BY <1>1, <1>2, <1>3 DEF Next, Generators, vars

----------------------------------------------------------------------------
(* The running jobs of the root channel *)

Running == tree[Root].running

LEMMA RunningTree ==
  ASSUME PlaceInv
  PROVE  /\ Running \in SUBSET Job /\ IsFiniteSet(Running)
         /\ \A u \in Job : Root \in RunningIn(tree, u) <=> u \in Running
         /\ \A u \in Job : live[u] = NoJob => NoPlace(tree, u) /\ u \notin Running
<1>1. Running \in SUBSET Job
  BY TreeAssumption DEF PlaceInv, Trees, Running
<1>2. IsFiniteSet(Running)
  BY <1>1, DatabaseAssumption, FS_Subset
<1>3. \A u \in Job : Root \in RunningIn(tree, u) <=> u \in Running
  BY TreeAssumption DEF RunningIn, Running
<1>4. \A u \in Job : live[u] = NoJob => NoPlace(tree, u)
  BY NoJobNoPlace DEF PlaceInv, OnePlace
<1> QED BY <1>1, <1>2, <1>3, <1>4 DEF NoPlace

LEMMA SmallerSet ==
  ASSUME NEW S \in SUBSET Job, NEW T \in SUBSET S, NEW n \in Nat, Cardinality(S) <= n
  PROVE  Cardinality(T) <= n
<1>1. IsFiniteSet(S)
  BY DatabaseAssumption, FS_Subset
<1>2. Cardinality(T) <= Cardinality(S) /\ Cardinality(T) \in Nat /\ Cardinality(S) \in Nat
  BY <1>1, FS_Subset, FS_CardinalityType
<1> QED BY <1>2

\* What the manager's part of a runner's step does to Running
LEMMA NotifyRunning ==
  ASSUME PlaceInv, PlaceInv', NEW u \in Job, NEW p \in Props[u], NEW s \in State, Notify(u, p, s)
  PROVE  /\ Running' \subseteq Running \cup {u} /\ Running \subseteq Running' \cup {u}
         /\ s \in Active /\ (live[u] = NoJob \/ u \in Running) => u \in Running'
         /\ u \in Running' => s \in Active \/ u \in Running
<1>1. \A v \in Job \ {u} : RunningIn(tree', v) = RunningIn(tree, v)
  BY NotifyRoot DEF SamePlace
<1>2. Running' \in SUBSET Job /\ \A v \in Job : Root \in RunningIn(tree', v) <=> v \in Running'
  BY TreeAssumption DEF PlaceInv, Trees, Running, RunningIn
<1>3. /\ s \in Active /\ (NoPlace(tree, u) \/ Root \in RunningIn(tree, u))
           => Root \in RunningIn(tree', u)
      /\ Root \in RunningIn(tree', u) => s \in Active \/ Root \in RunningIn(tree, u)
  BY NotifyRoot DEF OnItsWay
<1> QED BY <1>1, <1>2, <1>3, RunningTree

LEMMA RemoveJobRunning ==
  ASSUME PlaceInv, PlaceInv', NEW u \in Job, RemoveJob(u)
  PROVE  Running' = Running \ {u}
<1>1. /\ \A v \in Job \ {u} : RunningIn(tree', v) = RunningIn(tree, v)
      /\ RunningIn(tree', u) = {}
  BY ForgottenPlaces DEF RemoveJob, SamePlace, NoPlace
<1>2. Running' \in SUBSET Job /\ \A v \in Job : Root \in RunningIn(tree', v) <=> v \in Running'
  BY TreeAssumption DEF PlaceInv, Trees, Running, RunningIn
<1> QED BY <1>1, <1>2, RunningTree

LEMMA RunJobsRunning ==
  ASSUME PlaceInv, RunJobs
  PROVE  Running' = Running
<1>1. CASE UNCHANGED tree
  BY <1>1 DEF Running
<1>2. ASSUME NEW c \in Channel \ {Root}, NEW u \in Job, Yield(c, u) PROVE Running' = Running
  BY <1>2, YieldRoot DEF Running
<1> QED
  BY <1>1, <1>2 DEF RunJobs, BeginRun, Open, Exhaust, Pause, EndRun

----------------------------------------------------------------------------
(* The inductive step *)

Core == HandInv /\ LoadInv /\ ActiveIsCounted /\ RunningBound /\ RootCapacity

\* Once every active job is counted, the bound on the running jobs is one on the rows.
LEMMA CapacityFromBound ==
  ASSUME NEW A \in SUBSET Job, NEW S \in SUBSET Job, A \subseteq S,
         Capacity[Root] # 0 => Cardinality(S) <= Capacity[Root]
  PROVE  Capacity[Root] # 0 => Cardinality(A) <= Capacity[Root]
<1>1. Capacity[Root] \in Nat
  BY ConfigAssumption, TreeAssumption
<1> QED BY <1>1, SmallerSet

\* Steps of the workers, of users and of time, and the runner's requeueing, leave
\* the runner as it is and enqueue nothing.
LEMMA QuietStep ==
  ASSUME RunnerInv, UNCHANGED <<memory, runner>>, ActiveJobs' \subseteq ActiveJobs
  PROVE  Core'
<1>1. RootCapacity'
  BY CapacityFromBound DEF RunnerInv, RootCapacity, ActiveJobs
<1>2. HandInv' /\ LoadInv' /\ RunningBound'
  BY DEF RunnerInv, HandInv, LoadInv, RunningBound, ActiveLoads, memory, runner, Idle, NoLoad
<1>3. ActiveIsCounted'
  BY DEF RunnerInv, ActiveIsCounted, memory, runner
<1> QED BY <1>1, <1>2, <1>3 DEF Core

LEMMA QuietSteps ==
  ASSUME RunnerInv,
         \/ RequeueDeadJobs
         \/ \E w \in Worker : WorkerStep(w) \/ Crash(w)
         \/ \E u \in Job : Answer(u) \/ LoseRequest(u) \/ Age(u)
         \/ \E G \in Graphs : Create(G)
         \/ UserStep
         \/ UNCHANGED runnerVars
  PROVE  UNCHANGED <<memory, runner>> /\ ActiveJobs' \subseteq ActiveJobs
<1>1. state \in [Job -> State \cup {"none", "gone"}]
  BY DEF RunnerInv, RunnerTypeOK
<1>2. CASE RequeueDeadJobs
  BY <1>1, <1>2 DEF RequeueDeadJobs, ActiveJobs
<1>3. ASSUME NEW w \in Worker, Done(w) \/ Postpone(w) \/ Fail(w) \/ EnqueueDependentJobs(w)
      PROVE  UNCHANGED <<memory, runner>> /\ ActiveJobs' \subseteq ActiveJobs
  BY <1>1, <1>3 DEF Done, Postpone, Fail, EnqueueDependentJobs, Store, ActiveJobs
<1>4. ASSUME NEW w \in Worker, Lock(w) \/ Perform(w) \/ Conflict(w) \/ Leave(w) \/ Crash(w)
      PROVE  UNCHANGED <<memory, runner>> /\ ActiveJobs' \subseteq ActiveJobs
  BY <1>4 DEF Lock, Perform, Conflict, Leave, Crash, ActiveJobs, rows
<1>5. ASSUME NEW u \in Job, Answer(u) \/ LoseRequest(u) \/ Age(u)
      PROVE  UNCHANGED <<memory, runner>> /\ ActiveJobs' \subseteq ActiveJobs
  BY <1>1, <1>5 DEF Answer, Refuse, Start, LoseRequest, Age, ActiveJobs, rows
<1>6. ASSUME NEW G \in Graphs, Create(G)
      PROVE  UNCHANGED <<memory, runner>> /\ ActiveJobs' \subseteq ActiveJobs
  BY <1>1, <1>6 DEF Create, ActiveJobs
<1>7. ASSUME NEW u \in Job, Requeue(u) \/ Cancel(u) \/ SetDone(u) \/ Autovacuum(u)
      PROVE  UNCHANGED <<memory, runner>> /\ ActiveJobs' \subseteq ActiveJobs
  BY <1>1, <1>7 DEF Requeue, Cancel, SetDone, Decide, Autovacuum, ActiveJobs
<1>8. CASE UNCHANGED runnerVars
  BY <1>8 DEF runnerVars, system, rows, runner, memory, ActiveJobs
<1> QED
  BY <1>2, <1>3, <1>4, <1>5, <1>6, <1>7, <1>8 DEF WorkerStep, UserStep

\* While something is loading, or the runner is down, its generators are off.
LEMMA CoreStep ==
  ASSUME RunnerInv, PlaceInv', RunnerTypeOK', Happens
  PROVE  Core'
<1>1. PlaceInv /\ RunnerTypeOK /\ HandInv /\ LoadInv /\ ActiveIsCounted /\ RunningBound
      /\ RootCapacity
  BY DEF RunnerInv
<1>2. /\ Running \in SUBSET Job /\ Running' \in SUBSET Job /\ IsFiniteSet(Running)
      /\ ActiveLoads \in SUBSET Job /\ ActiveLoads' \in SUBSET Job
      /\ ActiveJobs \in SUBSET Job /\ ActiveJobs' \in SUBSET Job
      /\ Capacity[Root] \in Nat
  BY <1>1, RunningTree, TreeAssumption, ConfigAssumption
     DEF PlaceInv, Trees, Running, ActiveLoads, ActiveJobs
\* It is enough to look at the rows and at what runs or is loaded.
<1>3. ASSUME HandInv', LoadInv', up',
             \A u \in Job : state'[u] \in Active => u \in Running' \/ loading'[u] \in Active,
             RunningBound'
      PROVE  Core'
  <2>1. ActiveIsCounted' /\ ActiveJobs' \subseteq Running' \cup ActiveLoads'
    BY <1>3 DEF ActiveIsCounted, ActiveJobs, ActiveLoads, Running
  <2>2. RootCapacity'
    BY <1>2, <1>3, <2>1, CapacityFromBound DEF RunningBound, RootCapacity, Running
  <2> QED BY <1>3, <2>1, <2>2 DEF Core
<1>4. ASSUME Running' \cup ActiveLoads' \subseteq Running \cup ActiveLoads PROVE RunningBound'
  BY <1>1, <1>2, <1>4, CapacityFromBound DEF RunningBound, Running
<1>5. CASE Connect
  <2>1. UNCHANGED memory /\ UNCHANGED hand /\ state' = state /\ ~up /\ up'
    BY <1>5 DEF Connect, rows
  <2>2. \A u \in Job : live[u] = NoJob /\ u \notin Running
    BY <1>1, <2>1, RunningTree DEF LoadInv
  <2>3. ActiveLoads' = ActiveJobs
    BY <1>1, <1>5 DEF Connect, ActiveLoads, ActiveJobs, RunnerTypeOK
  <2>4. RunningBound'
    <3>1. Running' = {}
      BY <1>2, <2>1, <2>2 DEF memory, Running
    <3> QED BY <1>1, <2>3, <3>1 DEF RunningBound, RootCapacity, Running
  <2>5. HandInv' /\ LoadInv'
    BY <1>1, <2>1, <2>2 DEF HandInv, LoadInv, memory, Idle
  <2>6. \A u \in Job : state'[u] \in Active => loading'[u] \in Active
    BY <2>1, <1>5 DEF Connect
  <2> QED BY <1>3, <2>1, <2>4, <2>5, <2>6
<1>6. ASSUME NEW u \in Job, LoadJob(u) PROVE Core'
  <2>1. /\ up /\ up' /\ hand' = hand /\ state' = state /\ loading[u] # "none"
        /\ loading' = [loading EXCEPT ![u] = "none"] /\ loading[u] \in State
    BY <1>1, <1>6 DEF LoadJob, rows, RunnerTypeOK
  <2>2. PICK p \in Props[u] : Notify(u, p, loading[u])
    BY <1>6 DEF LoadJob
  <2>3. /\ Running' \subseteq Running \cup {u} /\ Running \subseteq Running' \cup {u}
        /\ loading[u] \in Active => u \in Running'
        /\ u \in Running' => loading[u] \in Active \/ u \in Running
    BY <1>1, <2>1, <2>2, NotifyRunning DEF LoadInv
  <2>4. u \notin Running
    BY <1>1, <2>1, RunningTree DEF LoadInv
  <2>5. HandInv'
    BY <1>1, <2>1 DEF HandInv, NoLoad
  <2>6. LoadInv'
    BY <1>1, <2>1, <2>2 DEF LoadInv, Notify, Idle, RunnerTypeOK
  <2>7. \A v \in Job : loading'[v] \in Active <=> v # u /\ loading[v] \in Active
    BY <1>1, <2>1 DEF RunnerTypeOK
  <2>8. RunningBound'
    <3>1. ActiveLoads' = ActiveLoads \ {u}
      BY <2>7 DEF ActiveLoads
    <3>2. u \in Running' => u \in ActiveLoads
      BY <2>3, <2>4 DEF ActiveLoads
    <3> QED BY <1>4, <2>3, <3>1, <3>2
  <2>9. \A v \in Job : state'[v] \in Active => v \in Running' \/ loading'[v] \in Active
    BY <1>1, <2>1, <2>3, <2>4, <2>7 DEF ActiveIsCounted, ActiveJobs, Running
  <2> QED BY <1>3, <2>1, <2>5, <2>6, <2>8, <2>9
\* In the loop nothing is being loaded: an active job runs in the root channel.
<1>7. ASSUME InLoop, loading' = loading
      PROVE  /\ up /\ ActiveLoads = {} /\ ActiveLoads' = {} /\ (up' => LoadInv')
             /\ \A u \in Job : state[u] \in Active => u \in Running
  BY <1>1, <1>7 DEF InLoop, NoLoad, ActiveLoads, LoadInv, ActiveIsCounted, ActiveJobs, Running
<1>8. ASSUME NEW u \in Job, ProcessNotification(u) PROVE Core'
  <2>1. /\ InLoop /\ loading' = loading /\ hand' = hand /\ up' = up /\ state' = state
        /\ Idle
    BY <1>8 DEF ProcessNotification, rows, runner, Notify, RemoveJob
  <2>2. hand'.at = "none" /\ HandInv'
    BY <1>1, <2>1, TreeAssumption DEF HandInv, Idle
  <2>3. CASE Exists(u)
    <3>1. PICK p \in Props[u] : Notify(u, p, state[u])
      BY <1>8, <2>3 DEF ProcessNotification
    <3>2. /\ Running' \subseteq Running \cup {u} /\ Running \subseteq Running' \cup {u}
          /\ state[u] \in Active /\ (live[u] = NoJob \/ u \in Running) => u \in Running'
          /\ u \in Running' => state[u] \in Active \/ u \in Running
      BY <1>1, <2>3, <3>1, NotifyRunning DEF Exists
    <3>3. RunningBound'
      BY <1>4, <1>7, <2>1, <3>2
    <3> QED BY <1>3, <1>7, <2>1, <2>2, <3>2, <3>3
  <2>4. CASE ~Exists(u)
    <3>1. Running' = Running \ {u}
      BY <1>1, <1>8, <2>4, RemoveJobRunning DEF ProcessNotification
    <3>2. RunningBound'
      BY <1>4, <1>7, <2>1, <3>1
    <3>3. state[u] \notin Active
      BY <2>4 DEF Exists
    <3> QED BY <1>3, <1>7, <2>1, <2>2, <3>1, <3>2, <3>3
  <2> QED BY <2>3, <2>4
<1>9. CASE RunJobs
  <2>1. InLoop /\ loading' = loading /\ hand' = hand /\ hand = NoHand /\ up' = up /\ state' = state
    BY <1>9 DEF RunJobs, rows, runner
  <2>2. Running' = Running
    BY <1>1, <1>9, RunJobsRunning
  <2>3. HandInv'
    BY <2>1 DEF HandInv, NoHand
  <2> QED BY <1>3, <1>4, <1>7, <2>1, <2>2, <2>3
<1>10. ASSUME NEW u \in Job, RunJob(u) PROVE Core'
  <2>1. /\ InLoop /\ loading' = loading /\ up' = up /\ state' = state /\ Yield(Root, u)
        /\ hand' = [job |-> u, at |-> "yielded"]
    BY <1>10 DEF RunJob, rows
  <2>2. Running' = Running \cup {u}
    BY <1>1, <2>1, YieldRoot, TreeAssumption DEF Running
  <2>3. HandInv'
    <3>1. gen'[Root] \in {"yielded", "throttled"}
      BY <2>1, TreeAssumption DEF Yield, RunnerInv
    <3> QED BY <2>1, <2>2, <3>1, <1>7 DEF HandInv, Running, InLoop
  <2>4. Capacity[Root] # 0 => Cardinality(Running \cup {u}) <= Capacity[Root]
    <3>1. Capacity[Root] # 0 => ~(Cardinality(Running) >= Capacity[Root])
      BY <2>1 DEF Yield, HasCapacity, Full, Running
    <3>2. /\ Cardinality(Running) \in Nat
          /\ Cardinality(Running \cup {u}) = IF u \in Running THEN Cardinality(Running)
                                             ELSE Cardinality(Running) + 1
      BY <1>2, FS_CardinalityType, FS_AddElement
    <3> QED BY <1>2, <3>1, <3>2
  <2>5. RunningBound'
    BY <1>7, <2>1, <2>2, <2>4 DEF RunningBound, Running
  <2> QED BY <1>3, <1>7, <2>1, <2>2, <2>3, <2>5
<1>11. CASE SetJobEnqueued
  <2>1. /\ UNCHANGED memory /\ loading' = loading /\ up' = up
        /\ hand.at = "yielded" /\ hand' = [hand EXCEPT !.at = "enqueued"]
    BY <1>11 DEF SetJobEnqueued
  <2>2. InLoop /\ hand.job \in Running /\ gen[Root] \in {"yielded", "throttled"}
    BY <1>1, <2>1 DEF HandInv, InLoop, Running
  <2>3. hand'.job = hand.job
    BY <1>1, <2>1 DEF RunnerTypeOK
  <2>4. HandInv'
    BY <2>1, <2>2, <2>3 DEF HandInv, InLoop, memory, Running
  <2>5. \A v \in Job : state'[v] \in Active => v = hand.job \/ state[v] \in Active
    BY <1>1, <1>11 DEF SetJobEnqueued, RunnerTypeOK
  <2>6. Running' = Running
    BY <2>1 DEF memory, Running
  <2> QED BY <1>3, <1>4, <1>7, <2>1, <2>2, <2>4, <2>5, <2>6
<1>12. CASE AsyncHttpGet
  <2>1. /\ UNCHANGED memory /\ loading' = loading /\ up' = up /\ state' = state
        /\ hand.at = "enqueued" /\ hand' = NoHand
    BY <1>12 DEF AsyncHttpGet, rows
  <2>2. InLoop
    BY <1>1, <2>1 DEF HandInv, InLoop
  <2>3. HandInv' /\ Running' = Running
    BY <2>1 DEF HandInv, NoHand, memory, Running
  <2> QED BY <1>3, <1>4, <1>7, <2>1, <2>2, <2>3
<1>13. CASE Restart
  <2>1. ~up' /\ loading' = NoLoad /\ hand' = NoHand /\ state' = state
    BY <1>13 DEF Restart, rows
  <2>2. PICK v \in Job : RemoveDb(DbOf[v])
    BY <1>13 DEF Restart
  <2>3. \A u \in Job : live'[u] = NoJob
    BY <2>2, DatabaseAssumption DEF RemoveDb
  <2>4. LoadInv' /\ HandInv' /\ ActiveIsCounted' /\ RootCapacity'
    BY <1>1, <2>1, <2>2, <2>3
       DEF LoadInv, HandInv, ActiveIsCounted, RootCapacity, ActiveJobs, RemoveDb, Idle,
           NoLoad, NoHand
  <2>5. RunningBound'
    <3>1. Running' = {}
      <4>1. {u \in Job : DbOf[u] = DbOf[v]} = Job
        BY DatabaseAssumption
      <4>2. Running' = Running \ Job
        BY <2>2, <4>1, TreeAssumption DEF RemoveDb, Running
      <4> QED BY <1>2, <4>2
    <3>2. ActiveLoads' = {}
      BY <2>1 DEF ActiveLoads, NoLoad
    <3> QED BY <1>4, <3>1, <3>2
  <2> QED BY <2>4, <2>5 DEF Core
<1>14. CASE \/ RequeueDeadJobs
            \/ \E w \in Worker : WorkerStep(w) \/ Crash(w)
            \/ \E u \in Job : Answer(u) \/ LoseRequest(u) \/ Age(u)
            \/ \E G \in Graphs : Create(G)
            \/ UserStep
  BY <1>14, QuietSteps, QuietStep
<1>15. CASE Kill
  <2>1. /\ ~up' /\ loading' = NoLoad /\ hand' = NoHand /\ state' = state
        /\ tree' = [c \in Channel |-> Empty] /\ gen' = [c \in Channel |-> "off"]
        /\ live' = [u \in Job |-> NoJob]
    BY <1>15 DEF Kill, Renew, rows
  <2>2. LoadInv' /\ HandInv' /\ ActiveIsCounted' /\ RootCapacity'
    BY <1>1, <2>1
       DEF LoadInv, HandInv, ActiveIsCounted, RootCapacity, ActiveJobs, Idle, NoLoad, NoHand
  <2>3. Running' = {} /\ ActiveLoads' = {}
    BY <2>1, TreeAssumption DEF Running, Empty, ActiveLoads, NoLoad
  <2>4. RunningBound'
    BY <1>4, <2>3
  <2> QED BY <2>2, <2>4 DEF Core
<1> QED
  BY <1>5, <1>6, <1>8, <1>9, <1>10, <1>11, <1>12, <1>13, <1>14, <1>15 DEF Happens, RunnerStep

LEMMA RunnerInvInit == RunnerInit => RunnerInv
<1> SUFFICES ASSUME RunnerInit PROVE RunnerInv
  OBVIOUS
<1>1. PlaceInv
  BY DEF RunnerInit, Init, PlaceInv, Trees, Empty, OnePlace, InOnePlace, RunsEverywhere, Way,
         QueuedIn, RunningIn, FailedIn
<1>2. RunnerTypeOK
  BY DEF RunnerInit, RunnerTypeOK, IdleWorker, NoLoad, NoHand
<1>3. HandInv /\ LoadInv /\ ActiveIsCounted
  BY DEF RunnerInit, Init, HandInv, LoadInv, ActiveIsCounted, NoHand, NoLoad, Idle
<1>4. tree[Root].running = {} /\ ActiveLoads = {} /\ ActiveJobs = {}
  BY TreeAssumption DEF RunnerInit, Init, Empty, ActiveLoads, ActiveJobs, NoLoad
<1>5. RunningBound /\ RootCapacity
  <2>1. Capacity[Root] \in Nat
    BY TreeAssumption, ConfigAssumption
  <2> QED BY <1>4, <2>1, FS_EmptySet DEF RunningBound, RootCapacity
<1> QED
  BY <1>1, <1>2, <1>3, <1>5 DEF RunnerInv, RunnerInit, Init

LEMMA RunnerInvStep == RunnerInv /\ [RunnerNext]_runnerVars => RunnerInv'
<1> SUFFICES ASSUME RunnerInv, [RunnerNext]_runnerVars PROVE RunnerInv'
  OBVIOUS
<1>1. [Next]_vars
  BY ManagerStep
<1>2. PlaceInv'
  BY <1>1, PlaceInvStep DEF RunnerInv
<1>3. gen' \in [Channel -> Gens] /\ now' \in Nat
  BY <1>1, GeneratorsType DEF RunnerInv, Gens
<1>4. RunnerTypeOK'
  <2>1. CASE UNCHANGED runnerVars
    BY <2>1 DEF RunnerInv, RunnerTypeOK, runnerVars, system, rows, runner
  <2>2. CASE RunnerNext
    BY <2>2, TypeOfRunnerStep, TypeOfWorkerStep, TypeOfOtherStep, TypeOfCreate
       DEF RunnerNext, Happens, UserStep, RunnerInv
  <2> QED BY <2>1, <2>2
<1>5. Core'
  <2>1. CASE UNCHANGED runnerVars
    BY <2>1, QuietSteps, QuietStep
  <2>2. CASE RunnerNext
    BY <1>2, <1>4, <2>2, CoreStep DEF RunnerNext
  <2> QED BY <2>1, <2>2
<1> QED
  BY <1>2, <1>3, <1>4, <1>5 DEF RunnerInv, Core, Gens

\* The jobs that are enqueued or started never exceed the capacity of the root
\* channel, whatever the tree of channels, the number of workers, and what users,
\* crashes, lost requests and restarts of the runner do.
THEOREM CapacityHolds == RunnerSpec => []RootCapacity
<1>1. RunnerInv => RootCapacity
  BY DEF RunnerInv
<1> QED
  BY <1>1, RunnerInvInit, RunnerInvStep, PTL DEF RunnerSpec

\* The whole inductive invariant, with the types and with what holds of the runner
\* between two of its steps.
THEOREM RunnerInvariant == RunnerSpec => []RunnerInv
  BY RunnerInvInit, RunnerInvStep, PTL DEF RunnerSpec

\* The runner, with its faults, drives the manager as the manager's own specification
\* allows: what is proved of the channels alone is true of them here.  A new process
\* starts with channels that know of nothing, of no pause either.
THEOREM RunnerDrivesManager == RunnerSpec => Spec
<1>1. RunnerInit => Init
  BY DEF RunnerInit
<1>2. RunnerInv /\ [RunnerNext]_runnerVars => [Next]_vars
  BY ManagerStep
<1> QED
  BY <1>1, <1>2, RunnerInvariant, PTL DEF RunnerSpec, Spec

----------------------------------------------------------------------------
(* The runner's memory follows the rows.  A row that changes while the     *)
(* runner is up is in notes until the runner has looked at it; what a      *)
(* runner that starts has yet to load is what the row says, or in notes;   *)
(* and a job that the root just yielded is not noted before the generators *)
(* have gone on, so that its row cannot vanish unheard.                    *)

\* What is not in the tree is not remembered
Forgettable == {"done", "cancelled", "none", "gone"}

\* InMemory of a job with ChannelJob l in tree t
Holds(t, l, u, s) ==
  /\ s = "pending" => QueuedIn(t, u) # {}
  /\ s \in Active => Root \in RunningIn(t, u)
  /\ s = "failed" => FailedIn(t, u) # {}
  /\ s \in Forgettable => l = NoJob

Heard(u) == u \in notes \/ loading[u] # "none" \/ hand = [job |-> u, at |-> "yielded"]

MemoryInv ==
  /\ up => \A u \in Job : Heard(u) \/ Holds(tree, live[u], u, state[u])
  /\ ~up => loading = NoLoad
  /\ \A u \in Job : loading[u] # "none" => loading[u] = state[u] \/ u \in notes
  /\ hand.at = "yielded" => Exists(hand.job) \/ hand.job \in notes

\* A job that waits, and always did since the runner connected, has no place in the
\* channels and will not get one.
WaitInv ==
  /\ \A u \in setBack : state[u] = "wait_dependencies"
  /\ \A u \in Job : state[u] \in {"none", "wait_dependencies"} /\ u \notin setBack
       => live[u] = NoJob /\ loading[u] \in {"none", "wait_dependencies"}

LEMMA MemoryIsHolding ==
  ASSUME RunnerTypeOK, MemoryInv, WaitInv
  PROVE  MemoryFollows
<1> SUFFICES ASSUME up, NEW u \in Job, ~Heard(u)
             PROVE  InMemory(u, state[u])
  BY DEF MemoryFollows, Heard
<1>1. Holds(tree, live[u], u, state[u]) /\ state[u] \in State \cup {"none", "gone"}
  BY DEF MemoryInv, RunnerTypeOK
<1>2. CASE state[u] = "pending"
  BY <1>1, <1>2 DEF Holds, InMemory, QueuedIn
<1>3. CASE state[u] \in Active
  BY <1>1, <1>3 DEF Holds, InMemory, RunningIn
<1>4. CASE state[u] = "failed"
  BY <1>1, <1>4 DEF Holds, InMemory, FailedIn
<1>5. CASE state[u] \in Forgettable
  BY <1>1, <1>5 DEF Holds, InMemory, Forgettable
<1>6. CASE state[u] = "wait_dependencies"
  BY <1>6 DEF WaitInv, InMemory
<1> QED
  BY <1>1, <1>2, <1>3, <1>4, <1>5, <1>6 DEF Forgettable, State, Active

LEMMA HoldsSame ==
  ASSUME NEW t, NEW r, NEW l, NEW u, NEW s, SamePlace(r, t, u), Holds(t, l, u, s)
  PROVE  Holds(r, l, u, s)
  BY DEF SamePlace, Holds

\* notify() puts the job where its state says, and leaves the others alone.
LEMMA NotifyHolds ==
  ASSUME PlaceInv, NEW u \in Job, NEW p \in Props[u], NEW s \in State, Notify(u, p, s)
  PROVE  /\ (s \in Active => live[u] = NoJob \/ Root \in RunningIn(tree, u))
              => Holds(tree', live'[u], u, s)
         /\ \A v \in Job \ {u} : live'[v] = live[v] /\ SamePlace(tree', tree, v)
<1> DEFINE t == IF live[u] = p THEN tree ELSE Forgotten(u)
           r == Placed(t, u, p.channel, s)
           l == IF InChannel(r, u, p.channel) THEN p ELSE NoJob
<1>1. p \in JobProps /\ live \in [Job -> JobProps \cup {NoJob}]
  BY JobAssumption DEF PlaceInv
<1>2. t \in Trees /\ (NoPlace(t, u) \/ InOnePlace(t, p, u))
  BY ForgottenPlaces DEF PlaceInv, OnePlace
<1>3. tree' = r /\ live' = [live EXCEPT ![u] = l]
  BY DEF Notify
<1> HIDE DEF t
<1>4. /\ s = "pending" => QueuedIn(r, u) # {}
      /\ s = "failed" => FailedIn(r, u) # {}
      /\ s \in {"done", "cancelled"} => l = NoJob
  BY <1>1, <1>2, PlacedInOnePlace
<1> HIDE DEF r, l
<1>5. s \in Active /\ (live[u] = NoJob \/ Root \in RunningIn(tree, u))
        => Root \in RunningIn(tree', u)
  BY NotifyRoot, RunningTree DEF OnItsWay
<1> QED
  BY <1>1, <1>3, <1>4, <1>5, NotifyRoot DEF Holds, Forgettable

\* What is not the runner's: it may hear of a row that changed.
LEMMA QuietMemory ==
  ASSUME MemoryInv, UNCHANGED <<memory, runner>>, notes \subseteq notes',
         \A u \in Job : \/ state'[u] = state[u]
                        \/ up /\ u \in notes'
                        \/ /\ state[u] \in Forgettable /\ state'[u] \in Forgettable
                           /\ hand.job # u,
         RunnerInv
  PROVE  MemoryInv'
<1>1. UNCHANGED <<tree, live, up, loading, hand>>
  BY DEF memory, runner
<1>2. ASSUME up, NEW u \in Job PROVE Heard(u)' \/ Holds(tree', live'[u], u, state'[u])
  <2>1. Heard(u) => Heard(u)'
    BY <1>1 DEF Heard
  <2>2. CASE state'[u] = state[u]
    BY <1>1, <1>2, <2>1, <2>2 DEF MemoryInv
  <2>3. CASE u \in notes'
    BY <2>3 DEF Heard
  <2>4. CASE state[u] \in Forgettable /\ state'[u] \in Forgettable
    <3>1. Holds(tree, live[u], u, state[u]) => Holds(tree, live[u], u, state'[u])
      BY <2>4 DEF Holds, Forgettable
    <3> QED BY <1>1, <1>2, <2>1, <3>1 DEF MemoryInv
  <2> QED BY <2>2, <2>3, <2>4
<1>3. ~up' => loading' = NoLoad
  BY <1>1 DEF MemoryInv
<1>4. ASSUME NEW u \in Job, loading'[u] # "none" PROVE loading'[u] = state'[u] \/ u \in notes'
  <2>1. up /\ loading[u] \in NotDone /\ (loading[u] = state[u] \/ u \in notes)
    BY <1>1, <1>4 DEF MemoryInv, RunnerTypeOK, RunnerInv, NoLoad
  <2> QED BY <1>1, <2>1 DEF Forgettable
<1>5. ASSUME hand'.at = "yielded" PROVE Exists(hand.job)' \/ hand'.job \in notes'
  <2>1. Exists(hand.job) \/ hand.job \in notes
    BY <1>1, <1>5 DEF MemoryInv
  <2>2. up /\ hand.job \in Job
    BY <1>1, <1>5, HandInTree DEF RunnerInv, HandInv
  <2>3. Exists(hand.job) => state'[hand.job] \in State \/ hand.job \in notes'
    BY <2>2 DEF Exists
  <2> QED BY <1>1, <2>1, <2>3 DEF Exists
<1> QED
  BY <1>1, <1>2, <1>3, <1>4, <1>5 DEF MemoryInv

LEMMA QuietNotes ==
  ASSUME RunnerInv, up,
         \/ RequeueDeadJobs
         \/ \E w \in Worker : WorkerStep(w) \/ Crash(w)
         \/ \E u \in Job : Answer(u) \/ LoseRequest(u) \/ Age(u)
         \/ \E G \in Graphs : Create(G)
         \/ UserStep
         \/ UNCHANGED runnerVars
  PROVE  /\ notes \subseteq notes'
         /\ \A u \in Job : \/ state'[u] = state[u] \/ u \in notes'
                           \/ /\ state[u] \in Forgettable /\ state'[u] \in Forgettable
                              /\ hand.job # u
<1> DEFINE Goal == /\ notes \subseteq notes'
                   /\ \A u \in Job : \/ state'[u] = state[u] \/ u \in notes'
                                     \/ /\ state[u] \in Forgettable /\ state'[u] \in Forgettable
                                        /\ hand.job # u
<1>1. state \in [Job -> State \cup {"none", "gone"}]
  BY DEF RunnerInv, RunnerTypeOK
<1>2. ASSUME NEW S, NEW w, Written(S, w), \A u \in Job : state'[u] = state[u] \/ u \in S
      PROVE  Goal
  BY <1>2 DEF Written
<1>3. ASSUME UNCHANGED <<state, notes>> PROVE Goal
  BY <1>3
<1>4. ASSUME NEW w \in Worker, NEW s, NEW n, Store(w, s, n) PROVE Goal
  BY <1>1, <1>2, <1>4 DEF Store
<1> HIDE DEF Goal
<1>5. ASSUME RequeueDeadJobs PROVE Goal
  <2>1. Written(Dead, NoWork)
    BY <1>5 DEF RequeueDeadJobs
  <2>2. ASSUME NEW u \in Job, u \notin Dead PROVE state'[u] = state[u]
    BY <1>5, <2>2 DEF RequeueDeadJobs
  <2> QED BY <1>2, <2>1, <2>2
<1>6. ASSUME NEW w \in Worker, Done(w) \/ Postpone(w) \/ Fail(w) PROVE Goal
  BY <1>4, <1>6 DEF Done, Postpone, Fail
<1>7. ASSUME NEW w \in Worker, EnqueueDependentJobs(w) PROVE Goal
  BY <1>2, <1>7 DEF EnqueueDependentJobs
<1>8. ASSUME NEW w \in Worker, Lock(w) \/ Perform(w) \/ Conflict(w) \/ Leave(w) \/ Crash(w)
      PROVE  Goal
  BY <1>3, <1>8 DEF Lock, Perform, Conflict, Leave, Crash, rows
<1>9. ASSUME NEW u \in Job, NEW w \in Worker, Start(w, u) PROVE Goal
  BY <1>1, <1>2, <1>9 DEF Start
<1>10. ASSUME NEW u \in Job, Refuse(u) \/ LoseRequest(u) \/ Age(u) PROVE Goal
  BY <1>3, <1>10 DEF Refuse, LoseRequest, Age, rows
<1>11. ASSUME NEW G \in Graphs, Create(G) PROVE Goal
  <2>1. Written(G, NoWork)
    BY <1>11 DEF Create
  <2>2. ASSUME NEW u \in Job, u \notin G PROVE state'[u] = state[u]
    BY <1>11, <2>2 DEF Create
  <2> QED BY <1>2, <2>1, <2>2
<1>12. ASSUME NEW u \in Job, Requeue(u) PROVE Goal
  BY <1>1, <1>2, <1>12 DEF Requeue
<1>13. ASSUME NEW u \in Job, NEW s, NEW t, Decide(u, s, t) PROVE Goal
  <2> DEFINE S == Resolved([state EXCEPT ![u] = s], u, s)
  <2>1. /\ Written({u} \cup S, NoWork)
        /\ state' = [v \in Job |-> IF v \in S THEN t ELSE [state EXCEPT ![u] = s][v]]
    BY <1>13 DEF Decide
  <2> HIDE DEF S
  <2>2. \A v \in Job : state'[v] = state[v] \/ v \in {u} \cup S
    BY <1>1, <2>1
  <2> QED BY <1>2, <2>1, <2>2
<1>14. ASSUME NEW u \in Job, Autovacuum(u) PROVE Goal
  <2>1. ~Underway(u) /\ state' = [state EXCEPT ![u] = "gone"]
    BY <1>14 DEF Autovacuum
  <2>2. CASE state[u] # "done"
    BY <1>1, <1>2, <1>14, <2>1, <2>2 DEF Autovacuum
  <2>3. CASE state[u] = "done"
    <3>1. hand.job # u
      BY <2>1 DEF Underway
    <3>2. notes' = notes
      BY <1>14, <2>3 DEF Autovacuum
    <3> QED BY <1>1, <2>1, <2>3, <3>1, <3>2 DEF Goal, Forgettable
  <2> QED BY <2>2, <2>3
<1>15. ASSUME UNCHANGED runnerVars PROVE Goal
  BY <1>3, <1>15 DEF runnerVars, system, rows
<1>16. ASSUME NEW w \in Worker, WorkerStep(w) \/ Crash(w) PROVE Goal
  BY <1>6, <1>7, <1>8, <1>16 DEF WorkerStep
<1>17. ASSUME NEW u \in Job, Answer(u) \/ LoseRequest(u) \/ Age(u) PROVE Goal
  BY <1>9, <1>10, <1>17 DEF Answer
<1>18. ASSUME UserStep PROVE Goal
  BY <1>12, <1>13, <1>14, <1>18 DEF UserStep, Cancel, SetDone
<1>19. Goal
  BY <1>5, <1>11, <1>15, <1>16, <1>17, <1>18
<1> QED
  BY <1>19 DEF Goal

\* A channel other than the root passes a job on: it is queued further down, and what
\* runs in the root and what has failed is as before.
LEMMA YieldHolds ==
  ASSUME PlaceInv, NEW c \in Channel, NEW u \in Job, Yield(c, u)
  PROVE  /\ live[u] # NoJob
         /\ \A v \in Job \ {u} : SamePlace(tree', tree, v)
         /\ c # Root => \A s : Holds(tree, live[u], u, s) => Holds(tree', live[u], u, s)
<1>1. tree \in Trees /\ tree' = Moved(tree, u, c) /\ u \in tree[c].queue
  BY DEF PlaceInv, Yield, First, Ready
<1>2. live[u] # NoJob
  BY <1>1, RunningTree DEF NoPlace, QueuedIn
<1>3. live[u] \in JobProps /\ InOnePlace(tree, live[u], u)
  BY <1>2 DEF PlaceInv, OnePlace
<1>4. \A v \in Job \ {u} : SamePlace(tree', tree, v)
  BY <1>1, <1>3, MovedInOnePlace
<1>5. ASSUME c # Root PROVE /\ Parent[c] \in QueuedIn(tree', u)
                            /\ RunningIn(tree, u) \subseteq RunningIn(tree', u)
                            /\ FailedIn(tree', u) = FailedIn(tree, u)
  <2>1. Parent[c] \in Channel /\ Parent[c] # c
    BY <1>5, DownParent, DownIn
  <2> QED BY <1>1, <1>5, <2>1 DEF Moved, Trees, QueuedIn, RunningIn, FailedIn
<1> QED
  BY <1>2, <1>4, <1>5 DEF Holds

\* Clearing an eta is not forgetting a job.
LEMMA ClearDueRemembers ==
  ASSUME PlaceInv, NEW c \in Channel, ClearDue(c), NEW u \in Job
  PROVE  live[u] = NoJob => live'[u] = NoJob
<1>1. live[u] = NoJob => u \notin Ready(c)
  BY RunningTree DEF Ready, NoPlace, QueuedIn
<1> QED
  BY <1>1 DEF ClearDue

LEMMA RunJobsHolds ==
  ASSUME PlaceInv, RunJobs, NEW u \in Job, NEW s, Holds(tree, live[u], u, s)
  PROVE  Holds(tree', live'[u], u, s)
<1>1. CASE UNCHANGED <<tree, live>>
  BY <1>1
<1>2. ASSUME NEW c \in Channel, Exhaust(c) PROVE Holds(tree', live'[u], u, s)
  <2>1. tree' = tree /\ (live' = live \/ ClearDue(c))
    BY <1>2 DEF Exhaust
  <2>2. live[u] = NoJob => live'[u] = NoJob
    BY <2>1, ClearDueRemembers
  <2> QED BY <2>1, <2>2 DEF Holds
<1>3. ASSUME NEW c \in Channel \ {Root}, NEW v \in Job, Yield(c, v)
      PROVE  Holds(tree', live'[u], u, s)
  <2>1. live[u] = NoJob => live'[u] = NoJob
    BY <1>3, ClearDueRemembers DEF Yield
  <2>2. Holds(tree', live[u], u, s)
    <3>1. CASE u = v
      BY <1>3, <3>1, YieldHolds
    <3>2. CASE u # v
      BY <1>3, <3>2, YieldHolds, HoldsSame
    <3> QED BY <3>1, <3>2
  <2> QED BY <2>1, <2>2 DEF Holds
<1> QED
  BY <1>1, <1>2, <1>3 DEF RunJobs, BeginRun, Open, Pause, EndRun

LEMMA MemoryInvStep ==
  ASSUME RunnerInv, MemoryInv, Happens
  PROVE  MemoryInv'
<1>1. PlaceInv /\ RunnerTypeOK /\ HandInv /\ LoadInv /\ ActiveIsCounted
  BY DEF RunnerInv
<1>2. CASE Connect
  <2>1. /\ UNCHANGED <<tree, live, hand, state>> /\ ~up /\ up'
        /\ loading' = [u \in Job |-> IF state[u] \in NotDone THEN state[u] ELSE "none"]
    BY <1>2 DEF Connect, memory, rows
  <2>2. hand.at = "none"
    BY <1>1, <2>1 DEF HandInv, RunnerTypeOK
  <2>3. ASSUME NEW u \in Job, loading'[u] = "none" PROVE Holds(tree', live'[u], u, state'[u])
    <3>1. state[u] \notin NotDone /\ live[u] = NoJob
      BY <1>1, <2>1, <2>3 DEF LoadInv
    <3> QED BY <2>1, <3>1 DEF Holds
  <2> QED BY <2>1, <2>2, <2>3 DEF MemoryInv, Heard
<1>3. ASSUME NEW u \in Job, LoadJob(u) PROVE MemoryInv'
  <2>1. /\ up /\ up' /\ hand' = hand /\ state' = state /\ notes' = notes
        /\ loading[u] # "none" /\ loading[u] \in State
        /\ loading' = [loading EXCEPT ![u] = "none"]
    BY <1>1, <1>3 DEF LoadJob, rows, RunnerTypeOK
  <2>2. PICK p \in Props[u] : Notify(u, p, loading[u])
    BY <1>3 DEF LoadJob
  <2>3. /\ Holds(tree', live'[u], u, loading[u])
        /\ \A v \in Job \ {u} : live'[v] = live[v] /\ SamePlace(tree', tree, v)
    BY <1>1, <2>1, <2>2, NotifyHolds DEF LoadInv
  <2>4. ASSUME NEW v \in Job PROVE Heard(v)' \/ Holds(tree', live'[v], v, state'[v])
    <3>1. CASE v = u
      BY <2>1, <2>3, <3>1 DEF MemoryInv, Heard
    <3>2. CASE v # u
      <4>1. Heard(v) => Heard(v)'
        BY <1>1, <2>1, <3>2 DEF Heard, RunnerTypeOK
      <4>2. Holds(tree, live[v], v, state[v]) => Holds(tree', live'[v], v, state'[v])
        BY <2>1, <2>3, <3>2, HoldsSame
      <4> QED BY <2>1, <4>1, <4>2 DEF MemoryInv
    <3> QED BY <3>1, <3>2
  <2>5. \A v \in Job : loading'[v] # "none" => loading'[v] = state'[v] \/ v \in notes'
    BY <1>1, <2>1 DEF MemoryInv, RunnerTypeOK
  <2>6. hand'.at = "yielded" => Exists(hand.job)' \/ hand'.job \in notes'
    BY <2>1 DEF MemoryInv, Exists
  <2> QED BY <2>1, <2>4, <2>5, <2>6 DEF MemoryInv
\* In the loop nothing is left to load.
<1>4. ASSUME InLoop, UNCHANGED <<up, loading>>,
             hand'.at = "yielded" => Exists(hand.job)' \/ hand'.job \in notes',
             \A u \in Job : Heard(u)' \/ Holds(tree', live'[u], u, state'[u])
      PROVE  MemoryInv'
  <2>1. up' /\ loading' = NoLoad
    BY <1>4 DEF InLoop
  <2> QED BY <1>4, <2>1 DEF MemoryInv, NoLoad
<1>5. ASSUME InLoop, NEW u \in Job, ~Heard(u) PROVE Holds(tree, live[u], u, state[u])
  BY <1>5 DEF InLoop, MemoryInv
<1>6. ASSUME NEW u \in Job, ProcessNotification(u) PROVE MemoryInv'
  <2>1. /\ InLoop /\ loading = NoLoad /\ UNCHANGED <<up, loading, hand, state>>
        /\ notes' = notes \ {u} /\ Idle
    BY <1>6 DEF ProcessNotification, rows, runner, InLoop, Notify, RemoveJob
  <2>2. hand'.at # "yielded"
    BY <1>1, <2>1, TreeAssumption DEF HandInv, Idle
  <2>3. /\ Holds(tree', live'[u], u, state[u])
        /\ \A v \in Job \ {u} : live'[v] = live[v] /\ SamePlace(tree', tree, v)
    <3>1. CASE Exists(u)
      <4>1. PICK p \in Props[u] : Notify(u, p, state[u])
        BY <1>6, <3>1 DEF ProcessNotification
      <4>2. state[u] \in Active => Root \in RunningIn(tree, u)
        <5>1. state[u] \in Active => u \in tree[Root].running
          BY <1>1, <2>1 DEF ActiveIsCounted, ActiveJobs, InLoop, NoLoad
        <5> QED BY <5>1, TreeAssumption DEF RunningIn
      <4> QED BY <1>1, <3>1, <4>1, <4>2, NotifyHolds DEF Exists
    <3>2. CASE ~Exists(u)
      <4>1. RemoveJob(u) /\ state[u] \in {"none", "gone"}
        BY <1>1, <1>6, <3>2 DEF ProcessNotification, Exists, RunnerTypeOK
      <4>2. live' = [live EXCEPT ![u] = NoJob] /\ tree' = Forgotten(u)
        BY <4>1 DEF RemoveJob
      <4>3. live'[u] = NoJob /\ \A v \in Job \ {u} : live'[v] = live[v]
        BY <1>1, <4>2 DEF PlaceInv
      <4>4. \A v \in Job \ {u} : SamePlace(tree', tree, v)
        BY <1>1, <4>2, ForgottenPlaces
      <4> QED BY <4>1, <4>3, <4>4 DEF Holds
    <3> QED BY <3>1, <3>2
  <2>4. ASSUME NEW v \in Job PROVE Heard(v)' \/ Holds(tree', live'[v], v, state'[v])
    <3>1. CASE v = u
      BY <2>1, <2>3, <3>1
    <3>2. CASE v # u
      <4>1. Heard(v) => Heard(v)'
        BY <2>1, <3>2 DEF Heard
      <4>2. Holds(tree, live[v], v, state[v]) => Holds(tree', live'[v], v, state'[v])
        BY <2>1, <2>3, <3>2, HoldsSame
      <4> QED BY <1>5, <2>1, <4>1, <4>2
    <3> QED BY <3>1, <3>2
  <2> QED BY <1>4, <2>1, <2>2, <2>4
<1>7. CASE RunJobs
  <2>1. InLoop /\ UNCHANGED <<up, loading, hand, state, notes>> /\ hand = NoHand
    BY <1>7 DEF RunJobs, rows, runner
  <2>2. ASSUME NEW u \in Job PROVE Heard(u)' \/ Holds(tree', live'[u], u, state'[u])
    BY <1>1, <1>5, <1>7, <2>1, RunJobsHolds DEF Heard
  <2>3. hand'.at # "yielded"
    BY <2>1 DEF NoHand
  <2> QED BY <1>4, <2>1, <2>2, <2>3
<1>8. ASSUME NEW u \in Job, RunJob(u) PROVE MemoryInv'
  <2>1. /\ InLoop /\ UNCHANGED <<up, loading, state, notes>> /\ hand = NoHand
        /\ Yield(Root, u) /\ hand' = [job |-> u, at |-> "yielded"] /\ loading = NoLoad
    BY <1>8 DEF RunJob, rows, InLoop
  <2>2. ASSUME NEW v \in Job, v # u PROVE Heard(v)' \/ Holds(tree', live'[v], v, state'[v])
    <3>1. Holds(tree, live[v], v, state[v]) => Holds(tree', live[v], v, state[v])
      BY <1>1, <2>1, <2>2, TreeAssumption, YieldHolds, HoldsSame
    <3>2. live[v] = NoJob => live'[v] = NoJob
      BY <1>1, <2>1, TreeAssumption, ClearDueRemembers DEF Yield
    <3>3. Heard(v) => v \in notes
      BY <2>1 DEF Heard, NoLoad, NoHand
    <3>4. v \in notes \/ Holds(tree', live'[v], v, state[v])
      BY <1>5, <2>1, <3>1, <3>2, <3>3 DEF Holds
    <3> QED BY <2>1, <3>4 DEF Heard
  <2>3. Heard(u)'
    BY <2>1 DEF Heard
  <2>4. Exists(u) \/ u \in notes
    <3>1. live[u] # NoJob
      BY <1>1, <2>1, TreeAssumption, YieldHolds
    <3>2. Heard(u) => u \in notes
      BY <2>1 DEF Heard, NoLoad, NoHand
    <3>3. Holds(tree, live[u], u, state[u]) => state[u] \notin {"none", "gone"}
      BY <3>1 DEF Holds, Forgettable
    <3> QED BY <1>1, <1>5, <2>1, <3>2, <3>3 DEF RunnerTypeOK, Exists
  <2>5. Exists(hand.job)' \/ hand'.job \in notes'
    BY <2>1, <2>4 DEF Exists
  <2>6. \A v \in Job : Heard(v)' \/ Holds(tree', live'[v], v, state'[v])
    BY <2>2, <2>3
  <2> QED BY <1>4, <2>1, <2>5, <2>6
<1>9. CASE SetJobEnqueued
  <2>1. /\ UNCHANGED <<tree, live, up, loading>> /\ hand.at = "yielded"
        /\ hand' = [hand EXCEPT !.at = "enqueued"]
    BY <1>9 DEF SetJobEnqueued, memory
  <2>2. InLoop /\ hand.job \in Job /\ hand'.at = "enqueued"
    BY <1>1, <2>1, HandInTree DEF HandInv, InLoop, RunnerTypeOK
  <2>3. hand.job \in notes'
    <3>1. CASE Exists(hand.job)
      BY <1>9, <2>2, <3>1 DEF SetJobEnqueued, Written, InLoop
    <3>2. CASE ~Exists(hand.job)
      BY <1>9, <2>1, <3>2 DEF SetJobEnqueued, MemoryInv
    <3> QED BY <3>1, <3>2
  <2>4. ASSUME NEW v \in Job, v # hand.job
        PROVE  Heard(v)' \/ Holds(tree', live'[v], v, state'[v])
    <3>1. state'[v] = state[v] /\ notes \subseteq notes'
      BY <1>1, <1>9, <2>4 DEF SetJobEnqueued, Written, RunnerTypeOK
    <3>2. Heard(v) => Heard(v)'
      BY <2>1, <2>2, <2>4, <3>1 DEF Heard
    <3> QED BY <1>5, <2>1, <2>2, <3>1, <3>2
  <2>5. \A v \in Job : Heard(v)' \/ Holds(tree', live'[v], v, state'[v])
    BY <2>3, <2>4 DEF Heard
  <2> QED BY <1>4, <2>1, <2>2, <2>5
<1>10. CASE AsyncHttpGet
  <2>1. /\ UNCHANGED <<tree, live, up, loading, notes, state>> /\ hand.at = "enqueued"
        /\ hand' = NoHand
    BY <1>10 DEF AsyncHttpGet, memory, rows
  <2>2. InLoop /\ hand'.at # "yielded"
    BY <1>1, <2>1 DEF HandInv, InLoop, NoHand
  <2>3. ASSUME NEW v \in Job PROVE Heard(v)' \/ Holds(tree', live'[v], v, state'[v])
    <3>1. Heard(v) => Heard(v)'
      BY <2>1 DEF Heard
    <3> QED BY <1>5, <2>1, <2>2, <3>1
  <2> QED BY <1>4, <2>1, <2>2, <2>3
<1>11. CASE Restart \/ Kill
  BY <1>11 DEF Restart, Kill, MemoryInv, NoLoad, NoHand
<1>12. CASE \/ RequeueDeadJobs
            \/ \E w \in Worker : WorkerStep(w) \/ Crash(w)
            \/ \E u \in Job : Answer(u) \/ LoseRequest(u) \/ Age(u)
            \/ \E G \in Graphs : Create(G)
            \/ UserStep
  <2>1. UNCHANGED <<memory, runner>>
    BY <1>12, QuietSteps
  <2>2. CASE up
    BY <1>12, <2>1, <2>2, QuietNotes, QuietMemory
  <2>3. CASE ~up
    <3>1. UNCHANGED <<up, loading, hand>>
      BY <2>1 DEF runner
    <3>2. loading = NoLoad /\ hand.at # "yielded"
      BY <1>1, <2>3 DEF MemoryInv, HandInv
    <3> QED BY <2>3, <3>1, <3>2 DEF MemoryInv, NoLoad
  <2> QED BY <2>2, <2>3
<1> QED
  BY <1>2, <1>3, <1>6, <1>7, <1>8, <1>9, <1>10, <1>11, <1>12 DEF Happens, RunnerStep

\* No step deletes a row as if it had never been.
LEMMA NoneStays ==
  ASSUME RunnerTypeOK, Happens, NEW u \in Job, state'[u] = "none"
  PROVE  state[u] = "none"
<1>1. state \in [Job -> State \cup {"none", "gone"}]
  BY DEF RunnerTypeOK
<1>2. CASE Connect \/ RequeueDeadJobs \/ RunJobs \/ SetJobEnqueued \/ AsyncHttpGet
  BY <1>1, <1>2 DEF Connect, RequeueDeadJobs, RunJobs, SetJobEnqueued, AsyncHttpGet, rows
<1>3. ASSUME NEW v \in Job, LoadJob(v) \/ ProcessNotification(v) \/ RunJob(v)
      PROVE  state[u] = "none"
  BY <1>3 DEF LoadJob, ProcessNotification, RunJob, rows
<1>4. CASE Restart \/ Kill
  BY <1>4 DEF Restart, Kill, rows
<1>5. ASSUME NEW w \in Worker, Done(w) \/ Postpone(w) \/ Fail(w) \/ EnqueueDependentJobs(w)
      PROVE  state[u] = "none"
  BY <1>1, <1>5 DEF Done, Postpone, Fail, EnqueueDependentJobs, Store
<1>6. ASSUME NEW w \in Worker, Lock(w) \/ Perform(w) \/ Conflict(w) \/ Leave(w) \/ Crash(w)
      PROVE  state[u] = "none"
  BY <1>6 DEF Lock, Perform, Conflict, Leave, Crash, rows
<1>7. ASSUME NEW v \in Job, Answer(v) \/ LoseRequest(v) \/ Age(v) PROVE state[u] = "none"
  BY <1>1, <1>7 DEF Answer, Refuse, Start, LoseRequest, Age, rows
<1>8. ASSUME NEW G \in Graphs, Create(G) PROVE state[u] = "none"
  BY <1>1, <1>8 DEF Create
<1>9. ASSUME NEW v \in Job, Requeue(v) \/ Cancel(v) \/ SetDone(v) \/ Autovacuum(v)
      PROVE  state[u] = "none"
  BY <1>1, <1>9 DEF Requeue, Cancel, SetDone, Decide, Autovacuum
<1> QED
  BY <1>2, <1>3, <1>4, <1>5, <1>6, <1>7, <1>8, <1>9
     DEF Happens, RunnerStep, WorkerStep, UserStep

\* notify() gives no place to a job that waits.
LEMMA NotifyWaits ==
  ASSUME PlaceInv, NEW u \in Job, NEW p \in Props[u], live[u] = NoJob,
         Notify(u, p, "wait_dependencies")
  PROVE  live'[u] = NoJob
<1>1. p # NoJob /\ p.channel \in Channel
  BY JobAssumption, NoneAssumption DEF JobProps
<1>2. tree' = tree
  BY <1>1 DEF Notify, Forgotten, Placed
<1>3. ~InChannel(tree, u, p.channel)
  BY <1>1, RunningTree DEF NoPlace, QueuedIn, RunningIn, FailedIn, InChannel
<1> QED
  BY <1>2, <1>3 DEF Notify, PlaceInv

\* A job without a ChannelJob only gets one from notify().
LEMMA LiveOnlyNotified ==
  ASSUME RunnerInv, Happens, NEW u \in Job, live[u] = NoJob, live'[u] # NoJob
  PROVE  \/ LoadJob(u) /\ \E p \in Props[u] : Notify(u, p, loading[u])
         \/ ProcessNotification(u) /\ Exists(u) /\ \E p \in Props[u] : Notify(u, p, state[u])
<1>1. PlaceInv /\ live \in [Job -> JobProps \cup {NoJob}]
  BY DEF RunnerInv, PlaceInv
<1>2. CASE Connect \/ SetJobEnqueued \/ AsyncHttpGet
  BY <1>2 DEF Connect, SetJobEnqueued, AsyncHttpGet, memory
<1>3. CASE Restart \/ Kill
  BY <1>3 DEF Restart, Kill, RemoveDb, Renew
<1>4. ASSUME RunJobs PROVE FALSE
  <2>1. CASE live' = live
    BY <2>1
  <2>2. CASE \E c \in Channel : ClearDue(c)
    BY <1>1, <2>2, ClearDueRemembers
  <2> QED BY <1>4, <2>1, <2>2 DEF RunJobs, BeginRun, Open, Exhaust, Pause, Yield, EndRun
<1>5. ASSUME NEW v \in Job, RunJob(v) PROVE FALSE
  <2>1. ClearDue(Root)
    BY <1>5 DEF RunJob, Yield
  <2> QED BY <1>1, <2>1, TreeAssumption, ClearDueRemembers
<1>6. ASSUME NEW v \in Job, LoadJob(v)
      PROVE  v = u /\ \E p \in Props[u] : Notify(u, p, loading[u])
  <2>1. PICK p \in Props[v] : Notify(v, p, loading[v])
    BY <1>6 DEF LoadJob
  <2>2. v = u
    BY <1>1, <2>1 DEF Notify
  <2> QED BY <2>1, <2>2
<1>7. ASSUME NEW v \in Job, ProcessNotification(v)
      PROVE  v = u /\ Exists(u) /\ \E p \in Props[u] : Notify(u, p, state[u])
  <2>1. CASE Exists(v)
    <3>1. PICK p \in Props[v] : Notify(v, p, state[v])
      BY <1>7, <2>1 DEF ProcessNotification
    <3>2. v = u
      BY <1>1, <3>1 DEF Notify
    <3> QED BY <2>1, <3>1, <3>2
  <2>2. CASE ~Exists(v)
    BY <1>1, <1>7, <2>2 DEF ProcessNotification, RemoveJob
  <2> QED BY <2>1, <2>2
<1>8. CASE \/ RequeueDeadJobs
           \/ \E w \in Worker : WorkerStep(w) \/ Crash(w)
           \/ \E v \in Job : Answer(v) \/ LoseRequest(v) \/ Age(v)
           \/ \E G \in Graphs : Create(G)
           \/ UserStep
  BY <1>8, QuietSteps DEF memory
<1> QED
  BY <1>2, <1>3, <1>4, <1>5, <1>6, <1>7, <1>8 DEF Happens, RunnerStep

\* What is left to load is what the rows were when the runner connected.
LEMMA LoadingOnlyLess ==
  ASSUME RunnerInv, Happens, NEW u \in Job
  PROVE  \/ loading'[u] \in {"none", loading[u]}
         \/ Connect /\ ~up /\ up' /\ loading'[u] = state[u] /\ state'[u] = state[u]
<1>1. loading \in [Job -> NotDone \cup {"none"}]
  BY DEF RunnerInv, RunnerTypeOK
<1>2. CASE Connect
  BY <1>2 DEF Connect, rows
<1>3. CASE Restart \/ Kill
  BY <1>3 DEF Restart, Kill, NoLoad
<1>4. ASSUME NEW v \in Job, LoadJob(v) PROVE loading'[u] \in {"none", loading[u]}
  BY <1>1, <1>4 DEF LoadJob
<1>5. ASSUME NEW v \in Job, ProcessNotification(v) \/ RunJob(v) PROVE loading' = loading
  BY <1>5 DEF ProcessNotification, RunJob, runner
<1>6. CASE RunJobs \/ SetJobEnqueued \/ AsyncHttpGet
  BY <1>6 DEF RunJobs, SetJobEnqueued, AsyncHttpGet, runner
<1>7. CASE \/ RequeueDeadJobs
           \/ \E w \in Worker : WorkerStep(w) \/ Crash(w)
           \/ \E v \in Job : Answer(v) \/ LoseRequest(v) \/ Age(v)
           \/ \E G \in Graphs : Create(G)
           \/ UserStep
  BY <1>7, QuietSteps DEF runner
<1> QED
  BY <1>2, <1>3, <1>4, <1>5, <1>6, <1>7 DEF Happens, RunnerStep

LEMMA WaitInvStep ==
  ASSUME RunnerInv, WaitInv, RunnerNext
  PROVE  WaitInv'
<1>1. RunnerTypeOK /\ PlaceInv /\ LoadInv /\ Happens /\ Remember
  BY DEF RunnerInv, RunnerNext
<1>2. \A u \in setBack' : state'[u] = "wait_dependencies"
  BY <1>1 DEF Remember
<1>3. ASSUME NEW u \in Job, state'[u] \in {"none", "wait_dependencies"}, u \notin setBack'
      PROVE  live'[u] = NoJob /\ loading'[u] \in {"none", "wait_dependencies"}
  <2>1. CASE ~up /\ up'
    <3>1. Connect
      BY <1>1, <2>1, QuietSteps
         DEF Happens, RunnerStep, LoadJob, ProcessNotification, RunJob, RunJobs, InLoop,
             SetJobEnqueued, AsyncHttpGet, Restart, Kill, runner
    <3>2. live[u] = NoJob /\ live' = live /\ state' = state
      BY <1>1, <2>1, <3>1 DEF LoadInv, Connect, memory, rows
    <3> QED BY <1>3, <3>1, <3>2 DEF Connect
  <2>2. CASE ~(~up /\ up')
    <3>1. state[u] \in {"none", "wait_dependencies"} /\ u \notin setBack
      <4>1. CASE state'[u] = "none"
        BY <1>1, <4>1, NoneStays DEF WaitInv
      <4>2. CASE state'[u] = "wait_dependencies"
        BY <1>1, <1>3, <2>2, <4>2 DEF Remember
      <4> QED BY <1>3, <4>1, <4>2
    <3>2. live[u] = NoJob /\ loading[u] \in {"none", "wait_dependencies"}
      BY <3>1 DEF WaitInv
    <3>3. loading'[u] \in {"none", "wait_dependencies"}
      BY <1>1, <2>2, <3>2, LoadingOnlyLess
    <3>4. live'[u] = NoJob
      <4> SUFFICES ASSUME live'[u] # NoJob PROVE FALSE
        OBVIOUS
      <4>1. CASE LoadJob(u) /\ \E p \in Props[u] : Notify(u, p, loading[u])
        <5>1. loading[u] = "wait_dependencies"
          BY <3>2, <4>1 DEF LoadJob
        <5> QED BY <1>1, <3>2, <4>1, <5>1, NotifyWaits
      <4>2. CASE ProcessNotification(u) /\ Exists(u) /\ \E p \in Props[u] : Notify(u, p, state[u])
        <5>1. state[u] = "wait_dependencies"
          BY <3>1, <4>2 DEF Exists, State
        <5> QED BY <1>1, <3>2, <4>2, <5>1, NotifyWaits
      <4> QED BY <1>1, <3>2, <4>1, <4>2, LiveOnlyNotified
    <3> QED BY <3>3, <3>4
  <2> QED BY <2>1, <2>2
<1> QED
  BY <1>2, <1>3 DEF WaitInv

\* Whatever is written, deleted or lost, and however often the runner starts anew, what
\* it remembers of a job is what the job's row says, or a notification is on its way;
\* only a job set back to waiting may hold the place it had.
THEOREM MemoryIsRight == RunnerSpec => []MemoryFollows
<1>1. RunnerInit => MemoryInv /\ WaitInv
  BY DEF RunnerInit, MemoryInv, WaitInv, Init, NoLoad, NoHand
<1>2. RunnerInv /\ MemoryInv /\ [RunnerNext]_runnerVars => MemoryInv'
  <2>1. ASSUME RunnerInv, MemoryInv, UNCHANGED runnerVars PROVE MemoryInv'
    BY <2>1 DEF runnerVars, system, memory, rows, runner, MemoryInv, Heard, Exists
  <2> QED BY <2>1, MemoryInvStep DEF RunnerNext
<1>3. RunnerInv /\ WaitInv /\ [RunnerNext]_runnerVars => WaitInv'
  <2>1. ASSUME WaitInv, UNCHANGED runnerVars PROVE WaitInv'
    BY <2>1 DEF runnerVars, system, history, memory, rows, runner, WaitInv
  <2> QED BY <2>1, WaitInvStep
<1>4. RunnerInv /\ MemoryInv /\ WaitInv => MemoryFollows
  BY MemoryIsHolding DEF RunnerInv
<1> QED
  BY <1>1, <1>2, <1>3, <1>4, RunnerInvariant, PTL DEF RunnerSpec

----------------------------------------------------------------------------
(* The effects of a job are committed once.  A worker that commits has     *)
(* found the job started since its snapshot, so that no runner holds it as *)
(* pending; and when no other worker is at the job, nothing is left that   *)
(* could make a done job pending, but a user.                              *)

\* A worker whose snapshot is good has its job started
Fresh(w) == worker[w].pc \in {"waiting", "performing"} /\ w \notin stale
              => state[worker[w].job] = "started"

\* A job that is done, that nobody is at and that no channel has queued
Over(u) ==
  /\ state[u] = "done" /\ QueuedIn(tree, u) = {} /\ loading[u] # "pending"
  /\ hand # [job |-> u, at |-> "yielded"]
  /\ \A w \in Worker : ~At(w, u)

OnceInv ==
  /\ asks \in Nat
  /\ Crossing \subseteq crossed
  /\ \A w \in Worker : Fresh(w)
  /\ hand.at = "yielded" => state[hand.job] \notin Active
  /\ \A u \in spent \ crossed : Over(u)

\* A job that is enqueued or started is in no queue, and is not about to get there.
LEMMA ActiveNotQueued ==
  ASSUME RunnerInv, MemoryInv, NEW u \in Job, state[u] \in Active
  PROVE  QueuedIn(tree, u) = {} /\ loading[u] # "pending"
<1>1. PlaceInv /\ LoadInv /\ ActiveIsCounted
  BY DEF RunnerInv
<1>2. CASE live[u] = NoJob
  <2>1. QueuedIn(tree, u) = {} /\ u \notin tree[Root].running
    BY <1>1, <1>2, RunningTree DEF NoPlace, Running
  <2>2. up => loading[u] \in Active
    BY <1>1, <2>1 DEF ActiveIsCounted, ActiveJobs
  <2>3. ~up => loading[u] = "none"
    BY DEF RunnerInv, LoadInv, MemoryInv, NoLoad
  <2> QED BY <2>1, <2>2, <2>3 DEF Active
<1>3. CASE live[u] # NoJob
  <2>1. up /\ loading[u] = "none"
    BY <1>1, <1>3 DEF LoadInv
  <2>2. Root \in RunningIn(tree, u)
    BY <1>1, <2>1, TreeAssumption DEF ActiveIsCounted, ActiveJobs, Active, RunningIn
  <2>3. RunsEverywhere(tree, live[u], u)
    BY <1>1, <2>2, RootRunsEverywhere DEF PlaceInv, OnePlace
  <2> QED BY <2>1, <2>3 DEF RunsEverywhere
<1> QED
  BY <1>2, <1>3

\* The row of a job changes, and with it the snapshots of the workers at it go stale.
LEMMA WrittenFresh ==
  ASSUME \A w \in Worker : Fresh(w), NEW S, NEW x, Written(S, x),
         \A u : u \in Job \ S => state'[u] = state[u],
         \A w \in Worker : worker[w].pc # "idle" => worker[w].job \in Job,
         \A w \in Worker \ {x} : worker'[w] = worker[w],
         x \in Worker => worker'[x].pc \notin {"waiting", "performing"}
  PROVE  \A w \in Worker : Fresh(w)'
<1> SUFFICES ASSUME NEW w \in Worker, w # x, worker[w].pc \in {"waiting", "performing"},
                    w \notin stale'
             PROVE  state'[worker[w].job] = "started"
  BY DEF Fresh
<1>1. w \notin stale /\ worker[w].job \notin S
  BY DEF Written
<1> QED
  BY <1>1 DEF Fresh

LEMMA FreshStep ==
  ASSUME RunnerInv, \A w \in Worker : Fresh(w), Happens
  PROVE  \A w \in Worker : Fresh(w)'
<1>1. /\ state \in [Job -> State \cup {"none", "gone"}]
      /\ \A w \in Worker : worker[w].pc # "idle" => worker[w].job \in Job
      /\ stale \subseteq Worker
      /\ NoWork \notin Worker
  BY GraphAssumption DEF RunnerInv, RunnerTypeOK
<1>2. DOMAIN worker = Worker
  BY DEF RunnerInv, RunnerTypeOK
<1> DEFINE Goal == \A w \in Worker : Fresh(w)'
<1>3. ASSUME UNCHANGED <<state, worker, stale>> PROVE Goal
  BY <1>3 DEF Fresh
<1>4. ASSUME NEW S, Written(S, NoWork), \A u \in Job : u \notin S => state'[u] = state[u],
             worker' = worker
      PROVE  Goal
  BY <1>1, <1>4, WrittenFresh
<1>5. ASSUME NEW w \in Worker, NEW S, Written(S, w),
             \A u \in Job : u \notin S => state'[u] = state[u],
             NEW r, worker' = [worker EXCEPT ![w] = r], r.pc \notin {"waiting", "performing"}
      PROVE  Goal
  <2>1. \A x \in Worker \ {w} : worker'[x] = worker[x]
    BY <1>5
  <2>2. worker'[w].pc \notin {"waiting", "performing"}
    BY <1>2, <1>5
  <2> QED BY <1>1, <1>5, <2>1, <2>2, WrittenFresh
<1>6. ASSUME NEW w \in Worker, state' = state, stale' = stale \ {w},
             NEW r, worker' = [worker EXCEPT ![w] = r],
             r.pc \in {"waiting", "performing"} => state[r.job] = "started"
      PROVE  Goal
  <2>1. ASSUME NEW x \in Worker, x # w PROVE Fresh(x)'
    BY <1>6, <2>1 DEF Fresh
  <2>2. Fresh(w)'
    BY <1>2, <1>6 DEF Fresh
  <2> QED BY <2>1, <2>2
<1> HIDE DEF Goal
<1>7. ASSUME Connect \/ RunJobs \/ AsyncHttpGet \/ Restart \/ Kill PROVE Goal
  BY <1>3, <1>7 DEF Connect, RunJobs, AsyncHttpGet, Restart, Kill, rows
<1>8. ASSUME NEW u \in Job, LoadJob(u) \/ ProcessNotification(u) \/ RunJob(u) PROVE Goal
  BY <1>3, <1>8 DEF LoadJob, ProcessNotification, RunJob, rows
<1>9. ASSUME RequeueDeadJobs PROVE Goal
  <2>1. Written(Dead, NoWork) /\ worker' = worker
    BY <1>9 DEF RequeueDeadJobs
  <2>2. ASSUME NEW u \in Job, u \notin Dead PROVE state'[u] = state[u]
    BY <1>9, <2>2 DEF RequeueDeadJobs
  <2> QED BY <1>4, <2>1, <2>2
<1>10. ASSUME SetJobEnqueued PROVE Goal
  <2>1. CASE Exists(hand.job)
    <3>1. Written({hand.job}, NoWork) /\ worker' = worker
          /\ state' = [state EXCEPT ![hand.job] = "enqueued"]
      BY <1>10, <2>1 DEF SetJobEnqueued
    <3>2. \A u \in Job : u \notin {hand.job} => state'[u] = state[u]
      BY <1>1, <3>1
    <3> QED BY <1>4, <3>1, <3>2
  <2>2. CASE ~Exists(hand.job)
    BY <1>3, <1>10, <2>2 DEF SetJobEnqueued
  <2> QED BY <2>1, <2>2
<1>11. ASSUME NEW w \in Worker, NEW s, NEW n, Store(w, s, n),
              NEW r, worker' = [worker EXCEPT ![w] = r], r.pc \notin {"waiting", "performing"}
       PROVE  Goal
  <2>1. \A u \in Job : u \notin {worker[w].job} => state'[u] = state[u]
    BY <1>1, <1>11 DEF Store
  <2> QED BY <1>5, <1>11, <2>1 DEF Store
<1>12. ASSUME NEW w \in Worker, NEW pc, Goes(w, pc)
       PROVE  \E r : /\ worker' = [worker EXCEPT ![w] = r] /\ r.pc = pc
                     /\ r.job = worker[w].job
  <2> DEFINE r == [worker[w] EXCEPT !.pc = pc]
  <2>1. r.pc = pc /\ r.job = worker[w].job
    BY DEF RunnerInv, RunnerTypeOK
  <2>2. worker' = [worker EXCEPT ![w] = r]
    BY <1>12 DEF Goes
  <2> HIDE DEF r
  <2> QED BY <2>1, <2>2
<1>13. ASSUME NEW w \in Worker, Done(w) \/ Fail(w) PROVE Goal
  <2>1. PICK pc \in {"done", "leaving"} : Goes(w, pc)
    BY <1>13 DEF Done, Fail
  <2>2. PICK r : worker' = [worker EXCEPT ![w] = r] /\ r.pc = pc
    BY <1>12, <2>1
  <2> QED BY <1>11, <1>13, <2>2 DEF Done, Fail
<1>14. ASSUME NEW w \in Worker, Postpone(w) PROVE Goal
  <2>1. CASE Goes(w, "leaving")
    <3>1. PICK r : worker' = [worker EXCEPT ![w] = r] /\ r.pc = "leaving"
      BY <1>12, <2>1
    <3> QED BY <1>11, <1>14, <3>1 DEF Postpone
  <2>2. CASE worker' = [worker EXCEPT ![w] = IdleWorker]
    BY <1>11, <1>14, <2>2 DEF Postpone, IdleWorker
  <2> QED BY <1>14, <2>1, <2>2 DEF Postpone
<1>15. ASSUME NEW w \in Worker, EnqueueDependentJobs(w) PROVE Goal
  <2> DEFINE S == Resolved(state, worker[w].job, "done")
  <2>1. Written(S, w) /\ worker' = [worker EXCEPT ![w] = IdleWorker]
        /\ state' = [v \in Job |-> IF v \in S THEN "pending" ELSE state[v]]
    BY <1>15 DEF EnqueueDependentJobs
  <2> HIDE DEF S
  <2>2. \A u \in Job : u \notin S => state'[u] = state[u]
    BY <2>1
  <2> QED BY <1>5, <2>1, <2>2 DEF IdleWorker
<1>16. ASSUME NEW w \in Worker, Leave(w) \/ Crash(w) PROVE Goal
  BY <1>6, <1>16 DEF Leave, Crash, IdleWorker, rows
<1>17. ASSUME NEW w \in Worker, Conflict(w) PROVE Goal
  <2>1. PICK r : worker' = [worker EXCEPT ![w] = r] /\ r.pc = "aborted"
    BY <1>12, <1>17 DEF Conflict
  <2> QED BY <1>6, <1>17, <2>1 DEF Conflict, rows
<1>18. ASSUME NEW w \in Worker, Lock(w) PROVE Goal
  <2> DEFINE ok == state[worker[w].job] = "started" /\ worker[w].job \in lockable
  <2>1. Goes(w, IF ok THEN "waiting" ELSE "aborted") /\ state' = state /\ stale' = stale \ {w}
    BY <1>18 DEF Lock, rows
  <2>2. PICK r : /\ worker' = [worker EXCEPT ![w] = r]
                 /\ r.pc = IF ok THEN "waiting" ELSE "aborted"
                 /\ r.job = worker[w].job
    BY <1>12, <2>1
  <2> QED BY <1>6, <2>1, <2>2
<1>19. ASSUME NEW w \in Worker, Perform(w) PROVE Goal
  <2>1. /\ worker' = [worker EXCEPT ![w].pc = "performing", ![w].retry = @ + 1]
        /\ worker[w].pc = "waiting" /\ state' = state /\ stale' = stale
    BY <1>19 DEF Perform, rows
  <2>2. \A x \in Worker : /\ worker'[x].job = worker[x].job
                          /\ x # w => worker'[x] = worker[x]
    BY <2>1 DEF RunnerInv, RunnerTypeOK
  <2> QED BY <2>1, <2>2 DEF Fresh, Goal
<1>20. ASSUME NEW u \in Job, NEW w \in Worker, Start(w, u) PROVE Goal
  <2>1. /\ worker' = [worker EXCEPT ![w] = Loaded(u)] /\ Written({u}, w)
        /\ state' = [state EXCEPT ![u] = "started"]
    BY <1>20 DEF Start
  <2>2. Loaded(u).pc = "started"
    BY DEF Loaded
  <2>3. \A v \in Job : v \notin {u} => state'[v] = state[v]
    BY <1>1, <2>1
  <2> QED BY <1>5, <2>1, <2>2, <2>3
<1>21. ASSUME NEW u \in Job, Refuse(u) \/ LoseRequest(u) \/ Age(u) PROVE Goal
  BY <1>3, <1>21 DEF Refuse, LoseRequest, Age, rows
<1>22. ASSUME NEW G \in Graphs, Create(G) PROVE Goal
  <2>1. Written(G, NoWork) /\ worker' = worker
    BY <1>22 DEF Create
  <2>2. ASSUME NEW u \in Job, u \notin G PROVE state'[u] = state[u]
    BY <1>22, <2>2 DEF Create
  <2> QED BY <1>4, <2>1, <2>2
<1>23. ASSUME NEW u \in Job, Requeue(u) PROVE Goal
  <2>1. Written({u}, NoWork) /\ worker' = worker
    BY <1>23 DEF Requeue
  <2>2. ASSUME NEW v \in Job, v \notin {u} PROVE state'[v] = state[v]
    BY <1>1, <1>23, <2>2 DEF Requeue
  <2> QED BY <1>4, <2>1, <2>2
<1>24. ASSUME NEW u \in Job, NEW s, NEW t, Decide(u, s, t) PROVE Goal
  <2> DEFINE S == Resolved([state EXCEPT ![u] = s], u, s)
  <2>1. /\ Written({u} \cup S, NoWork) /\ worker' = worker
        /\ state' = [v \in Job |-> IF v \in S THEN t ELSE [state EXCEPT ![u] = s][v]]
    BY <1>24 DEF Decide
  <2> HIDE DEF S
  <2>2. \A v \in Job : v \notin {u} \cup S => state'[v] = state[v]
    BY <1>1, <2>1
  <2> QED BY <1>4, <2>1, <2>2
<1>25. ASSUME NEW u \in Job, Autovacuum(u) PROVE Goal
  <2>1. /\ state' = [state EXCEPT ![u] = "gone"] /\ worker' = worker
        /\ \A w \in Worker : worker[w].job # u
    BY <1>25 DEF Autovacuum
  <2>2. CASE state[u] # "done"
    <3>1. Written({u}, NoWork)
      BY <1>25, <2>2 DEF Autovacuum
    <3>2. \A v \in Job : v \notin {u} => state'[v] = state[v]
      BY <1>1, <2>1
    <3> QED BY <1>4, <2>1, <3>1, <3>2
  <2>3. CASE state[u] = "done"
    <3>1. stale' = stale
      BY <1>25, <2>3 DEF Autovacuum
    <3> QED BY <1>1, <2>1, <3>1 DEF Fresh, Goal
  <2> QED BY <2>2, <2>3
<1>26. ASSUME UserStep PROVE Goal
  BY <1>23, <1>24, <1>25, <1>26 DEF UserStep, Cancel, SetDone
<1>27. ASSUME NEW w \in Worker, WorkerStep(w) \/ Crash(w) PROVE Goal
  BY <1>13, <1>14, <1>15, <1>16, <1>17, <1>18, <1>19, <1>27 DEF WorkerStep
<1>28. ASSUME NEW u \in Job, Answer(u) \/ LoseRequest(u) \/ Age(u) PROVE Goal
  BY <1>20, <1>21, <1>28 DEF Answer
<1>29. Goal
  BY <1>7, <1>8, <1>9, <1>10, <1>22, <1>26, <1>27, <1>28 DEF Happens, RunnerStep
<1> QED
  BY <1>29 DEF Goal

\* The runner holds a job in its hand that no worker was sent.
LEMMA HandStep ==
  ASSUME RunnerInv, MemoryInv, Happens,
         hand.at = "yielded" => state[hand.job] \notin Active,
         hand'.at = "yielded"
  PROVE  state'[hand'.job] \notin Active
<1>1. state \in [Job -> State \cup {"none", "gone"}] /\ hand.at \in {"none", "yielded", "enqueued"}
  BY DEF RunnerInv, RunnerTypeOK
<1>2. ASSUME UNCHANGED <<state, hand>> PROVE state'[hand'.job] \notin Active
  BY <1>2
<1>3. CASE Connect \/ RunJobs
  BY <1>2, <1>3 DEF Connect, RunJobs, rows, runner
<1>4. ASSUME NEW u \in Job, LoadJob(u) \/ ProcessNotification(u)
      PROVE  state'[hand'.job] \notin Active
  BY <1>2, <1>4 DEF LoadJob, ProcessNotification, rows, runner
<1>5. CASE SetJobEnqueued \/ AsyncHttpGet \/ Restart \/ Kill
  <2>1. CASE SetJobEnqueued
    <3>1. hand' = [hand EXCEPT !.at = "enqueued"]
      BY <2>1 DEF SetJobEnqueued
    <3>2. hand'.at = "enqueued"
      BY <3>1 DEF RunnerInv, RunnerTypeOK
    <3> QED BY <3>2
  <2>2. CASE AsyncHttpGet \/ Restart \/ Kill
    BY <2>2 DEF AsyncHttpGet, Restart, Kill, NoHand
  <2> QED BY <1>5, <2>1, <2>2
<1>6. ASSUME NEW u \in Job, RunJob(u) PROVE state'[hand'.job] \notin Active
  <2>1. /\ hand' = [job |-> u, at |-> "yielded"] /\ state' = state
        /\ u \in tree[Root].queue
    BY <1>6 DEF RunJob, rows, Yield, First, Ready
  <2>2. QueuedIn(tree, u) # {}
    BY <2>1, TreeAssumption DEF QueuedIn
  <2> QED BY <2>1, <2>2, ActiveNotQueued
<1>7. CASE \/ RequeueDeadJobs
           \/ \E w \in Worker : WorkerStep(w) \/ Crash(w)
           \/ \E u \in Job : Answer(u) \/ LoseRequest(u) \/ Age(u)
           \/ \E G \in Graphs : Create(G)
           \/ UserStep
  <2>1. hand' = hand /\ ActiveJobs' \subseteq ActiveJobs
    BY <1>7, QuietSteps DEF runner
  <2>2. hand.job \in Job
    BY <2>1, HandInTree
  <2> QED BY <2>1, <2>2 DEF ActiveJobs
<1> QED
  BY <1>3, <1>4, <1>5, <1>6, <1>7 DEF Happens, RunnerStep

\* A job that is in no queue is put there by notify() only, and as pending.
LEMMA StaysUnqueued ==
  ASSUME RunnerInv, Happens, NEW u \in Job, QueuedIn(tree, u) = {}, loading[u] # "pending",
         state[u] # "pending"
  PROVE  /\ QueuedIn(tree', u) = {}
         /\ hand' = [job |-> u, at |-> "yielded"] => hand = hand'
<1>1. PlaceInv
  BY DEF RunnerInv
<1>2. ASSUME UNCHANGED <<tree, hand>>
      PROVE  /\ QueuedIn(tree', u) = {}
             /\ hand' = [job |-> u, at |-> "yielded"] => hand = hand'
  BY <1>2
<1>3. CASE Connect
  BY <1>2, <1>3 DEF Connect, memory
<1>4. CASE SetJobEnqueued \/ AsyncHttpGet
  <2>1. tree' = tree
    BY <1>4 DEF SetJobEnqueued, AsyncHttpGet, memory
  <2>2. hand'.at # "yielded"
    BY <1>4 DEF SetJobEnqueued, AsyncHttpGet, NoHand, RunnerInv, RunnerTypeOK
  <2> QED BY <2>1, <2>2
<1>5. CASE Restart \/ Kill
  <2>1. \A c \in Channel : tree'[c].queue \subseteq tree[c].queue
    BY <1>5 DEF Restart, Kill, RemoveDb, Renew, Empty
  <2>2. hand' = NoHand
    BY <1>5 DEF Restart, Kill
  <2> QED BY <2>1, <2>2 DEF QueuedIn, NoHand
\* What a channel yields was in its queue.
<1>6. ASSUME NEW c \in Channel, NEW v \in Job, Yield(c, v)
      PROVE  v # u /\ QueuedIn(tree', u) = {}
  <2>1. v \in tree[c].queue
    BY <1>6 DEF Yield, First, Ready
  <2>2. v # u
    BY <2>1 DEF QueuedIn
  <2>3. SamePlace(tree', tree, u)
    BY <1>1, <1>6, <2>2, YieldHolds
  <2> QED BY <2>2, <2>3 DEF SamePlace
<1>7. ASSUME NEW v \in Job, RunJob(v)
      PROVE  /\ QueuedIn(tree', u) = {}
             /\ hand' = [job |-> u, at |-> "yielded"] => hand = hand'
  BY <1>6, <1>7, TreeAssumption DEF RunJob
<1>8. CASE RunJobs
  <2>1. hand' = hand
    BY <1>8 DEF RunJobs, runner
  <2>2. CASE tree' = tree
    BY <2>1, <2>2
  <2>3. ASSUME NEW c \in Channel \ {Root}, NEW v \in Job, Yield(c, v)
        PROVE  QueuedIn(tree', u) = {}
    BY <1>6, <2>3
  <2> QED BY <1>8, <2>1, <2>2, <2>3 DEF RunJobs, BeginRun, Open, Exhaust, Pause, EndRun
<1>9. ASSUME NEW v \in Job, NEW p \in Props[v], NEW s \in State, Notify(v, p, s),
             v = u => s # "pending"
      PROVE  QueuedIn(tree', u) = {}
  <2>1. CASE v # u
    <3>1. SamePlace(tree', tree, u)
      BY <1>1, <1>9, <2>1, NotifyHolds
    <3> QED BY <3>1 DEF SamePlace
  <2>2. CASE v = u
    <3> DEFINE t == IF live[u] = p THEN tree ELSE Forgotten(u)
    <3>1. /\ tree' = Placed(t, u, p.channel, s) /\ t \in Trees /\ s # "pending"
          /\ p.channel \in Channel
      BY <1>1, <1>9, <2>2, ForgottenPlaces, JobAssumption DEF Notify, JobProps, PlaceInv
    <3>2. QueuedIn(t, u) = {}
      BY <1>1 DEF Forgotten, Remove, Drop, QueuedIn, PlaceInv, Trees
    <3> HIDE DEF t
    <3>3. \A c \in Channel : tree'[c].queue \subseteq t[c].queue \/ u \notin tree'[c].queue
      BY <3>1 DEF Placed, State, SetRunning, SetFailed, Remove, Drop, Trees
    <3> QED BY <3>2, <3>3 DEF QueuedIn
  <2> QED BY <2>1, <2>2
<1>10. ASSUME NEW v \in Job, LoadJob(v) PROVE QueuedIn(tree', u) = {} /\ hand' = hand
  <2>1. loading[v] \in State /\ hand' = hand
    BY <1>10 DEF LoadJob, RunnerInv, RunnerTypeOK, NotDone, State
  <2> QED BY <1>9, <1>10, <2>1 DEF LoadJob
<1>11. ASSUME NEW v \in Job, ProcessNotification(v)
       PROVE  QueuedIn(tree', u) = {} /\ hand' = hand
  <2>1. hand' = hand
    BY <1>11 DEF ProcessNotification, runner
  <2>2. CASE Exists(v)
    BY <1>9, <1>11, <2>1, <2>2 DEF ProcessNotification, Exists
  <2>3. CASE ~Exists(v)
    <3>1. \A c \in Channel : tree'[c].queue \subseteq tree[c].queue
      BY <1>1, <1>11, <2>3
         DEF ProcessNotification, RemoveJob, Forgotten, Remove, Drop, PlaceInv, Trees
    <3> QED BY <2>1, <3>1 DEF QueuedIn
  <2> QED BY <2>2, <2>3
<1>12. CASE \/ RequeueDeadJobs
            \/ \E w \in Worker : WorkerStep(w) \/ Crash(w)
            \/ \E v \in Job : Answer(v) \/ LoseRequest(v) \/ Age(v)
            \/ \E G \in Graphs : Create(G)
            \/ UserStep
  BY <1>2, <1>12, QuietSteps DEF memory, runner
<1> QED
  BY <1>3, <1>4, <1>5, <1>7, <1>8, <1>10, <1>11, <1>12 DEF Happens, RunnerStep

\* Nobody is at a job that is not enqueued, if nobody was.
LEMMA NobodyComes ==
  ASSUME RunnerInv, Happens, NEW u \in Job, state[u] # "enqueued", \A w \in Worker : ~At(w, u)
  PROVE  \A w \in Worker : ~At(w, u)'
<1> DEFINE Goal == \A w \in Worker : ~At(w, u)'
<1>1. DOMAIN worker = Worker
  BY DEF RunnerInv, RunnerTypeOK
<1>2. ASSUME worker' = worker PROVE Goal
  BY <1>2 DEF At
<1>3. ASSUME NEW w \in Worker, NEW r, worker' = [worker EXCEPT ![w] = r],
             r.job = u => r.pc \notin {"started", "waiting", "performing", "aborted"}
      PROVE  Goal
  <2>1. worker'[w] = r /\ \A x \in Worker \ {w} : worker'[x] = worker[x]
    BY <1>1, <1>3
  <2> QED BY <1>3, <2>1 DEF At
<1>4. ASSUME NEW w \in Worker, NEW pc, Goes(w, pc),
             worker[w].pc \in {"started", "waiting", "performing", "aborted"}
      PROVE  Goal
  <2> DEFINE r == [worker[w] EXCEPT !.pc = pc]
  <2>1. r.job = worker[w].job /\ worker[w].job # u
    BY <1>4 DEF RunnerInv, RunnerTypeOK, At
  <2>2. worker' = [worker EXCEPT ![w] = r]
    BY <1>4 DEF Goes
  <2> HIDE DEF r
  <2> QED BY <1>3, <2>1, <2>2
<1>5. ASSUME NEW w \in Worker, worker' = [worker EXCEPT ![w] = IdleWorker] PROVE Goal
  BY <1>3, <1>5 DEF IdleWorker
<1> HIDE DEF Goal
<1>6. ASSUME RunnerStep \/ Restart \/ Kill PROVE Goal
  BY <1>2, <1>6 DEF RunnerStep, Connect, RequeueDeadJobs, RunJobs, SetJobEnqueued, AsyncHttpGet,
                    LoadJob, ProcessNotification, RunJob, Restart, Kill
<1>7. ASSUME NEW w \in Worker, Lock(w) \/ Conflict(w) \/ Done(w) \/ Fail(w) PROVE Goal
  BY <1>4, <1>7 DEF Lock, Conflict, Done, Fail
<1>8. ASSUME NEW w \in Worker, Postpone(w) PROVE Goal
  BY <1>4, <1>5, <1>8 DEF Postpone
<1>9. ASSUME NEW w \in Worker, Leave(w) \/ EnqueueDependentJobs(w) \/ Crash(w) PROVE Goal
  BY <1>5, <1>9 DEF Leave, EnqueueDependentJobs, Crash
<1>10. ASSUME NEW w \in Worker, Perform(w) PROVE Goal
  <2>1. /\ worker' = [worker EXCEPT ![w].pc = "performing", ![w].retry = @ + 1]
        /\ worker[w].pc = "waiting"
    BY <1>10 DEF Perform
  <2>2. worker[w].job # u
    BY <2>1 DEF At
  <2>3. \A x \in Worker : worker'[x].job = worker[x].job /\ (x # w => worker'[x] = worker[x])
    BY <2>1 DEF RunnerInv, RunnerTypeOK
  <2> QED BY <2>2, <2>3 DEF At, Goal
<1>11. ASSUME NEW v \in Job, NEW w \in Worker, Start(w, v) PROVE Goal
  <2>1. v # u /\ Loaded(v).job = v /\ worker' = [worker EXCEPT ![w] = Loaded(v)]
    BY <1>11 DEF Start, Loaded
  <2> QED BY <1>3, <2>1
<1>12. ASSUME NEW v \in Job, Refuse(v) \/ LoseRequest(v) \/ Age(v) PROVE Goal
  BY <1>2, <1>12 DEF Refuse, LoseRequest, Age
<1>13. ASSUME \/ \E G \in Graphs : Create(G)
              \/ UserStep
       PROVE  Goal
  BY <1>2, <1>13 DEF Create, UserStep, Requeue, Cancel, SetDone, Decide, Autovacuum
<1>14. ASSUME NEW w \in Worker, WorkerStep(w) \/ Crash(w) PROVE Goal
  BY <1>7, <1>8, <1>9, <1>10, <1>14 DEF WorkerStep
<1>15. ASSUME NEW v \in Job, Answer(v) \/ LoseRequest(v) \/ Age(v) PROVE Goal
  BY <1>11, <1>12, <1>15 DEF Answer
<1>16. Goal
  BY <1>6, <1>13, <1>14, <1>15 DEF Happens
<1> QED
  BY <1>16 DEF Goal

\* Nobody but a user does anything with a job that is done, but to delete it.
LEMMA StaysDone ==
  ASSUME RunnerInv, Happens, asks \in Nat, NEW u \in Job, state[u] = "done",
         hand # [job |-> u, at |-> "yielded"], \A w \in Worker : ~At(w, u)
  PROVE  \/ state'[u] \in {"done", "gone"}
         \/ asks' # asks /\ state'[u] # state[u]
<1> DEFINE Goal == \/ state'[u] \in {"done", "gone"}
                   \/ asks' # asks /\ state'[u] # state[u]
<1>1. state \in [Job -> State \cup {"none", "gone"}]
  BY DEF RunnerInv, RunnerTypeOK
<1>2. ASSUME state'[u] = state[u] PROVE Goal
  BY <1>2
<1> HIDE DEF Goal
<1>3. ASSUME Connect \/ RunJobs \/ AsyncHttpGet \/ Restart \/ Kill PROVE Goal
  BY <1>2, <1>3 DEF Connect, RunJobs, AsyncHttpGet, Restart, Kill, rows
<1>4. ASSUME NEW v \in Job, LoadJob(v) \/ ProcessNotification(v) \/ RunJob(v) PROVE Goal
  BY <1>2, <1>4 DEF LoadJob, ProcessNotification, RunJob, rows
<1>5. ASSUME RequeueDeadJobs PROVE Goal
  <2>1. u \notin Dead
    BY DEF Dead, Active
  <2> QED BY <1>2, <1>5, <2>1 DEF RequeueDeadJobs
<1>6. ASSUME SetJobEnqueued PROVE Goal
  <2>1. hand.at = "yielded" /\ hand = [job |-> hand.job, at |-> hand.at]
    BY <1>6 DEF SetJobEnqueued, RunnerInv, RunnerTypeOK
  <2>2. hand.job # u
    BY <2>1
  <2>3. state' = state \/ state' = [state EXCEPT ![hand.job] = "enqueued"]
    BY <1>6 DEF SetJobEnqueued
  <2> QED BY <1>1, <1>2, <2>2, <2>3
<1>7. ASSUME NEW w \in Worker, Done(w) \/ Fail(w) \/ Postpone(w) PROVE Goal
  <2>1. worker[w].job # u
    BY <1>7 DEF Done, Fail, Postpone, At
  <2>2. \E s : state' = [state EXCEPT ![worker[w].job] = s]
    BY <1>7 DEF Done, Fail, Postpone, Store
  <2> QED BY <1>1, <1>2, <2>1, <2>2
<1>8. ASSUME NEW w \in Worker, EnqueueDependentJobs(w) PROVE Goal
  <2>1. u \notin Resolved(state, worker[w].job, "done")
    BY DEF Resolved
  <2> QED BY <1>2, <1>8, <2>1 DEF EnqueueDependentJobs
<1>9. ASSUME NEW w \in Worker, Lock(w) \/ Perform(w) \/ Conflict(w) \/ Leave(w) \/ Crash(w)
      PROVE  Goal
  BY <1>2, <1>9 DEF Lock, Perform, Conflict, Leave, Crash, rows
<1>10. ASSUME NEW v \in Job, Answer(v) \/ LoseRequest(v) \/ Age(v) PROVE Goal
  BY <1>1, <1>2, <1>10 DEF Answer, Refuse, Start, LoseRequest, Age, rows
<1>11. ASSUME NEW G \in Graphs, Create(G) PROVE Goal
  BY <1>1, <1>2, <1>11 DEF Create
<1>12. ASSUME NEW v \in Job, Requeue(v) \/ Cancel(v) \/ SetDone(v) PROVE Goal
  <2>1. asks' # asks
    BY <1>12 DEF Requeue, Cancel, SetDone, Decide, Ask
  <2> QED BY <1>2, <2>1 DEF Goal
<1>13. ASSUME NEW v \in Job, Autovacuum(v) PROVE Goal
  BY <1>1, <1>13 DEF Autovacuum, Goal
<1>14. Goal
  BY <1>3, <1>4, <1>5, <1>6, <1>7, <1>8, <1>9, <1>10, <1>11, <1>12, <1>13
     DEF Happens, RunnerStep, WorkerStep, UserStep
<1> QED
  BY <1>14 DEF Goal

LEMMA AsksStep ==
  ASSUME Happens, asks \in Nat
  PROVE  asks' \in Nat
<1>1. ASSUME UNCHANGED asks PROVE asks' \in Nat
  BY <1>1
<1>2. CASE RunnerStep \/ Restart \/ Kill
  BY <1>1, <1>2 DEF RunnerStep, Connect, RequeueDeadJobs, RunJobs, SetJobEnqueued, AsyncHttpGet,
                    LoadJob, ProcessNotification, RunJob, Restart, Kill, budget
<1>3. ASSUME NEW w \in Worker, WorkerStep(w) \/ Crash(w) PROVE asks' \in Nat
  BY <1>1, <1>3 DEF WorkerStep, Lock, Perform, Done, Conflict, Postpone, Fail, Leave,
                    EnqueueDependentJobs, Crash, budget
<1>4. ASSUME NEW u \in Job, Answer(u) \/ LoseRequest(u) \/ Age(u) PROVE asks' \in Nat
  BY <1>1, <1>4 DEF Answer, Refuse, Start, LoseRequest, Age, budget
<1>5. ASSUME NEW G \in Graphs, Create(G) PROVE asks' \in Nat
  BY <1>1, <1>5 DEF Create, budget
<1>6. ASSUME NEW u \in Job, Requeue(u) \/ Cancel(u) \/ SetDone(u) \/ Autovacuum(u)
      PROVE  asks' \in Nat
  BY <1>6 DEF Requeue, Cancel, SetDone, Decide, Autovacuum, Ask, budget
<1> QED
  BY <1>2, <1>3, <1>4, <1>5, <1>6 DEF Happens, UserStep

\* A worker that performs goes on to "done" only by committing the job.
LEMMA OnlyDone ==
  ASSUME RunnerInv, Happens, NEW w \in Worker, worker[w].pc = "performing",
         worker'[w].pc = "done"
  PROVE  Done(w)
<1>1. DOMAIN worker = Worker
  BY DEF RunnerInv, RunnerTypeOK
<1>2. ASSUME worker' = worker PROVE FALSE
  BY <1>2
<1>3. ASSUME NEW x \in Worker, NEW r, worker' = [worker EXCEPT ![x] = r], r.pc # "done"
      PROVE  FALSE
  BY <1>1, <1>3
<1>4. ASSUME NEW x \in Worker, NEW pc, Goes(x, pc) PROVE x = w /\ pc = "done"
  BY <1>4 DEF Goes, RunnerInv, RunnerTypeOK
<1>5. ASSUME RunnerStep \/ Restart \/ Kill PROVE FALSE
  BY <1>2, <1>5 DEF RunnerStep, Connect, RequeueDeadJobs, RunJobs, SetJobEnqueued, AsyncHttpGet,
                    LoadJob, ProcessNotification, RunJob, Restart, Kill
<1>6. ASSUME NEW x \in Worker, Lock(x) \/ Conflict(x) \/ Fail(x) PROVE FALSE
  BY <1>4, <1>6 DEF Lock, Conflict, Fail
<1>7. ASSUME NEW x \in Worker, Done(x) PROVE Done(w)
  BY <1>4, <1>7 DEF Done
<1>8. ASSUME NEW x \in Worker,
             Leave(x) \/ EnqueueDependentJobs(x) \/ Crash(x) \/ Postpone(x)
      PROVE  FALSE
  <2>1. CASE worker' = [worker EXCEPT ![x] = IdleWorker]
    BY <1>3, <2>1 DEF IdleWorker
  <2>2. CASE Goes(x, "leaving")
    BY <1>4, <2>2
  <2> QED BY <1>8, <2>1, <2>2 DEF Leave, EnqueueDependentJobs, Crash, Postpone
<1>9. ASSUME NEW x \in Worker, Perform(x) PROVE FALSE
  BY <1>9 DEF Perform, RunnerInv, RunnerTypeOK
<1>10. ASSUME NEW v \in Job, NEW x \in Worker, Start(x, v) PROVE FALSE
  <2>1. Loaded(v).pc = "started" /\ worker' = [worker EXCEPT ![x] = Loaded(v)]
    BY <1>10 DEF Start, Loaded
  <2> QED BY <1>3, <2>1
<1>11. ASSUME NEW v \in Job, Refuse(v) \/ LoseRequest(v) \/ Age(v) PROVE FALSE
  BY <1>2, <1>11 DEF Refuse, LoseRequest, Age
<1>12. ASSUME \/ \E G \in Graphs : Create(G)
              \/ UserStep
       PROVE  FALSE
  BY <1>2, <1>12 DEF Create, UserStep, Requeue, Cancel, SetDone, Decide, Autovacuum
<1>13. CASE \E x \in Worker : WorkerStep(x) \/ Crash(x)
  BY <1>6, <1>7, <1>8, <1>9, <1>13 DEF WorkerStep
<1> QED
  BY <1>5, <1>10, <1>11, <1>12, <1>13 DEF Happens, Answer

LEMMA OnceInvStep ==
  ASSUME RunnerInv, MemoryInv, OnceInv, RunnerNext
  PROVE  OnceInv'
<1>1. Happens /\ Remember /\ asks \in Nat
  BY DEF RunnerNext, OnceInv
<1>2. Crossing' \subseteq crossed'
  BY <1>1 DEF Remember
<1>3. \A w \in Worker : Fresh(w)'
  BY <1>1, FreshStep DEF OnceInv
<1>4. hand'.at = "yielded" => state'[hand'.job] \notin Active
  BY <1>1, HandStep DEF OnceInv
<1>5. ASSUME NEW u \in spent' \ crossed' PROVE Over(u)'
  <2>1. /\ u \in Job \ crossed /\ u \notin Crossing
        /\ state'[u] # "gone" /\ ~(asks' # asks /\ state'[u] # state[u])
        /\ \/ u \in spent
           \/ \E w \in Worker : /\ worker[w].job = u /\ worker[w].pc = "performing"
                                /\ worker'[w].pc = "done"
    BY <1>1, <1>5 DEF Remember, OnceInv
  <2>2. CASE u \in spent
    <3>1. Over(u)
      BY <2>1, <2>2 DEF OnceInv
    <3>2. state'[u] = "done"
      BY <1>1, <2>1, <3>1, StaysDone DEF Over
    <3>3. \A w \in Worker : ~At(w, u)'
      BY <1>1, <2>1, <3>1, NobodyComes DEF Over
    <3>4. QueuedIn(tree', u) = {} /\ hand' # [job |-> u, at |-> "yielded"]
      BY <1>1, <2>1, <3>1, StaysUnqueued DEF Over
    <3>5. loading'[u] # "pending"
      BY <1>1, <2>1, <3>1, LoadingOnlyLess DEF Over
    <3> QED BY <3>2, <3>3, <3>4, <3>5 DEF Over
  <2>3. ASSUME NEW w \in Worker, worker[w].job = u, worker[w].pc = "performing",
               worker'[w].pc = "done"
        PROVE  Over(u)'
    <3>1. Done(w)
      BY <1>1, <2>3, OnlyDone
    <3>2. w \notin stale /\ state[u] = "started"
      BY <2>3, <3>1 DEF Done, OnceInv, Fresh
    <3>3. QueuedIn(tree, u) = {} /\ loading[u] # "pending"
      BY <2>1, <3>2, ActiveNotQueued DEF Active
    <3>4. hand # [job |-> u, at |-> "yielded"]
      BY <3>2 DEF OnceInv, Active
    <3>5. UNCHANGED <<tree, loading, hand>>
      BY <3>1 DEF Done, memory, runner
    <3>6. state'[u] = "done"
      BY <2>1, <2>3, <3>1 DEF Done, Store, RunnerInv, RunnerTypeOK
    <3>7. ASSUME NEW x \in Worker PROVE ~At(x, u)'
      <4>1. CASE x = w
        BY <2>3, <4>1 DEF At
      <4>2. CASE x # w
        <5>1. ~At(x, u)
          BY <2>1, <2>3, <4>2 DEF Crossing, At
        <5>2. worker'[x] = worker[x]
          BY <3>1, <4>2 DEF Done, Goes, RunnerInv, RunnerTypeOK
        <5> QED BY <5>1, <5>2 DEF At
      <4> QED BY <4>1, <4>2
    <3> QED BY <3>3, <3>4, <3>5, <3>6, <3>7 DEF Over
  <2> QED BY <2>1, <2>2, <2>3
<1>6. asks' \in Nat
  BY <1>1, AsksStep
<1> QED
  BY <1>2, <1>3, <1>4, <1>5, <1>6 DEF OnceInv

\* A job's effects are committed once, whatever crashes, restarts, lost or late requests
\* there are, unless a user asks for it again or two workers were at it at a time.
THEOREM CommittedOnce == RunnerSpec => DoneOnce
<1>1. RunnerInit => MemoryInv /\ OnceInv
  <2>1. ASSUME RunnerInit PROVE MemoryInv
    BY <2>1 DEF RunnerInit, MemoryInv, NoLoad, NoHand
  <2>2. ASSUME RunnerInit PROVE OnceInv
    <3>1. Crossing = {}
      BY <2>2 DEF RunnerInit, Crossing, At, IdleWorker
    <3>2. \A w \in Worker : Fresh(w)
      BY <2>2 DEF RunnerInit, Fresh, IdleWorker
    <3> QED BY <2>2, <3>1, <3>2 DEF RunnerInit, OnceInv, NoHand
  <2> QED BY <2>1, <2>2
<1>2. RunnerInv /\ MemoryInv /\ [RunnerNext]_runnerVars => MemoryInv'
  <2>1. ASSUME RunnerInv, MemoryInv, UNCHANGED runnerVars PROVE MemoryInv'
    BY <2>1 DEF runnerVars, system, memory, rows, runner, MemoryInv, Heard, Exists
  <2> QED BY <2>1, MemoryInvStep DEF RunnerNext
<1>3. RunnerInv /\ MemoryInv /\ OnceInv /\ [RunnerNext]_runnerVars => OnceInv'
  <2>1. ASSUME OnceInv, UNCHANGED runnerVars PROVE OnceInv'
    BY <2>1 DEF runnerVars, system, history, memory, rows, runner, budget, OnceInv, Fresh, Over,
                At, Crossing
  <2> QED BY <2>1, OnceInvStep
<1>4. OnceInv /\ [RunnerNext]_runnerVars
        => \A w \in Worker : Done(w) => worker[w].job \notin spent \ crossed
  BY DEF OnceInv, Over, Done, At
<1> QED
  BY <1>1, <1>2, <1>3, <1>4, RunnerInvariant, PTL DEF RunnerSpec, DoneOnce
============================================================================
