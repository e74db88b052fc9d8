--------------------------- MODULE PriorityQueue ---------------------------
(***************************************************************************)
(* The lazy-deletion heap of queue_job/jobrunner/channels.py.  remove()    *)
(* only notes the object in _removed; the object leaves the heap when a    *)
(* pop or a peek finds it at the head.  A removed object may be added      *)
(* again before that, and is then simply un-removed.                       *)
(*                                                                         *)
(* The array that heapq keeps is abstracted to the number of copies of     *)
(* each object in it: heapq returns one of the smallest, and which of two  *)
(* equal objects is left open.  Each turn of the while loops of pop() and  *)
(* __getitem__() is one step.                                              *)
(***************************************************************************)
EXTENDS Naturals, FiniteSets

CONSTANTS Obj,    \* the objects a caller may queue
          Rank,   \* their place in the sorting order, smallest first
          NoObj   \* None

ASSUME ObjAssumption  == NoObj \notin Obj
ASSUME RankAssumption == Rank \in [Obj -> Nat]

VARIABLES heap,     \* _heap: how many times each object is in it
          known,    \* _known: the objects in the heap, removed or not
          removed,  \* _removed: those of them that have been removed
          call,     \* the call in progress: "none", "pop" or "peek"
          result,   \* what the last pop or peek returned
          change    \* history: the last add or remove that was called

vars == <<heap, known, removed, call, result, change>>

Contains(o) == o \in known /\ o \notin removed

\* __len__, whose zero is what makes the queue false in a condition
Length == Cardinality(known) - Cardinality(removed)

InHeap == {o \in Obj : heap[o] > 0}
Head   == {o \in InHeap : \A p \in InHeap : Rank[o] <= Rank[p]}

Init ==
  /\ heap = [o \in Obj |-> 0]
  /\ known = {}
  /\ removed = {}
  /\ call = "none"
  /\ result = NoObj
  /\ change = [op |-> "none", obj |-> NoObj]

----------------------------------------------------------------------------
\* Mutants of add(): the removal stays, or a removed object is pushed again
AddKeepsRemoval(o) ==
  /\ call = "none"
  /\ known' = known \cup {o}
  /\ heap' = IF o \in known THEN heap ELSE [heap EXCEPT ![o] = @ + 1]
  /\ change' = [op |-> "add", obj |-> o]
  /\ UNCHANGED <<removed, call, result>>

AddPushesAgain(o) ==
  /\ call = "none"
  /\ removed' = removed \ {o}
  /\ known' = known \cup {o}
  /\ heap' = IF o \in known /\ o \notin removed
             THEN heap ELSE [heap EXCEPT ![o] = @ + 1]
  /\ change' = [op |-> "add", obj |-> o]
  /\ UNCHANGED <<call, result>>

Add(o) ==
  /\ call = "none"
  /\ removed' = removed \ {o}
  /\ known' = known \cup {o}
  /\ heap' = IF o \in known THEN heap ELSE [heap EXCEPT ![o] = @ + 1]
  /\ change' = [op |-> "add", obj |-> o]
  /\ UNCHANGED <<call, result>>

\* Mutant of remove(): note the removal of an object the heap does not hold
RemoveUnknown(o) ==
  /\ call = "none"
  /\ removed' = removed \cup {o}
  /\ change' = [op |-> "remove", obj |-> o]
  /\ UNCHANGED <<heap, known, call, result>>

Remove(o) ==
  /\ call = "none"
  /\ removed' = IF o \in known THEN removed \cup {o} ELSE removed
  /\ change' = [op |-> "remove", obj |-> o]
  /\ UNCHANGED <<heap, known, call, result>>

Call(c) ==
  /\ call = "none"
  /\ call' = c
  /\ UNCHANGED <<heap, known, removed, result, change>>

\* pop() and __getitem__(0) on a heap that is, or has become, empty
ReturnNone ==
  /\ call # "none"
  /\ InHeap = {}
  /\ result' = NoObj
  /\ call' = "none"
  /\ UNCHANGED <<heap, known, removed, change>>

\* Mutant of the loops: the removed head is looked at but not popped
DiscardKeepsHead(o) ==
  /\ call # "none"
  /\ o \in Head /\ o \in removed
  /\ UNCHANGED vars

\* One turn of either loop that finds a removed object at the head
Discard(o) ==
  /\ call # "none"
  /\ o \in Head /\ o \in removed
  /\ heap' = [heap EXCEPT ![o] = @ - 1]
  /\ known' = known \ {o}
  /\ removed' = removed \ {o}
  /\ UNCHANGED <<call, result, change>>

\* The last turn of pop(): the head is live and leaves the queue
PopReturn(o) ==
  /\ call = "pop"
  /\ o \in Head /\ o \notin removed
  /\ heap' = [heap EXCEPT ![o] = @ - 1]
  /\ known' = known \ {o}
  /\ result' = o
  /\ call' = "none"
  /\ UNCHANGED <<removed, change>>

\* The last turn of __getitem__(0): the head is live and stays
PeekReturn(o) ==
  /\ call = "peek"
  /\ o \in Head /\ o \notin removed
  /\ result' = o
  /\ call' = "none"
  /\ UNCHANGED <<heap, known, removed, change>>

\* The turns of the two loops, which run on their own once called
Turn == \/ ReturnNone
        \/ \E o \in Obj : Discard(o) \/ PopReturn(o) \/ PeekReturn(o)

Next ==
  \/ \E o \in Obj : Add(o) \/ Remove(o)
  \/ \E c \in {"pop", "peek"} : Call(c)
  \/ Turn

Spec == Init /\ [][Next]_vars

\* The queue is called from one thread: a call that has begun runs to its end.
FairSpec == Spec /\ WF_vars(Turn)

----------------------------------------------------------------------------
TypeOK ==
  /\ heap \in [Obj -> Nat]
  /\ known \in SUBSET Obj
  /\ removed \in SUBSET Obj
  /\ call \in {"none", "pop", "peek"}
  /\ result \in Obj \cup {NoObj}
  /\ change \in [op : {"none", "add", "remove"}, obj : Obj \cup {NoObj}]

\* The bookkeeping agrees with the heap: an object is in the heap once if it is
\* known and not otherwise, and only known objects are marked removed.  Without
\* it _known.remove(o) raises KeyError, or an object comes out twice.
Bookkeeping ==
  /\ \A o \in Obj : heap[o] = IF o \in known THEN 1 ELSE 0
  /\ removed \subseteq known

IInv == TypeOK /\ Bookkeeping

\* The length that ChannelQueue.pop() tests before it reads queue[0] is zero
\* exactly when no live object is left, so that read never raises IndexError.
LengthTellsEmpty == (Length = 0) <=> (\A o \in Obj : ~Contains(o))

\* The lazy heap is a plain set with its smallest element taken out: to its
\* callers, stale removed entries are never visible.
AQ == INSTANCE AbstractQueue WITH members <- known \ removed

ImplementsQueue == AQ!Spec

\* A pop or a peek returns even if everything in the heap has been removed.
CallReturns == (call # "none") ~> (call = "none")
============================================================================
