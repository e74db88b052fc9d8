------------------------ MODULE PriorityQueueProofs ------------------------
(***************************************************************************)
(* The lazy-deletion heap keeps its bookkeeping and implements the         *)
(* abstract queue, for every set of objects and every ranking of them.     *)
(***************************************************************************)
EXTENDS PriorityQueue, FiniteSetTheorems, TLAPS

(***************************************************************************)
(* What one step does to the bookkeeping.  Each action that touches the    *)
(* heap touches known in the same way, and removed loses every object that *)
(* known loses.                                                            *)
(***************************************************************************)
LEMMA IInvStep == IInv /\ [Next]_vars => IInv'
<1> SUFFICES ASSUME IInv, [Next]_vars PROVE IInv'
  OBVIOUS
<1> USE DEF IInv, TypeOK, Bookkeeping
<1>1. ASSUME NEW o \in Obj, Add(o) PROVE IInv'
  BY <1>1 DEF Add
<1>2. ASSUME NEW o \in Obj, Remove(o) PROVE IInv'
  BY <1>2 DEF Remove
<1>3. ASSUME NEW c \in {"pop", "peek"}, Call(c) PROVE IInv'
  BY <1>3 DEF Call
<1>4. CASE ReturnNone
  BY <1>4 DEF ReturnNone
<1>5. ASSUME NEW o \in Obj, Discard(o) PROVE IInv'
  BY <1>5 DEF Discard, Head, InHeap
<1>6. ASSUME NEW o \in Obj, PopReturn(o) PROVE IInv'
  BY <1>6 DEF PopReturn, Head, InHeap
<1>7. ASSUME NEW o \in Obj, PeekReturn(o) PROVE IInv'
  BY <1>7 DEF PeekReturn
<1>8. CASE UNCHANGED vars
  BY <1>8 DEF vars
<1> QED
  BY <1>1, <1>2, <1>3, <1>4, <1>5, <1>6, <1>7, <1>8 DEF Next, Turn

\* The queue never loses track of what its heap holds: add, remove, and the
\* loops of pop and __getitem__ keep _heap, _known and _removed in agreement.
THEOREM KeepsBookkeeping == Spec => []IInv
<1>1. Init => IInv
  BY DEF Init, IInv, TypeOK, Bookkeeping
<1> QED
  BY <1>1, IInvStep, PTL DEF Spec

----------------------------------------------------------------------------
(***************************************************************************)
(* The refinement.  The abstract members are the live objects; dropping a  *)
(* removed object from the heap is a step the abstract queue does not see. *)
(***************************************************************************)
\* The head of the heap, when it is live, is one of the smallest live objects.
LEMMA LiveHeadIsSmallest ==
  ASSUME IInv, NEW o \in Head, o \notin removed
  PROVE  o \in AQ!Smallest
  BY DEF IInv, TypeOK, Bookkeeping, Head, InHeap, AQ!Smallest

LEMMA StepRefines == IInv /\ [Next]_vars => [AQ!Next]_(AQ!vars)
<1> SUFFICES ASSUME IInv, [Next]_vars PROVE AQ!Next \/ UNCHANGED AQ!vars
  OBVIOUS
<1> USE DEF IInv, TypeOK, Bookkeeping
<1>1. ASSUME NEW o \in Obj, Add(o) PROVE AQ!Next
  <2>1. AQ!Add(o)
    BY <1>1 DEF Add, AQ!Add
  <2> QED BY <2>1 DEF AQ!Next
<1>2. ASSUME NEW o \in Obj, Remove(o) PROVE AQ!Next
  <2>1. AQ!Remove(o)
    BY <1>2 DEF Remove, AQ!Remove
  <2> QED BY <2>1 DEF AQ!Next
<1>3. ASSUME NEW c \in {"pop", "peek"}, Call(c) PROVE AQ!Next
  <2>1. AQ!Call(c)
    BY <1>3 DEF Call, AQ!Call
  <2> QED BY <2>1 DEF AQ!Next
<1>4. ASSUME ReturnNone PROVE AQ!Next
  <2>1. AQ!ReturnNone
    BY <1>4 DEF ReturnNone, AQ!ReturnNone, InHeap
  <2> QED BY <2>1 DEF AQ!Next
<1>5. ASSUME NEW o \in Obj, Discard(o) PROVE UNCHANGED AQ!vars
  BY <1>5 DEF Discard, AQ!vars
<1>6. ASSUME NEW o \in Obj, PopReturn(o) PROVE AQ!Next
  <2>1. AQ!ReturnSome(o)
    BY <1>6, LiveHeadIsSmallest DEF PopReturn, AQ!ReturnSome
  <2> QED BY <2>1 DEF AQ!Next
<1>7. ASSUME NEW o \in Obj, PeekReturn(o) PROVE AQ!Next
  <2>1. AQ!ReturnSome(o)
    BY <1>7, LiveHeadIsSmallest DEF PeekReturn, AQ!ReturnSome
  <2> QED BY <2>1 DEF AQ!Next
<1>8. ASSUME UNCHANGED vars PROVE UNCHANGED AQ!vars
  BY <1>8 DEF vars, AQ!vars
<1> QED
  BY <1>1, <1>2, <1>3, <1>4, <1>5, <1>6, <1>7, <1>8 DEF Next, Turn

\* To its callers the lazy heap is a set whose pop takes out one of the
\* smallest elements: a removed object never comes back, an added one is never
\* lost, and nothing comes out twice.
THEOREM Refinement == Spec => ImplementsQueue
<1>1. Init => AQ!Init
  BY DEF Init, AQ!Init
<1> QED
  BY <1>1, StepRefines, KeepsBookkeeping, PTL DEF Spec, ImplementsQueue, AQ!Spec

----------------------------------------------------------------------------
\* Over finitely many objects, the length a caller sees is zero exactly when
\* no live object is left: ChannelQueue.pop() may read queue[0] after testing
\* it, and the read does not raise IndexError.
THEOREM LengthIsRight ==
  ASSUME IsFiniteSet(Obj)
  PROVE  Spec => []LengthTellsEmpty
<1>1. ASSUME IInv PROVE LengthTellsEmpty
  <2> USE <1>1 DEF IInv, TypeOK, Bookkeeping
  <2>1. IsFiniteSet(known)
    BY FS_Subset
  <2>2. /\ IsFiniteSet(removed)
        /\ Cardinality(known \ removed)
             = Cardinality(known) - Cardinality(known \cap removed)
    BY <2>1, FS_Subset, FS_Difference
  <2>3. known \cap removed = removed
    OBVIOUS
  <2>4. Cardinality(known \ removed) = 0 <=> known \ removed = {}
    BY <2>1, FS_Difference, FS_EmptySet
  <2> QED BY <2>2, <2>3, <2>4 DEF LengthTellsEmpty, Length, Contains
<1> QED
  BY <1>1, KeepsBookkeeping, PTL
============================================================================
