--------------------------- MODULE AbstractQueue ---------------------------
(***************************************************************************)
(* What queue_job.jobrunner.channels.PriorityQueue promises its callers: a *)
(* set of objects that can be removed in any order and of which one of the *)
(* smallest comes out.  PriorityQueue.tla is the lazy-deletion heap that   *)
(* implements it.                                                          *)
(*                                                                         *)
(* A call that reads the queue takes two steps here, the call and its      *)
(* return, because the implementation loops in between.  That the caller   *)
(* made a change is visible, so that an add without effect is no stutter.  *)
(***************************************************************************)
EXTENDS Naturals

CONSTANTS Obj,    \* the objects a caller may queue
          Rank,   \* their place in the sorting order, smallest first
          NoObj   \* None: what a pop of the empty queue returns

VARIABLES members,  \* the objects in the queue
          call,     \* the call in progress: "none", "pop" or "peek"
          result,   \* what the last pop or peek returned
          change    \* history: the last add or remove that was called

vars == <<members, call, result, change>>

Smallest == {o \in members : \A p \in members : Rank[o] <= Rank[p]}

Init ==
  /\ members = {} /\ call = "none" /\ result = NoObj
  /\ change = [op |-> "none", obj |-> NoObj]

Add(o) ==
  /\ call = "none"
  /\ members' = members \cup {o}
  /\ change' = [op |-> "add", obj |-> o]
  /\ UNCHANGED <<call, result>>

Remove(o) ==
  /\ call = "none"
  /\ members' = members \ {o}
  /\ change' = [op |-> "remove", obj |-> o]
  /\ UNCHANGED <<call, result>>

Call(c) ==
  /\ call = "none"
  /\ call' = c
  /\ UNCHANGED <<members, result, change>>

\* A pop takes the object it returns out of the queue, a peek leaves it in.
ReturnSome(o) ==
  /\ call # "none"
  /\ o \in Smallest
  /\ members' = IF call = "pop" THEN members \ {o} ELSE members
  /\ result' = o
  /\ call' = "none"
  /\ UNCHANGED change

ReturnNone ==
  /\ call # "none"
  /\ members = {}
  /\ result' = NoObj
  /\ call' = "none"
  /\ UNCHANGED <<members, change>>

Next ==
  \/ \E o \in Obj : Add(o) \/ Remove(o) \/ ReturnSome(o)
  \/ \E c \in {"pop", "peek"} : Call(c)
  \/ ReturnNone

Spec == Init /\ [][Next]_vars
============================================================================
