----------------------------- MODULE DelayGraph -----------------------------
(***************************************************************************)
(* The graph of jobs a program builds with delayable(), chain(), group(),  *)
(* split() and on_done(), and what delay() makes of it: rows of queue_job  *)
(* that wait for each other or, in a context without delay, a direct       *)
(* execution in topological order (delay.py; __init__() and store() of     *)
(* job.py).                                                                *)
(*                                                                         *)
(* One program in one transaction, which no other disturbs; the jobs that  *)
(* others left to be executed matter by their identity keys.               *)
(***************************************************************************)
EXTENDS Naturals, Sequences, FiniteSets, Functions

CONSTANTS Delayable, Compound,  \* the names a program may use
          Given,                \* the delayables it begins with; split() makes others
          KeyOf, NoKey,         \* per delayable its identity_key
          None,
          Lengths,              \* of the lists that chain() and group() are called with
          MaxCalls, MaxDelays   \* bounds on all calls and on those of delay()

Node == Delayable \cup Compound

ASSUME DelayGraphAssumption ==
  /\ IsFiniteSet(Node) /\ Delayable \cap Compound = {}
  /\ Given \subseteq Delayable
  /\ None \notin Node
  /\ Lengths \subseteq Nat

VARIABLES parts,     \* per node what it is made of
          edges,     \* per node its own _graph
          job,       \* per delayable its _generated_job
          stored,    \* per delayable its row of queue_job
          queued,    \* the keys of the jobs of others that are to be executed
          nodelay,   \* queue_job__no_delay in the context
          direct,    \* the direct execution
          order,     \* history: what on_done() and chain() asked for, <<node, next>>
          asked,     \* history: what of it the graphs that were stored asked for
          dropped,   \* history: several jobs were not stored because of identity keys
          calls, delays,
          raised

program == <<parts, edges, order, calls>>
vars == <<program, job, stored, queued, nodelay, direct, asked, dropped, delays, raised>>

Unmade ==
  [kind |-> "unmade", of |-> {}, end |-> None, right |-> TRUE, jobs |-> {},
   head |-> {}, tail |-> {}, first |-> {}, last |-> {}]

Made == {n \in Node : parts[n].kind # "unmade"}

NoJob    == [kind |-> "none"]
Replaced == [kind |-> "replaced"]   \* by a row of queue_job, or by True
NewJob   == [kind |-> "job", state |-> "pending", graph |-> None, depends |-> {}]

NotRun == [edges |-> {}, ready |-> {}, waits |-> <<>>, ran |-> <<>>]

LastOf(s) == s[Len(s)]

----------------------------------------------------------------------------
(* Nodes.  head and tail are what _head() and _tail() return; first and    *)
(* last are the jobs the node begins and ends with, jobs all of its jobs,  *)
(* and right says that head and tail agree with them throughout the node   *)
(* and that no empty group cuts a chain                                    *)

Leaf(d) ==
  [kind |-> "delayable", of |-> {d}, end |-> d, right |-> TRUE, jobs |-> {d},
   head |-> {d}, tail |-> {d}, first |-> {d}, last |-> {d}]

Joined(P, s, field) == UNION {P[s[k]][field] : k \in DOMAIN s}

RightIn(P, s) == \A k \in DOMAIN s : P[s[k]].right

\* Each end of a chain is the opposite end of a part of it
ChainOf(P, s) ==
  LET begin == P[s[1]]  end == P[LastOf(s)] IN
  [kind |-> "chain", of |-> Range(s), end |-> LastOf(s), jobs |-> Joined(P, s, "jobs"),
   head |-> begin.tail, tail |-> end.head, first |-> begin.first, last |-> end.last,
   right |-> RightIn(P, s) /\ begin.tail = begin.first /\ end.head = end.last
             /\ \A k \in DOMAIN s : P[s[k]].jobs # {}]

GroupOf(P, s) ==
  [kind |-> "group", of |-> Range(s), end |-> None, right |-> RightIn(P, s),
   jobs |-> Joined(P, s, "jobs"), head |-> Joined(P, s, "head"), tail |-> Joined(P, s, "tail"),
   first |-> Joined(P, s, "first"), last |-> Joined(P, s, "last")]

Links(s) == {<<s[k], s[k + 1]>> : k \in 1..(Len(s) - 1)}

\* n is made of the nodes s, which P knows
MakeChain(P, n, s) ==
  /\ s # <<>>
  /\ calls' = calls + 1
  /\ parts' = [P EXCEPT ![n] = ChainOf(P, s)]
  /\ edges' = [edges EXCEPT ![n] = Links(s)]
  /\ order' = order \cup {<<n, l[1], l[2]>> : l \in Links(s)}

MakeGroup(P, n, s) ==
  /\ calls' = calls + 1
  /\ parts' = [P EXCEPT ![n] = GroupOf(P, s)]
  /\ UNCHANGED <<edges, order>>

Chain(n, s) ==
  /\ ~raised /\ MakeChain(parts, n, s)
  /\ UNCHANGED <<job, stored, queued, nodelay, direct, asked, dropped, delays, raised>>

Group(n, s) ==
  /\ ~raised /\ MakeGroup(parts, n, s)
  /\ UNCHANGED <<job, stored, queued, nodelay, direct, asked, dropped, delays, raised>>

\* New delayables s, with the properties of d and a batch of its records each
Split(d, n, s, chained) ==
  LET P == [x \in Node |-> IF x \in Range(s) THEN Leaf(x) ELSE parts[x]] IN
  /\ ~raised /\ d \in Delayable \cap Made
  /\ Range(s) \cap Made = {} /\ \A x \in Range(s) : KeyOf[x] = KeyOf[d]
  /\ IF chained THEN MakeChain(P, n, s) ELSE MakeGroup(P, n, s)
  /\ job' = [job EXCEPT ![d] = Replaced]
  /\ UNCHANGED <<stored, queued, nodelay, direct, asked, dropped, delays, raised>>

\* p.on_done(c), for each of the three classes of p
OnDone(p, c) ==
  /\ ~raised /\ {p, c} \subseteq Made
  /\ calls + delays < MaxCalls /\ calls' = calls + 1
  /\ edges' = [edges EXCEPT ![p] = @ \cup
       CASE parts[p].kind = "delayable" -> {<<p, c>>}
         [] parts[p].kind = "chain"     -> {<<parts[p].end, c>>}
         [] parts[p].kind = "group"     -> parts[p].of \X {c}]
  /\ order' = order \cup {<<p, p, c>>}
  /\ UNCHANGED <<parts, job, stored, queued, nodelay, direct, asked, dropped, delays, raised>>

----------------------------------------------------------------------------
(* DelayableGraph._connect_graphs()                                        *)

\* vertices() of the graph of n
Vertices(n) == parts[n].of \cup {e[1] : e \in edges[n]} \cup {e[2] : e \in edges[n]}

\* Mutant: the graphs of the vertices' vertices are not visited
VisitedOnce(n) == {n} \cup Vertices(n)

\* The vertices of the nodes in N have their graphs visited as well
Connected(N) == \A m \in N : Vertices(m) \subseteq N

\* The nodes whose graphs are visited
Visited(n) ==
  {m \in Node : \A N \in SUBSET Node : n \in N /\ Connected(N) => m \in N}

\* _merge_graph() of each of them
WholeVertices(N) == UNION {parts[v].tail : v \in UNION {Vertices(n) : n \in N}}

WholeEdges(N) ==
  UNION {parts[e[1]].tail \X parts[e[2]].head : e \in UNION {edges[n] : n \in N}}

----------------------------------------------------------------------------
(* DelayableGraph.delay()                                                  *)

\* Delayable._build_job()
Build(d) == IF job[d].kind = "none" THEN NewJob ELSE job[d]

Graphs(V) == {Build(d).graph : d \in {x \in V : Build(x).kind = "job"}} \ {None}

\* Mutant: a new uuid for each delay()
NewGraphOf(n, V) == IF Cardinality(V) = 1 THEN None ELSE n

\* _ensure_same_graph_uuid(), the new uuid named after the node
GraphOf(n, V) ==
  IF Cardinality(V) = 1 THEN None
  ELSE IF Graphs(V) = {} THEN n ELSE CHOOSE u \in Graphs(V) : TRUE

\* "Expecting jobs", a single job with a graph uuid, several graphs, a replaced job
Refused(V) ==
  \/ V = {}
  \/ Cardinality(V) = 1 /\ Graphs(V) # {}
  \/ Cardinality(Graphs(V)) > 1
  \/ \E d \in V : job[d].kind = "replaced"

Parents(E, d) == {e[1] : e \in {x \in E : x[2] = d}}

\* Job.add_depends() for each edge: none of the parents is done
Linked(n, V, E) ==
  [d \in Delayable |->
     IF d \notin V THEN job[d]
     ELSE LET j == [Build(d) EXCEPT !.graph = GraphOf(n, V), !.depends = @ \cup Parents(E, d)]
          IN [j EXCEPT !.state = IF Parents(E, d) # {} THEN "wait_dependencies" ELSE @]]

Keyed(V) == {d \in V : KeyOf[d] # NoKey}

\* job_record_with_same_identity_key()
HasTwin(d) ==
  \/ KeyOf[d] \in queued
  \/ \E x \in Delayable : stored[x].kind = "job" /\ KeyOf[x] = KeyOf[d]

AllTwins(V) == Keyed(V) # {} /\ \A d \in Keyed(V) : HasTwin(d)

\* No row is written; the first of the keyed jobs is replaced, and only that
Drop(linked, V) ==
  /\ AllTwins(V)
  /\ \E d \in Keyed(V) : job' = [linked EXCEPT ![d] = Replaced]
  /\ dropped' = (dropped \/ Cardinality(V) # 1)
  /\ UNCHANGED <<stored, direct, asked, raised>>

\* Job.store() of each: a row is created or written
Store(linked, V, N) ==
  /\ ~AllTwins(V)
  /\ job' = linked
  /\ stored' = [d \in Delayable |-> IF d \in V THEN linked[d] ELSE stored[d]]
  /\ asked' = asked \cup {<<o[2], o[3]>> : o \in {x \in order : x[1] \in N}}
  /\ UNCHANGED <<direct, dropped, raised>>

\* _execute_graph_direct() up to the first job; topological_sort() counts the parents
StartDirect(n, V, E) ==
  /\ job' = Linked(n, V, {})
  /\ direct' = [edges |-> E, ran |-> <<>>,
                ready |-> {d \in V : Parents(E, d) = {}},
                waits |-> [d \in V |-> Cardinality(Parents(E, d))]]
  /\ UNCHANGED <<stored, asked, dropped, raised>>

\* An exception rolls the transaction back
Raise ==
  /\ raised' = TRUE
  /\ stored' = [d \in Delayable |-> NoJob]
  /\ asked' = {}
  /\ UNCHANGED <<job, direct, dropped>>

\* The graph V, E of n, of the graphs of the nodes N
DelayWhole(n, N, V, E) ==
  /\ ~raised /\ direct.ready = {}
  /\ calls + delays < MaxCalls /\ delays < MaxDelays
  /\ delays' = delays + 1
  /\ UNCHANGED <<edges, order, calls, queued, nodelay>>
  /\ IF Refused(V) THEN Raise
     ELSE IF nodelay THEN StartDirect(n, V, E)
     ELSE IF \E d \in V : <<d, d>> \in E THEN Raise
     ELSE LET linked == Linked(n, V, E) IN Drop(linked, V) \/ Store(linked, V, N)

Delay(n) ==
  LET N == Visited(n) IN
  DelayWhole(n, N, WholeVertices(N), WholeEdges(N)) /\ UNCHANGED parts

\* DelayableRecordset: the call of the method delays
DelayAtOnce(d) == DelayWhole(d, {d}, {d}, {})

\* with_delay(): a delayable that is made to be delayed at once
WithDelay(d) ==
  /\ d \in Delayable \ Made
  /\ parts' = [parts EXCEPT ![d] = Leaf(d)]
  /\ DelayAtOnce(d)

\* Mutant: the first parent to be executed releases the child
ReleasedByOne(w) == TRUE

\* The last of the parents releases the child
Released(w) == w = 1

\* topological_sort() yields d, which is performed
Execute(d) ==
  LET children == {e[2] : e \in {x \in direct.edges : x[1] = d}} IN
  /\ ~raised /\ d \in direct.ready
  /\ direct' = [direct EXCEPT
       !.ran = Append(@, d),
       !.waits = [x \in DOMAIN @ |-> IF x \in children THEN @[x] - 1 ELSE @[x]],
       !.ready = (@ \ {d}) \cup {x \in children : Released(direct.waits[x])}]
  /\ UNCHANGED <<program, job, stored, queued, nodelay, asked, dropped, delays, raised>>

\* The job that is performed fails
Fail ==
  /\ ~raised /\ direct.ready # {}
  /\ Raise
  /\ UNCHANGED <<program, queued, nodelay, delays>>

----------------------------------------------------------------------------
\* What delayable() returned to the program
FromBase == [n \in Node |-> IF n \in Given THEN Leaf(n) ELSE Unmade]

Init ==
  /\ parts = FromBase
  /\ edges = [n \in Node |-> {}]
  /\ job = [d \in Delayable |-> NoJob]
  /\ stored = [d \in Delayable |-> NoJob]
  /\ queued \in SUBSET ({KeyOf[d] : d \in Delayable} \ {NoKey})
  /\ nodelay \in BOOLEAN
  /\ direct = NotRun
  /\ order = {} /\ asked = {}
  /\ dropped = FALSE /\ raised = FALSE
  /\ delays = 0 /\ calls = 0

\* The lists of k distinct members of S
Lists(S, k) == {s \in [1..k -> S] : \A i, j \in 1..k : s[i] = s[j] => i = j}

Next ==
  \/ /\ Compound \ Made # {} /\ calls + delays < MaxCalls
     /\ LET n == CHOOSE x \in Compound \ Made : TRUE IN
        \/ \E k \in Lengths : \E s \in Lists(Made, k) : Chain(n, s) \/ Group(n, s)
        \/ \E d \in Delayable, k \in 1..2, c \in BOOLEAN :
             \E s \in Lists(Delayable \ Made, k) : Split(d, n, s, c)
  \/ \E p, c \in Made : OnDone(p, c)
  \/ \E n \in Made : Delay(n)
  \/ \E d \in Delayable : WithDelay(d)
  \/ \E d \in Delayable : Execute(d)
  \/ Fail

Spec == Init /\ [][Next]_vars

----------------------------------------------------------------------------
(* Properties                                                              *)

Rows == {d \in Delayable : stored[d].kind = "job"}

\* The jobs that x waits for, directly or not
Ancestors(x) ==
  {y \in Delayable : \A S \in SUBSET Delayable :
     (stored[x].depends \subseteq S /\ \A p \in S \cap Rows : stored[p].depends \subseteq S)
       => y \in S}

\* All the jobs of a node wait for all the jobs of the one it was to follow, through
\* whatever graphs lie between, whenever the graph was extended and delayed again, and
\* as long as the ends of the chains within them are what they should be and no empty
\* group cuts one (delay.py, _connect_graphs)
OrderKept ==
  \A a \in asked : parts[a[1]].right /\ parts[a[2]].right =>
    \A x \in parts[a[1]].jobs, y \in parts[a[2]].jobs : x \in Ancestors(y)

\* What on_done() says of chains: what follows is executed when the chain is done
ChainsAreDone ==
  \A a \in asked : \A x \in parts[a[1]].jobs, y \in parts[a[2]].jobs : x \in Ancestors(y)

\* A stored job waits exactly if it depends on another; what it depends on is stored,
\* and in the same graph, or enqueue_waiting() of job.py would not find it
StoredGraph ==
  ~dropped => \A d \in Rows :
    /\ stored[d].state = (IF stored[d].depends = {} THEN "pending" ELSE "wait_dependencies")
    /\ stored[d].depends \subseteq Rows
    /\ \A p \in stored[d].depends : /\ stored[p].graph = stored[d].graph
                                    /\ stored[d].graph # None

\* A job that is executed directly comes after its parents and once, and in the end none
\* is left out but those on a cycle or behind one (delay.py, topological_sort)
DirectInOrder ==
  LET ran == direct.ran IN
  /\ \A k \in DOMAIN ran : Parents(direct.edges, ran[k]) \subseteq Range(SubSeq(ran, 1, k - 1))
  /\ Cardinality(Range(ran)) = Len(ran)
  /\ direct.ready = {} => \A d \in DOMAIN direct.waits \ Range(ran) :
                             Parents(direct.edges, d) \ Range(ran) # {}
=============================================================================
