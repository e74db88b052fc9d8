-------------------------- MODULE DelayGraphProofs --------------------------
(***************************************************************************)
(* What delay() stores is a graph the dependency queries can work with     *)
(* (StoredGraphHolds): the invariant says that, as long as no graph was    *)
(* dropped for its keys, the rows are the generated jobs, and follows      *)
(* their dependencies.                                                     *)
(*                                                                         *)
(* It is the graph the program asked for (OrderHolds).  NodesOk says of    *)
(* each node that, wherever its graph is visited, the edges lead from the  *)
(* jobs it begins with to all of its jobs and from these to the ones it    *)
(* ends with; OrderOk that the two nodes of each call of chain() and       *)
(* on_done() are joined there.  Both speak of every set of nodes closed    *)
(* under visiting, so that they last while the program extends its graphs, *)
(* and of every transitive relation that holds the edges, so that they     *)
(* pass on to the rows, whose dependencies only grow (AskedInv).           *)
(*                                                                         *)
(* Without delay its jobs are performed in that order (DirectHolds):       *)
(* topological_sort() counts, for each job, the parents not yet performed. *)
(***************************************************************************)
EXTENDS DelayGraph, FiniteSetTheorems, WellFoundedInduction, TLAPS

PartType ==
  [kind : {"unmade", "delayable", "chain", "group"}, of : SUBSET Node,
   end : Node \cup {None}, right : BOOLEAN, jobs : SUBSET Delayable,
   head : SUBSET Delayable, tail : SUBSET Delayable,
   first : SUBSET Delayable, last : SUBSET Delayable]

\* on_done() of a chain takes its end
Part == {r \in PartType : r.kind = "chain" => r.end \in Node}

AJob ==
  [kind : {"job"}, state : {"pending", "wait_dependencies"},
   graph : Node \cup {None}, depends : SUBSET Delayable]

TypeOK ==
  /\ parts \in [Node -> Part]
  /\ edges \in [Node -> SUBSET (Node \X Node)]
  /\ job \in [Delayable -> AJob \cup {NoJob, Replaced}]
  /\ stored \in [Delayable -> AJob \cup {NoJob}]
  /\ raised \in BOOLEAN /\ nodelay \in BOOLEAN /\ dropped \in BOOLEAN

\* The rows follow the generated jobs
RowsAreJobs ==
  ~nodelay /\ ~dropped /\ ~raised =>
    \A d \in Delayable : /\ job[d].kind = "job" => stored[d] = job[d]
                         /\ job[d].kind = "none" => stored[d] = NoJob

IInv ==
  /\ TypeOK
  /\ nodelay \/ raised => Rows = {}
  /\ RowsAreJobs
  /\ StoredGraph

----------------------------------------------------------------------------
(* The nodes                                                               *)

LEMMA JoinedIn ==
  ASSUME NEW P \in [Node -> Part], NEW s, Range(s) \subseteq Node
  PROVE  /\ Joined(P, s, "jobs") \subseteq Delayable
         /\ Joined(P, s, "head") \subseteq Delayable
         /\ Joined(P, s, "tail") \subseteq Delayable
         /\ Joined(P, s, "first") \subseteq Delayable
         /\ Joined(P, s, "last") \subseteq Delayable
<1> SUFFICES ASSUME NEW k \in DOMAIN s PROVE P[s[k]] \in Part
  BY DEF Joined, Part, PartType
<1> QED
  BY DEF Range

LEMMA ChainIsPart ==
  ASSUME NEW P \in [Node -> Part], NEW s \in Seq(Node), s # <<>>
  PROVE  ChainOf(P, s) \in Part /\ Links(s) \subseteq Node \X Node
<1>1. Len(s) \in Nat \ {0} /\ \A k \in 1..Len(s) : s[k] \in Node
  OBVIOUS
<1>2. s[1] \in Node /\ LastOf(s) \in Node /\ Range(s) \subseteq Node
  BY <1>1 DEF LastOf, Range
<1>3. P[s[1]] \in Part /\ P[LastOf(s)] \in Part
  BY <1>2
<1>4. RightIn(P, s) \in BOOLEAN
  BY DEF RightIn
<1>5. ChainOf(P, s) \in Part
  BY <1>2, <1>3, <1>4, JoinedIn DEF ChainOf, Part, PartType
<1>6. Links(s) \subseteq Node \X Node
  BY <1>1 DEF Links
<1> QED BY <1>5, <1>6

LEMMA GroupIsPart ==
  ASSUME NEW P \in [Node -> Part], NEW s \in Seq(Node)
  PROVE  GroupOf(P, s) \in Part
<1>1. Range(s) \subseteq Node
  BY DEF Range
<1>2. RightIn(P, s) \in BOOLEAN
  BY DEF RightIn
<1>3. /\ Joined(P, s, "jobs") \in SUBSET Delayable
      /\ Joined(P, s, "head") \in SUBSET Delayable
      /\ Joined(P, s, "tail") \in SUBSET Delayable
      /\ Joined(P, s, "first") \in SUBSET Delayable
      /\ Joined(P, s, "last") \in SUBSET Delayable
  BY <1>1, JoinedIn
<1> QED
  BY <1>1, <1>2, <1>3 DEF GroupOf, Part, PartType

\* What the actions that build nodes keep
LEMMA MakeKeeps ==
  ASSUME TypeOK, NEW P \in [Node -> Part], NEW n \in Node, NEW s \in Seq(Node),
         MakeChain(P, n, s) \/ MakeGroup(P, n, s)
  PROVE  parts' \in [Node -> Part] /\ edges' \in [Node -> SUBSET (Node \X Node)]
<1>1. CASE MakeChain(P, n, s)
  BY <1>1, ChainIsPart DEF MakeChain, TypeOK
<1>2. CASE MakeGroup(P, n, s)
  BY <1>2, GroupIsPart DEF MakeGroup, TypeOK
<1> QED BY <1>1, <1>2

\* The vertices of a whole graph are delayables, its edges begin at its vertices
LEMMA WholeIn ==
  ASSUME TypeOK, NEW N, N \subseteq Node
  PROVE  /\ WholeVertices(N) \subseteq Delayable
         /\ WholeEdges(N) \subseteq Delayable \X Delayable
         /\ \A d \in Delayable : Parents(WholeEdges(N), d) \subseteq WholeVertices(N)
<1>1. \A m \in N : Vertices(m) \subseteq Node
  BY DEF TypeOK, Part, PartType, Vertices
<1>2. WholeVertices(N) \subseteq Delayable
  BY <1>1 DEF WholeVertices, TypeOK, Part, PartType
<1>3. ASSUME NEW d \in Delayable, NEW p \in Parents(WholeEdges(N), d)
      PROVE  p \in WholeVertices(N)
  <2>1. <<p, d>> \in WholeEdges(N)
    BY <1>3 DEF Parents, WholeEdges
  <2>2. PICK m \in N : \E e \in edges[m] : <<p, d>> \in parts[e[1]].tail \X parts[e[2]].head
    BY <2>1 DEF WholeEdges
  <2>3. \E v \in Vertices(m) : p \in parts[v].tail
    BY <2>2 DEF Vertices
  <2> QED BY <2>3 DEF WholeVertices
<1>4. WholeEdges(N) \subseteq Delayable \X Delayable
  <2>1. \A v \in Node : parts[v].tail \subseteq Delayable /\ parts[v].head \subseteq Delayable
    BY DEF TypeOK, Part, PartType
  <2>2. \A m \in N : \A e \in edges[m] : e[1] \in Node /\ e[2] \in Node
    BY DEF TypeOK
  <2> QED BY <2>1, <2>2 DEF WholeEdges
<1> QED BY <1>2, <1>3, <1>4

----------------------------------------------------------------------------
(* delay()                                                                 *)

BuiltOk(d) ==
  /\ Build(d) \in AJob
  /\ stored[d] # NoJob => stored[d] = Build(d)
  /\ Build(d).state = "pending" <=> Build(d).depends = {}
  /\ Build(d).depends \subseteq Rows
  /\ Build(d).depends # {} => Build(d).graph # None

\* The jobs of a graph that is not refused: they were built for it or are rows, and
\* those that depend on others are all of one graph
LEMMA Built ==
  ASSUME IInv, ~nodelay, ~dropped, ~raised, NEW V, V \subseteq Delayable, ~Refused(V),
         NEW n \in Node
  PROVE  /\ \A d \in V : BuiltOk(d)
         /\ GraphOf(n, V) \in Node \cup {None}
         /\ \A d \in V : Build(d).graph # None => GraphOf(n, V) = Build(d).graph
         /\ GraphOf(n, V) = None => \E d \in V : V = {d}
<1> USE DEF IInv, BuiltOk
<1>1. \A d \in V : job[d] # Replaced
  BY DEF Refused, Replaced
<1>2. ASSUME NEW d \in V
      PROVE  BuiltOk(d)
  <2>1. CASE job[d] = NoJob
    <3>1. Build(d) = NewJob /\ stored[d] = NoJob
      BY <2>1 DEF Build, NoJob, RowsAreJobs
    <3> QED BY <3>1 DEF NewJob, AJob
  <2>2. CASE job[d] \in AJob
    <3>1. Build(d) = job[d] /\ stored[d] = job[d] /\ stored[d].kind = "job"
      BY <2>2 DEF Build, AJob, RowsAreJobs
    <3>2. d \in Rows
      BY <3>1 DEF Rows
    <3>3. stored[d].depends = {} \/ \E p \in stored[d].depends : TRUE
      BY <2>2, <3>1 DEF AJob
    <3> QED BY <2>2, <3>1, <3>2, <3>3 DEF StoredGraph
  <2> QED BY <1>1, <2>1, <2>2 DEF TypeOK
<1>3. IsFiniteSet(V) /\ V # {}
  BY FS_Subset, DelayGraphAssumption DEF Node, Refused
<1>4. Graphs(V) = {Build(d).graph : d \in V} \ {None}
  BY <1>2 DEF Graphs, AJob
<1>5. IsFiniteSet({Build(d).graph : d \in V})
  <2> DEFINE g == [d \in V |-> Build(d).graph]
             S == {Build(d).graph : d \in V}
  <2>1. g \in Surjection(V, S)
    BY DEF Surjection
  <2> HIDE DEF g, S
  <2>2. IsFiniteSet(S)
    BY <1>3, <2>1, FS_Surjection
  <2> QED BY <2>2 DEF S
<1>6. IsFiniteSet(Graphs(V)) /\ Graphs(V) \subseteq Node
  BY <1>2, <1>4, <1>5, FS_Subset DEF AJob
<1>7. ASSUME NEW d \in V, Build(d).graph # None PROVE GraphOf(n, V) = Build(d).graph
  <2>1. Build(d).graph \in Graphs(V)
    BY <1>4, <1>7
  <2>2. Cardinality(Graphs(V)) = 1
    BY <1>6, <2>1, FS_CardinalityType, FS_EmptySet DEF Refused
  <2>3. Graphs(V) = {Build(d).graph}
    BY <1>6, <2>1, <2>2, FS_Singleton
  <2>4. Cardinality(V) # 1
    BY <2>1 DEF Refused
  <2> QED BY <2>3, <2>4 DEF GraphOf
<1>8. GraphOf(n, V) = None => \E d \in V : V = {d}
  <2>1. CASE Cardinality(V) = 1
    BY <1>3, <2>1, FS_Singleton
  <2>2. CASE Cardinality(V) # 1
    BY <1>6, <2>2, DelayGraphAssumption DEF GraphOf
  <2> QED BY <2>1, <2>2
<1>9. GraphOf(n, V) \in Node \cup {None}
  BY <1>6 DEF GraphOf
<1> QED BY <1>2, <1>7, <1>8, <1>9

\* The jobs that delay() makes of the graph V, E
LEMMA LinkedOk ==
  ASSUME IInv, ~nodelay, ~dropped, ~raised, NEW n \in Node, NEW V, NEW E,
         V \subseteq Delayable, E \subseteq Delayable \X Delayable,
         \A d \in Delayable : Parents(E, d) \subseteq V, \A d \in V : <<d, d>> \notin E, ~Refused(V)
  PROVE  \A d \in V : LET j == Linked(n, V, E)[d] IN
           /\ j \in AJob /\ j.graph = GraphOf(n, V)
           /\ j.depends \subseteq Rows \cup V
           /\ j.depends = Build(d).depends \cup Parents(E, d)
           /\ j.state = "pending" <=> j.depends = {}
           /\ j.depends # {} => j.graph # None
<1> TAKE d \in V
<1> DEFINE j == Linked(n, V, E)[d]
<1>1. Build(d) \in AJob /\ Build(d).depends \subseteq Rows
      /\ (Build(d).state = "pending" <=> Build(d).depends = {})
      /\ (Build(d).depends # {} => Build(d).graph # None)
      /\ GraphOf(n, V) \in Node \cup {None}
      /\ (Build(d).graph # None => GraphOf(n, V) = Build(d).graph)
  <2>1. /\ BuiltOk(d) /\ GraphOf(n, V) \in Node \cup {None}
        /\ Build(d).graph # None => GraphOf(n, V) = Build(d).graph
    BY Built
  <2> QED BY <2>1 DEF BuiltOk
<1>2. Parents(E, d) \subseteq V
  OBVIOUS
<1>3. /\ j \in AJob /\ j.graph = GraphOf(n, V)
      /\ j.depends = Build(d).depends \cup Parents(E, d)
      /\ j.state = IF Parents(E, d) # {} THEN "wait_dependencies" ELSE Build(d).state
  BY <1>1, <1>2 DEF Linked, AJob
<1>4. j.state = "pending" <=> j.depends = {}
  BY <1>1, <1>3 DEF AJob
<1>5. ASSUME j.depends # {} PROVE j.graph # None
  <2>1. CASE Build(d).depends # {}
    BY <1>1, <1>3, <2>1
  <2>2. CASE \E p \in Parents(E, d) : TRUE
    <3>1. PICK e \in E : e[2] = d /\ e[1] \in V
      BY <1>2, <2>2 DEF Parents
    <3>2. e[1] # d
      BY <3>1
    <3>3. GraphOf(n, V) # None
      BY <3>1, <3>2, Built
    <3> QED BY <1>3, <3>3
  <2> QED BY <1>3, <1>5, <2>1, <2>2
<1> QED BY <1>1, <1>2, <1>3, <1>4, <1>5

\* The generated jobs stay jobs, whatever was stored
LEMMA NodelayLinked ==
  ASSUME TypeOK, NEW n \in Node, NEW V, NEW E, V \subseteq Delayable, ~Refused(V),
         \A d \in Delayable : Parents(E, d) \subseteq V
  PROVE  /\ \A d \in V : Linked(n, V, E)[d] \in AJob /\ Linked(n, V, {})[d] \in AJob
         /\ Linked(n, V, E) \in [Delayable -> AJob \cup {NoJob, Replaced}]
         /\ Linked(n, V, {}) \in [Delayable -> AJob \cup {NoJob, Replaced}]
<1>1. \A d \in V : Build(d) \in AJob
  BY DEF TypeOK, Build, NewJob, NoJob, Replaced, Refused, AJob
<1>2. GraphOf(n, V) \in Node \cup {None}
  <2>1. Graphs(V) \subseteq Node
    BY <1>1 DEF Graphs, AJob
  <2> QED BY <2>1 DEF GraphOf
<1>3. \A F : (\A d \in Delayable : Parents(F, d) \subseteq V)
              => \A d \in V : Linked(n, V, F)[d] \in AJob
  BY <1>1, <1>2 DEF Linked, AJob
<1>4. \A d \in Delayable : Parents({}, d) = {}
  BY DEF Parents
<1>5. \A d \in V : Linked(n, V, E)[d] \in AJob /\ Linked(n, V, {})[d] \in AJob
  BY <1>3, <1>4
<1>6. \A F : Linked(n, V, F) = [d \in Delayable |->
               IF d \in V THEN Linked(n, V, F)[d] ELSE job[d]]
  BY DEF Linked
<1> QED BY <1>5, <1>6 DEF TypeOK

LEMMA StoreKeeps ==
  ASSUME IInv, ~nodelay, ~dropped, ~raised, NEW n \in Node, NEW V, NEW E, NEW N,
         V \subseteq Delayable, E \subseteq Delayable \X Delayable,
         \A d \in Delayable : Parents(E, d) \subseteq V, \A d \in V : <<d, d>> \notin E, ~Refused(V),
         Store(Linked(n, V, E), V, N)
  PROVE  /\ job' \in [Delayable -> AJob \cup {NoJob, Replaced}]
         /\ stored' \in [Delayable -> AJob \cup {NoJob}]
         /\ \A d \in Delayable : /\ job'[d].kind = "job" => stored'[d] = job'[d]
                                 /\ job'[d].kind = "none" => stored'[d] = NoJob
         /\ StoredGraph'
<1> DEFINE L == Linked(n, V, E)
<1> USE DEF IInv
<1>1. /\ \A d \in V : job'[d] = L[d] /\ stored'[d] = L[d] /\ L[d] \in AJob
      /\ \A d \in Delayable \ V : job'[d] = job[d] /\ stored'[d] = stored[d]
  BY LinkedOk DEF Store, Linked
<1>2. job' \in [Delayable -> AJob \cup {NoJob, Replaced}]
  <2>1. job' = [d \in Delayable |-> job'[d]]
    BY DEF Store, Linked
  <2> QED BY <1>1, <2>1 DEF TypeOK
<1>3. stored' \in [Delayable -> AJob \cup {NoJob}]
  <2>1. stored' = [d \in Delayable |-> stored'[d]]
    BY DEF Store
  <2> QED BY <1>1, <2>1 DEF TypeOK
<1>4. \A d \in Delayable : /\ job'[d].kind = "job" => stored'[d] = job'[d]
                           /\ job'[d].kind = "none" => stored'[d] = NoJob
  BY <1>1 DEF RowsAreJobs, AJob
<1>5. Rows' = Rows \cup V
  BY <1>1 DEF Rows, AJob
<1>6. ASSUME NEW d \in Rows'
      PROVE  /\ stored'[d].state = (IF stored'[d].depends = {} THEN "pending"
                                    ELSE "wait_dependencies")
             /\ stored'[d].depends \subseteq Rows'
             /\ \A p \in stored'[d].depends : /\ stored'[p].graph = stored'[d].graph
                                             /\ stored'[d].graph # None
  <2>1. CASE d \in V
    <3>1. /\ stored'[d] = L[d] /\ L[d] \in AJob /\ L[d].graph = GraphOf(n, V)
          /\ L[d].depends \subseteq Rows \cup V
          /\ L[d].depends = Build(d).depends \cup Parents(E, d)
          /\ (L[d].state = "pending" <=> L[d].depends = {})
          /\ (L[d].depends # {} => L[d].graph # None)
      BY <1>1, <2>1, LinkedOk
    <3>2. ASSUME NEW p \in L[d].depends PROVE stored'[p].graph = GraphOf(n, V)
      <4>1. CASE p \in V
        BY <1>1, <4>1, LinkedOk
      <4>2. CASE p \notin V
        <5>1. p \in Build(d).depends /\ p \in Rows
          BY <2>1, <3>1, <4>2
        <5>2. job[d] # NoJob /\ Build(d) = job[d]
          BY <5>1 DEF Build, NewJob, NoJob
        <5>3. job[d] \in AJob
          BY <2>1, <5>2 DEF TypeOK, Refused, Replaced
        <5>4. stored[d] = Build(d) /\ d \in Rows
          BY <2>1, <5>2, <5>3 DEF RowsAreJobs, AJob, Rows
        <5>5. stored[p].graph = Build(d).graph /\ Build(d).graph # None
          BY <5>1, <5>4 DEF StoredGraph
        <5>6. GraphOf(n, V) = Build(d).graph
          BY <2>1, <5>5, Built
        <5> QED BY <1>1, <4>2, <5>1, <5>5, <5>6 DEF Rows
      <4> QED BY <4>1, <4>2
    <3> QED BY <1>5, <3>1, <3>2 DEF AJob
  <2>2. CASE d \notin V
    <3>1. d \in Rows /\ stored'[d] = stored[d]
      BY <1>1, <1>5, <2>2 DEF Rows
    <3>2. ASSUME NEW p \in stored[d].depends PROVE stored'[p].graph = stored[d].graph
      <4>1. p \in Rows /\ stored[p].graph = stored[d].graph /\ stored[d].graph # None
        BY <3>1 DEF StoredGraph
      <4>2. CASE p \in V
        <5>1. stored[p] = Build(p)
          BY <4>1, <4>2, Built DEF Rows, NoJob, BuiltOk
        <5>2. stored'[p].graph = GraphOf(n, V)
          BY <1>1, <4>2, LinkedOk
        <5> QED BY <4>1, <4>2, <5>1, <5>2, Built
      <4> QED BY <1>1, <4>1, <4>2 DEF Rows
    <3> QED BY <1>5, <3>1, <3>2 DEF StoredGraph
  <2> QED BY <2>1, <2>2
<1>7. StoredGraph'
  BY <1>6 DEF StoredGraph
<1> QED BY <1>2, <1>3, <1>4, <1>7

LEMMA RaiseKeeps ==
  ASSUME IInv, Raise, parts' \in [Node -> Part], UNCHANGED <<edges, nodelay>>
  PROVE  IInv'
<1>1. Rows' = {}
  BY DEF Raise, Rows, NoJob
<1>2. TypeOK'
  BY DEF IInv, TypeOK, Raise
<1> QED
  BY <1>1, <1>2 DEF IInv, RowsAreJobs, StoredGraph, Raise

LEMMA DelayKeeps ==
  ASSUME IInv, NEW n \in Node, NEW N, NEW V, NEW E, V \subseteq Delayable,
         E \subseteq Delayable \X Delayable, \A d \in Delayable : Parents(E, d) \subseteq V,
         parts' \in [Node -> Part], DelayWhole(n, N, V, E)
  PROVE  IInv'
<1> DEFINE L == Linked(n, V, E)
<1> USE DEF IInv
<1>1. ~raised /\ UNCHANGED <<edges, nodelay>>
  BY DEF DelayWhole
<1>2. CASE Raise
  BY <1>1, <1>2, RaiseKeeps
<1>3. CASE ~Refused(V) /\ nodelay /\ StartDirect(n, V, E)
  <2>1. Rows' = {}
    BY <1>3 DEF StartDirect, Rows
  <2>2. job' \in [Delayable -> AJob \cup {NoJob, Replaced}]
    BY <1>1, <1>3, NodelayLinked DEF StartDirect
  <2> QED BY <1>1, <1>3, <2>1, <2>2 DEF StartDirect, TypeOK, RowsAreJobs, StoredGraph
<1>4. CASE ~Refused(V) /\ ~nodelay /\ (\A d \in V : <<d, d>> \notin E) /\ Drop(L, V)
  <2>1. UNCHANGED <<stored, raised>> /\ (dropped => dropped') /\ dropped' \in BOOLEAN
    BY <1>1, <1>4 DEF Drop, TypeOK
  <2>2. job' \in [Delayable -> AJob \cup {NoJob, Replaced}]
    <3>1. L \in [Delayable -> AJob \cup {NoJob, Replaced}]
      BY <1>1, <1>4, NodelayLinked
    <3>2. PICK d \in Keyed(V) : job' = [L EXCEPT ![d] = Replaced]
      BY <1>4 DEF Drop
    <3> HIDE DEF L
    <3> QED BY <3>1, <3>2
  <2>3. ASSUME ~dropped' PROVE RowsAreJobs'
    <3>1. IsFiniteSet(V) /\ Cardinality(V) = 1 /\ ~dropped
      BY <1>4, <2>3, FS_Subset, DelayGraphAssumption DEF Drop, Node
    <3>2. PICK d \in Keyed(V) : job' = [L EXCEPT ![d] = Replaced]
      BY <1>4 DEF Drop
    <3>3. V = {d}
      BY <3>1, <3>2, FS_Singleton DEF Keyed
    <3>4. job'[d] = Replaced /\ \A x \in Delayable \ {d} : job'[x] = job[x]
      BY <3>2, <3>3 DEF Linked
    <3> QED BY <1>1, <2>1, <3>1, <3>4 DEF RowsAreJobs, Replaced
  <2>4. StoredGraph'
    BY <2>1 DEF StoredGraph, Rows
  <2>5. TypeOK'
    BY <1>1, <2>1, <2>2 DEF TypeOK
  <2>6. RowsAreJobs'
    BY <2>3 DEF RowsAreJobs
  <2>7. (nodelay \/ raised => Rows = {})'
    BY <1>1, <1>4, <2>1
  <2> QED BY <2>4, <2>5, <2>6, <2>7
<1>5. CASE ~Refused(V) /\ ~nodelay /\ (\A d \in V : <<d, d>> \notin E) /\ Store(L, V, N)
  <2>1. CASE ~dropped
    BY <1>1, <1>5, <2>1, StoreKeeps DEF Store, TypeOK, RowsAreJobs
  <2>2. CASE dropped
    <3>1. L \in [Delayable -> AJob \cup {NoJob, Replaced}] /\ \A d \in V : L[d] \in AJob
      BY <1>1, <1>5, NodelayLinked
    <3>2. stored' \in [Delayable -> AJob \cup {NoJob}] /\ job' = L /\ dropped'
          /\ raised' = raised
      BY <1>5, <2>2, <3>1 DEF Store, TypeOK
    <3> QED BY <1>1, <1>5, <3>1, <3>2 DEF TypeOK, RowsAreJobs, StoredGraph
  <2> QED BY <2>1, <2>2 DEF TypeOK
<1> QED BY <1>2, <1>3, <1>4, <1>5 DEF DelayWhole

----------------------------------------------------------------------------
LEMMA IInvStep == IInv /\ [Next]_vars => IInv'
<1> SUFFICES ASSUME IInv, [Next]_vars PROVE IInv'
  OBVIOUS
<1> USE DEF IInv
<1>1. ASSUME parts' \in [Node -> Part], edges' \in [Node -> SUBSET (Node \X Node)],
             UNCHANGED <<job, stored, nodelay, dropped, raised>>
      PROVE  IInv'
  BY <1>1 DEF TypeOK, RowsAreJobs, StoredGraph, Rows
<1>2. ASSUME NEW n \in Compound, NEW k \in Lengths, NEW s \in Lists(Made, k),
             Chain(n, s) \/ Group(n, s)
      PROVE  IInv'
  <2>1. n \in Node /\ s \in Seq(Node)
    BY DelayGraphAssumption DEF Lists, Made, Node
  <2>2. parts' \in [Node -> Part] /\ edges' \in [Node -> SUBSET (Node \X Node)]
    BY <1>2, <2>1, MakeKeeps DEF Chain, Group, TypeOK
  <2> QED BY <1>1, <1>2, <2>2 DEF Chain, Group
<1>3. ASSUME NEW d \in Delayable, NEW n \in Compound, NEW k \in 1..2, NEW c \in BOOLEAN,
             NEW s \in Lists(Delayable \ Made, k), Split(d, n, s, c)
      PROVE  IInv'
  <2> DEFINE P == [x \in Node |-> IF x \in Range(s) THEN Leaf(x) ELSE parts[x]]
  <2>1. n \in Node /\ s \in Seq(Node) /\ Range(s) \subseteq Delayable
    BY DEF Lists, Node, Range
  <2>2. \A x \in Range(s) : Leaf(x) \in Part
    BY <2>1 DEF Leaf, Part, PartType, Node
  <2>3. P \in [Node -> Part]
    BY <2>2 DEF TypeOK
  <2>4. parts' \in [Node -> Part] /\ edges' \in [Node -> SUBSET (Node \X Node)]
    BY <1>3, <2>1, <2>3, MakeKeeps DEF Split
  <2> QED BY <1>3, <2>4 DEF Split, TypeOK, RowsAreJobs, StoredGraph, Rows, Replaced
<1>4. ASSUME NEW p \in Made, NEW c \in Made, OnDone(p, c) PROVE IInv'
  <2>1. p \in Node /\ c \in Node /\ parts[p] \in Part
    BY DEF Made, TypeOK
  <2>2. parts[p].of \subseteq Node /\ (parts[p].kind = "chain" => parts[p].end \in Node)
    BY <2>1 DEF Part, PartType
  <2>3. edges' \in [Node -> SUBSET (Node \X Node)]
    BY <1>4, <2>1, <2>2 DEF OnDone, TypeOK, Part, PartType, Made
  <2> QED BY <1>1, <1>4, <2>3 DEF OnDone, TypeOK
<1>5. ASSUME NEW n \in Made, Delay(n) PROVE IInv'
  <2>1. n \in Node /\ Visited(n) \subseteq Node /\ UNCHANGED parts
    BY <1>5 DEF Made, Visited, Delay
  <2> QED BY <1>5, <2>1, WholeIn, DelayKeeps DEF Delay, TypeOK
<1>9. ASSUME NEW d \in Delayable, WithDelay(d) PROVE IInv'
  <2>1. d \in Node /\ \A x \in Delayable : Parents({}, x) = {}
    BY DEF Node, Parents
  <2>2. parts' \in [Node -> Part]
    BY <1>9, <2>1 DEF WithDelay, DelayAtOnce, TypeOK, Leaf, Part, PartType
  <2> QED BY <1>9, <2>1, <2>2, DelayKeeps DEF WithDelay, DelayAtOnce
<1>6. ASSUME NEW d \in Delayable, Execute(d) PROVE IInv'
  BY <1>1, <1>6 DEF Execute, program, TypeOK
<1>7. CASE Fail
  BY <1>7, RaiseKeeps DEF Fail, program, TypeOK
<1>8. CASE UNCHANGED vars
  BY <1>1, <1>8 DEF vars, program, TypeOK
<1> QED
  BY <1>2, <1>3, <1>4, <1>5, <1>6, <1>7, <1>8, <1>9 DEF Next

LEMMA InvInit == Init => IInv
<1> SUFFICES ASSUME Init PROVE IInv
  OBVIOUS
<1>1. \A d \in Given : d \in Delayable /\ Leaf(d) \in Part
  BY DelayGraphAssumption DEF Leaf, Part, PartType, Node
<1>2. Unmade \in Part
  BY DEF Unmade, Part, PartType
<1>3. Rows = {}
  BY DEF Init, FromBase, Rows, NoJob
<1> QED BY <1>1, <1>2, <1>3 DEF Init, FromBase, IInv, TypeOK, RowsAreJobs, StoredGraph, NoJob

\* Every job that delay() stored waits exactly if it depends on another, and what it
\* depends on is stored with the same graph uuid, whatever nodes the program built,
\* extended and delayed again, as long as no graph of several jobs was dropped for its identity keys.
THEOREM StoredGraphHolds == Spec => []StoredGraph
<1>1. Init => IInv
  BY InvInit
<1>2. IInv => StoredGraph
  BY DEF IInv
<1> QED
  BY <1>1, <1>2, IInvStep, PTL DEF Spec

----------------------------------------------------------------------------
(* The nodes a program makes                                               *)

LEMMA LeastNat ==
  ASSUME NEW S \in SUBSET Nat, S # {}
  PROVE  \E n \in S : \A m \in S : n <= m
<1> DEFINE R == {x \in Nat \X Nat : x[1] < x[2]}
<1>1. IsWellFoundedOn(R, Nat)
  BY NatLessThanWellFounded DEF OpToRel
<1>2. \A m, n \in Nat : ~ (<<m, n>> \in R) => n <= m
  OBVIOUS
<1> HIDE DEF R
<1>3. PICK n \in S : \A m \in S : ~ (<<m, n>> \in R)
  BY <1>1, WFMin
<1> QED
  BY <1>2, <1>3

\* Nothing is known of a name that was not made, and nodes are made of nodes
Shape ==
  /\ \A n \in Node \ Made : parts[n] = Unmade /\ edges[n] = {}
  /\ \A n \in Made : /\ parts[n].of \subseteq Made /\ edges[n] \subseteq Made \X Made
                     /\ parts[n].kind = "chain" => parts[n].end \in parts[n].of
                     /\ parts[n].kind = "delayable" => parts[n] = Leaf(n)

\* Wherever the graph of n is visited, its jobs and both of its ends are found
Found(n) ==
  \A N \in SUBSET Node : n \in N /\ Connected(N) =>
    parts[n].head \cup parts[n].tail \cup parts[n].jobs \subseteq WholeVertices(N)

\* Where it begins and ends with, and what on_done() takes for the end
EndsOk(n) ==
  /\ parts[n].first \subseteq parts[n].jobs /\ parts[n].last \subseteq parts[n].jobs
  /\ parts[n].right => parts[n].head = parts[n].first /\ parts[n].tail = parts[n].last
  /\ parts[n].right /\ parts[n].kind = "chain" =>
       parts[parts[n].end].tail = parts[n].last
  /\ parts[n].right /\ parts[n].kind = "group" =>
       parts[n].last = UNION {parts[m].tail : m \in parts[n].of}

Transitive(T) ==
  \A x, y, z \in Delayable : <<x, y>> \in T /\ <<y, z>> \in T => <<x, z>> \in T

Begins(n, T) == \A y \in parts[n].jobs : \E h \in parts[n].first : h = y \/ <<h, y>> \in T
Ends(n, T)   == \A x \in parts[n].jobs : \E l \in parts[n].last : l = x \/ <<x, l>> \in T

\* The edges order each job of n after one it begins with and before one it ends with
Inside(n) ==
  parts[n].right => \A N \in SUBSET Node, T \in SUBSET (Delayable \X Delayable) :
    n \in N /\ Connected(N) /\ Transitive(T) /\ WholeEdges(N) \subseteq T =>
      Begins(n, T) /\ Ends(n, T)

NodeOk(n) == Found(n) /\ EndsOk(n) /\ Inside(n)

NodesOk == Shape /\ \A n \in Made : NodeOk(n)

\* What a program does to the nodes it has
Grows ==
  /\ \A m \in Made : parts'[m] = parts[m]
  /\ \A m \in Node : edges[m] \subseteq edges'[m]

Typed == parts \in [Node -> Part] /\ edges \in [Node -> SUBSET (Node \X Node)]

LEMMA Grown ==
  ASSUME Typed, Typed', Shape, Grows
  PROVE  /\ Made \subseteq Made'
         /\ \A N \in SUBSET Node : /\ Connected(N)' => Connected(N)
                                   /\ WholeVertices(N) \subseteq WholeVertices(N)'
                                   /\ WholeEdges(N) \subseteq WholeEdges(N)'
<1>1. Made \subseteq Made'
  BY DEF Grows, Made
<1>2. \A m \in Node : parts[m] = Unmade \/ parts'[m] = parts[m]
  BY DEF Shape, Grows
<1>3. \A m \in Node : /\ parts[m].of \subseteq parts'[m].of
                      /\ parts[m].tail \subseteq parts'[m].tail
                      /\ parts[m].head \subseteq parts'[m].head
                      /\ edges[m] \subseteq edges'[m]
  BY <1>2 DEF Unmade, Grows
<1>4. \A m \in Node : Vertices(m) \subseteq Vertices(m)' /\ Vertices(m) \subseteq Node
  <2> TAKE m \in Node
  <2>1. parts[m].of \subseteq parts'[m].of /\ edges[m] \subseteq edges'[m]
    BY <1>3
  <2>2. parts[m].of \subseteq Node
    BY DEF Typed, Part, PartType
  <2> QED BY <2>1, <2>2 DEF Vertices, Typed
<1> SUFFICES ASSUME NEW N \in SUBSET Node
             PROVE  /\ Connected(N)' => Connected(N)
                    /\ WholeVertices(N) \subseteq WholeVertices(N)'
                    /\ WholeEdges(N) \subseteq WholeEdges(N)'
  BY <1>1
<1>5. Connected(N)' => Connected(N)
  BY <1>4 DEF Connected
<1>6. WholeVertices(N) \subseteq WholeVertices(N)'
  <2> SUFFICES ASSUME NEW x \in WholeVertices(N) PROVE x \in WholeVertices(N)'
    OBVIOUS
  <2>1. PICK m \in N : \E v \in Vertices(m) : x \in parts[v].tail
    BY DEF WholeVertices
  <2>2. \E v \in Vertices(m)' : x \in parts'[v].tail
    BY <1>3, <1>4, <2>1
  <2> QED BY <2>2 DEF WholeVertices
<1>7. WholeEdges(N) \subseteq WholeEdges(N)'
  <2> SUFFICES ASSUME NEW x \in WholeEdges(N) PROVE x \in WholeEdges(N)'
    OBVIOUS
  <2>1. PICK m \in N : \E e \in edges[m] : x \in parts[e[1]].tail \X parts[e[2]].head
    BY DEF WholeEdges
  <2>2. \A e \in edges[m] : e[1] \in Node /\ e[2] \in Node /\ e \in edges'[m]
    BY <1>3 DEF Typed
  <2>3. \E e \in edges'[m] : x \in parts'[e[1]].tail \X parts'[e[2]].head
    BY <1>3, <2>1, <2>2
  <2> QED BY <2>3 DEF WholeEdges
<1> QED BY <1>5, <1>6, <1>7

\* What is said of a node stays true while the program grows
LEMMA StaysOk ==
  ASSUME Typed, Typed', Shape, Grows, NEW n \in Made, NodeOk(n)
  PROVE  NodeOk(n)'
<1> USE DEF NodeOk
<1>1. /\ n \in Node /\ parts'[n] = parts[n]
      /\ parts[n].kind = "chain" => parts'[parts[n].end] = parts[parts[n].end]
      /\ \A m \in parts[n].of : parts'[m] = parts[m]
  BY DEF Grows, Shape, Made
<1>2. Found(n)'
  BY <1>1, Grown DEF Found
<1>3. EndsOk(n)'
  <2>1. UNION {parts[m].tail : m \in parts[n].of} = UNION {parts'[m].tail : m \in parts[n].of}
    BY <1>1
  <2> QED BY <1>1, <2>1 DEF EndsOk
<1>4. Inside(n)'
  <2> SUFFICES ASSUME parts[n].right, NEW N \in SUBSET Node,
                      NEW T \in SUBSET (Delayable \X Delayable),
                      n \in N, Connected(N)', Transitive(T), WholeEdges(N)' \subseteq T
               PROVE  Begins(n, T)' /\ Ends(n, T)'
    BY <1>1 DEF Inside
  <2>1. Connected(N) /\ WholeEdges(N) \subseteq T
    BY Grown
  <2>2. Begins(n, T) /\ Ends(n, T)
    BY <2>1 DEF Inside
  <2> QED BY <1>1, <2>2 DEF Begins, Ends
<1> QED BY <1>2, <1>3, <1>4

LeavesOk ==
  Typed => \A d \in Delayable : parts[d] = Leaf(d) => NodeOk(d)

ChainsOk ==
  Typed => \A n \in Node, s \in Seq(Node) :
    /\ s # <<>> /\ parts[n] = ChainOf(parts, s) /\ Links(s) \subseteq edges[n]
    /\ \A k \in 1 .. Len(s) : NodeOk(s[k])
    => NodeOk(n)

GroupsOk ==
  Typed => \A n \in Node, s \in Seq(Node) :
    /\ parts[n] = GroupOf(parts, s)
    /\ \A k \in 1 .. Len(s) : NodeOk(s[k])
    => NodeOk(n)

LEMMA LeavesAreOk == LeavesOk
<1> SUFFICES ASSUME Typed, NEW d \in Delayable, parts[d] = Leaf(d) PROVE NodeOk(d)
  BY DEF LeavesOk
<1>1. Found(d)
  BY DEF Found, Leaf, Vertices, WholeVertices
<1>2. EndsOk(d)
  BY DEF EndsOk, Leaf
<1>3. Inside(d)
  BY DEF Inside, Leaf, Begins, Ends
<1> QED BY <1>1, <1>2, <1>3 DEF NodeOk

\* The sets of a list, each followed by the next: F are the first and L the last of J
InRow(len, J, F, L, T) ==
  /\ len \in Nat \ {0} /\ Transitive(T)
  /\ {J, F, L} \subseteq [1 .. len -> SUBSET Delayable]
  /\ \A k \in 1 .. len : F[k] \subseteq J[k] /\ L[k] \subseteq J[k] /\ F[k] # {} /\ L[k] # {}
  /\ \A k \in 1 .. len : \A y \in J[k] : \E h \in F[k] : h = y \/ <<h, y>> \in T
  /\ \A k \in 1 .. len : \A x \in J[k] : \E l \in L[k] : l = x \/ <<x, l>> \in T
  /\ \A k \in 1 .. len - 1 : L[k] \X F[k + 1] \subseteq T

\* In a list of sets that T links, what follows the first members of each set follows the
\* first members of the first set
LEMMA LinkedUp ==
  ASSUME NEW len, NEW J, NEW F, NEW L, NEW T, InRow(len, J, F, L, T)
  PROVE  \A k \in 1 .. len : \A y \in J[k] : \E h \in F[1] : h = y \/ <<h, y>> \in T
<1> USE DEF InRow
<1> SUFFICES ASSUME NEW k \in 1 .. len, NEW y \in J[k],
                    ~ \E h \in F[1] : h = y \/ <<h, y>> \in T
             PROVE  FALSE
  OBVIOUS
<1> DEFINE Bad(i) == \E z \in J[i] : ~ \E h \in F[1] : h = z \/ <<h, z>> \in T
           S == {i \in 1 .. len : Bad(i)}
<1>1. S \in SUBSET Nat /\ S # {}
  <2>1. k \in 1 .. len /\ Bad(k)
    OBVIOUS
  <2> HIDE DEF Bad
  <2> QED BY <2>1
<1>2. PICK i \in S : \A m \in S : i <= m
  BY <1>1, LeastNat
<1>3. i # 1
  BY <1>2
<1> DEFINE p == i - 1
<1>4. p \in 1 .. len - 1 /\ p \in 1 .. len /\ i = p + 1 /\ ~ Bad(p)
  <2> HIDE DEF Bad
  <2> QED BY <1>2, <1>3
<1> HIDE DEF p
<1>5. PICK z \in J[i] : ~ \E h \in F[1] : h = z \/ <<h, z>> \in T
  BY <1>2
<1>6. PICK h \in F[i] : h = z \/ <<h, z>> \in T
  BY <1>2
<1>7. PICK l \in L[p] : l \in J[p]
  <2>1. L[p] \subseteq J[p] /\ L[p] # {}
    BY <1>4
  <2> QED BY <2>1
<1>8. <<l, h>> \in T
  BY <1>4, <1>6, <1>7
<1>9. PICK g \in F[1] : g = l \/ <<g, l>> \in T
  BY <1>4, <1>7
<1>10. g \in Delayable /\ l \in Delayable /\ h \in Delayable /\ z \in Delayable
  BY <1>2, <1>4
<1>11. <<g, h>> \in T
  BY <1>8, <1>9, <1>10 DEF Transitive
<1>12. <<g, z>> \in T
  BY <1>6, <1>10, <1>11 DEF Transitive
<1> QED BY <1>5, <1>12

\* The same from the other end
LEMMA LinkedDown ==
  ASSUME NEW len, NEW J, NEW F, NEW L, NEW T, InRow(len, J, F, L, T)
  PROVE  \A k \in 1 .. len : \A x \in J[k] : \E l \in L[len] : l = x \/ <<x, l>> \in T
<1> DEFINE turn(G) == [k \in 1 .. len |-> G[len + 1 - k]]
           U == {<<e[2], e[1]>> : e \in T \cap (Delayable \X Delayable)}
           tj == turn(J)
           tf == turn(F)
           tl == turn(L)
<1>1. /\ len \in Nat \ {0} /\ Transitive(T)
      /\ \A k \in 1 .. len : len + 1 - k \in 1 .. len /\ len + 1 - (len + 1 - k) = k
      /\ \A k \in 1 .. len : J[k] \subseteq Delayable /\ F[k] \subseteq Delayable
                             /\ L[k] \subseteq Delayable
  BY DEF InRow
<1>2. \A x, y \in Delayable : <<x, y>> \in U <=> <<y, x>> \in T
  OBVIOUS
<1> HIDE DEF U
<1>3. {tj, tf, tl} \subseteq [1 .. len -> SUBSET Delayable]
  BY <1>1
<1>4. Transitive(U)
  BY <1>1, <1>2 DEF Transitive
<1>5. \A k \in 1 .. len : /\ tl[k] \subseteq tj[k] /\ tf[k] \subseteq tj[k]
                          /\ tl[k] # {} /\ tf[k] # {}
  BY <1>1 DEF InRow
<1>6. ASSUME NEW k \in 1 .. len, NEW y \in tj[k]
      PROVE  /\ \E h \in tl[k] : h = y \/ <<h, y>> \in U
             /\ \E l \in tf[k] : l = y \/ <<y, l>> \in U
  <2> DEFINE i == len + 1 - k
  <2>1. i \in 1 .. len /\ tj[k] = J[i] /\ tl[k] = L[i] /\ tf[k] = F[i]
    BY <1>1
  <2> HIDE DEF i, tj, tl, tf
  <2>2. /\ \E l \in L[i] : l = y \/ <<y, l>> \in T
        /\ \E h \in F[i] : h = y \/ <<h, y>> \in T
    BY <2>1 DEF InRow
  <2> QED BY <1>1, <1>2, <2>1, <2>2
<1>7. ASSUME NEW k \in 1 .. len - 1 PROVE tf[k] \X tl[k + 1] \subseteq U
  <2> DEFINE i == len - k
  <2>1. i \in 1 .. len - 1 /\ len + 1 - k = i + 1 /\ len + 1 - (k + 1) = i
        /\ i \in 1 .. len /\ i + 1 \in 1 .. len /\ k \in 1 .. len /\ k + 1 \in 1 .. len
    BY <1>1
  <2> HIDE DEF i
  <2>2. tf[k] = F[i + 1] /\ tl[k + 1] = L[i]
    BY <2>1
  <2>3. L[i] \X F[i + 1] \subseteq T /\ L[i] \subseteq Delayable /\ F[i + 1] \subseteq Delayable
    BY <1>1, <2>1 DEF InRow
  <2>4. ASSUME NEW x \in F[i + 1], NEW y \in L[i] PROVE <<x, y>> \in U
    <3>1. x \in Delayable /\ y \in Delayable /\ <<y, x>> \in T
      BY <2>3
    <3> QED BY <1>2, <3>1
  <2>5. F[i + 1] \X L[i] \subseteq U
    BY <2>4
  <2> QED BY <2>2, <2>5
<1> HIDE DEF tj, tf, tl
<1>8. InRow(len, tj, tl, tf, U)
  BY <1>1, <1>3, <1>4, <1>5, <1>6, <1>7 DEF InRow
<1>9. \A k \in 1 .. len : \A y \in tj[k] : \E h \in tl[1] : h = y \/ <<h, y>> \in U
  BY <1>8, LinkedUp
<1>10. ASSUME NEW k \in 1 .. len, NEW x \in J[k]
      PROVE  \E l \in L[len] : l = x \/ <<x, l>> \in T
  <2> DEFINE i == len + 1 - k
  <2>1. i \in 1 .. len /\ len + 1 - i = k /\ 1 \in 1 .. len /\ len + 1 - 1 = len
        /\ len \in 1 .. len
    BY <1>1
  <2> HIDE DEF i
  <2>2. x \in tj[i] /\ tl[1] = L[len]
    BY <1>1, <2>1 DEF tj, tl
  <2>3. PICK h \in L[len] : h = x \/ <<h, x>> \in U
    BY <1>9, <2>1, <2>2
  <2>4. h \in Delayable /\ x \in Delayable
    BY <1>1, <2>1
  <2> QED BY <1>2, <2>3, <2>4
<1> QED BY <1>10

LEMMA FieldsIn ==
  ASSUME Typed
  PROVE  \A n \in Node :
           /\ parts[n].jobs \subseteq Delayable
           /\ parts[n].first \subseteq Delayable /\ parts[n].last \subseteq Delayable
           /\ parts[n].head \subseteq Delayable /\ parts[n].tail \subseteq Delayable
BY DEF Typed, Part, PartType

LEMMA ChainsAreOk == ChainsOk
<1> SUFFICES ASSUME Typed, NEW n \in Node, NEW s \in Seq(Node), s # <<>>,
                    parts[n] = ChainOf(parts, s), Links(s) \subseteq edges[n],
                    \A k \in 1 .. Len(s) : NodeOk(s[k])
             PROVE  NodeOk(n)
  BY DEF ChainsOk
<1> DEFINE b == s[1]
           e == LastOf(s)
<1>1. /\ Len(s) \in Nat \ {0} /\ 1 \in 1 .. Len(s) /\ Len(s) \in 1 .. Len(s) /\ e = s[Len(s)]
      /\ DOMAIN s = 1 .. Len(s) /\ \A k \in 1 .. Len(s) : s[k] \in Node
      /\ b \in Node /\ e \in Node /\ NodeOk(b) /\ NodeOk(e)
  BY DEF LastOf
<1>2. /\ parts[n].jobs = UNION {parts[s[k]].jobs : k \in 1 .. Len(s)}
      /\ parts[n].head = parts[b].tail /\ parts[n].tail = parts[e].head
      /\ parts[n].first = parts[b].first /\ parts[n].last = parts[e].last
      /\ parts[n].end = e /\ parts[n].of = Range(s) /\ parts[n].kind = "chain"
      /\ parts[n].right =>
           /\ parts[b].tail = parts[b].first /\ parts[e].head = parts[e].last
           /\ \A k \in 1 .. Len(s) : parts[s[k]].right /\ parts[s[k]].jobs # {}
  <2>1. /\ parts[n].jobs = Joined(parts, s, "jobs")
        /\ parts[n].head = parts[b].tail /\ parts[n].tail = parts[e].head
        /\ parts[n].first = parts[b].first /\ parts[n].last = parts[e].last
        /\ parts[n].end = e /\ parts[n].of = Range(s) /\ parts[n].kind = "chain"
    BY DEF ChainOf
  <2>2. Joined(parts, s, "jobs") = UNION {parts[s[k]].jobs : k \in 1 .. Len(s)}
    BY <1>1 DEF Joined
  <2>3. parts[n].right = (/\ RightIn(parts, s) /\ parts[b].tail = parts[b].first
                          /\ parts[e].head = parts[e].last
                          /\ \A k \in DOMAIN s : parts[s[k]].jobs # {})
    <3>1. ChainOf(parts, s).right = (/\ RightIn(parts, s) /\ parts[b].tail = parts[b].first
                          /\ parts[e].head = parts[e].last
                          /\ \A k \in DOMAIN s : parts[s[k]].jobs # {})
      BY DEF ChainOf
    <3> QED BY <3>1
  <2> QED BY <1>1, <2>1, <2>2, <2>3 DEF RightIn
<1>3. \A N \in SUBSET Node : n \in N /\ Connected(N) => \A k \in 1 .. Len(s) : s[k] \in N
  BY <1>1, <1>2 DEF Connected, Vertices, Range
<1> HIDE DEF e
<1>4. Found(n)
  <2> SUFFICES ASSUME NEW N \in SUBSET Node, n \in N, Connected(N)
               PROVE  parts[n].head \cup parts[n].tail \cup parts[n].jobs \subseteq WholeVertices(N)
    BY DEF Found
  <2>1. \A k \in 1 .. Len(s) : parts[s[k]].head \cup parts[s[k]].tail \cup parts[s[k]].jobs
                                 \subseteq WholeVertices(N)
    BY <1>3 DEF NodeOk, Found
  <2> QED BY <1>1, <1>2, <2>1
<1>5. EndsOk(n)
  <2>1. EndsOk(b) /\ EndsOk(e)
    BY <1>1 DEF NodeOk
  <2>2. parts[b].jobs \subseteq parts[n].jobs /\ parts[e].jobs \subseteq parts[n].jobs
    BY <1>1, <1>2
  <2>3. parts[n].first \subseteq parts[n].jobs /\ parts[n].last \subseteq parts[n].jobs
    BY <1>2, <2>1, <2>2 DEF EndsOk
  <2>4. ASSUME parts[n].right
        PROVE  /\ parts[n].head = parts[n].first /\ parts[n].tail = parts[n].last
               /\ parts[parts[n].end].tail = parts[n].last
    <3>1. parts[e].right
      BY <1>1, <1>2, <2>4
    <3> QED BY <1>2, <2>1, <2>4, <3>1 DEF EndsOk
  <2> QED BY <1>2, <2>3, <2>4 DEF EndsOk
<1>6. Inside(n)
  <2> SUFFICES ASSUME parts[n].right, NEW N \in SUBSET Node,
                      NEW T \in SUBSET (Delayable \X Delayable),
                      n \in N, Connected(N), Transitive(T), WholeEdges(N) \subseteq T
               PROVE  Begins(n, T) /\ Ends(n, T)
    BY DEF Inside
  <2>1. \A k \in 1 .. Len(s) : /\ parts[s[k]].right /\ parts[s[k]].jobs # {} /\ EndsOk(s[k])
                               /\ Begins(s[k], T) /\ Ends(s[k], T)
    BY <1>2, <1>3 DEF NodeOk, Inside
  <2>2. ASSUME NEW k \in 1 .. Len(s) - 1
        PROVE  parts[s[k]].last \X parts[s[k + 1]].first \subseteq T
    <3>1. k \in 1 .. Len(s) /\ k + 1 \in 1 .. Len(s) /\ <<s[k], s[k + 1]>> \in edges[n]
      BY <1>1 DEF Links
    <3>2. parts[s[k]].tail = parts[s[k]].last /\ parts[s[k + 1]].head = parts[s[k + 1]].first
      BY <2>1, <3>1 DEF EndsOk
    <3>3. parts[s[k]].tail \X parts[s[k + 1]].head \subseteq WholeEdges(N)
      BY <3>1 DEF WholeEdges
    <3> QED BY <3>2, <3>3
  <2> DEFINE len == Len(s)
             J == [k \in 1 .. len |-> parts[s[k]].jobs]
             F == [k \in 1 .. len |-> parts[s[k]].first]
             L == [k \in 1 .. len |-> parts[s[k]].last]
  <2>3. /\ J \in [1 .. len -> SUBSET Delayable] /\ F \in [1 .. len -> SUBSET Delayable]
        /\ L \in [1 .. len -> SUBSET Delayable]
    BY <1>1, FieldsIn
  <2>4. \A k \in 1 .. len : /\ F[k] \subseteq J[k] /\ L[k] \subseteq J[k]
                            /\ F[k] # {} /\ L[k] # {}
                            /\ \A y \in J[k] : \E h \in F[k] : h = y \/ <<h, y>> \in T
                            /\ \A x \in J[k] : \E l \in L[k] : l = x \/ <<x, l>> \in T
    <3> TAKE k \in 1 .. len
    <3>1. /\ F[k] = parts[s[k]].first /\ L[k] = parts[s[k]].last /\ J[k] = parts[s[k]].jobs
          /\ EndsOk(s[k]) /\ Begins(s[k], T) /\ Ends(s[k], T) /\ parts[s[k]].jobs # {}
      BY <2>1
    <3> HIDE DEF J, F, L, len
    <3>2. F[k] \subseteq J[k] /\ L[k] \subseteq J[k]
      BY <3>1 DEF EndsOk
    <3>3. /\ \A y \in J[k] : \E h \in F[k] : h = y \/ <<h, y>> \in T
          /\ \A x \in J[k] : \E l \in L[k] : l = x \/ <<x, l>> \in T
      BY <3>1 DEF Begins, Ends
    <3> QED BY <3>1, <3>2, <3>3
  <2>5. \A k \in 1 .. len - 1 : L[k] \X F[k + 1] \subseteq T
    BY <1>1, <2>2
  <2>6. len \in Nat \ {0} /\ 1 \in 1 .. len /\ len \in 1 .. len
    BY <1>1
  <2> HIDE DEF J, F, L, len
  <2>7. InRow(len, J, F, L, T)
    <3>1. {J, F, L} \subseteq [1 .. len -> SUBSET Delayable]
      BY <2>3
    <3>2. \A k \in 1 .. len : /\ F[k] \subseteq J[k] /\ L[k] \subseteq J[k]
                              /\ F[k] # {} /\ L[k] # {}
      BY <2>4
    <3>3. \A k \in 1 .. len : \A y \in J[k] : \E h \in F[k] : h = y \/ <<h, y>> \in T
      BY <2>4
    <3>4. \A k \in 1 .. len : \A x \in J[k] : \E l \in L[k] : l = x \/ <<x, l>> \in T
      BY <2>4
    <3> QED BY <2>5, <2>6, <3>1, <3>2, <3>3, <3>4 DEF InRow
  <2>8. \A k \in 1 .. len : \A y \in J[k] : \E h \in F[1] : h = y \/ <<h, y>> \in T
    BY <2>7, LinkedUp
  <2>9. \A k \in 1 .. len : \A x \in J[k] : \E l \in L[len] : l = x \/ <<x, l>> \in T
    BY <2>7, LinkedDown
  <2>10. /\ parts[n].jobs = UNION {J[k] : k \in 1 .. len}
         /\ parts[n].first = F[1] /\ parts[n].last = L[len]
    BY <1>1, <1>2, <2>6 DEF J, F, L, len
  <2> QED BY <2>6, <2>8, <2>9, <2>10 DEF Begins, Ends
<1> QED BY <1>4, <1>5, <1>6 DEF NodeOk

LEMMA GroupsAreOk == GroupsOk
<1> SUFFICES ASSUME Typed, NEW n \in Node, NEW s \in Seq(Node), parts[n] = GroupOf(parts, s),
                    \A k \in 1 .. Len(s) : NodeOk(s[k])
             PROVE  NodeOk(n)
  BY DEF GroupsOk
<1>1. DOMAIN s = 1 .. Len(s) /\ \A k \in 1 .. Len(s) : s[k] \in Node
  OBVIOUS
<1>2. /\ parts[n].jobs = UNION {parts[s[k]].jobs : k \in 1 .. Len(s)}
      /\ parts[n].head = UNION {parts[s[k]].head : k \in 1 .. Len(s)}
      /\ parts[n].tail = UNION {parts[s[k]].tail : k \in 1 .. Len(s)}
      /\ parts[n].first = UNION {parts[s[k]].first : k \in 1 .. Len(s)}
      /\ parts[n].last = UNION {parts[s[k]].last : k \in 1 .. Len(s)}
      /\ parts[n].of = Range(s) /\ parts[n].kind = "group"
      /\ parts[n].right => \A k \in 1 .. Len(s) : parts[s[k]].right
  <2>1. /\ parts[n].jobs = Joined(parts, s, "jobs")
        /\ parts[n].head = Joined(parts, s, "head") /\ parts[n].tail = Joined(parts, s, "tail")
        /\ parts[n].first = Joined(parts, s, "first") /\ parts[n].last = Joined(parts, s, "last")
        /\ parts[n].of = Range(s) /\ parts[n].kind = "group"
        /\ parts[n].right = RightIn(parts, s)
    BY DEF GroupOf
  <2> QED BY <1>1, <2>1 DEF Joined, RightIn
<1>3. \A N \in SUBSET Node : n \in N /\ Connected(N) => \A k \in 1 .. Len(s) : s[k] \in N
  BY <1>1, <1>2 DEF Connected, Vertices, Range
<1>4. Found(n)
  <2> SUFFICES ASSUME NEW N \in SUBSET Node, n \in N, Connected(N)
               PROVE  parts[n].head \cup parts[n].tail \cup parts[n].jobs \subseteq WholeVertices(N)
    BY DEF Found
  <2>1. \A k \in 1 .. Len(s) : parts[s[k]].head \cup parts[s[k]].tail \cup parts[s[k]].jobs
                                 \subseteq WholeVertices(N)
    BY <1>3 DEF NodeOk, Found
  <2> QED BY <1>2, <2>1
<1>5. EndsOk(n)
  <2>1. \A k \in 1 .. Len(s) : EndsOk(s[k])
    BY DEF NodeOk
  <2>2. parts[n].first \subseteq parts[n].jobs /\ parts[n].last \subseteq parts[n].jobs
    <3>1. \A k \in 1 .. Len(s) : /\ parts[s[k]].first \subseteq parts[s[k]].jobs
                                 /\ parts[s[k]].last \subseteq parts[s[k]].jobs
      BY <2>1 DEF EndsOk
    <3>2. \A x \in parts[n].first : \E k \in 1 .. Len(s) : x \in parts[s[k]].first
      BY <1>2
    <3>3. \A x \in parts[n].last : \E k \in 1 .. Len(s) : x \in parts[s[k]].last
      BY <1>2
    <3>4. \A k \in 1 .. Len(s) : \A x \in parts[s[k]].jobs : x \in parts[n].jobs
      BY <1>2
    <3> QED BY <3>1, <3>2, <3>3, <3>4
  <2>3. ASSUME parts[n].right
        PROVE  /\ parts[n].head = parts[n].first /\ parts[n].tail = parts[n].last
               /\ parts[n].last = UNION {parts[m].tail : m \in parts[n].of}
    <3>1. \A k \in 1 .. Len(s) : /\ parts[s[k]].head = parts[s[k]].first
                                 /\ parts[s[k]].tail = parts[s[k]].last
      BY <1>2, <2>1, <2>3 DEF EndsOk
    <3>2. parts[n].head = parts[n].first /\ parts[n].tail = parts[n].last
      BY <1>2, <3>1
    <3>3. UNION {parts[m].tail : m \in Range(s)} = UNION {parts[s[k]].tail : k \in 1 .. Len(s)}
      BY <1>1 DEF Range
    <3> QED BY <1>2, <3>2, <3>3
  <2> QED BY <1>2, <2>2, <2>3 DEF EndsOk
<1>6. Inside(n)
  <2> SUFFICES ASSUME parts[n].right, NEW N \in SUBSET Node,
                      NEW T \in SUBSET (Delayable \X Delayable),
                      n \in N, Connected(N), Transitive(T), WholeEdges(N) \subseteq T
               PROVE  Begins(n, T) /\ Ends(n, T)
    BY DEF Inside
  <2>1. \A k \in 1 .. Len(s) : Begins(s[k], T) /\ Ends(s[k], T)
    BY <1>2, <1>3 DEF NodeOk, Inside
  <2>2. /\ \A y \in parts[n].jobs : \E k \in 1 .. Len(s) : y \in parts[s[k]].jobs
        /\ \A k \in 1 .. Len(s) : /\ parts[s[k]].first \subseteq parts[n].first
                                 /\ parts[s[k]].last \subseteq parts[n].last
    BY <1>2
  <2>3. ASSUME NEW y \in parts[n].jobs
        PROVE  /\ \E h \in parts[n].first : h = y \/ <<h, y>> \in T
               /\ \E l \in parts[n].last : l = y \/ <<y, l>> \in T
    <3>1. PICK k \in 1 .. Len(s) : y \in parts[s[k]].jobs
      BY <2>2
    <3>2. /\ \E h \in parts[s[k]].first : h = y \/ <<h, y>> \in T
          /\ \E l \in parts[s[k]].last : l = y \/ <<y, l>> \in T
      BY <2>1, <3>1 DEF Begins, Ends
    <3> QED BY <2>2, <3>2
  <2> QED BY <2>3 DEF Begins, Ends
<1> QED BY <1>4, <1>5, <1>6 DEF NodeOk

\* A chain or group that is made of nodes of P: what the program had, and new delayables
LEMMA MakeKeepsNodes ==
  ASSUME Typed, Typed', NodesOk, NEW P \in [Node -> Part], NEW n \in Node \ Made,
         NEW s \in Seq(Node), n \notin Range(s),
         \A m \in Range(s) : P[m].kind # "unmade",
         \A m \in Node : P[m] = parts[m] \/ (m \notin Made /\ m \in Delayable /\ P[m] = Leaf(m)),
         MakeChain(P, n, s) \/ MakeGroup(P, n, s)
  PROVE  Grows /\ NodesOk' /\ Range(s) \subseteq Made' /\ n \in Made'
<1>1. /\ DOMAIN s = 1 .. Len(s) /\ Len(s) \in Nat
      /\ \A k \in 1 .. Len(s) : s[k] \in Node /\ s[k] \in Range(s)
      /\ Range(s) \subseteq Node
  BY DEF Range
<1>2. /\ \A m \in Node \ {n} : parts'[m] = P[m] /\ edges'[m] = edges[m]
      /\ \/ parts'[n] = ChainOf(P, s) /\ s # <<>> /\ edges'[n] = Links(s)
         \/ parts'[n] = GroupOf(P, s) /\ edges'[n] = edges[n]
  BY DEF MakeChain, MakeGroup, Typed
<1>3. /\ parts[n] = Unmade /\ edges[n] = {} /\ Shape
      /\ parts'[n].kind \in {"chain", "group"} /\ parts'[n].of = Range(s)
  <2>1. /\ ChainOf(P, s).kind = "chain" /\ ChainOf(P, s).of = Range(s)
        /\ GroupOf(P, s).kind = "group" /\ GroupOf(P, s).of = Range(s)
    BY DEF ChainOf, GroupOf
  <2>2. parts[n] = Unmade /\ edges[n] = {} /\ Shape
    BY DEF NodesOk, Shape
  <2> QED BY <1>2, <2>1, <2>2
<1>4. Grows
  BY <1>2, <1>3 DEF Grows, Made
<1>5. Range(s) \subseteq Made' /\ n \in Made' /\ Made \subseteq Made'
  BY <1>1, <1>2, <1>3, <1>4, Grown DEF Made
<1>6. ASSUME NEW m \in Made' PROVE m \in Made \/ m = n \/ (m \in Delayable /\ parts'[m] = Leaf(m))
  BY <1>2 DEF Made
<1>7. ASSUME NEW m \in Node \ Made' PROVE parts'[m] = Unmade /\ edges'[m] = {}
  BY <1>2, <1>3, <1>5, <1>7 DEF Made, Shape, Leaf
<1>8. ASSUME NEW m \in Made'
      PROVE  /\ parts'[m].of \subseteq Made' /\ edges'[m] \subseteq Made' \X Made'
             /\ parts'[m].kind = "chain" => parts'[m].end \in parts'[m].of
             /\ parts'[m].kind = "delayable" => parts'[m] = Leaf(m)
  <2>1. CASE m \in Made
    <3>1. m # n /\ m \in Node /\ parts'[m] = parts[m] /\ edges'[m] = edges[m]
      BY <1>2, <1>3, <1>4, <2>1 DEF Grows, Made, Unmade
    <3>2. /\ parts[m].of \subseteq Made /\ edges[m] \subseteq Made \X Made
          /\ parts[m].kind = "chain" => parts[m].end \in parts[m].of
          /\ parts[m].kind = "delayable" => parts[m] = Leaf(m)
      BY <1>3, <2>1 DEF Shape
    <3> QED BY <1>5, <3>1, <3>2
  <2>2. CASE m = n
    <3>1. s # <<>> => LastOf(s) \in Range(s)
      BY <1>1 DEF LastOf
    <3>2. Links(s) \subseteq Made' \X Made'
      BY <1>1, <1>5 DEF Links
    <3>3. parts'[m].kind = "chain" => parts'[m].end \in parts'[m].of
      BY <1>2, <2>2, <3>1 DEF ChainOf, GroupOf
    <3> QED BY <1>2, <1>3, <1>5, <2>2, <3>2, <3>3
  <2>3. CASE m \notin Made /\ m # n
    <3>1. m \in Delayable /\ parts'[m] = Leaf(m) /\ edges'[m] = {}
      BY <1>2, <1>3, <1>6, <2>3 DEF Shape, Made
    <3> QED BY <3>1 DEF Leaf
  <2> QED BY <2>1, <2>2, <2>3
<1>9. Shape'
  BY <1>7, <1>8 DEF Shape
<1>10. \A m \in Made' \ {n} : NodeOk(m)'
  <2>1. LeavesOk'
    BY LeavesAreOk, PTL
  <2>2. \A m \in Made : NodeOk(m)'
    BY <1>3, <1>4, StaysOk DEF NodesOk
  <2> QED BY <1>6, <2>1, <2>2 DEF LeavesOk
<1>11. NodeOk(n)'
  <2>1. \A k \in 1 .. Len(s) : parts'[s[k]] = P[s[k]] /\ NodeOk(s[k])'
    BY <1>1, <1>2, <1>5, <1>10
  <2>2. CASE parts'[n] = ChainOf(P, s) /\ s # <<>> /\ edges'[n] = Links(s)
    <3>1. ChainsOk'
      BY ChainsAreOk, PTL
    <3>2. ChainOf(P, s) = ChainOf(parts', s)
      <4>1. P[s[1]] = parts'[s[1]] /\ P[LastOf(s)] = parts'[LastOf(s)]
        BY <1>1, <2>1, <2>2 DEF LastOf
      <4>2. Joined(P, s, "jobs") = Joined(parts', s, "jobs")
        BY <1>1, <2>1 DEF Joined
      <4>3. RightIn(P, s) = RightIn(parts', s)
        BY <1>1, <2>1 DEF RightIn
      <4>4. (\A k \in DOMAIN s : P[s[k]].jobs # {}) = (\A k \in DOMAIN s : parts'[s[k]].jobs # {})
        BY <1>1, <2>1
      <4> QED BY <4>1, <4>2, <4>3, <4>4 DEF ChainOf
    <3> QED BY <2>1, <2>2, <3>1, <3>2 DEF ChainsOk
  <2>3. CASE parts'[n] = GroupOf(P, s)
    <3>1. GroupsOk'
      BY GroupsAreOk, PTL
    <3>2. GroupOf(P, s) = GroupOf(parts', s)
      <4>1. RightIn(P, s) = RightIn(parts', s)
        BY <1>1, <2>1 DEF RightIn
      <4>2. \A f : Joined(P, s, f) = Joined(parts', s, f)
        BY <1>1, <2>1 DEF Joined
      <4> QED BY <4>1, <4>2 DEF GroupOf
    <3> QED BY <2>1, <2>3, <3>1, <3>2 DEF GroupsOk
  <2> QED BY <1>2, <2>2, <2>3
<1> QED BY <1>4, <1>5, <1>9, <1>10, <1>11 DEF NodesOk

\* on_done() and what makes no node: the nodes are what they were
LEMMA SameKeepsNodes ==
  ASSUME Typed, Typed', NodesOk, UNCHANGED parts, Grows,
         \A m \in Node \ Made : edges'[m] = {},
         \A m \in Made : edges'[m] \subseteq Made \X Made
  PROVE  NodesOk'
<1>1. Made' = Made /\ Shape /\ Shape'
  BY DEF Made, NodesOk, Shape
<1> QED BY <1>1, StaysOk DEF NodesOk

\* with_delay()
LEMMA LeafKeepsNodes ==
  ASSUME Typed, Typed', NodesOk, NEW d \in Delayable \ Made, UNCHANGED edges,
         parts' = [parts EXCEPT ![d] = Leaf(d)]
  PROVE  Grows /\ NodesOk'
<1>1. /\ d \in Node /\ parts'[d] = Leaf(d) /\ edges'[d] = {} /\ Shape
      /\ \A m \in Node \ {d} : parts'[m] = parts[m] /\ edges'[m] = edges[m]
  BY DEF Node, Typed, NodesOk, Shape
<1>2. Grows /\ Made' = Made \cup {d}
  BY <1>1 DEF Grows, Made, Leaf
<1>3. Shape'
  <2>1. parts'[d].of = {d} /\ parts'[d].kind = "delayable"
    BY <1>1 DEF Leaf
  <2> QED BY <1>1, <1>2, <2>1 DEF Shape
<1>4. NodeOk(d)'
  <2>1. LeavesOk'
    BY LeavesAreOk, PTL
  <2> QED BY <1>1, <2>1 DEF LeavesOk
<1> QED BY <1>1, <1>2, <1>3, <1>4, StaysOk DEF NodesOk

----------------------------------------------------------------------------
(* What the program asks for                                               *)

\* What on_done() and chain() asked of node o[1] is in every graph that visits it
OrderOk(o) ==
  /\ o \in Made \X Made \X Made
  /\ parts[o[2]].right /\ parts[o[3]].right => \A N \in SUBSET Node : o[1] \in N /\ Connected(N) =>
       /\ o[2] \in N
       /\ parts[o[2]].last # {} => o[3] \in N
       /\ parts[o[2]].last \X parts[o[3]].first \subseteq WholeEdges(N)

LEMMA OrderStays ==
  ASSUME Typed, Typed', Shape, Grows, NEW o, OrderOk(o) PROVE OrderOk(o)'
<1>1. o \in Made \X Made \X Made /\ Made \subseteq Made'
  BY Grown DEF OrderOk
<1>2. parts'[o[2]] = parts[o[2]] /\ parts'[o[3]] = parts[o[3]]
  BY <1>1 DEF Grows
<1>3. o \in Made' \X Made' \X Made'
  BY <1>1
<1>4. ASSUME parts[o[2]].right, parts[o[3]].right, NEW N \in SUBSET Node,
             o[1] \in N, Connected(N)'
      PROVE  /\ o[2] \in N
             /\ parts[o[2]].last # {} => o[3] \in N
             /\ parts[o[2]].last \X parts[o[3]].first \subseteq WholeEdges(N)'
  <2>1. Connected(N) /\ WholeEdges(N) \subseteq WholeEdges(N)'
    BY <1>4, Grown
  <2> QED BY <1>4, <2>1 DEF OrderOk
<1> QED BY <1>2, <1>3, <1>4 DEF OrderOk

ChainOrderOk ==
  Typed /\ NodesOk => \A n \in Made, s \in Seq(Node) :
    /\ Range(s) \subseteq Made /\ parts[n].of = Range(s) /\ edges[n] = Links(s)
    => \A l \in Links(s) : OrderOk(<<n, l[1], l[2]>>)

LEMMA ChainKeepsOrder == ChainOrderOk
<1> SUFFICES ASSUME Typed, NodesOk, NEW n \in Made, NEW s \in Seq(Node), Range(s) \subseteq Made,
                    parts[n].of = Range(s), edges[n] = Links(s), NEW l \in Links(s)
             PROVE  OrderOk(<<n, l[1], l[2]>>)
  BY DEF ChainOrderOk
<1>1. l[1] \in Range(s) /\ l[2] \in Range(s) /\ l = <<l[1], l[2]>>
  BY DEF Links, Range
<1>2. l[1] \in Made /\ l[2] \in Made
  BY <1>1
<1>3. ASSUME parts[l[1]].right, parts[l[2]].right, NEW N \in SUBSET Node, n \in N, Connected(N)
      PROVE  /\ l[1] \in N /\ l[2] \in N
             /\ parts[l[1]].last \X parts[l[2]].first \subseteq WholeEdges(N)
  <2>1. l[1] \in N /\ l[2] \in N
    BY <1>1, <1>3 DEF Connected, Vertices
  <2>2. parts[l[1]].tail = parts[l[1]].last /\ parts[l[2]].head = parts[l[2]].first
    BY <1>2, <1>3 DEF NodesOk, NodeOk, EndsOk
  <2>3. parts[l[1]].tail \X parts[l[2]].head \subseteq WholeEdges(N)
    BY <1>3 DEF WholeEdges
  <2> QED BY <2>1, <2>2, <2>3
<1> QED BY <1>2, <1>3 DEF OrderOk

\* The edges that on_done() adds to the graph of p
Added(p, c) ==
  CASE parts[p].kind = "delayable" -> {<<p, c>>}
    [] parts[p].kind = "chain"     -> {<<parts[p].end, c>>}
    [] parts[p].kind = "group"     -> parts[p].of \X {c}

DoneOrderOk ==
  Typed /\ NodesOk => \A p, c \in Made : Added(p, c) \subseteq edges[p] => OrderOk(<<p, p, c>>)

LEMMA OnDoneKeepsOrder == DoneOrderOk
<1> SUFFICES ASSUME Typed, NodesOk, NEW p \in Made, NEW c \in Made, Added(p, c) \subseteq edges[p]
             PROVE  OrderOk(<<p, p, c>>)
  BY DEF DoneOrderOk
<1> SUFFICES ASSUME parts[p].right, parts[c].right, NEW N \in SUBSET Node, p \in N, Connected(N)
             PROVE  /\ parts[p].last # {} => c \in N
                    /\ parts[p].last \X parts[c].first \subseteq WholeEdges(N)
  BY DEF OrderOk
<1>1. EndsOk(p) /\ EndsOk(c) /\ Shape
  BY DEF NodesOk, NodeOk
<1>2. parts[c].head = parts[c].first /\ parts[p].tail = parts[p].last
  BY <1>1 DEF EndsOk
<1>3. \A e \in edges[p] : /\ e[2] \in N
                          /\ parts[e[1]].tail \X parts[e[2]].head \subseteq WholeEdges(N)
  BY DEF Connected, Vertices, WholeEdges
<1>4. parts[p].kind \in {"delayable", "chain", "group"}
  BY DEF Made, Typed, Part, PartType
<1>5. CASE parts[p].kind = "delayable"
  <2>1. <<p, c>> \in edges[p]
    BY <1>5 DEF Added
  <2> QED BY <1>2, <1>3, <2>1
<1>6. CASE parts[p].kind = "chain"
  <2>1. <<parts[p].end, c>> \in edges[p]
    BY <1>6 DEF Added
  <2>2. parts[parts[p].end].tail = parts[p].last
    BY <1>1, <1>6 DEF EndsOk
  <2> QED BY <1>2, <1>3, <2>1, <2>2
<1>7. CASE parts[p].kind = "group"
  <2>1. parts[p].of \X {c} \subseteq edges[p]
    BY <1>7 DEF Added
  <2>2. parts[p].last = UNION {parts[m].tail : m \in parts[p].of}
    BY <1>1, <1>7 DEF EndsOk
  <2>3. ASSUME NEW x \in parts[p].last, NEW y \in parts[c].first
        PROVE  <<x, y>> \in WholeEdges(N)
    <3>1. PICK m \in parts[p].of : x \in parts[m].tail
      BY <2>2
    <3>2. <<m, c>> \in edges[p]
      BY <2>1
    <3>3. parts[m].tail \X parts[c].head \subseteq WholeEdges(N)
      BY <1>3, <3>2
    <3> QED BY <1>2, <3>1, <3>3
  <2>4. ASSUME parts[p].last # {} PROVE c \in N
    <3>1. PICK m \in parts[p].of : TRUE
      BY <2>2, <2>4
    <3>2. <<m, c>> \in edges[p]
      BY <2>1
    <3> QED BY <1>3, <3>2
  <2> QED BY <2>3, <2>4
<1> QED BY <1>4, <1>5, <1>6, <1>7

ProgramInv == NodesOk /\ \A o \in order : OrderOk(o)

LEMMA MakeKeepsProgram ==
  ASSUME Typed, Typed', ProgramInv, NEW P \in [Node -> Part], NEW n \in Node \ Made,
         NEW s \in Seq(Node), n \notin Range(s),
         \A m \in Range(s) : P[m].kind # "unmade",
         \A m \in Node : P[m] = parts[m] \/ (m \notin Made /\ m \in Delayable /\ P[m] = Leaf(m)),
         MakeChain(P, n, s) \/ MakeGroup(P, n, s)
  PROVE  Grows /\ ProgramInv'
<1>1. NodesOk /\ Shape
  BY DEF ProgramInv, NodesOk
<1>2. Grows /\ NodesOk' /\ Range(s) \subseteq Made' /\ n \in Made'
  BY <1>1, MakeKeepsNodes
<1>3. \A o \in order : OrderOk(o)'
  BY <1>1, <1>2, OrderStays DEF ProgramInv
<1>4. CASE MakeChain(P, n, s)
  <2>1. parts'[n] = ChainOf(P, s) /\ edges'[n] = Links(s)
        /\ order' = order \cup {<<n, l[1], l[2]>> : l \in Links(s)}
    BY <1>4 DEF MakeChain, Typed
  <2>2. parts'[n].of = Range(s)
    BY <2>1 DEF ChainOf
  <2>3. ChainOrderOk'
    BY ChainKeepsOrder, PTL
  <2>4. \A l \in Links(s) : OrderOk(<<n, l[1], l[2]>>)'
    BY <1>2, <2>1, <2>2, <2>3 DEF ChainOrderOk
  <2> QED BY <1>2, <1>3, <2>1, <2>4 DEF ProgramInv
<1>5. CASE MakeGroup(P, n, s)
  BY <1>2, <1>3, <1>5 DEF MakeGroup, ProgramInv
<1> QED BY <1>4, <1>5

\* parts and edges as they were
LEMMA SameKeepsProgram ==
  ASSUME Typed, Typed', ProgramInv, UNCHANGED <<parts, edges, order>>
  PROVE  Grows /\ ProgramInv'
<1>1. Grows /\ NodesOk /\ Shape
  BY DEF Grows, ProgramInv, NodesOk
<1>2. NodesOk'
  BY <1>1, SameKeepsNodes DEF Shape
<1> QED BY <1>1, <1>2, OrderStays DEF ProgramInv

LEMMA ProgramStep ==
  ASSUME TypeOK, TypeOK', ProgramInv, [Next]_vars
  PROVE  Grows /\ ProgramInv'
<1>0. Typed /\ Typed' /\ NodesOk /\ Shape
  BY DEF TypeOK, Typed, ProgramInv, NodesOk
<1>1. CASE UNCHANGED <<parts, edges, order>>
  BY <1>0, <1>1, SameKeepsProgram
<1>2. ASSUME NEW n \in Compound \ Made, NEW k \in Lengths, NEW s \in Lists(Made, k),
             Chain(n, s) \/ Group(n, s)
      PROVE  Grows /\ ProgramInv'
  <2>1. /\ n \in Node \ Made /\ s \in Seq(Node) /\ n \notin Range(s)
        /\ \A m \in Range(s) : parts[m].kind # "unmade"
    BY DelayGraphAssumption DEF Lists, Made, Node, Range
  <2>2. parts \in [Node -> Part] /\ (MakeChain(parts, n, s) \/ MakeGroup(parts, n, s))
    BY <1>0, <1>2 DEF Chain, Group, Typed
  <2> QED BY <1>0, <2>1, <2>2, MakeKeepsProgram
<1>3. ASSUME NEW d \in Delayable, NEW n \in Compound \ Made, NEW k \in 1 .. 2, NEW c \in BOOLEAN,
             NEW s \in Lists(Delayable \ Made, k), Split(d, n, s, c)
      PROVE  Grows /\ ProgramInv'
  <2> DEFINE P == [x \in Node |-> IF x \in Range(s) THEN Leaf(x) ELSE parts[x]]
  <2>1. /\ n \in Node \ Made /\ s \in Seq(Node) /\ n \notin Range(s)
        /\ Range(s) \subseteq Delayable \ Made /\ Delayable \subseteq Node
    BY DelayGraphAssumption DEF Lists, Node, Range
  <2>2. \A x \in Range(s) : Leaf(x) \in Part /\ Leaf(x).kind # "unmade"
    BY <2>1 DEF Leaf, Part, PartType, Node
  <2>3. P \in [Node -> Part]
    BY <1>0, <2>2 DEF Typed
  <2>4. /\ \A m \in Range(s) : P[m].kind # "unmade"
        /\ \A m \in Node : P[m] = parts[m] \/ (m \notin Made /\ m \in Delayable /\ P[m] = Leaf(m))
    BY <2>1, <2>2
  <2>5. MakeChain(P, n, s) \/ MakeGroup(P, n, s)
    BY <1>3 DEF Split
  <2> HIDE DEF P
  <2> QED BY <1>0, <2>1, <2>3, <2>4, <2>5, MakeKeepsProgram
<1>4. ASSUME NEW p \in Made, NEW c \in Made, OnDone(p, c) PROVE Grows /\ ProgramInv'
  <2>1. /\ p \in Node /\ parts' = parts /\ edges' = [edges EXCEPT ![p] = @ \cup Added(p, c)]
        /\ order' = order \cup {<<p, p, c>>}
    BY <1>4 DEF OnDone, Added, Made
  <2>2. edges'[p] = edges[p] \cup Added(p, c) /\ \A m \in Node \ {p} : edges'[m] = edges[m]
    BY <1>0, <2>1 DEF Typed
  <2>3. Added(p, c) \subseteq Made \X Made
    <3>1. parts[p].of \subseteq Made /\ (parts[p].kind = "chain" => parts[p].end \in Made)
      BY <1>0 DEF Shape
    <3>2. parts[p].kind \in {"delayable", "chain", "group"}
      BY <1>0, <2>1 DEF Made, Typed, Part, PartType
    <3> QED BY <3>1, <3>2 DEF Added
  <2>4. Grows
    BY <2>1, <2>2 DEF Grows
  <2>5. NodesOk'
    <3>1. \A m \in Node \ Made : edges'[m] = {}
      BY <1>0, <2>2 DEF Shape
    <3>2. \A m \in Made : edges'[m] \subseteq Made \X Made
      BY <1>0, <2>2, <2>3 DEF Shape, Made
    <3> QED BY <1>0, <2>1, <2>4, <3>1, <3>2, SameKeepsNodes
  <2>6. OrderOk(<<p, p, c>>)'
    <3>1. DoneOrderOk'
      BY OnDoneKeepsOrder, PTL
    <3>2. Added(p, c)' = Added(p, c) /\ Made' = Made
      BY <2>1 DEF Added, Made
    <3> QED BY <1>0, <2>2, <2>5, <3>1, <3>2 DEF DoneOrderOk
  <2> QED BY <1>0, <2>1, <2>4, <2>5, <2>6, OrderStays DEF ProgramInv
<1>5. ASSUME NEW n \in Made, Delay(n) PROVE UNCHANGED <<parts, edges, order>>
  BY <1>5 DEF Delay, DelayWhole
<1>6. ASSUME NEW d \in Delayable, WithDelay(d) PROVE Grows /\ ProgramInv'
  <2>1. d \in Delayable \ Made /\ parts' = [parts EXCEPT ![d] = Leaf(d)] /\ UNCHANGED <<edges, order>>
    BY <1>6 DEF WithDelay, DelayAtOnce, DelayWhole
  <2>2. Grows /\ NodesOk'
    BY <1>0, <2>1, LeafKeepsNodes
  <2> QED BY <1>0, <2>1, <2>2, OrderStays DEF ProgramInv
<1>7. ASSUME NEW d \in Delayable, Execute(d) PROVE UNCHANGED <<parts, edges, order>>
  BY <1>7 DEF Execute, program
<1>8. ASSUME Fail PROVE UNCHANGED <<parts, edges, order>>
  BY <1>8 DEF Fail, program
<1>9. ASSUME UNCHANGED vars PROVE UNCHANGED <<parts, edges, order>>
  BY <1>9 DEF vars, program
<1>10. CASE /\ Compound \ Made # {}
            /\ LET n == CHOOSE x \in Compound \ Made : TRUE IN
               \/ \E k \in Lengths : \E s \in Lists(Made, k) : Chain(n, s) \/ Group(n, s)
               \/ \E d \in Delayable, k \in 1..2, c \in BOOLEAN :
                    \E s \in Lists(Delayable \ Made, k) : Split(d, n, s, c)
  <2> DEFINE n == CHOOSE x \in Compound \ Made : TRUE
  <2>1. n \in Compound \ Made
    BY <1>10
  <2> HIDE DEF n
  <2> QED BY <1>2, <1>3, <1>10, <2>1 DEF n
<1> QED
  BY <1>1, <1>4, <1>5, <1>6, <1>7, <1>8, <1>9, <1>10 DEF Next

----------------------------------------------------------------------------
(* What is stored of it                                                    *)

\* The edges of a whole graph are between its vertices
LEMMA WholeEdgesIn ==
  ASSUME Typed, NodesOk, NEW N \in SUBSET Node, Connected(N)
  PROVE  /\ WholeVertices(N) \subseteq Delayable
         /\ WholeEdges(N) \subseteq WholeVertices(N) \X WholeVertices(N)
<1>1. ASSUME NEW m \in N, NEW e \in edges[m]
      PROVE  parts[e[1]].tail \X parts[e[2]].head \subseteq WholeVertices(N) \X WholeVertices(N)
  <2>1. e[1] \in Vertices(m) /\ e[2] \in Vertices(m)
    BY DEF Vertices
  <2>2. m \in Made /\ e \in Made \X Made
    BY DEF NodesOk, Shape
  <2>3. e[1] \in N /\ e[2] \in N /\ e[1] \in Made /\ e[2] \in Made
    BY <2>1, <2>2 DEF Connected
  <2>4. parts[e[1]].tail \subseteq WholeVertices(N) /\ parts[e[2]].head \subseteq WholeVertices(N)
    BY <2>3 DEF NodesOk, NodeOk, Found
  <2> QED BY <2>4
<1>2. WholeEdges(N) \subseteq WholeVertices(N) \X WholeVertices(N)
  BY <1>1 DEF WholeEdges
<1>3. WholeVertices(N) \subseteq Delayable
  <2>1. \A m \in N : Vertices(m) \subseteq Node
    BY DEF Connected
  <2> QED BY <2>1, FieldsIn DEF WholeVertices
<1> QED BY <1>2, <1>3

LEMMA VisitedConnected ==
  ASSUME Typed, NEW n \in Node
  PROVE  Visited(n) \in SUBSET Node /\ n \in Visited(n) /\ Connected(Visited(n))
<1>1. \A m \in Node : Vertices(m) \subseteq Node
  <2> TAKE m \in Node
  <2>1. parts[m].of \subseteq Node
    BY DEF Typed, Part, PartType
  <2> QED BY <2>1 DEF Vertices, Typed
<1>2. Visited(n) \in SUBSET Node /\ n \in Visited(n)
  BY DEF Visited
<1>3. ASSUME NEW m \in Visited(n), NEW v \in Vertices(m) PROVE v \in Visited(n)
  <2>1. v \in Node
    BY <1>1, <1>2
  <2>2. ASSUME NEW N \in SUBSET Node, n \in N, Connected(N) PROVE v \in N
    <3>1. m \in N
      BY <2>2 DEF Visited
    <3> QED BY <2>2, <3>1 DEF Connected
  <2> QED BY <2>1, <2>2 DEF Visited
<1> QED BY <1>2, <1>3 DEF Connected

\* A row lacks nothing that its generated job does not lack
RowsBehind ==
  ~nodelay /\ ~raised => \A d \in Delayable : stored[d].kind = "job" =>
    \/ job[d].kind = "replaced"
    \/ job[d].kind = "job" /\ stored[d].depends \subseteq job[d].depends

AskedOk(a) ==
  /\ a \in Made \X Made
  /\ parts[a[1]].right /\ parts[a[2]].right =>
       \A x \in parts[a[1]].jobs, y \in parts[a[2]].jobs : y \in Rows /\ x \in Ancestors(y)

AskedInv == RowsBehind /\ \A a \in asked : AskedOk(a)

\* Dependencies are only ever added
RowsGrow == \A d \in Rows : d \in Rows' /\ stored[d].depends \subseteq stored'[d].depends

LEMMA AskedStays ==
  ASSUME Typed, Typed', Shape, Grows, RowsGrow, NEW a, AskedOk(a)
  PROVE  AskedOk(a)'
<1>1. /\ a \in Made \X Made /\ Made \subseteq Made'
      /\ parts'[a[1]] = parts[a[1]] /\ parts'[a[2]] = parts[a[2]]
  BY Grown DEF AskedOk, Grows
<1>2. ASSUME NEW y \in Rows, NEW x \in Ancestors(y) PROVE x \in Ancestors(y)'
  <2> SUFFICES ASSUME NEW S \in SUBSET Delayable, stored'[y].depends \subseteq S,
                      \A p \in S \cap Rows' : stored'[p].depends \subseteq S
               PROVE  x \in S
    BY <1>2 DEF Ancestors
  <2>1. stored[y].depends \subseteq S /\ \A p \in S \cap Rows : stored[p].depends \subseteq S
    BY DEF RowsGrow
  <2> QED BY <1>2, <2>1 DEF Ancestors
<1>3. \A y \in Rows : y \in Rows'
  BY DEF RowsGrow
<1> QED BY <1>1, <1>2, <1>3 DEF AskedOk

\* The jobs that rows wait for, in pairs
Waiting == {e \in Delayable \X Delayable : e[2] \in Rows /\ e[1] \in Ancestors(e[2])}

WaitingOk ==
  /\ Transitive(Waiting)
  /\ \A y \in Rows : \A x \in Delayable : x \in stored[y].depends => <<x, y>> \in Waiting

LEMMA WaitingTransitive == WaitingOk
<1>1. ASSUME NEW x \in Delayable, NEW y \in Delayable, NEW z \in Delayable,
             <<x, y>> \in Waiting, <<y, z>> \in Waiting
      PROVE  <<x, z>> \in Waiting
  <2>1. y \in Rows /\ z \in Rows /\ x \in Ancestors(y) /\ y \in Ancestors(z)
    BY <1>1 DEF Waiting
  <2>2. ASSUME NEW S \in SUBSET Delayable, stored[z].depends \subseteq S,
               \A p \in S \cap Rows : stored[p].depends \subseteq S
        PROVE  x \in S
    <3>1. y \in S
      BY <2>1, <2>2 DEF Ancestors
    <3>2. stored[y].depends \subseteq S
      BY <2>1, <2>2, <3>1
    <3> QED BY <2>1, <2>2, <3>2 DEF Ancestors
  <2> QED BY <2>1, <2>2 DEF Waiting, Ancestors
<1>2. \A y \in Rows : \A x \in Delayable : x \in stored[y].depends => <<x, y>> \in Waiting
  BY DEF Waiting, Ancestors, Rows
<1> QED BY <1>1, <1>2 DEF Transitive, WaitingOk

\* The jobs that delay() makes of the graph V, E: none loses a dependency
LEMMA LinkedGrow ==
  ASSUME TypeOK, NEW n \in Node, NEW V, NEW E, V \subseteq Delayable, ~Refused(V),
         \A d \in Delayable : Parents(E, d) \subseteq V
  PROVE  \A d \in V : /\ Linked(n, V, E)[d] \in AJob /\ Build(d) \in AJob
                      /\ Linked(n, V, E)[d].depends = Build(d).depends \cup Parents(E, d)
<1> TAKE d \in V
<1>1. Linked(n, V, E)[d] \in AJob
  BY NodelayLinked
<1>2. Build(d) \in AJob
  BY DEF TypeOK, Build, NewJob, NoJob, Replaced, Refused, AJob
<1> QED BY <1>1, <1>2 DEF Linked, AJob

LEMMA StoreGrows ==
  ASSUME TypeOK, RowsBehind, ~nodelay, ~raised, NEW n \in Node, NEW N, NEW V, NEW E,
         V \subseteq Delayable, ~Refused(V), \A d \in Delayable : Parents(E, d) \subseteq V,
         Store(Linked(n, V, E), V, N)
  PROVE  /\ RowsGrow /\ RowsBehind' /\ Rows' = Rows \cup V
         /\ \A d \in V : Parents(E, d) \subseteq stored'[d].depends
<1> DEFINE L == Linked(n, V, E)
<1>1. \A d \in V : /\ L[d] \in AJob /\ Build(d) \in AJob
                   /\ L[d].depends = Build(d).depends \cup Parents(E, d)
  BY LinkedGrow
<1>2. /\ \A d \in V : job'[d] = L[d] /\ stored'[d] = L[d]
      /\ \A d \in Delayable \ V : job'[d] = job[d] /\ stored'[d] = stored[d]
  BY DEF Store, Linked
<1> HIDE DEF L
<1>3. Rows' = Rows \cup V
  BY <1>1, <1>2 DEF Rows, AJob
<1>4. RowsGrow
  <2> SUFFICES ASSUME NEW d \in Rows, d \in V PROVE stored[d].depends \subseteq stored'[d].depends
    BY <1>2, <1>3 DEF RowsGrow, Rows
  <2>1. job[d].kind = "job" /\ stored[d].depends \subseteq job[d].depends
    BY DEF RowsBehind, Rows, Refused
  <2>2. Build(d) = job[d]
    BY <2>1 DEF Build
  <2> QED BY <1>1, <1>2, <2>1, <2>2
<1>5. RowsBehind'
  BY <1>1, <1>2 DEF RowsBehind, AJob, Store
<1>6. \A d \in V : Parents(E, d) \subseteq stored'[d].depends
  BY <1>1, <1>2
<1> QED BY <1>3, <1>4, <1>5, <1>6

\* What delay() stores of the graph of the nodes N waits as the program asked
LEMMA StoreAsked ==
  ASSUME TypeOK, Typed, Typed', ProgramInv, AskedInv, ~nodelay, ~raised,
         NEW n \in Node, NEW N \in SUBSET Node, NEW V, NEW E,
         Connected(N), V = WholeVertices(N), E = WholeEdges(N), ~Refused(V),
         UNCHANGED <<parts, edges, order>>, Store(Linked(n, V, E), V, N)
  PROVE  AskedInv'
<1>1. V \subseteq Delayable /\ E \subseteq V \X V /\ \A d \in Delayable : Parents(E, d) \subseteq V
  BY WholeEdgesIn DEF ProgramInv, Parents
<1>2. /\ RowsGrow /\ RowsBehind' /\ Rows' = Rows \cup V
      /\ \A d \in V : Parents(E, d) \subseteq stored'[d].depends
  BY <1>1, StoreGrows DEF AskedInv
<1>7. E \subseteq Waiting'
  <2> SUFFICES ASSUME NEW e \in E PROVE e \in Waiting'
    OBVIOUS
  <2>1. e = <<e[1], e[2]>> /\ e[1] \in V /\ e[2] \in V
    BY <1>1
  <2>2. e[1] \in stored'[e[2]].depends
    BY <1>2, <2>1 DEF Parents
  <2>3. WaitingOk'
    BY WaitingTransitive, PTL
  <2> QED BY <1>1, <1>2, <2>1, <2>2, <2>3 DEF WaitingOk
<1>8. Transitive(Waiting')
  <2>1. WaitingOk'
    BY WaitingTransitive, PTL
  <2> QED BY <2>1 DEF WaitingOk, Transitive
<1>9. ASSUME NEW o \in order, o[1] \in N PROVE AskedOk(<<o[2], o[3]>>)'
  <2>1. OrderOk(o) /\ Made' = Made
    BY DEF ProgramInv, Made
  <2>2. o[2] \in Made /\ o[3] \in Made
    BY <2>1 DEF OrderOk
  <2>3. ASSUME parts[o[2]].right, parts[o[3]].right,
               NEW x \in parts[o[2]].jobs, NEW y \in parts[o[3]].jobs
        PROVE  y \in Rows' /\ x \in Ancestors(y)'
    <3>1. NodeOk(o[2]) /\ NodeOk(o[3]) /\ o[2] \in Node /\ o[3] \in Node
      BY <2>2 DEF ProgramInv, NodesOk, Made
    <3>2. /\ o[2] \in N /\ (parts[o[2]].last # {} => o[3] \in N)
          /\ parts[o[2]].last \X parts[o[3]].first \subseteq E
      BY <1>9, <2>1, <2>3 DEF OrderOk
    <3> DEFINE T == Waiting'
    <3>3. T \in SUBSET (Delayable \X Delayable) /\ Transitive(T) /\ E \subseteq T
      BY <1>7, <1>8 DEF Waiting
    <3> HIDE DEF T
    <3>4. PICK l \in parts[o[2]].last : l = x \/ <<x, l>> \in T
      <4>1. Ends(o[2], T)
        BY <2>3, <3>1, <3>2, <3>3 DEF NodeOk, Inside
      <4> QED BY <2>3, <4>1 DEF Ends
    <3>5. PICK h \in parts[o[3]].first : h = y \/ <<h, y>> \in T
      <4>1. Begins(o[3], T)
        BY <2>3, <3>1, <3>2, <3>3, <3>4 DEF NodeOk, Inside
      <4> QED BY <2>3, <4>1 DEF Begins
    <3>6. <<l, h>> \in T /\ l \in Delayable /\ h \in Delayable /\ x \in Delayable /\ y \in Delayable
      BY <3>1, <3>2, <3>3, FieldsIn
    <3>7. <<x, h>> \in T
      BY <3>3, <3>4, <3>6 DEF Transitive
    <3>8. <<x, y>> \in T
      BY <3>3, <3>5, <3>6, <3>7 DEF Transitive
    <3> QED BY <3>8 DEF T, Waiting
  <2> QED BY <2>1, <2>2, <2>3 DEF AskedOk
<1>10. \A a \in asked : AskedOk(a)'
  <2>1. Grows /\ Shape
    BY DEF Grows, ProgramInv, NodesOk
  <2> QED BY <1>2, <2>1, AskedStays DEF AskedInv
<1>11. asked' = asked \cup {<<o[2], o[3]>> : o \in {x \in order : x[1] \in N}}
  BY DEF Store
<1> QED BY <1>2, <1>9, <1>10, <1>11 DEF AskedInv

OrderInv == TypeOK /\ ProgramInv /\ AskedInv

LEMMA SameAsked ==
  ASSUME OrderInv, Typed', Grows, UNCHANGED <<stored, asked>>, RowsBehind'
  PROVE  AskedInv'
<1>1. Typed /\ Shape /\ RowsGrow
  BY DEF OrderInv, TypeOK, Typed, ProgramInv, NodesOk, RowsGrow, Rows
<1> QED BY <1>1, AskedStays DEF OrderInv, AskedInv

\* Nothing is stored by a delay() that raises, performs the jobs or drops the graph
LEMMA DelayAsked ==
  ASSUME OrderInv, Typed', Grows, NEW n \in Node, NEW N, NEW V, NEW E, V \subseteq Delayable,
         \A d \in Delayable : Parents(E, d) \subseteq V, DelayWhole(n, N, V, E),
         ~nodelay /\ ~raised /\ ~Refused(V) /\ Store(Linked(n, V, E), V, N) => AskedInv'
  PROVE  AskedInv'
<1> DEFINE L == Linked(n, V, E)
<1>1. ~raised /\ UNCHANGED nodelay
  BY DEF DelayWhole
<1>2. CASE Raise
  BY <1>2 DEF Raise, AskedInv, RowsBehind
<1>3. CASE nodelay /\ StartDirect(n, V, E)
  <2>1. RowsBehind'
    BY <1>1, <1>3 DEF RowsBehind
  <2> QED BY <1>3, <2>1, SameAsked DEF StartDirect
<1>4. CASE ~Refused(V) /\ Drop(L, V)
  <2>1. UNCHANGED <<stored, asked, raised>>
    BY <1>4 DEF Drop
  <2>2. \A d \in V : /\ L[d] \in AJob /\ Build(d) \in AJob
                     /\ L[d].depends = Build(d).depends \cup Parents(E, d)
    BY <1>4, LinkedGrow DEF OrderInv
  <2>3. /\ \A d \in Delayable \ V : L[d] = job[d]
        /\ L = [d \in Delayable |-> L[d]]
    BY DEF Linked
  <2> HIDE DEF L
  <2>4. PICK x \in Keyed(V) : job' = [L EXCEPT ![x] = Replaced]
    BY <1>4 DEF Drop
  <2>5. \A d \in Delayable : job'[d] = Replaced \/ job'[d] = L[d]
    BY <2>3, <2>4
  <2>6. ASSUME NEW d \in Delayable, ~nodelay, stored[d].kind = "job"
        PROVE  \/ job'[d].kind = "replaced"
               \/ job'[d].kind = "job" /\ stored[d].depends \subseteq job'[d].depends
    <3>1. \/ job[d].kind = "replaced"
          \/ job[d].kind = "job" /\ stored[d].depends \subseteq job[d].depends
      BY <1>1, <2>6 DEF OrderInv, AskedInv, RowsBehind
    <3>2. CASE job'[d] = Replaced
      BY <3>2 DEF Replaced
    <3>3. CASE job'[d] = L[d] /\ d \notin V
      BY <2>3, <3>1, <3>3
    <3>4. CASE job'[d] = L[d] /\ d \in V
      <4>1. job[d].kind # "replaced"
        BY <1>4, <3>4 DEF Refused
      <4>2. Build(d) = job[d]
        BY <3>1, <4>1 DEF Build
      <4>3. job'[d].kind = "job" /\ job[d].depends \subseteq job'[d].depends
        BY <2>2, <3>4, <4>2 DEF AJob
      <4> QED BY <3>1, <4>1, <4>3
    <3> QED BY <2>5, <3>2, <3>3, <3>4
  <2>7. RowsBehind'
    BY <1>1, <2>1, <2>6 DEF RowsBehind
  <2> QED BY <2>1, <2>7, SameAsked
<1>5. CASE ~nodelay /\ ~Refused(V) /\ Store(L, V, N)
  BY <1>1, <1>5
<1> QED BY <1>2, <1>3, <1>4, <1>5 DEF DelayWhole

LEMMA OrderStep ==
  ASSUME OrderInv, TypeOK', [Next]_vars
  PROVE  OrderInv'
<1>0. /\ Typed /\ Typed' /\ Grows /\ ProgramInv /\ ProgramInv' /\ RowsBehind
      /\ \A o \in order : o[1] \in Made
  <2>1. Grows /\ ProgramInv'
    BY ProgramStep DEF OrderInv
  <2> QED BY <2>1 DEF OrderInv, TypeOK, Typed, AskedInv, ProgramInv, OrderOk
<1> SUFFICES AskedInv'
  BY <1>0 DEF OrderInv
<1>1. CASE UNCHANGED <<job, stored, nodelay, raised, asked>>
  BY <1>0, <1>1, SameAsked DEF RowsBehind
<1>2. ASSUME NEW d \in Delayable, NEW n, NEW s, NEW c, Split(d, n, s, c) PROVE AskedInv'
  <2>1. UNCHANGED <<stored, nodelay, raised, asked>> /\ job' = [job EXCEPT ![d] = Replaced]
    BY <1>2 DEF Split
  <2>2. \A x \in Delayable : job'[x] = job[x] \/ job'[x].kind = "replaced"
    BY <2>1 DEF OrderInv, TypeOK, Replaced
  <2>3. RowsBehind'
    BY <1>0, <2>1, <2>2 DEF RowsBehind
  <2> QED BY <1>0, <2>1, <2>3, SameAsked
<1>3. ASSUME NEW n \in Made, Delay(n) PROVE AskedInv'
  <2> DEFINE N == Visited(n)
             V == WholeVertices(N)
             E == WholeEdges(N)
  <2>1. n \in Node /\ N \in SUBSET Node /\ Connected(N)
    BY <1>0, VisitedConnected DEF Made
  <2>2. UNCHANGED <<parts, edges, order>> /\ DelayWhole(n, N, V, E)
    BY <1>3 DEF Delay, DelayWhole
  <2> HIDE DEF N
  <2>3. V \subseteq Delayable /\ \A d \in Delayable : Parents(E, d) \subseteq V
    BY <1>0, <2>1, WholeEdgesIn DEF ProgramInv, Parents
  <2>4. ~nodelay /\ ~raised /\ ~Refused(V) /\ Store(Linked(n, V, E), V, N) => AskedInv'
    BY <1>0, <2>1, <2>2, StoreAsked DEF OrderInv
  <2> HIDE DEF V, E
  <2> QED BY <1>0, <2>1, <2>2, <2>3, <2>4, DelayAsked
<1>4. ASSUME NEW d \in Delayable, WithDelay(d) PROVE AskedInv'
  <2>1. d \in Node /\ d \notin Made /\ DelayWhole(d, {d}, {d}, {}) /\ UNCHANGED order
    BY <1>4 DEF WithDelay, DelayAtOnce, DelayWhole, Node
  <2>2. \A x \in Delayable : Parents({}, x) = {}
    BY DEF Parents
  <2>3. ASSUME ~nodelay, ~raised, ~Refused({d}), Store(Linked(d, {d}, {}), {d}, {d})
        PROVE  AskedInv'
    <3>1. RowsGrow /\ RowsBehind'
      BY <1>0, <2>1, <2>2, <2>3, StoreGrows DEF OrderInv
    <3>2. asked' = asked
      BY <1>0, <2>1, <2>3 DEF Store
    <3>3. Shape
      BY <1>0 DEF ProgramInv, NodesOk
    <3> QED BY <1>0, <3>1, <3>2, <3>3, AskedStays DEF OrderInv, AskedInv
  <2> QED BY <1>0, <2>1, <2>2, <2>3, DelayAsked
<1>5. CASE Fail
  BY <1>5 DEF Fail, Raise, AskedInv, RowsBehind
<1>6. ASSUME NEW n, NEW s, Chain(n, s) \/ Group(n, s) PROVE AskedInv'
  BY <1>1, <1>6 DEF Chain, Group
<1>7. ASSUME NEW p, NEW c, OnDone(p, c) PROVE AskedInv'
  BY <1>1, <1>7 DEF OnDone
<1>8. ASSUME NEW d \in Delayable, Execute(d) PROVE AskedInv'
  BY <1>1, <1>8 DEF Execute
<1>9. CASE UNCHANGED vars
  BY <1>1, <1>9 DEF vars
<1> QED
  BY <1>2, <1>3, <1>4, <1>5, <1>6, <1>7, <1>8, <1>9 DEF Next

LEMMA OrderInit == Init => IInv /\ OrderInv
<1>1. Init => IInv
  BY InvInit
<1>2. Init => ProgramInv /\ AskedInv
  <2> SUFFICES ASSUME Init PROVE ProgramInv /\ AskedInv
    OBVIOUS
  <2>1. Typed
    BY <1>1 DEF IInv, TypeOK, Typed
  <2>2. /\ \A n \in Node \ Made : parts[n] = Unmade /\ edges[n] = {}
        /\ \A n \in Made : n \in Delayable /\ parts[n] = Leaf(n) /\ edges[n] = {}
    <3>1. edges = [n \in Node |-> {}] /\ parts = FromBase
      BY DEF Init
    <3>2. \A n \in Node : parts[n] = IF n \in Given THEN Leaf(n) ELSE Unmade
      BY <3>1 DEF FromBase
    <3>3. \A n : Leaf(n).kind = "delayable" /\ Unmade.kind = "unmade"
      BY DEF Leaf, Unmade
    <3> QED BY <3>1, <3>2, <3>3, DelayGraphAssumption DEF Made
  <2>3. Shape
    BY <2>2 DEF Shape, Leaf
  <2>4. \A n \in Made : NodeOk(n)
    BY <2>1, <2>2, LeavesAreOk DEF LeavesOk
  <2> QED BY <2>3, <2>4 DEF Init, ProgramInv, NodesOk, AskedInv, RowsBehind, NoJob
<1> QED BY <1>1, <1>2 DEF IInv, OrderInv

\* All the jobs of a node wait for all the jobs of the one that chain() or on_done() put
\* before it, whatever graphs lie between and however often they were extended and delayed
\* again, when the ends of the chains within are what they should be and none is empty.
THEOREM OrderHolds == Spec => []OrderKept
<1>1. Init => IInv /\ OrderInv
  BY OrderInit
<1>2. IInv /\ OrderInv /\ [Next]_vars => IInv' /\ OrderInv'
  BY IInvStep, OrderStep DEF IInv
<1>3. OrderInv => OrderKept
  BY DEF OrderInv, AskedInv, AskedOk, OrderKept
<1> QED
  BY <1>1, <1>2, <1>3, PTL DEF Spec

----------------------------------------------------------------------------
(* The direct execution                                                    *)

Ran == Range(direct.ran)
Taken == DOMAIN direct.waits

\* What the direct execution has performed, and what it may perform next
DirectOk ==
  /\ direct \in [edges : SUBSET (Delayable \X Delayable), ready : SUBSET Delayable,
                 waits : UNION {[S -> Nat] : S \in SUBSET Delayable}, ran : Seq(Delayable)]
  /\ direct.edges \subseteq Taken \X Taken
  /\ Ran \subseteq Taken
  /\ Cardinality(Ran) = Len(direct.ran)
  /\ \A d \in Taken : direct.waits[d] = Cardinality(Parents(direct.edges, d) \ Ran)
  /\ direct.ready = {d \in Taken \ Ran : Parents(direct.edges, d) \subseteq Ran}
  /\ \A k \in 1 .. Len(direct.ran) :
       Parents(direct.edges, direct.ran[k]) \subseteq Range(SubSeq(direct.ran, 1, k - 1))

LEMMA AppendedRange ==
  ASSUME NEW S, NEW s \in Seq(S), NEW d \in S
  PROVE  /\ Append(s, d) \in Seq(S) /\ Len(Append(s, d)) = Len(s) + 1
         /\ Range(Append(s, d)) = Range(s) \cup {d}
         /\ \A k \in 1 .. Len(s) + 1 : Range(SubSeq(Append(s, d), 1, k - 1)) = Range(SubSeq(s, 1, k - 1))
         /\ \A k \in 1 .. Len(s) + 1 : Append(s, d)[k] = IF k <= Len(s) THEN s[k] ELSE d
         /\ Range(SubSeq(s, 1, Len(s))) = Range(s)
         /\ Len(s) \in Nat
<1>1. /\ Append(s, d) \in Seq(S) /\ Len(Append(s, d)) = Len(s) + 1 /\ Len(s) \in Nat
      /\ \A k \in 1 .. Len(s) + 1 : Append(s, d)[k] = IF k <= Len(s) THEN s[k] ELSE d
      /\ DOMAIN s = 1 .. Len(s) /\ DOMAIN Append(s, d) = 1 .. Len(s) + 1
  OBVIOUS
<1>2. ASSUME NEW t \in Seq(S), NEW k \in 1 .. Len(t) + 1
      PROVE  Range(SubSeq(t, 1, k - 1)) = {t[i] : i \in 1 .. k - 1}
  <2>1. /\ Len(SubSeq(t, 1, k - 1)) = k - 1
        /\ DOMAIN SubSeq(t, 1, k - 1) = 1 .. k - 1
        /\ \A i \in 1 .. k - 1 : SubSeq(t, 1, k - 1)[i] = t[i]
    OBVIOUS
  <2> QED BY <2>1 DEF Range
<1>3. Range(Append(s, d)) = Range(s) \cup {d}
  BY <1>1 DEF Range
<1>4. ASSUME NEW k \in 1 .. Len(s) + 1
      PROVE  Range(SubSeq(Append(s, d), 1, k - 1)) = Range(SubSeq(s, 1, k - 1))
  <2>1. k \in 1 .. Len(Append(s, d)) + 1
    BY <1>1
  <2>2. /\ Range(SubSeq(Append(s, d), 1, k - 1)) = {Append(s, d)[i] : i \in 1 .. k - 1}
        /\ Range(SubSeq(s, 1, k - 1)) = {s[i] : i \in 1 .. k - 1}
    BY <1>1, <1>2, <2>1
  <2>3. \A i \in 1 .. k - 1 : Append(s, d)[i] = s[i]
    BY <1>1
  <2> QED BY <2>2, <2>3
<1>5. Range(SubSeq(s, 1, Len(s))) = Range(s)
  <2>1. Len(s) + 1 \in 1 .. Len(s) + 1 /\ Len(s) + 1 - 1 = Len(s)
    BY <1>1
  <2>2. Range(SubSeq(s, 1, Len(s))) = {s[i] : i \in 1 .. Len(s)}
    BY <1>2, <2>1
  <2> QED BY <1>1, <2>2 DEF Range
<1> QED BY <1>1, <1>3, <1>4, <1>5

LEMMA ParentsFinite ==
  ASSUME NEW V, IsFiniteSet(V), NEW E, E \subseteq V \X V, NEW d
  PROVE  Parents(E, d) \subseteq V /\ IsFiniteSet(Parents(E, d))
         /\ Cardinality(Parents(E, d)) \in Nat
<1>1. Parents(E, d) \subseteq V
  BY DEF Parents
<1> QED BY <1>1, FS_Subset, FS_CardinalityType

LEMMA StartOk ==
  ASSUME NEW n, NEW V, NEW E, V \subseteq Delayable, E \subseteq V \X V, StartDirect(n, V, E)
  PROVE  DirectOk'
<1>1. /\ direct' = [edges |-> E, ran |-> <<>>, ready |-> {d \in V : Parents(E, d) = {}},
                    waits |-> [d \in V |-> Cardinality(Parents(E, d))]]
      /\ IsFiniteSet(V)
  BY FS_Subset, DelayGraphAssumption DEF StartDirect, Node
<1>2. [d \in V |-> Cardinality(Parents(E, d))] \in [V -> Nat]
  BY <1>1, ParentsFinite
<1>3. direct' \in [edges : SUBSET (Delayable \X Delayable), ready : SUBSET Delayable,
                   waits : UNION {[S -> Nat] : S \in SUBSET Delayable}, ran : Seq(Delayable)]
  <2>1. [d \in V |-> Cardinality(Parents(E, d))] \in UNION {[S -> Nat] : S \in SUBSET Delayable}
    BY <1>2
  <2>2. <<>> \in Seq(Delayable) /\ {d \in V : Parents(E, d) = {}} \in SUBSET Delayable
        /\ E \in SUBSET (Delayable \X Delayable)
    OBVIOUS
  <2> QED BY <1>1, <2>1, <2>2
<1>4. Taken' = V /\ Ran' = {} /\ Len(direct'.ran) = 0 /\ Cardinality(Ran') = 0
  <2>1. direct'.ran = <<>> /\ DOMAIN direct'.waits = V
    BY <1>1
  <2>2. Range(<<>>) = {}
    BY DEF Range
  <2> QED BY <2>1, <2>2, FS_EmptySet DEF Taken, Ran
<1>5. /\ direct'.edges = E /\ direct'.ready = {d \in V : Parents(E, d) = {}}
      /\ \A d \in V : direct'.waits[d] = Cardinality(Parents(E, d))
  BY <1>1
<1>6. direct'.ready = {d \in V \ {} : Parents(E, d) \subseteq {}}
  BY <1>5
<1>7. \A d \in V : direct'.waits[d] = Cardinality(Parents(E, d) \ {})
  <2>1. \A d \in V : Parents(E, d) \ {} = Parents(E, d)
    OBVIOUS
  <2> QED BY <1>5, <2>1
<1> QED BY <1>3, <1>4, <1>5, <1>6, <1>7 DEF DirectOk

LEMMA ExecuteOk ==
  ASSUME DirectOk, NEW d \in Delayable, Execute(d)
  PROVE  DirectOk'
<1> DEFINE E == direct.edges
           R == Ran
           V == Taken
           children == {e[2] : e \in {x \in E : x[1] = d}}
<1>1. /\ d \in direct.ready
      /\ direct' = [direct EXCEPT
           !.ran = Append(@, d),
           !.waits = [x \in DOMAIN @ |-> IF x \in children THEN @[x] - 1 ELSE @[x]],
           !.ready = (@ \ {d}) \cup {x \in children : Released(direct.waits[x])}]
  BY DEF Execute
<1>2. /\ V \subseteq Delayable /\ IsFiniteSet(V) /\ E \subseteq V \X V /\ R \subseteq V
      /\ direct.waits \in [V -> Nat] /\ direct.ran \in Seq(Delayable)
      /\ Cardinality(R) = Len(direct.ran)
      /\ \A x \in V : direct.waits[x] = Cardinality(Parents(E, x) \ R)
      /\ direct.ready = {x \in V \ R : Parents(E, x) \subseteq R}
      /\ \A k \in 1 .. Len(direct.ran) :
           Parents(E, direct.ran[k]) \subseteq Range(SubSeq(direct.ran, 1, k - 1))
  <2>1. V \subseteq Delayable /\ direct.waits \in [V -> Nat] /\ direct.ran \in Seq(Delayable)
    BY DEF DirectOk, Taken
  <2>2. IsFiniteSet(V)
    BY <2>1, FS_Subset, DelayGraphAssumption DEF Node
  <2> QED BY <2>1, <2>2 DEF DirectOk
<1>3. d \in V \ R /\ Parents(E, d) \subseteq R
  BY <1>1, <1>2
<1>4. /\ direct'.edges = E /\ direct'.ran = Append(direct.ran, d)
      /\ direct'.waits = [x \in V |-> IF x \in children THEN direct.waits[x] - 1
                                      ELSE direct.waits[x]]
      /\ direct'.ready = (direct.ready \ {d}) \cup {x \in children : direct.waits[x] = 1}
  BY <1>1 DEF DirectOk, Taken, Released
<1>5. Taken' = V /\ Ran' = R \cup {d}
  BY <1>2, <1>4, AppendedRange DEF Taken, Ran
<1>6. \A x \in V : x \in children <=> d \in Parents(E, x)
  BY <1>2 DEF Parents
<1>7. children \subseteq V
  BY <1>2
<1> HIDE DEF children
\* Whatever was performed came after its parents
<1>8. \A x \in R : Parents(E, x) \subseteq R
  <2> SUFFICES ASSUME NEW x \in R PROVE Parents(E, x) \subseteq R
    OBVIOUS
  <2>1. PICK k \in 1 .. Len(direct.ran) : x = direct.ran[k]
    BY <1>2 DEF Ran, Range
  <2>2. Range(SubSeq(direct.ran, 1, k - 1)) \subseteq R
    BY <1>2 DEF Ran, Range
  <2> QED BY <1>2, <2>1, <2>2
<1>9. \A x \in V : IsFiniteSet(Parents(E, x) \ R)
  BY <1>2, ParentsFinite, FS_Difference
<1>10. ASSUME NEW x \in V, d \in Parents(E, x)
       PROVE  /\ direct.waits[x] \in Nat \ {0}
              /\ direct.waits[x] - 1 = Cardinality(Parents(E, x) \ (R \cup {d}))
  <2> DEFINE W == Parents(E, x) \ R
  <2>1. IsFiniteSet(W) /\ d \in W /\ direct.waits[x] = Cardinality(W)
    BY <1>2, <1>3, <1>9, <1>10
  <2>2. W \ {d} = Parents(E, x) \ (R \cup {d})
    OBVIOUS
  <2> HIDE DEF W
  <2>3. Cardinality(W \ {d}) = Cardinality(W) - 1 /\ Cardinality(W) \in Nat
        /\ Cardinality(W \ {d}) \in Nat
    BY <2>1, FS_RemoveElement, FS_CardinalityType
  <2> QED BY <2>1, <2>2, <2>3
<1>11. ASSUME NEW x \in V, d \notin Parents(E, x)
       PROVE  Parents(E, x) \ (R \cup {d}) = Parents(E, x) \ R
  BY <1>11
<1>12. direct'.waits \in [V -> Nat]
       /\ \A x \in V : direct'.waits[x] = Cardinality(Parents(E, x) \ (R \cup {d}))
  <2>1. ASSUME NEW x \in V
        PROVE  /\ direct'.waits[x] \in Nat
               /\ direct'.waits[x] = Cardinality(Parents(E, x) \ (R \cup {d}))
    <3>1. CASE d \in Parents(E, x)
      <4>1. direct'.waits[x] = direct.waits[x] - 1
        BY <1>4, <1>6, <3>1
      <4> QED BY <1>10, <3>1, <4>1
    <3>2. CASE d \notin Parents(E, x)
      <4>1. direct'.waits[x] = direct.waits[x]
        BY <1>4, <1>6, <3>2
      <4> QED BY <1>2, <1>11, <3>2, <4>1
    <3> QED BY <3>1, <3>2
  <2>2. direct'.waits = [x \in V |-> direct'.waits[x]]
    BY <1>4
  <2> QED BY <2>1, <2>2
<1>13. direct'.ready = {x \in V \ (R \cup {d}) : Parents(E, x) \subseteq R \cup {d}}
  <2>1. ASSUME NEW x \in V, d \in Parents(E, x)
        PROVE  direct.waits[x] = 1 <=> Parents(E, x) \subseteq R \cup {d}
    <3> DEFINE W == Parents(E, x) \ (R \cup {d})
    <3>1. direct.waits[x] \in Nat /\ direct.waits[x] - 1 = Cardinality(W)
      BY <1>10, <2>1
    <3>2. W = {} <=> Parents(E, x) \subseteq R \cup {d}
      OBVIOUS
    <3>3. IsFiniteSet(W)
      <4>1. W \subseteq Parents(E, x) \ R
        OBVIOUS
      <4> QED BY <1>9, <4>1, FS_Subset
    <3> HIDE DEF W
    <3>4. Cardinality(W) = 0 <=> W = {}
      BY <3>3, FS_EmptySet
    <3> QED BY <3>1, <3>2, <3>4
  <2>2. ASSUME NEW x \in V
        PROVE  x \in direct'.ready <=> x \notin R \cup {d} /\ Parents(E, x) \subseteq R \cup {d}
    <3>1. CASE d \in Parents(E, x)
      <4>1. x \notin R \cup {d} /\ x \notin direct.ready
        BY <1>2, <1>3, <1>8, <3>1
      <4> QED BY <1>4, <1>6, <2>1, <3>1, <4>1
    <3>2. CASE d \notin Parents(E, x)
      <4>1. x \in direct'.ready <=> x \in direct.ready /\ x # d
        BY <1>4, <1>6, <3>2
      <4>2. Parents(E, x) \subseteq R \cup {d} <=> Parents(E, x) \subseteq R
        BY <3>2
      <4> QED BY <1>2, <4>1, <4>2
    <3> QED BY <3>1, <3>2
  <2>3. direct'.ready \subseteq V
    BY <1>2, <1>4, <1>7
  <2> QED BY <2>2, <2>3
<1>14. Cardinality(R \cup {d}) = Len(direct'.ran) /\ direct'.ran \in Seq(Delayable)
  <2>1. Cardinality(R \cup {d}) = Cardinality(R) + 1
    BY <1>2, <1>3, FS_Subset, FS_AddElement
  <2> QED BY <1>2, <1>4, <2>1, AppendedRange
<1>15. ASSUME NEW k \in 1 .. Len(direct'.ran)
       PROVE  Parents(E, direct'.ran[k]) \subseteq Range(SubSeq(direct'.ran, 1, k - 1))
  <2>1. /\ Len(direct.ran) \in Nat /\ Len(direct'.ran) = Len(direct.ran) + 1
        /\ direct'.ran[k] = IF k <= Len(direct.ran) THEN direct.ran[k] ELSE d
        /\ Range(SubSeq(direct'.ran, 1, k - 1)) = Range(SubSeq(direct.ran, 1, k - 1))
        /\ Range(SubSeq(direct.ran, 1, Len(direct.ran))) = R
    BY <1>2, <1>4, AppendedRange DEF Ran
  <2>2. CASE k <= Len(direct.ran)
    BY <1>2, <2>1, <2>2
  <2>3. CASE k = Len(direct.ran) + 1
    <3>1. k - 1 = Len(direct.ran)
      BY <2>1, <2>3
    <3> QED BY <1>3, <2>1, <2>3, <3>1
  <2> QED BY <2>1, <2>2, <2>3
<1>16. direct' \in [edges : SUBSET (Delayable \X Delayable), ready : SUBSET Delayable,
                    waits : UNION {[S -> Nat] : S \in SUBSET Delayable}, ran : Seq(Delayable)]
  <2>1. /\ direct' = [direct EXCEPT !.ran = direct'.ran, !.waits = direct'.waits,
                                    !.ready = direct'.ready]
    BY <1>1 DEF DirectOk
  <2>2. direct'.waits \in UNION {[S -> Nat] : S \in SUBSET Delayable}
    BY <1>2, <1>12
  <2>3. direct'.ready \in SUBSET Delayable
    BY <1>2, <1>13
  <2> QED BY <1>14, <2>1, <2>2, <2>3 DEF DirectOk
<1> QED
  BY <1>2, <1>3, <1>4, <1>5, <1>12, <1>13, <1>14, <1>15, <1>16 DEF DirectOk

LEMMA DirectStep ==
  ASSUME Typed, ProgramInv, DirectOk, [Next]_vars
  PROVE  DirectOk'
<1>1. CASE UNCHANGED direct
  BY <1>1 DEF DirectOk, Ran, Taken
<1>2. ASSUME NEW n, NEW N, NEW V, NEW E, V \subseteq Delayable, E \subseteq V \X V,
             DelayWhole(n, N, V, E)
      PROVE  DirectOk'
  <2>1. UNCHANGED direct \/ StartDirect(n, V, E)
    BY <1>2 DEF DelayWhole, Raise, Drop, Store
  <2> QED BY <1>1, <1>2, <2>1, StartOk
<1>3. ASSUME NEW n \in Made, Delay(n) PROVE DirectOk'
  <2> DEFINE N == Visited(n)
  <2>1. N \in SUBSET Node /\ Connected(N)
    BY VisitedConnected DEF Made
  <2>2. DelayWhole(n, N, WholeVertices(N), WholeEdges(N))
    BY <1>3 DEF Delay
  <2> HIDE DEF N
  <2>3. WholeVertices(N) \subseteq Delayable
        /\ WholeEdges(N) \subseteq WholeVertices(N) \X WholeVertices(N)
    BY <2>1, WholeEdgesIn DEF ProgramInv
  <2> QED BY <1>2, <2>2, <2>3
<1>4. ASSUME NEW d \in Delayable, WithDelay(d) PROVE DirectOk'
  <2>1. DelayWhole(d, {d}, {d}, {})
    BY <1>4 DEF WithDelay, DelayAtOnce
  <2> QED BY <1>2, <2>1
<1>5. ASSUME NEW d \in Delayable, Execute(d) PROVE DirectOk'
  BY <1>5, ExecuteOk
<1>6. CASE Fail
  BY <1>1, <1>6 DEF Fail, Raise
<1>7. ASSUME NEW n, NEW s, NEW d, NEW c, Chain(n, s) \/ Group(n, s) \/ Split(d, n, s, c)
      PROVE  DirectOk'
  BY <1>1, <1>7 DEF Chain, Group, Split
<1>8. ASSUME NEW p, NEW c, OnDone(p, c) PROVE DirectOk'
  BY <1>1, <1>8 DEF OnDone
<1>9. CASE UNCHANGED vars
  BY <1>1, <1>9 DEF vars
<1> QED
  BY <1>3, <1>4, <1>5, <1>6, <1>7, <1>8, <1>9 DEF Next

\* In a context without delay each job is performed after its parents and once, and the
\* execution only ends when every job left has a parent that is left: it is on a cycle or
\* behind one.
THEOREM DirectHolds == Spec => []DirectInOrder
<1>1. Init => IInv /\ ProgramInv /\ DirectOk
  <2> SUFFICES ASSUME Init PROVE DirectOk
    BY OrderInit DEF OrderInv
  <2>1. direct = [edges |-> {}, ready |-> {}, waits |-> <<>>, ran |-> <<>>]
    BY DEF Init, NotRun
  <2>2. Taken = {} /\ Ran = {} /\ Len(direct.ran) = 0 /\ Cardinality(Ran) = 0
    <3>1. direct.ran = <<>> /\ DOMAIN direct.waits = {}
      BY <2>1
    <3>2. Range(<<>>) = {}
      BY DEF Range
    <3> QED BY <3>1, <3>2, FS_EmptySet DEF Taken, Ran
  <2>3. <<>> \in UNION {[S -> Nat] : S \in SUBSET Delayable}
    <3>1. <<>> \in [{} -> Nat]
      OBVIOUS
    <3> QED BY <3>1
  <2> QED BY <2>1, <2>2, <2>3 DEF DirectOk
<1>2. IInv /\ ProgramInv /\ DirectOk /\ [Next]_vars => IInv' /\ ProgramInv' /\ DirectOk'
  <2>1. IInv => Typed
    BY DEF IInv, TypeOK, Typed
  <2>2. IInv /\ ProgramInv /\ DirectOk /\ [Next]_vars => IInv' /\ DirectOk'
    BY <2>1, IInvStep, DirectStep
  <2> QED BY <2>2, ProgramStep DEF IInv
<1>3. DirectOk => DirectInOrder
  <2> SUFFICES ASSUME DirectOk PROVE DirectInOrder
    OBVIOUS
  <2>1. DOMAIN direct.ran = 1 .. Len(direct.ran)
    BY DEF DirectOk
  <2> QED BY <2>1 DEF DirectOk, DirectInOrder, Ran, Taken
<1> QED
  BY <1>1, <1>2, <1>3, PTL DEF Spec
=============================================================================
