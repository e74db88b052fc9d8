------------------------ MODULE ChannelRecordsProofs ------------------------
(***************************************************************************)
(* Proofs about ChannelRecords.tla: the manager applies its configuration  *)
(* as it was written, for any configurations, records and names of jobs,   *)
(* and holds each job in one place under the limits of its name; the       *)
(* vacuum only finds jobs that are finished; the cache follows the names.  *)
(*                                                                         *)
(* RecordsInv: the records are a forest, so that their complete names are  *)
(* the only solution of the recursion they are computed by (NamesAre), and *)
(* a write renames the records below one and no other.  PlacesInv: the     *)
(* channels of the manager are closed upwards and each job is where        *)
(* get_channel_by_name() falls on, which a channel made for another job    *)
(* does not change (StillFallsOn).                                         *)
(***************************************************************************)
EXTENDS ChannelRecords, WellFoundedInduction, TLAPS

----------------------------------------------------------------------------
(* The configuration.  k entries were applied: each channel has what the   *)
(* last of them that names it says, or what it had when it was made        *)

Entries == Parse(config)

Names(es, i, path) == FullName(es[i].name) = path

Setting(e) == [capacity |-> e.capacity, sequential |-> e.sequential]

LastOfThem(es, k, i, path) ==
  /\ i \in 1 .. k /\ Names(es, i, path)
  /\ \A j \in 1 .. k : Names(es, j, path) => j <= i

AppliedTo(es, t, k) ==
  /\ \A i \in 1 .. k : FullName(es[i].name) \in DOMAIN t
  /\ \A path \in DOMAIN t :
       \/ t[path] = Default(path) /\ \A i \in 1 .. k : ~Names(es, i, path)
       \/ \E i \in 1 .. k : LastOfThem(es, k, i, path) /\ t[path] = Setting(es[i])

IsTree(t) == t = [p \in DOMAIN t |-> t[p]]

ManagerInv ==
  /\ config \in Configurations
  /\ IsTree(tree)
  /\ runner = "starting" => AppliedTo(Entries, tree, 0)
  /\ runner = "configuring" =>
       \E k \in 0 .. Len(Entries) :
         unread = SubSeq(Entries, k + 1, Len(Entries)) /\ AppliedTo(Entries, tree, k)
  /\ runner = "running" => AppliedTo(Entries, tree, Len(Entries))

Reading == {Parsed(e) : e \in Entry}

\* The parsed configuration is a sequence as long as its text.
LEMMA EntriesAre ==
  ASSUME config \in Configurations
  PROVE  /\ Entries \in Seq(Reading)
         /\ DOMAIN Entries = 1 .. Len(Entries)
         /\ Len(Entries) \in Nat
<1>1. config \in Seq(Entry)
  BY NamesAssumption
<1>2. DOMAIN config = 1 .. Len(config) /\ Len(config) \in Nat
      /\ \A i \in 1 .. Len(config) : config[i] \in Entry
  <2> DEFINE E == Entry
  <2>1. config \in Seq(E)
    BY <1>1
  <2> HIDE DEF E
  <2>2. DOMAIN config = 1 .. Len(config) /\ Len(config) \in Nat
        /\ \A i \in 1 .. Len(config) : config[i] \in E
    BY <2>1
  <2> QED BY <2>2 DEF E
<1>3. Entries = [i \in 1 .. Len(config) |-> Parsed(config[i])]
  BY <1>2 DEF Entries, Parse
<1>4. \A i \in 1 .. Len(config) : Parsed(config[i]) \in Reading
  BY <1>2 DEF Reading
<1> DEFINE R == Reading
           E == Entries
<1>5. E \in [1 .. Len(config) -> R]
  BY <1>3, <1>4, Zenon
<1> HIDE DEF R, E
<1>6. E \in Seq(R) /\ DOMAIN E = 1 .. Len(E) /\ Len(E) \in Nat
  BY <1>2, <1>5
<1> QED
  BY <1>6 DEF R, E

\* Channels that are made have the default settings, the others keep theirs.
LEMMA MadeIs ==
  ASSUME NEW t, NEW path
  PROVE  /\ DOMAIN Made(t, path) = DOMAIN t \cup Ancestors(path) \cup {path}
         /\ \A p \in DOMAIN t : Made(t, path)[p] = t[p]
         /\ \A p \in DOMAIN Made(t, path) \ DOMAIN t : Made(t, path)[p] = Default(p)
         /\ IsTree(Made(t, path))
  BY DEF Made, IsTree

\* Making channels undoes nothing of what was applied.
LEMMA MadeKeeps ==
  ASSUME NEW es, NEW t, NEW path, NEW k, AppliedTo(es, t, k)
  PROVE  AppliedTo(es, Made(t, path), k)
<1> DEFINE m == Made(t, path)
<1>1. /\ DOMAIN t \subseteq DOMAIN m
      /\ \A p \in DOMAIN t : m[p] = t[p]
      /\ \A p \in DOMAIN m \ DOMAIN t : m[p] = Default(p)
  BY MadeIs
<1> HIDE DEF m
<1>2. \A i \in 1 .. k : FullName(es[i].name) \in DOMAIN m
  BY <1>1 DEF AppliedTo
<1>3. ASSUME NEW p \in DOMAIN m
      PROVE  \/ m[p] = Default(p) /\ \A i \in 1 .. k : ~Names(es, i, p)
             \/ \E i \in 1 .. k : LastOfThem(es, k, i, p) /\ m[p] = Setting(es[i])
  <2>1. CASE p \in DOMAIN t
    BY <1>1, <2>1 DEF AppliedTo
  <2>2. CASE p \notin DOMAIN t
    BY <1>1, <1>3, <2>2 DEF AppliedTo, Names
  <2> QED BY <2>1, <2>2
<1>4. AppliedTo(es, m, k)
  BY <1>2, <1>3 DEF AppliedTo
<1> QED
  BY <1>4 DEF m

\* The next entry is applied to the tree with its channel in it.
LEMMA ConfigureKeeps ==
  ASSUME NEW es, NEW t, NEW k \in Nat, AppliedTo(es, t, k),
         FullName(es[k + 1].name) \in DOMAIN t
  PROVE  AppliedTo(es, Configure(t, es[k + 1]), k + 1)
<1> DEFINE c == Configure(t, es[k + 1])
           name == FullName(es[k + 1].name)
<1>1. DOMAIN c = DOMAIN t /\ c[name] = Setting(es[k + 1])
      /\ \A p \in DOMAIN t : p # name => c[p] = t[p]
  BY DEF Configure, Setting
<1> HIDE DEF c
<1>2. 1 .. k + 1 = 1 .. k \cup {k + 1}
  OBVIOUS
<1>3. \A i \in 1 .. k + 1 : FullName(es[i].name) \in DOMAIN c
  BY <1>1, <1>2 DEF AppliedTo
<1>4. ASSUME NEW p \in DOMAIN c
      PROVE  \/ c[p] = Default(p) /\ \A i \in 1 .. k + 1 : ~Names(es, i, p)
             \/ \E i \in 1 .. k + 1 : LastOfThem(es, k + 1, i, p) /\ c[p] = Setting(es[i])
  <2>1. CASE p = name
    <3>1. LastOfThem(es, k + 1, k + 1, p)
      BY <2>1 DEF LastOfThem, Names
    <3> QED BY <1>1, <1>2, <2>1, <3>1
  <2>2. CASE p # name
    <3>1. ~Names(es, k + 1, p)
      BY <2>2 DEF Names
    <3>2. c[p] = t[p] /\ p \in DOMAIN t
      BY <1>1, <1>4, <2>2
    <3>3. CASE t[p] = Default(p) /\ \A i \in 1 .. k : ~Names(es, i, p)
      BY <1>2, <3>1, <3>2, <3>3
    <3>4. CASE \E i \in 1 .. k : LastOfThem(es, k, i, p) /\ t[p] = Setting(es[i])
      <4>1. PICK i \in 1 .. k : LastOfThem(es, k, i, p) /\ t[p] = Setting(es[i])
        BY <3>4
      <4>2. LastOfThem(es, k + 1, i, p)
        BY <1>2, <3>1, <4>1 DEF LastOfThem
      <4> QED BY <1>2, <3>2, <4>1, <4>2
    <3> QED BY <3>2, <3>3, <3>4 DEF AppliedTo
  <2> QED BY <2>1, <2>2
<1>5. AppliedTo(es, c, k + 1)
  BY <1>3, <1>4 DEF AppliedTo
<1> QED
  BY <1>5 DEF c

\* When all is applied, the channels are as they were configured.
LEMMA AppliedIsConfigured ==
  ASSUME config \in Configurations, AppliedTo(Entries, tree, Len(Entries))
  PROVE  /\ Declared \subseteq DOMAIN tree
         /\ \A path \in DOMAIN tree :
              tree[path] =
                IF path \in Declared
                THEN [capacity |-> LastEntry(path).capacity, sequential |-> LastEntry(path).sequential]
                ELSE Default(path)
<1>1. DOMAIN Entries = 1 .. Len(Entries) /\ Len(Entries) \in Nat
  BY EntriesAre
<1>2. \A path : path \in Declared <=> \E i \in 1 .. Len(Entries) : Names(Entries, i, path)
  BY <1>1 DEF Declared, Names, Entries
<1>3. Declared \subseteq DOMAIN tree
  BY <1>2 DEF AppliedTo, Names
<1>4. ASSUME NEW path \in DOMAIN tree, path \in Declared
      PROVE  tree[path] = [capacity |-> LastEntry(path).capacity,
                           sequential |-> LastEntry(path).sequential]
  <2>1. PICK i \in 1 .. Len(Entries) :
          LastOfThem(Entries, Len(Entries), i, path) /\ tree[path] = Setting(Entries[i])
    BY <1>2, <1>4 DEF AppliedTo
  <2> DEFINE S == {j \in DOMAIN Entries : FullName(Entries[j].name) = path}
  <2>2. i \in S /\ S \subseteq Nat /\ \A j \in S : j <= i
    BY <1>1, <2>1 DEF LastOfThem, Names
  <2>3. i \in S /\ \A j \in S : i >= j
    BY <1>1, <2>2
  <2>4. \A m \in S : (\A j \in S : m >= j) => m = i
    BY <1>1, <2>2
  <2>5. Max(S) = i
    BY <2>3, <2>4, Zenon DEF Max
  <2>6. LastEntry(path) = Entries[i]
    BY <2>5 DEF LastEntry, Entries
  <2> QED BY <2>1, <2>6 DEF Setting
<1>5. ASSUME NEW path \in DOMAIN tree, path \notin Declared
      PROVE  tree[path] = Default(path)
  BY <1>2, <1>5 DEF AppliedTo, LastOfThem
<1> QED
  BY <1>3, <1>4, <1>5

LEMMA ManagerInvStep ==
  ASSUME ManagerInv, [Next]_vars
  PROVE  ManagerInv'
<1> DEFINE E == Entries
<1>1. CASE UNCHANGED manager
  BY <1>1 DEF ManagerInv, manager, Entries
<1>2. E \in Seq(Reading) /\ Len(E) \in Nat /\ config \in Configurations /\ IsTree(tree)
  BY EntriesAre DEF ManagerInv
<1>3. config' = config => E' = E
  BY DEF Entries
<1>4. CASE ParseConfig
  <2>1. config' = config /\ tree' = tree /\ AppliedTo(E, tree, 0)
    BY <1>4 DEF ParseConfig, ManagerInv
  <2>2. CASE runner' = "ended"
    BY <1>2, <2>1, <2>2 DEF ManagerInv
  <2>3. CASE runner' = "configuring" /\ unread' = Parse(config)
    <3>1. unread' = E
      BY <2>3 DEF Entries
    <3> HIDE DEF E
    <3>2. unread' = SubSeq(E, 0 + 1, Len(E)) /\ 0 \in 0 .. Len(E)
      BY <1>2, <3>1
    <3>3. \E k \in 0 .. Len(E') : unread' = SubSeq(E', k + 1, Len(E')) /\ AppliedTo(E', tree', k)
      BY <1>3, <2>1, <3>2
    <3> QED BY <1>2, <2>1, <2>3, <3>3 DEF ManagerInv, E
  <2> QED BY <1>4, <2>2, <2>3 DEF ParseConfig
<1>5. CASE ReadEntry
  <2>1. config' = config /\ runner = "configuring" /\ unread # <<>>
        /\ unread' = Tail(unread) /\ runner' \in {"configuring", "ended"}
    BY <1>5 DEF ReadEntry
  <2>2. PICK k \in 0 .. Len(E) :
          unread = SubSeq(E, k + 1, Len(E)) /\ AppliedTo(E, tree, k)
    BY <2>1 DEF ManagerInv
  <2>3. k \in Nat /\ k < Len(E) /\ k + 1 \in 0 .. Len(E)
        /\ Head(unread) = E[k + 1]
        /\ Tail(unread) = SubSeq(E, (k + 1) + 1, Len(E))
    <3> HIDE DEF E
    <3>1. k < Len(E)
      BY <1>2, <2>1, <2>2
    <3> QED BY <1>2, <2>2, <3>1
  <2> DEFINE made == Made(tree, FullName(E[k + 1].name))
  <2>4. tree' = Configure(made, E[k + 1])
    BY <1>5, <2>3 DEF ReadEntry
  <2>5. FullName(E[k + 1].name) \in DOMAIN made /\ AppliedTo(E, made, k)
    <3> DEFINE path == FullName(E[k + 1].name)
    <3> HIDE DEF path, E
    <3>1. path \in DOMAIN Made(tree, path)
      BY MadeIs
    <3>2. AppliedTo(E, Made(tree, path), k)
      BY <2>2, MadeKeeps
    <3> QED BY <3>1, <3>2 DEF path
  <2>6. AppliedTo(E, tree', k + 1)
    <3> HIDE DEF made, E
    <3> QED BY <2>3, <2>4, <2>5, ConfigureKeeps
  <2>7. IsTree(tree')
    <3> HIDE DEF made, E
    <3> QED BY <2>4 DEF Configure, IsTree
  <2>8. \E m \in 0 .. Len(E') : unread' = SubSeq(E', m + 1, Len(E')) /\ AppliedTo(E', tree', m)
    <3> HIDE DEF made, E
    <3> QED BY <1>3, <2>1, <2>3, <2>6
  <2> QED BY <1>2, <2>1, <2>7, <2>8 DEF ManagerInv
<1>6. CASE Configured
  <2>1. config' = config /\ tree' = tree /\ runner = "configuring" /\ unread = <<>>
        /\ runner' = "running"
    BY <1>6 DEF Configured
  <2>2. PICK k \in 0 .. Len(E) :
          unread = SubSeq(E, k + 1, Len(E)) /\ AppliedTo(E, tree, k)
    BY <2>1 DEF ManagerInv
  <2>3. k = Len(E)
    <3> HIDE DEF E
    <3> DEFINE rest == SubSeq(E, k + 1, Len(E))
    <3>1. k < Len(E) => Len(rest) = Len(E) - k
      BY <1>2
    <3>2. rest = <<>>
      BY <2>1, <2>2
    <3> HIDE DEF rest
    <3>3. Len(rest) = 0
      BY <3>2
    <3> QED BY <1>2, <3>1, <3>3
  <2>4. AppliedTo(E', tree', Len(E'))
    <3> HIDE DEF E
    <3> QED BY <1>3, <2>1, <2>2, <2>3
  <2> QED BY <1>2, <2>1, <2>4 DEF ManagerInv
<1>7. CASE \E j \in Job : Hear(j)
  <2>1. PICK j \in Job : Hear(j)
    BY <1>7
  <2>2. config' = config /\ runner' = "running" /\ AppliedTo(E, tree, Len(E))
        /\ (tree' = tree \/ \E path : tree' = Made(tree, path))
    BY <2>1 DEF Hear, Notify, RemoveJob, ManagerInv
  <2>3. AppliedTo(E, tree', Len(E)) /\ IsTree(tree')
    <3> HIDE DEF E
    <3>1. CASE tree' = tree
      BY <1>2, <2>2, <3>1
    <3>2. CASE \E path : tree' = Made(tree, path)
      <4>1. PICK path : tree' = Made(tree, path)
        BY <3>2
      <4>2. IsTree(Made(tree, path)) /\ AppliedTo(E, Made(tree, path), Len(E))
        BY <2>2, MadeIs, MadeKeeps
      <4> QED BY <4>1, <4>2
    <3> QED BY <2>2, <3>1, <3>2
  <2>4. AppliedTo(E', tree', Len(E'))
    <3> HIDE DEF E
    <3> QED BY <1>3, <2>2, <2>3
  <2> QED BY <1>2, <2>2, <2>3, <2>4 DEF ManagerInv
<1> QED
  BY <1>1, <1>4, <1>5, <1>6, <1>7 DEF Next, ManagerStep, vars

LEMMA ManagerInvInit == Init => ManagerInv
<1> SUFFICES ASSUME Init PROVE ManagerInv
  OBVIOUS
<1> DEFINE root == <<Root>>
<1>1. config \in Configurations /\ runner = "starting"
      /\ tree = [p \in {root} |-> Default(root)]
  BY DEF Init, ManagerInit
<1> HIDE DEF root
<1>2. AppliedTo(Entries, tree, 0) /\ IsTree(tree)
  BY <1>1 DEF AppliedTo, IsTree
<1> QED BY <1>1, <1>2 DEF ManagerInv

\* Whatever the order of the entries, a running manager has every channel as
\* the last entry for it says (ChannelManager.simple_configure).
THEOREM ConfigurationHolds == Spec => []AsConfigured
<1>1. Init => ManagerInv
  BY ManagerInvInit
<1>2. ManagerInv /\ [Next]_vars => ManagerInv'
  BY ManagerInvStep
<1>3. ManagerInv => AsConfigured
  <2> SUFFICES ASSUME ManagerInv, runner = "running" PROVE AsConfigured
    BY DEF AsConfigured
  <2>1. config \in Configurations /\ AppliedTo(Entries, tree, Len(Entries))
    BY DEF ManagerInv
  <2> QED BY <2>1, AppliedIsConfigured DEF AsConfigured
<1> QED
  BY <1>1, <1>2, <1>3, PTL DEF Spec

----------------------------------------------------------------------------
(* The vacuum.  A row bears a date only while its job is finished, unless   *)
(* the runner enqueued the job all the same.                               *)

Dates == {"no", "just", "long ago"}
Finished == {"done", "cancelled"}

IsRow(row) ==
  \E c : row \in [state : {"unfinished"} \cup Finished, channel : {c},
                  done : Dates, cancelled : Dates]

Dated(row) == row.done # "no" \/ row.cancelled # "no"

RowsInv ==
  /\ rows \in [Job -> {rows[j] : j \in Job}]
  /\ \A j \in Job : rows[j] # NoRow =>
       IsRow(rows[j]) /\ (Dated(rows[j]) => rows[j].state \in Finished \/ j \in overtaken)

LEMMA NoRowIsNone == \A row : IsRow(row) => row # NoRow
  BY DEF IsRow, NoRow

LEMMA RowsInvStep ==
  ASSUME RowsInv, [Next]_vars
  PROVE  RowsInv' /\ \A j \in Job :
           (rows[j] # NoRow /\ rows'[j] = NoRow) => rows[j].state \in Finished \/ j \in overtaken
<1>1. CASE UNCHANGED <<rows, overtaken>>
  BY <1>1 DEF RowsInv
\* The row of one job is written.
<1>2. ASSUME NEW j \in Job, NEW row, rows' = [rows EXCEPT ![j] = row], IsRow(row),
             Dated(row) => row.state \in Finished \/ j \in overtaken',
             overtaken \ {j} \subseteq overtaken'
      PROVE  RowsInv' /\ \A i \in Job : rows[i] # NoRow => rows'[i] # NoRow
  <2>1. rows'[j] = row /\ \A i \in Job \ {j} : rows'[i] = rows[i]
    BY <1>2 DEF RowsInv
  <2>2. rows' \in [Job -> {rows'[i] : i \in Job}]
    BY <1>2, <2>1 DEF RowsInv
  <2>3. ASSUME NEW i \in Job, rows'[i] # NoRow
        PROVE  IsRow(rows'[i])
               /\ (Dated(rows'[i]) => rows'[i].state \in Finished \/ i \in overtaken')
    BY <1>2, <2>1, <2>3 DEF RowsInv
  <2>4. \A i \in Job : rows[i] # NoRow => rows'[i] # NoRow
    BY <1>2, <2>1, NoRowIsNone
  <2> QED BY <2>2, <2>3, <2>4 DEF RowsInv
<1>3. ASSUME NEW j \in Job, NEW f \in Function, NEW o \in Overrides, CreateJob(j, f, o)
      PROVE  RowsInv' /\ \A i \in Job : rows[i] # NoRow => rows'[i] # NoRow
  <2> DEFINE row == [state |-> "unfinished", channel |-> ChannelOfJob(f, o),
                     done |-> "no", cancelled |-> "no"]
  <2>1. IsRow(row) /\ ~Dated(row)
    BY DEF IsRow, Dates, Dated
  <2>2. rows' = [rows EXCEPT ![j] = row] /\ overtaken' = overtaken
    BY <1>3 DEF CreateJob
  <2> HIDE DEF row
  <2> QED BY <1>2, <2>1, <2>2
<1>4. ASSUME NEW j \in Job, ChangeState(j)
      PROVE  RowsInv' /\ \A i \in Job : rows[i] # NoRow => rows'[i] # NoRow
  <2>1. PICK row \in {SetDone(rows[j]), SetCancelled(rows[j]), SetPending(rows[j])} :
          rows' = [rows EXCEPT ![j] = row]
    BY <1>4 DEF ChangeState
  <2>2. IsRow(rows[j])
    BY <1>4 DEF ChangeState, RowsInv
  <2>3. IsRow(row) /\ (Dated(row) => row.state \in Finished)
    BY <2>1, <2>2 DEF IsRow, SetDone, SetCancelled, SetPending, Dates, Dated, Finished
  <2>4. overtaken' = overtaken \ {j}
    BY <1>4 DEF ChangeState
  <2> QED BY <1>2, <2>1, <2>3, <2>4
<1>5. ASSUME NEW j \in Job, SetJobEnqueued(j)
      PROVE  RowsInv' /\ \A i \in Job : rows[i] # NoRow => rows'[i] # NoRow
  <2> DEFINE row == [rows[j] EXCEPT !.state = "unfinished"]
  <2>1. rows' = [rows EXCEPT ![j] = row] /\ overtaken' = overtaken \cup {j} /\ rows[j] # NoRow
    BY <1>5 DEF SetJobEnqueued
  <2>2. IsRow(row)
    BY <2>1 DEF RowsInv, IsRow
  <2> HIDE DEF row
  <2> QED BY <1>2, <2>1, <2>2
<1>6. ASSUME Age
      PROVE  RowsInv' /\ \A i \in Job : rows[i] # NoRow => rows'[i] # NoRow
  <2>1. ASSUME NEW j \in Job, rows[j] # NoRow
        PROVE  IsRow(rows'[j])
               /\ (Dated(rows'[j]) => rows'[j].state \in Finished \/ j \in overtaken')
    <3>1. rows'[j] = [rows[j] EXCEPT !.done = IF @ = "just" THEN "long ago" ELSE @,
                                     !.cancelled = IF @ = "just" THEN "long ago" ELSE @]
      BY <1>6, <2>1 DEF Age
    <3>2. IsRow(rows[j]) /\ (Dated(rows[j]) => rows[j].state \in Finished \/ j \in overtaken)
      BY <2>1 DEF RowsInv
    <3>3. IsRow(rows'[j]) /\ rows'[j].state = rows[j].state /\ (Dated(rows'[j]) => Dated(rows[j]))
      BY <3>1, <3>2 DEF IsRow, Dates, Dated
    <3>4. overtaken' = overtaken
      BY <1>6 DEF Age
    <3> QED BY <3>2, <3>3, <3>4
  <2>2. \A j \in Job : rows[j] = NoRow => rows'[j] = NoRow
    BY <1>6 DEF Age
  <2>3. rows' = [j \in Job |-> rows'[j]]
    BY <1>6 DEF Age
  <2> QED BY <2>1, <2>2, <2>3, NoRowIsNone DEF RowsInv
<1>7. ASSUME NEW r \in Record, Vacuum(r)
      PROVE  RowsInv' /\ \A j \in Job :
               (rows[j] # NoRow /\ rows'[j] = NoRow) => rows[j].state \in Finished \/ j \in overtaken
  <2>1. /\ rows' = [j \in Job |-> IF j \in Vacuumed(r) THEN NoRow ELSE rows[j]]
        /\ overtaken' = overtaken \ Vacuumed(r)
    BY <1>7 DEF Vacuum
  <2>2. \A j \in Vacuumed(r) : rows[j].state \in Finished \/ j \in overtaken
    BY DEF Vacuumed, Expired, RowsInv, Dated
  <2> QED BY <2>1, <2>2 DEF RowsInv
<1>8. CASE RecordsStep
  BY <1>1, <1>3, <1>4, <1>5, <1>6, <1>7, <1>8
  DEF RecordsStep, CreateChannel, WriteChannel, UnlinkChannel, WriteFunction, WritesChannels
<1> QED
  BY <1>1, <1>8 DEF Next, records, vars

\* No step but the vacuum deletes a row, and it takes a job that is not finished only if
\* the runner enqueued it when it was (Job.set_pending, QueueJob.autovacuum,
\* Database.set_job_enqueued).
THEOREM FinishedOnly == Spec => VacuumTakesFinished
<1>1. Init => RowsInv
  BY DEF Init, RowsInv
<1>2. RowsInv /\ [Next]_vars => RowsInv'
  BY RowsInvStep
<1>3. RowsInv /\ [Next]_vars =>
        [\A j \in Job : (rows[j] # NoRow /\ rows'[j] = NoRow)
           => rows[j].state \in {"done", "cancelled"} \/ j \in overtaken]_vars
  BY RowsInvStep DEF Finished
<1> QED
  BY <1>1, <1>2, <1>3, PTL DEF Spec, VacuumTakesFinished

----------------------------------------------------------------------------
(* Sequences *)

LEMMA SameSeq ==
  ASSUME NEW S, NEW p \in Seq(S), NEW q \in Seq(S), Len(p) = Len(q),
         \A i \in 1 .. Len(p) : p[i] = q[i]
  PROVE p = q
  OBVIOUS

LEMMA ConcatIs ==
  ASSUME NEW S, NEW p \in Seq(S), NEW q \in Seq(S)
  PROVE  /\ p \o q \in Seq(S) /\ Len(p \o q) = Len(p) + Len(q)
         /\ \A i \in 1 .. Len(p) : (p \o q)[i] = p[i]
         /\ \A i \in 1 .. Len(q) : (p \o q)[Len(p) + i] = q[i]
  OBVIOUS

LEMMA ConcatAppend ==
  ASSUME NEW S, NEW p \in Seq(S), NEW q \in Seq(S), NEW m \in S
  PROVE  p \o Append(q, m) = Append(p \o q, m)
<1>1. p \o Append(q, m) \in Seq(S) /\ Append(p \o q, m) \in Seq(S)
  OBVIOUS
<1>2. Len(p \o Append(q, m)) = Len(Append(p \o q, m))
  OBVIOUS
<1>3. ASSUME NEW i \in 1 .. Len(p \o Append(q, m))
      PROVE (p \o Append(q, m))[i] = Append(p \o q, m)[i]
  OBVIOUS
<1> QED BY <1>1, <1>2, <1>3, SameSeq

\* What follows the first k elements goes along with what is appended.
LEMMA RestOfAppend ==
  ASSUME NEW S, NEW p \in Seq(S), NEW m \in S, NEW k \in 0 .. Len(p)
  PROVE  SubSeq(Append(p, m), k + 1, Len(Append(p, m))) = Append(SubSeq(p, k + 1, Len(p)), m)
<1> DEFINE a == SubSeq(Append(p, m), k + 1, Len(Append(p, m)))
           b == Append(SubSeq(p, k + 1, Len(p)), m)
<1>1. /\ a \in Seq(S) /\ Len(a) = Len(p) + 1 - k
      /\ \A i \in 1 .. Len(p) + 1 - k : a[i] = Append(p, m)[k + i]
  OBVIOUS
<1>2. /\ b \in Seq(S) /\ Len(b) = Len(p) + 1 - k
      /\ b[Len(p) + 1 - k] = m
      /\ \A i \in 1 .. Len(p) - k : b[i] = p[k + i]
  OBVIOUS
<1>3. ASSUME NEW i \in 1 .. Len(p) + 1 - k PROVE a[i] = b[i]
  <2> HIDE DEF a, b
  <2>1. CASE i = Len(p) + 1 - k
    <3>1. k + i = Len(p) + 1 /\ Append(p, m)[Len(p) + 1] = m
      BY <2>1
    <3> QED BY <1>1, <1>2, <2>1, <3>1
  <2>2. CASE i # Len(p) + 1 - k
    <3>1. i \in 1 .. Len(p) - k /\ k + i \in 1 .. Len(p)
      BY <2>2
    <3>2. Append(p, m)[k + i] = p[k + i]
      BY <3>1
    <3> QED BY <1>1, <1>2, <3>1, <3>2
  <2> QED BY <2>1, <2>2
<1> HIDE DEF a, b
<1>4. a = b
  BY <1>1, <1>2, <1>3, SameSeq
<1> QED BY <1>4 DEF a, b

----------------------------------------------------------------------------
(* The names of the records.  names gives each record its complete name;   *)
(* the names get longer from a record to those below it, so that there is  *)
(* one way to do so.                                                       *)

Path == Seq(Segment \cup {Root})

IsForest(cs, names) ==
  /\ DOMAIN cs \subseteq Record
  /\ RootRecord \in DOMAIN cs /\ cs[RootRecord].name = Root
  /\ \A r \in DOMAIN cs \ {RootRecord} :
       cs[r].parent \in DOMAIN cs /\ cs[r].name \in Segment \cup {Root}
  /\ names \in [DOMAIN cs -> Path]
  /\ names[RootRecord] = <<Root>>
  /\ \A r \in DOMAIN cs \ {RootRecord} : names[r] = Append(names[cs[r].parent], cs[r].name)

LEMMA LeastNat ==
  ASSUME NEW S \in SUBSET Nat, S # {}
  PROVE  \E n \in S : \A m \in S : n <= m
<1> DEFINE R == {x \in Nat \X Nat : x[1] < x[2]}
<1>1. IsWellFoundedOn(R, Nat)
  BY NatLessThanWellFounded DEF OpToRel
<1>2. \A m, n \in Nat : ~ (<<m, n>> \in R) => n <= m
  OBVIOUS
<1> HIDE DEF R
<1>3. PICK n \in S : \A m \in S : ~ (<<m, n>> \in R)
  BY <1>1, WFMin
<1> QED
  BY <1>2, <1>3

\* The complete names are the only ones that follow the records.
LEMMA NamesAre ==
  ASSUME NEW cs, NEW names, IsForest(cs, names)
  PROVE  CompleteNames(cs) = names
<1> DEFINE Rec(f) ==
      f = [r \in DOMAIN cs |->
             IF r = RootRecord THEN <<Root>> ELSE Append(f[cs[r].parent], cs[r].name)]
<1>1. CompleteNames(cs) = CHOOSE f : Rec(f)
  BY DEF CompleteNames
<1>2. Rec(names)
  <2>1. names = [r \in DOMAIN cs |-> names[r]]
    BY DEF IsForest
  <2>2. \A r \in DOMAIN cs : names[r] =
          IF r = RootRecord THEN <<Root>> ELSE Append(names[cs[r].parent], cs[r].name)
    BY DEF IsForest
  <2> QED BY <2>1, <2>2
<1>3. ASSUME NEW f, Rec(f) PROVE f = names
  <2>1. /\ DOMAIN f = DOMAIN cs /\ f = [r \in DOMAIN cs |-> f[r]]
        /\ f[RootRecord] = <<Root>>
        /\ \A r \in DOMAIN cs \ {RootRecord} : f[r] = Append(f[cs[r].parent], cs[r].name)
    BY <1>3 DEF IsForest
  <2> HIDE DEF Rec
  <2> DEFINE Differ == {r \in DOMAIN cs : f[r] # names[r]}
             Lengths == {Len(names[r]) : r \in Differ}
  <2>2. Lengths \subseteq Nat
    BY DEF IsForest, Path
  <2>3. Differ = {}
    <3> SUFFICES ASSUME Differ # {} PROVE FALSE
      OBVIOUS
    <3>1. Lengths # {}
      OBVIOUS
    <3>2. PICK n \in Lengths : \A m \in Lengths : n <= m
      <4> HIDE DEF Lengths
      <4> QED BY <2>2, <3>1, LeastNat
    <3>3. PICK r \in Differ : n = Len(names[r])
      OBVIOUS
    <3>4. r \in DOMAIN cs \ {RootRecord}
      BY <2>1 DEF IsForest
    <3> DEFINE p == cs[r].parent
    <3>5. p \in DOMAIN cs /\ names[r] = Append(names[p], cs[r].name) /\ names[p] \in Path
          /\ cs[r].name \in Segment \cup {Root} /\ f[r] = Append(f[p], cs[r].name)
      BY <2>1, <3>4 DEF IsForest
    <3>6. Len(names[r]) = Len(names[p]) + 1 /\ Len(names[p]) \in Nat
      BY <3>5 DEF Path
    <3>7. p \notin Differ
      BY <3>2, <3>3, <3>6
    <3> QED BY <3>3, <3>5, <3>7
  <2> QED BY <2>1, <2>3 DEF IsForest
<1> HIDE DEF Rec
<1> QED
  BY <1>1, <1>2, <1>3

Added(cs, r, n, p) ==
  [s \in DOMAIN cs \cup {r} |-> IF s = r THEN [name |-> n, parent |-> p] ELSE cs[s]]

AddedName(cs, names, r, n, p) ==
  [s \in DOMAIN cs \cup {r} |-> IF s = r THEN Append(names[p], n) ELSE names[s]]

LEMMA CreateKeepsNames ==
  ASSUME NEW cs, NEW names, IsForest(cs, names),
         NEW r \in Record \ DOMAIN cs, NEW n \in Segment \cup {Root}, NEW p \in DOMAIN cs
  PROVE  IsForest(Added(cs, r, n, p), AddedName(cs, names, r, n, p))
<1> DEFINE ds == Added(cs, r, n, p)
           after == AddedName(cs, names, r, n, p)
<1>1. /\ DOMAIN ds = DOMAIN cs \cup {r}
      /\ ds[r] = [name |-> n, parent |-> p]
      /\ \A s \in DOMAIN cs : ds[s] = cs[s]
  BY DEF Added
<1>2. /\ DOMAIN after = DOMAIN cs \cup {r}
      /\ after[r] = Append(names[p], n)
      /\ \A s \in DOMAIN cs : after[s] = names[s]
      /\ after = [s \in DOMAIN cs \cup {r} |-> after[s]]
  BY DEF AddedName
<1> HIDE DEF ds, after
<1>3. Append(names[p], n) \in Path
  BY DEF IsForest, Path
<1>4. after \in [DOMAIN ds -> Path]
  BY <1>1, <1>2, <1>3 DEF IsForest
<1>5. IsForest(ds, after)
  BY <1>1, <1>2, <1>4 DEF IsForest
<1> QED
  BY <1>5 DEF ds, after

LEMMA UnlinkKeepsNames ==
  ASSUME NEW cs, NEW names, IsForest(cs, names),
         NEW r \in DOMAIN cs \ {RootRecord},
         \A s \in DOMAIN cs \ {r, RootRecord} : cs[s].parent # r
  PROVE  IsForest([s \in DOMAIN cs \ {r} |-> cs[s]], [s \in DOMAIN cs \ {r} |-> names[s]])
  BY DEF IsForest

\* The records below r are those from which the parents come to r, on longer names.
LEMMA BelowIs ==
  ASSUME NEW names, IsForest(channels, names), NEW r \in DOMAIN channels \ {RootRecord}
  PROVE  /\ Below(r) \subseteq DOMAIN channels /\ r \in Below(r) /\ RootRecord \notin Below(r)
         /\ \A s \in Below(r) \ {r} : channels[s].parent \in Below(r)
         /\ \A s \in DOMAIN channels \ {RootRecord} :
              channels[s].parent \in Below(r) => s \in Below(r)
         /\ \A s \in Below(r) : Len(names[r]) <= Len(names[s])
<1> DEFINE Up(S) == \A x \in S \ {RootRecord} : channels[x].parent \in S
           D == DOMAIN channels
           B == Below(r)
<1>1. \A s : s \in B <=> s \in D /\ \A S \in SUBSET D : s \in S /\ Up(S) => r \in S
  BY DEF Below
<1>2. RootRecord \in D /\ \A s \in D \ {RootRecord} : channels[s].parent \in D
  BY DEF IsForest
<1>3. RootRecord \notin B
  <2>1. {RootRecord} \in SUBSET D /\ Up({RootRecord}) /\ r \notin {RootRecord}
    BY <1>2
  <2> HIDE DEF Up, D, B
  <2> QED BY <1>1, <2>1
<1>4. ASSUME NEW s \in B \ {r} PROVE channels[s].parent \in B
  <2> DEFINE q == channels[s].parent
  <2>1. s \in D \ {RootRecord} /\ q \in D
    BY <1>1, <1>2, <1>3
  <2>2. ASSUME NEW S \in SUBSET D, q \in S, Up(S) PROVE r \in S
    <3>1. S \cup {s} \in SUBSET D /\ Up(S \cup {s})
      BY <2>1, <2>2
    <3> HIDE DEF Up, D, B, q
    <3> QED BY <1>1, <3>1
  <2> HIDE DEF Up, D, B
  <2> QED BY <1>1, <2>1, <2>2
<1>5. ASSUME NEW s \in D \ {RootRecord}, channels[s].parent \in B PROVE s \in B
  <2>1. \A S \in SUBSET D : s \in S /\ Up(S) => channels[s].parent \in S
    BY <1>5
  <2> HIDE DEF Up, D, B
  <2> QED BY <1>1, <1>5, <2>1
<1>6. ASSUME NEW s \in B PROVE Len(names[r]) <= Len(names[s])
  <2> DEFINE S == {x \in D : Len(names[x]) < Len(names[r])}
  <2>1. \A x \in D : Len(names[x]) \in Nat
    BY DEF IsForest, Path
  <2>2. ASSUME NEW x \in D \ {RootRecord} PROVE Len(names[channels[x].parent]) + 1 = Len(names[x])
    <3>1. /\ names[x] = Append(names[channels[x].parent], channels[x].name)
          /\ names[channels[x].parent] \in Path /\ channels[x].name \in Segment \cup {Root}
      BY DEF IsForest
    <3> QED BY <3>1 DEF Path
  <2>3. Up(S)
    BY <1>2, <2>1, <2>2
  <2>4. S \in SUBSET D /\ r \notin S /\ s \in D
    BY <1>1, <2>1
  <2>5. s \notin S
    <3> HIDE DEF Up, D, B, S
    <3> QED BY <1>1, <2>3, <2>4
  <2> QED BY <2>1, <2>4, <2>5
<1>7. B \subseteq D /\ r \in B
  BY <1>1
<1> QED
  BY <1>3, <1>4, <1>5, <1>6, <1>7

\* A channel that gets another name or parent takes those below it with it.
LEMMA WriteKeepsNames ==
  ASSUME NEW names, IsForest(channels, names), NEW r \in DOMAIN channels \ {RootRecord},
         NEW n \in Segment \cup {Root}, NEW p \in DOMAIN channels \ Below(r)
  PROVE  \E after : IsForest([channels EXCEPT ![r] = [name |-> n, parent |-> p]], after)
<1> DEFINE D == DOMAIN channels
           B == Below(r)
           k == Len(names[r])
           new == Append(names[p], n)
           Rest(s) == SubSeq(names[s], k + 1, Len(names[s]))
           after == [s \in D |-> IF s \in B THEN new \o Rest(s) ELSE names[s]]
           ds == [channels EXCEPT ![r] = [name |-> n, parent |-> p]]
<1>1. /\ B \subseteq D /\ r \in B /\ RootRecord \notin B /\ p \in D /\ p \notin B
      /\ \A s \in B \ {r} : channels[s].parent \in B
      /\ \A s \in D \ {RootRecord} : channels[s].parent \in B => s \in B
      /\ \A s \in B : k <= Len(names[s])
  BY BelowIs
<1>2. /\ D \subseteq Record /\ RootRecord \in D /\ channels[RootRecord].name = Root
      /\ \A s \in D \ {RootRecord} :
           channels[s].parent \in D /\ channels[s].name \in Segment \cup {Root}
      /\ \A s \in D : names[s] \in Path
      /\ names[RootRecord] = <<Root>>
      /\ \A s \in D \ {RootRecord} : names[s] = Append(names[channels[s].parent], channels[s].name)
  BY DEF IsForest
<1>3. /\ DOMAIN ds = D /\ ds[r] = [name |-> n, parent |-> p]
      /\ \A s \in D \ {r} : ds[s] = channels[s]
  OBVIOUS
<1>4. new \in Path
  BY <1>1, <1>2 DEF Path
<1>5. k \in Nat /\ \A s \in D : Rest(s) \in Path
  BY <1>1, <1>2 DEF Path
<1>6. /\ DOMAIN after = D /\ after = [s \in D |-> after[s]]
      /\ \A s \in B : after[s] = new \o Rest(s)
      /\ \A s \in D \ B : after[s] = names[s]
  BY <1>1
<1>7. after \in [D -> Path]
  <2> HIDE DEF after, new, Rest, D, B
  <2>1. \A s \in D : new \o Rest(s) \in Path
    BY <1>4, <1>5, ConcatIs DEF Path
  <2>2. \A s \in D : after[s] \in Path
    BY <1>1, <1>2, <1>6, <2>1
  <2> QED BY <1>6, <2>2
<1>8. after[r] = Append(after[p], n)
  <2>1. Rest(r) = <<>>
    BY <1>1, <1>2, <1>5 DEF Path
  <2>2. after[r] = new
    <3> HIDE DEF new, after, Rest, B
    <3>1. new \o <<>> = new
      BY <1>4 DEF Path
    <3> QED BY <1>1, <1>6, <2>1, <3>1
  <2> HIDE DEF after
  <2> QED BY <1>1, <1>6, <2>2
<1>9. ASSUME NEW s \in D \ {RootRecord, r}
      PROVE  after[s] = Append(after[channels[s].parent], channels[s].name)
  <2> DEFINE q == channels[s].parent
             m == channels[s].name
  <2>1. q \in D /\ m \in Segment \cup {Root} /\ names[s] = Append(names[q], m)
        /\ names[q] \in Path /\ names[s] \in Path
    BY <1>2
  <2>2. CASE s \in B
    <3>1. q \in B /\ k <= Len(names[q])
      BY <1>1, <2>2
    <3>2. Rest(s) = Append(Rest(q), m)
      <4> HIDE DEF q, m, k
      <4>1. k \in 0 .. Len(names[q])
        BY <1>5, <2>1, <3>1 DEF Path
      <4> QED BY <2>1, <4>1, RestOfAppend DEF Path
    <3>3. after[s] = new \o Append(Rest(q), m) /\ after[q] = new \o Rest(q)
      <4> HIDE DEF after, new, Rest
      <4> QED BY <1>6, <2>2, <3>1, <3>2
    <3>4. Rest(q) \in Path
      BY <1>5, <2>1
    <3>5. new \o Append(Rest(q), m) = Append(new \o Rest(q), m)
      <4> HIDE DEF new, Rest, q, m
      <4> QED BY <1>4, <2>1, <3>4, ConcatAppend DEF Path
    <3> HIDE DEF after, new, Rest
    <3> QED BY <3>3, <3>5
  <2>3. CASE s \notin B
    <3>1. q \notin B
      BY <1>1, <2>3
    <3> HIDE DEF after
    <3> QED BY <1>6, <2>1, <2>3, <3>1
  <2> QED BY <2>2, <2>3
<1>10. after[RootRecord] = <<Root>>
  <2> HIDE DEF after
  <2> QED BY <1>1, <1>2, <1>6
<1> HIDE DEF after, ds, D, B
<1>11. ds[RootRecord].name = Root
  BY <1>2, <1>3
<1>12. ASSUME NEW s \in D \ {RootRecord}
       PROVE  /\ ds[s].parent \in D /\ ds[s].name \in Segment \cup {Root}
              /\ after[s] = Append(after[ds[s].parent], ds[s].name)
  BY <1>1, <1>2, <1>3, <1>8, <1>9
<1>13. IsForest(ds, after)
  BY <1>2, <1>3, <1>7, <1>10, <1>11, <1>12 DEF IsForest
<1> QED
  BY <1>13 DEF ds

\* The channel that the job function f has now
NameNow(f) == IF channelOf[f] = None THEN <<Root>> ELSE CompleteName(channelOf[f])

RecordsInv ==
  /\ \E names : IsForest(channels, names)
  /\ channelOf \in [Function -> DOMAIN channels \cup {None}]
  /\ jobConfig \in [Function -> Path \cup {None}]
  /\ \A f \in Function \ renamed : jobConfig[f] \in {None, NameNow(f)}
  /\ rows \in [Job -> {rows[j] : j \in Job}]
  /\ \A j \in Job : rows[j] # NoRow => rows[j].channel \in Path

LEMMA NamesInPath ==
  ASSUME RecordsInv
  PROVE  /\ IsForest(channels, CompleteNames(channels))
         /\ \A f \in Function : NameNow(f) \in Path /\ ConfiguredChannel(f) \in Path
<1>1. PICK names : IsForest(channels, names)
  BY DEF RecordsInv
<1>2. CompleteNames(channels) = names
  BY <1>1, NamesAre
<1>3. \A r \in DOMAIN channels : CompleteName(r) \in Path
  BY <1>1, <1>2 DEF IsForest, CompleteName
<1>4. <<Root>> \in Path
  BY DEF Path
<1>5. \A f \in Function : channelOf[f] \in DOMAIN channels \cup {None}
                        /\ jobConfig[f] \in Path \cup {None}
  BY DEF RecordsInv
<1> QED
  BY <1>1, <1>2, <1>3, <1>4, <1>5 DEF NameNow, ConfiguredChannel

\* A request about jobs
LEMMA RowsKeepRecords ==
  ASSUME RecordsInv, UNCHANGED <<channels, channelOf, jobConfig, renamed>>,
         rows' \in [Job -> {rows'[j] : j \in Job}],
         \A j \in Job : rows'[j] # NoRow => rows'[j].channel \in Path
  PROVE  RecordsInv'
  BY DEF RecordsInv, NameNow, CompleteName

\* A write of channels leaves the records a forest, and the names of those that
\* functions refer to, or else the functions are renamed.
LEMMA ChannelsKeepRecords ==
  ASSUME RecordsInv, NEW after, IsForest(channels', after),
         \A f \in Function : channelOf[f] \in DOMAIN channels' \cup {None},
         \A f \in Function \ renamed' :
           f \notin renamed /\ (channelOf[f] # None => after[channelOf[f]] = CompleteName(channelOf[f])),
         UNCHANGED <<channelOf, jobConfig, rows>>
  PROVE  RecordsInv'
<1>1. CompleteNames(channels') = after
  BY NamesAre
<1>2. \A f \in Function \ renamed' : NameNow(f)' = NameNow(f)
  BY <1>1 DEF NameNow, CompleteName
<1>3. \A f \in Function \ renamed' : jobConfig'[f] \in {None, NameNow(f)'}
  BY <1>2 DEF RecordsInv
<1> QED
  BY <1>3 DEF RecordsInv

LEMMA RecordsInvStep ==
  ASSUME RowsInv, RecordsInv, [Next]_vars
  PROVE  RecordsInv'
<1> DEFINE names == CompleteNames(channels)
<1>0. /\ IsForest(channels, names)
      /\ \A f \in Function : NameNow(f) \in Path /\ ConfiguredChannel(f) \in Path
  BY NamesInPath
<1>1. CASE UNCHANGED records
  BY <1>1, RowsKeepRecords DEF records, RecordsInv
<1>2. ASSUME NEW r \in Record, NEW n \in Segment \cup {Root}, NEW p \in Record,
             CreateChannel(r, n, p)
      PROVE  RecordsInv'
  <2> DEFINE after == AddedName(channels, names, r, n, p)
  <2>1. r \notin DOMAIN channels /\ p \in DOMAIN channels /\ UNCHANGED <<channelOf, jobConfig, rows, renamed>>
    BY <1>2 DEF CreateChannel, WritesChannels
  <2>2. channels' = Added(channels, r, n, p)
    BY <1>2 DEF CreateChannel, Added
  <2>3. IsForest(channels', after)
    <3> HIDE DEF names
    <3> QED BY <1>0, <2>1, <2>2, CreateKeepsNames
  <2>4. \A f \in Function : channelOf[f] \in DOMAIN channels \cup {None}
    BY DEF RecordsInv
  <2>5. \A s \in DOMAIN channels : after[s] = CompleteName(s)
    BY <2>1 DEF AddedName, CompleteName
  <2>6. DOMAIN channels \subseteq DOMAIN channels'
    BY <2>2 DEF Added
  <2> HIDE DEF after
  <2> QED BY <2>1, <2>3, <2>4, <2>5, <2>6, ChannelsKeepRecords
<1>3. ASSUME NEW r \in Record, NEW n \in Segment \cup {Root}, NEW p \in Record,
             WriteChannel(r, n, p)
      PROVE  RecordsInv'
  <2>1. /\ r \in DOMAIN channels \ {RootRecord} /\ p \in DOMAIN channels \ Below(r)
        /\ channels' = [channels EXCEPT ![r] = [name |-> n, parent |-> p]]
        /\ renamed' = Renames(channels')
        /\ UNCHANGED <<channelOf, jobConfig, rows>>
    BY <1>0, <1>3 DEF WriteChannel, WritesChannels, IsForest
  <2>2. PICK after : IsForest(channels', after)
    <3> HIDE DEF names
    <3> QED BY <1>0, <2>1, WriteKeepsNames
  <2>3. CompleteNames(channels') = after
    BY <2>2, NamesAre
  <2>4. \A f \in Function : channelOf[f] \in DOMAIN channels' \cup {None}
    BY <2>1 DEF RecordsInv
  <2>5. \A f \in Function \ renamed' :
          f \notin renamed /\ (channelOf[f] # None => after[channelOf[f]] = CompleteName(channelOf[f]))
    BY <2>1, <2>3 DEF Renames
  <2> QED BY <2>1, <2>2, <2>4, <2>5, ChannelsKeepRecords
<1>4. ASSUME NEW r \in Record, UnlinkChannel(r)
      PROVE  RecordsInv'
  <2>1. /\ r \in DOMAIN channels \ {RootRecord} /\ Below(r) = {r}
        /\ \A f \in Function : channelOf[f] # r
        /\ channels' = [s \in DOMAIN channels \ {r} |-> channels[s]]
        /\ UNCHANGED <<channelOf, jobConfig, rows, renamed>>
    BY <1>0, <1>4 DEF UnlinkChannel, WritesChannels, IsForest
  <2>2. \A s \in DOMAIN channels \ {r, RootRecord} : channels[s].parent # r
    BY <1>0, <2>1, BelowIs
  <2>3. IsForest(channels', [s \in DOMAIN channels \ {r} |-> names[s]])
    <3> HIDE DEF names
    <3> QED BY <1>0, <2>1, <2>2, UnlinkKeepsNames
  <2>4. \A f \in Function : channelOf[f] \in (DOMAIN channels \ {r}) \cup {None}
    BY <2>1 DEF RecordsInv
  <2>5. \A s \in DOMAIN channels \ {r} :
          [x \in DOMAIN channels \ {r} |-> names[x]][s] = CompleteName(s)
    BY DEF CompleteName
  <2> HIDE DEF names
  <2> QED BY <2>1, <2>3, <2>4, <2>5, ChannelsKeepRecords
<1>5. ASSUME NEW f \in Function, NEW c \in Record \cup {None}, WriteFunction(f, c)
      PROVE  RecordsInv'
  BY <1>5 DEF WriteFunction, ClearCache, RecordsInv
<1>6. ASSUME NEW j \in Job, NEW f \in Function, NEW o \in Overrides, CreateJob(j, f, o)
      PROVE  RecordsInv'
  <2>1. /\ UNCHANGED <<channels, channelOf, renamed>>
        /\ jobConfig' = [jobConfig EXCEPT ![f] = ConfiguredChannel(f)]
        /\ rows' = [rows EXCEPT ![j] =
              [state |-> "unfinished", channel |-> ChannelOfJob(f, o), done |-> "no", cancelled |-> "no"]]
    BY <1>6 DEF CreateJob, Requests
  <2>2. ChannelOfJob(f, o) \in Path
    BY <1>0, RecordsAssumption DEF ChannelOfJob, Path
  <2>3. \A x \in Function : NameNow(x)' = NameNow(x)
    BY <2>1 DEF NameNow, CompleteName
  <2>4. f \notin renamed => ConfiguredChannel(f) = NameNow(f)
    BY DEF RecordsInv, ConfiguredChannel, NameNow
  <2>5. jobConfig' \in [Function -> Path \cup {None}]
    BY <1>0, <2>1 DEF RecordsInv
  <2>6. \A x \in Function \ renamed' : jobConfig'[x] \in {None, NameNow(x)'}
    BY <2>1, <2>3, <2>4 DEF RecordsInv
  <2>7. /\ rows' \in [Job -> {rows'[i] : i \in Job}]
        /\ \A i \in Job : rows'[i] # NoRow => rows'[i].channel \in Path
    BY <2>1, <2>2 DEF RecordsInv
  <2> QED BY <2>1, <2>5, <2>6, <2>7 DEF RecordsInv
<1>7. ASSUME NEW j \in Job, ChangeState(j)
      PROVE  RecordsInv'
  <2>1. PICK row \in {SetDone(rows[j]), SetCancelled(rows[j]), SetPending(rows[j])} :
          rows' = [rows EXCEPT ![j] = row]
    BY <1>7 DEF ChangeState
  <2>2. row.channel = rows[j].channel /\ rows[j] # NoRow
    BY <1>7, <2>1 DEF ChangeState, SetDone, SetCancelled, SetPending, RowsInv, IsRow
  <2>3. /\ rows' \in [Job -> {rows'[i] : i \in Job}]
        /\ \A i \in Job : rows'[i] # NoRow => rows'[i].channel \in Path
    BY <2>1, <2>2 DEF RecordsInv
  <2> QED BY <1>7, <2>3, RowsKeepRecords DEF ChangeState, Requests
<1>10. ASSUME NEW j \in Job, SetJobEnqueued(j)
      PROVE  RecordsInv'
  <2>1. rows' = [rows EXCEPT ![j].state = "unfinished"] /\ rows[j] # NoRow
    BY <1>10 DEF SetJobEnqueued
  <2>2. \A i \in Job : rows'[i] # NoRow => rows[i] # NoRow /\ rows'[i].channel = rows[i].channel
    BY <2>1 DEF RowsInv, IsRow
  <2>3. /\ rows' \in [Job -> {rows'[i] : i \in Job}]
        /\ \A i \in Job : rows'[i] # NoRow => rows'[i].channel \in Path
    BY <2>1, <2>2 DEF RecordsInv
  <2> QED BY <1>10, <2>3, RowsKeepRecords DEF SetJobEnqueued
<1>8. ASSUME Age PROVE RecordsInv'
  <2>1. \A j \in Job : rows'[j] # NoRow => rows[j] # NoRow /\ rows'[j].channel = rows[j].channel
    BY <1>8 DEF Age, RowsInv, IsRow
  <2>2. rows' = [j \in Job |-> rows'[j]]
    BY <1>8 DEF Age
  <2> QED BY <1>8, <2>1, <2>2, RowsKeepRecords DEF Age, RecordsInv
<1>9. ASSUME NEW r \in Record, Vacuum(r) PROVE RecordsInv'
  <2>1. rows' = [j \in Job |-> IF j \in Vacuumed(r) THEN NoRow ELSE rows[j]]
    BY <1>9 DEF Vacuum
  <2> QED BY <1>9, <2>1, RowsKeepRecords DEF Vacuum, RecordsInv
<1> QED
  BY <1>1, <1>2, <1>3, <1>4, <1>5, <1>6, <1>7, <1>8, <1>9, <1>10 DEF Next, RecordsStep, vars

LEMMA RecordsInvInit == Init => RowsInv /\ RecordsInv
<1> SUFFICES ASSUME Init PROVE RowsInv /\ RecordsInv
  OBVIOUS
<1> DEFINE names == [r \in {RootRecord} |-> <<Root>>]
<1>1. channels = [r \in {RootRecord} |-> [name |-> Root, parent |-> None]]
  BY DEF Init
<1>2. <<Root>> \in Path
  BY DEF Path
<1>3. IsForest(channels, names)
  BY <1>1, <1>2, RecordsAssumption DEF IsForest
<1> HIDE DEF names
<1> QED BY <1>3 DEF Init, RowsInv, RecordsInv

\* A job gets the complete name that its function's channel bears, although the
\* configurations are cached, unless that channel was renamed
\* (QueueJobFunction.job_config, QueueJobChannel._compute_complete_name).
THEOREM CacheIsRight == Spec => []NamesFollow
<1>1. Init => RowsInv /\ RecordsInv
  BY RecordsInvInit
<1>2. RecordsInv => NamesFollow
  BY DEF RecordsInv, NamesFollow, NameNow, ChannelOfJob, ConfiguredChannel
<1> QED
  BY <1>1, <1>2, RowsInvStep, RecordsInvStep, PTL DEF Spec

----------------------------------------------------------------------------
(* The places of jobs.  A tree has the channels above each of its own.     *)

Upto(path, k) == SubSeq(path, 1, k)

Closed(t) ==
  /\ <<Root>> \in DOMAIN t
  /\ \A p \in DOMAIN t : p \in Path /\ \A k \in 1 .. Len(p) : Upto(p, k) \in DOMAIN t

IsFull(path) == path \in Path /\ Len(path) >= 1 /\ path[1] = Root

\* The first k segments of path are the nearest channel above it.
FallsOn(t, path, k) ==
  /\ k \in 1 .. Len(path) - 1
  /\ Upto(path, k) \in DOMAIN t
  /\ \A i \in k + 1 .. Len(path) : Upto(path, i) \notin DOMAIN t

LEMMA UptoIs ==
  ASSUME NEW path \in Path, NEW k \in 1 .. Len(path)
  PROVE  /\ Upto(path, k) \in Path /\ Len(Upto(path, k)) = k
         /\ \A i \in 1 .. k : Upto(path, k)[i] = path[i]
         /\ \A i \in 1 .. k : Upto(Upto(path, k), i) = Upto(path, i)
<1>1. /\ Upto(path, k) \in Path /\ Len(Upto(path, k)) = k
      /\ \A i \in 1 .. k : Upto(path, k)[i] = path[i]
  BY DEF Upto, Path
<1>2. ASSUME NEW i \in 1 .. k PROVE Upto(Upto(path, k), i) = Upto(path, i)
  <2> DEFINE p == Upto(path, k)
  <2>1. /\ Upto(p, i) \in Path /\ Len(Upto(p, i)) = i
        /\ \A n \in 1 .. i : Upto(p, i)[n] = p[n]
    <3> HIDE DEF p
    <3> QED BY <1>1 DEF Upto, Path, p
  <2>2. /\ Upto(path, i) \in Path /\ Len(Upto(path, i)) = i
        /\ \A n \in 1 .. i : Upto(path, i)[n] = path[n]
    BY DEF Upto, Path
  <2>3. \A n \in 1 .. i : Upto(p, i)[n] = Upto(path, i)[n]
    BY <1>1, <2>1, <2>2
  <2> HIDE DEF p
  <2>4. Upto(p, i) = Upto(path, i)
    BY <2>1, <2>2, <2>3, SameSeq DEF Path
  <2> QED BY <2>4 DEF p
<1> QED
  BY <1>1, <1>2

LEMMA AboveIs ==
  ASSUME NEW path \in Path, Len(path) >= 1
  PROVE  Above(path) = {Upto(path, k) : k \in 1 .. Len(path)}
<1>1. Upto(path, Len(path)) = path
  BY DEF Upto, Path
<1>2. Len(path) \in Nat
  BY DEF Path
<1> QED
  BY <1>1, <1>2 DEF Above, Ancestors, Upto

LEMMA FullNameIs ==
  ASSUME NEW name \in Path
  PROVE  IsFull(FullName(name))
<1>1. CASE name = <<>>
  BY <1>1 DEF FullName, IsFull, Path
<1>2. CASE name # <<>> /\ Head(name) = Root
  BY <1>2 DEF FullName, IsFull, Path
<1>3. CASE name # <<>> /\ Head(name) # Root
  <2>1. FullName(name) = <<Root>> \o name /\ <<Root>> \in Path /\ Len(<<Root>>) = 1
    BY <1>3 DEF FullName, Path
  <2> QED BY <2>1, ConcatIs DEF IsFull, Path
<1> QED
  BY <1>1, <1>2, <1>3

LEMMA FallbackIs ==
  ASSUME NEW t, Closed(t), NEW path, IsFull(path), path \notin DOMAIN t
  PROVE  \E k : FallsOn(t, path, k)
<1>1. path \in Path /\ Len(path) \in Nat /\ Len(path) >= 1 /\ path[1] = Root
  BY DEF IsFull, Path
<1>2. Upto(path, 1) = <<Root>>
  <2>1. 1 \in 1 .. Len(path) /\ 1 \in 1 .. 1
    BY <1>1
  <2>2. Upto(path, 1) \in Path /\ Len(Upto(path, 1)) = 1 /\ Upto(path, 1)[1] = path[1]
    BY <1>1, <2>1, UptoIs
  <2> QED BY <1>1, <2>2 DEF Path
<1>3. Upto(path, Len(path)) = path
  BY <1>1 DEF Upto, Path
<1>4. 1 \in 1 .. Len(path) - 1
  BY <1>1, <1>2, <1>3 DEF Closed
<1> DEFINE K == {n \in 1 .. Len(path) - 1 : Upto(path, Len(path) - n) \in DOMAIN t}
<1>5. K \subseteq Nat /\ Len(path) - 1 \in K
  BY <1>1, <1>2, <1>4 DEF Closed
<1>6. PICK n \in K : \A m \in K : n <= m
  <2> HIDE DEF K
  <2> QED BY <1>5, LeastNat
<1>7. ASSUME NEW i \in Len(path) - n + 1 .. Len(path) PROVE Upto(path, i) \notin DOMAIN t
  <2>1. CASE i = Len(path)
    BY <1>3, <2>1
  <2>2. CASE i # Len(path)
    <3> SUFFICES ASSUME Upto(path, i) \in DOMAIN t PROVE FALSE
      OBVIOUS
    <3> DEFINE m == Len(path) - i
    <3>1. m \in 1 .. Len(path) - 1 /\ m < n /\ Len(path) - m = i
      BY <1>1, <1>6, <2>2
    <3> HIDE DEF m
    <3>2. m \in K
      BY <3>1
    <3>3. n <= m /\ n \in Nat /\ m \in Nat
      BY <1>5, <1>6, <3>2
    <3> QED BY <3>1, <3>3
  <2> QED BY <2>1, <2>2
<1>8. Len(path) - n \in 1 .. Len(path) - 1
  BY <1>1, <1>6
<1>9. FallsOn(t, path, Len(path) - n)
  BY <1>6, <1>7, <1>8 DEF FallsOn
<1> QED
  BY <1>9

LEMMA FallbackWalks ==
  ASSUME NEW t, NEW path, IsFull(path), NEW k, FallsOn(t, path, k)
  PROVE  Fallback(t, path) = Upto(path, k)
<1> DEFINE A == Ancestors(path) \cap DOMAIN t
<1>1. A = {Upto(path, i) : i \in 1 .. Len(path) - 1} \cap DOMAIN t
  BY DEF Ancestors, Upto
<1>2. path \in Path /\ Len(path) \in Nat /\ k \in 1 .. Len(path) - 1 /\ k \in 1 .. Len(path)
  BY DEF IsFull, FallsOn, Path
<1>3. \A i \in 1 .. Len(path) - 1 : Len(Upto(path, i)) = i
  BY <1>2, UptoIs
<1>4. \A i \in 1 .. Len(path) - 1 : Upto(path, i) \in DOMAIN t => i <= k
  BY <1>2 DEF FallsOn
<1>5. Upto(path, k) \in A
  BY <1>1, <1>2 DEF FallsOn
<1>6. \A q \in A : Len(q) <= Len(Upto(path, k))
  BY <1>1, <1>2, <1>3, <1>4
<1>7. ASSUME NEW p \in A, \A q \in A : Len(q) <= Len(p) PROVE p = Upto(path, k)
  <2>1. PICK i \in 1 .. Len(path) - 1 : p = Upto(path, i) /\ Upto(path, i) \in DOMAIN t
    BY <1>1
  <2>2. i <= k /\ k <= i
    BY <1>2, <1>3, <1>4, <1>5, <1>7, <2>1
  <2> QED BY <1>2, <2>1, <2>2
<1> HIDE DEF A
<1>8. (CHOOSE p \in A : \A q \in A : Len(q) <= Len(p)) = Upto(path, k)
  BY <1>5, <1>6, <1>7
<1> QED
  BY <1>8 DEF A, Fallback

\* Where a job without a channel of its name comes to be
LEMMA WalkIs ==
  ASSUME NEW path, IsFull(path), NEW k \in 1 .. Len(path)
  PROVE  LET walk == WalkFrom(Upto(path, k), path) IN
         /\ walk \in Path /\ Len(walk) = k + Len(path) - 1
         /\ \A i \in 1 .. k : Upto(walk, i) = Upto(path, i)
         /\ \A i \in 1 .. Len(path) - 1 : walk[k + i] = path[i + 1]
<1> DEFINE up == Upto(path, k)
           rest == Tail(path)
           walk == up \o rest
<1>1. /\ path \in Path /\ Len(path) \in Nat /\ up \in Path /\ Len(up) = k
      /\ \A i \in 1 .. k : up[i] = path[i]
  BY UptoIs DEF IsFull, Path
<1>2. /\ rest \in Path /\ Len(rest) = Len(path) - 1
      /\ \A i \in 1 .. Len(path) - 1 : rest[i] = path[i + 1]
  BY DEF IsFull, Path
<1>3. /\ walk \in Path /\ Len(walk) = k + Len(path) - 1
      /\ \A i \in 1 .. k : walk[i] = path[i]
      /\ \A i \in 1 .. Len(path) - 1 : walk[k + i] = path[i + 1]
  <2> HIDE DEF up, rest
  <2>1. /\ walk \in Path /\ Len(walk) = Len(up) + Len(rest)
        /\ \A i \in 1 .. Len(up) : walk[i] = up[i]
        /\ \A i \in 1 .. Len(rest) : walk[Len(up) + i] = rest[i]
    <3>1. up \in Seq(Segment \cup {Root}) /\ rest \in Seq(Segment \cup {Root})
      BY <1>1, <1>2 DEF Path
    <3> QED BY <3>1, ConcatIs DEF Path
  <2> HIDE DEF walk
  <2>2. Len(walk) = k + Len(path) - 1
    BY <1>1, <1>2, <2>1
  <2>3. \A i \in 1 .. k : walk[i] = path[i]
    BY <1>1, <2>1
  <2>4. \A i \in 1 .. Len(path) - 1 : walk[k + i] = path[i + 1]
    BY <1>1, <1>2, <2>1
  <2> QED BY <2>1, <2>2, <2>3, <2>4
<1>4. ASSUME NEW i \in 1 .. k PROVE Upto(walk, i) = Upto(path, i)
  <2> HIDE DEF walk
  <2>1. i \in 1 .. Len(walk) /\ i \in 1 .. Len(path)
    BY <1>1, <1>3
  <2>2. /\ Upto(walk, i) \in Path /\ Len(Upto(walk, i)) = i
        /\ \A n \in 1 .. i : Upto(walk, i)[n] = walk[n]
    BY <1>3, <2>1, UptoIs
  <2>3. /\ Upto(path, i) \in Path /\ Len(Upto(path, i)) = i
        /\ \A n \in 1 .. i : Upto(path, i)[n] = path[n]
    BY <1>1, <2>1, UptoIs
  <2>4. \A n \in 1 .. i : Upto(walk, i)[n] = Upto(path, i)[n]
    BY <1>3, <2>2, <2>3
  <2> QED BY <2>2, <2>3, <2>4, SameSeq DEF Path
<1> QED
  BY <1>3, <1>4 DEF WalkFrom

LEMMA MadeIsClosed ==
  ASSUME NEW t, Closed(t), NEW path \in Path, Len(path) >= 1
  PROVE  /\ Closed(Made(t, path)) /\ path \in DOMAIN Made(t, path)
         /\ \A p \in DOMAIN Made(t, path) \ DOMAIN t : \E k \in 1 .. Len(path) : p = Upto(path, k)
<1> DEFINE m == Made(t, path)
<1>1. DOMAIN m = DOMAIN t \cup {Upto(path, k) : k \in 1 .. Len(path)}
  <2>1. Ancestors(path) \cup {path} = {Upto(path, k) : k \in 1 .. Len(path)}
    BY AboveIs DEF Above
  <2>2. DOMAIN m = DOMAIN t \cup Ancestors(path) \cup {path}
    BY MadeIs
  <2> HIDE DEF m
  <2> QED BY <2>1, <2>2
<1> HIDE DEF m
<1>2. ASSUME NEW p \in DOMAIN m
      PROVE  p \in Path /\ \A k \in 1 .. Len(p) : Upto(p, k) \in DOMAIN m
  <2>1. CASE p \in DOMAIN t
    BY <1>1, <2>1 DEF Closed
  <2>2. CASE \E n \in 1 .. Len(path) : p = Upto(path, n)
    <3>1. PICK n \in 1 .. Len(path) : p = Upto(path, n)
      BY <2>2
    <3>2. /\ p \in Path /\ Len(p) = n
          /\ \A k \in 1 .. n : Upto(p, k) = Upto(path, k)
      BY <3>1, UptoIs
    <3>3. \A k \in 1 .. n : k \in 1 .. Len(path)
      BY DEF Path
    <3> QED BY <1>1, <3>2, <3>3
  <2> QED BY <1>1, <1>2, <2>1, <2>2
<1>3. path \in DOMAIN m
  <2>1. Upto(path, Len(path)) = path /\ Len(path) \in 1 .. Len(path)
    BY DEF Upto, Path
  <2> QED BY <1>1, <2>1
<1>4. Closed(m)
  BY <1>1, <1>2 DEF Closed
<1> QED
  BY <1>1, <1>3, <1>4 DEF m

\* The channels above what is asked for are above what is found, if they are there.
LEMMA FoundIs ==
  ASSUME NEW t, Closed(t), NEW name \in Path
  PROVE  /\ PlaceOf(t, name) \in Path /\ Len(PlaceOf(t, name)) >= 1
         /\ Above(FullName(name)) \cap DOMAIN t \subseteq Above(PlaceOf(t, name))
<1> DEFINE path == FullName(name)
<1>1. IsFull(path) /\ path \in Path /\ Len(path) \in Nat /\ Len(path) >= 1
  BY FullNameIs DEF IsFull, Path
<1>2. Above(path) = {Upto(path, i) : i \in 1 .. Len(path)}
  <2> HIDE DEF path
  <2> QED BY <1>1, AboveIs
<1> HIDE DEF path
<1>3. CASE path \in DOMAIN t
  <2>1. PlaceOf(t, name) = path
    BY <1>3 DEF PlaceOf, path
  <2> QED BY <1>1, <2>1 DEF path
<1>4. CASE path \notin DOMAIN t
  <2>1. PICK k : FallsOn(t, path, k)
    BY <1>1, <1>4, FallbackIs
  <2> DEFINE walk == WalkFrom(Upto(path, k), path)
  <2>2. PlaceOf(t, name) = walk
    BY <1>1, <1>4, <2>1, FallbackWalks DEF PlaceOf, path
  <2>3. k \in 1 .. Len(path) /\ k \in Nat /\ k >= 1
    BY <1>1, <2>1 DEF FallsOn
  <2>4. /\ walk \in Path /\ Len(walk) = k + Len(path) - 1
        /\ \A i \in 1 .. k : Upto(walk, i) = Upto(path, i)
    BY <1>1, <2>3, WalkIs
  <2> HIDE DEF walk
  <2>5. Len(walk) >= 1 /\ \A i \in 1 .. k : i \in 1 .. Len(walk)
    BY <1>1, <2>3, <2>4
  <2>6. Above(walk) = {Upto(walk, i) : i \in 1 .. Len(walk)}
    BY <2>4, <2>5, AboveIs
  <2>7. ASSUME NEW i \in 1 .. Len(path), Upto(path, i) \in DOMAIN t PROVE Upto(path, i) \in Above(walk)
    <3>1. i \in 1 .. k
      BY <1>1, <2>1, <2>3, <2>7 DEF FallsOn
    <3> QED BY <2>4, <2>5, <2>6, <3>1
  <2>8. Above(path) \cap DOMAIN t \subseteq Above(walk)
    BY <1>2, <2>7
  <2> QED BY <2>2, <2>4, <2>5, <2>8 DEF path
<1> QED
  BY <1>3, <1>4

\* Channels made for another job come between no job and the channel it falls on.
LEMMA StillFallsOn ==
  ASSUME NEW t, Closed(t), NEW path, IsFull(path), IsInjective(path),
         NEW k, k # 1, FallsOn(t, path, k), NEW name \in Path
  PROVE  FallsOn(Made(t, PlaceOf(t, name)), path, k)
<1> DEFINE q == PlaceOf(t, name)
           m == Made(t, q)
           other == FullName(name)
<1>1. /\ path \in Path /\ Len(path) \in Nat /\ k \in 1 .. Len(path) - 1 /\ k \in 1 .. Len(path)
      /\ k > 1 /\ Upto(path, k) \in DOMAIN t
      /\ \A i \in k + 1 .. Len(path) : Upto(path, i) \notin DOMAIN t
  BY DEF IsFull, FallsOn, Path
<1>2. q \in Path /\ Len(q) >= 1 /\ Len(q) \in Nat
  BY FoundIs DEF Path
<1>3. /\ Closed(m) /\ \A p \in DOMAIN t : p \in DOMAIN m
      /\ \A p \in DOMAIN m \ DOMAIN t : \E i \in 1 .. Len(q) : p = Upto(q, i)
  <2> HIDE DEF q
  <2>1. Closed(m) /\ \A p \in DOMAIN m \ DOMAIN t : \E i \in 1 .. Len(q) : p = Upto(q, i)
    BY <1>2, MadeIsClosed
  <2>2. DOMAIN m = DOMAIN t \cup Ancestors(q) \cup {q}
    BY MadeIs
  <2> HIDE DEF m
  <2> QED BY <2>1, <2>2
<1>4. IsFull(other) /\ other \in Path /\ Len(other) \in Nat
  BY FullNameIs DEF IsFull, Path
<1> HIDE DEF m, other
<1>5. Upto(path, k + 1) \notin DOMAIN m
  <2> SUFFICES ASSUME Upto(path, k + 1) \in DOMAIN m PROVE FALSE
    OBVIOUS
  <2>1. k + 1 \in 1 .. Len(path) /\ Upto(path, k + 1) \notin DOMAIN t
    BY <1>1
  <2>2. PICK n \in 1 .. Len(q) : Upto(path, k + 1) = Upto(q, n)
    BY <1>3, <2>1
  <2>3. n = k + 1
    <3>1. Len(Upto(path, k + 1)) = k + 1
      BY <1>1, <2>1, UptoIs
    <3>2. Len(Upto(q, n)) = n
      <4> HIDE DEF q
      <4> QED BY <1>2, UptoIs
    <3> HIDE DEF q
    <3> QED BY <2>2, <3>1, <3>2
  <2>4. \A i \in 1 .. k + 1 : q[i] = path[i]
    <3>1. \A i \in 1 .. k + 1 : Upto(path, k + 1)[i] = path[i]
      BY <1>1, <2>1, UptoIs
    <3>2. \A i \in 1 .. n : Upto(q, n)[i] = q[i]
      <4> HIDE DEF q
      <4> QED BY <1>2, UptoIs
    <3> HIDE DEF q
    <3> QED BY <2>2, <2>3, <3>1, <3>2
  <2>5. CASE other \in DOMAIN t
    <3>1. q = other
      BY <2>5 DEF PlaceOf, other
    <3> HIDE DEF q
    <3> QED BY <2>1, <2>2, <2>5, <3>1 DEF Closed
  <2>6. CASE other \notin DOMAIN t
    <3>1. PICK l : FallsOn(t, other, l)
      BY <1>4, <2>6, FallbackIs
    <3>2. q = WalkFrom(Upto(other, l), other)
      BY <1>4, <2>6, <3>1, FallbackWalks DEF PlaceOf, other
    <3>3. /\ l \in 1 .. Len(other) - 1 /\ l \in 1 .. Len(other) /\ Upto(other, l) \in DOMAIN t
          /\ \A i \in l + 1 .. Len(other) : Upto(other, i) \notin DOMAIN t
      BY <1>4, <3>1 DEF FallsOn
    <3>4. /\ Len(q) = l + Len(other) - 1
          /\ \A i \in 1 .. l : Upto(q, i) = Upto(other, i)
          /\ \A i \in 1 .. Len(other) - 1 : q[l + i] = other[i + 1]
      BY <1>4, <3>2, <3>3, WalkIs
    <3> HIDE DEF q
    <3>5. CASE k + 1 <= l
      <4>1. k + 1 \in 1 .. l /\ k + 1 \in 1 .. Len(Upto(other, l)) /\ Len(Upto(other, l)) = l
        BY <1>1, <1>4, <3>3, <3>5, UptoIs
      <4>2. Upto(Upto(other, l), k + 1) = Upto(other, k + 1)
        BY <1>4, <3>3, <4>1, UptoIs
      <4>3. Upto(other, k + 1) \in DOMAIN t
        BY <3>3, <4>1, <4>2 DEF Closed
      <4> QED BY <2>1, <2>2, <2>3, <3>4, <4>1, <4>3
    <3>6. CASE l = 1
      <4>1. ASSUME NEW i \in 1 .. Len(other) PROVE q[i] = other[i]
        <5>1. CASE i = 1
          <6>1. Upto(q, 1) = Upto(other, 1) /\ 1 \in 1 .. Len(q) /\ 1 \in 1 .. Len(other)
            BY <1>2, <1>4, <3>3, <3>4, <3>6
          <6>2. Upto(q, 1)[1] = q[1]
            BY <1>2, <6>1, UptoIs
          <6>3. Upto(other, 1)[1] = other[1]
            BY <1>4, <6>1, UptoIs
          <6> QED BY <5>1, <6>1, <6>2, <6>3
        <5>2. CASE i # 1
          <6> DEFINE h == i - 1
          <6>1. h \in 1 .. Len(other) - 1 /\ i = h + 1 /\ i = 1 + h
            BY <1>4, <5>2
          <6> HIDE DEF h
          <6> QED BY <3>4, <3>6, <6>1
        <5> QED BY <5>1, <5>2
      <4>2. Len(q) = Len(other) /\ k \in 1 .. Len(other) /\ k \in l + 1 .. Len(other)
        BY <1>1, <1>4, <2>2, <2>3, <3>3, <3>4, <3>6
      <4>3. /\ Upto(other, k) \in Path /\ Len(Upto(other, k)) = k
            /\ \A i \in 1 .. k : Upto(other, k)[i] = other[i]
        BY <1>4, <4>2, UptoIs
      <4>4. /\ Upto(path, k) \in Path /\ Len(Upto(path, k)) = k
            /\ \A i \in 1 .. k : Upto(path, k)[i] = path[i]
        BY <1>1, UptoIs
      <4>5. \A i \in 1 .. k : Upto(other, k)[i] = Upto(path, k)[i]
        BY <1>1, <2>4, <4>1, <4>2, <4>3, <4>4
      <4>6. Upto(other, k) = Upto(path, k)
        BY <4>3, <4>4, <4>5, SameSeq DEF Path
      <4> QED BY <1>1, <3>3, <4>2, <4>6
    <3>7. CASE l # 1 /\ l <= k
      <4>1. l \in 1 .. k + 1 /\ l + 1 \in 1 .. k + 1 /\ 2 \in 1 .. k + 1 /\ 2 \in 1 .. l
            /\ l + 1 # 2 /\ 1 \in 1 .. Len(other) - 1
        BY <1>1, <1>4, <3>3, <3>7
      <4>2. q[l + 1] = other[1 + 1]
        BY <3>4, <4>1
      <4>3. Upto(q, l)[2] = q[2]
        <5>1. l \in 1 .. Len(q)
          BY <1>1, <1>2, <2>2, <2>3, <3>3, <3>7
        <5> QED BY <1>2, <4>1, <5>1, UptoIs
      <4>4. Upto(other, l)[2] = other[2]
        BY <1>4, <3>3, <4>1, UptoIs
      <4>5. Upto(q, l) = Upto(other, l) /\ 1 + 1 = 2
        BY <3>3, <3>4
      <4>6. path[l + 1] = path[2]
        BY <2>4, <4>1, <4>2, <4>3, <4>4, <4>5
      <4>7. l + 1 \in DOMAIN path /\ 2 \in DOMAIN path
        BY <1>1, <2>1, <3>3, <3>7, <4>1 DEF Path
      <4> QED BY <4>1, <4>6, <4>7 DEF IsInjective
    <3> QED BY <1>1, <3>3, <3>5, <3>6, <3>7
  <2> QED BY <2>5, <2>6
<1>6. ASSUME NEW i \in k + 1 .. Len(path) PROVE Upto(path, i) \notin DOMAIN m
  <2>1. i \in 1 .. Len(path) /\ k + 1 \in 1 .. i
    BY <1>1
  <2>2. Len(Upto(path, i)) = i /\ Upto(Upto(path, i), k + 1) = Upto(path, k + 1)
    BY <1>1, <2>1, UptoIs
  <2> QED BY <1>3, <1>5, <2>1, <2>2 DEF Closed
<1> QED
  BY <1>1, <1>3, <1>6 DEF FallsOn, m

\* A job is under the limits of its name, and where it would be found again.
Held(j) == place[j] # NotThere /\ rows[j] # NoRow

PlacesInv ==
  /\ Closed(tree)
  /\ place \in [Job -> Path]
  /\ runner # "running" => \A j \in Job : place[j] = NotThere
  /\ \A j \in Job : Held(j) =>
       /\ Above(FullName(rows[j].channel)) \cap Declared \subseteq Above(place[j])
       /\ IsInjective(FullName(rows[j].channel)) =>
            place[j] \in DOMAIN tree /\ place[j] = PlaceOf(tree, rows[j].channel)

\* A job that is found somewhere is found there again after others were asked for.
LEMMA FoundAgain ==
  ASSUME NEW t, Closed(t), NEW name \in Path, NEW other \in Path,
         IsInjective(FullName(name)), PlaceOf(t, name) \in DOMAIN Made(t, PlaceOf(t, other))
  PROVE  PlaceOf(Made(t, PlaceOf(t, other)), name) = PlaceOf(t, name)
<1> DEFINE path == FullName(name)
           m == Made(t, PlaceOf(t, other))
<1>1. IsFull(path)
  BY FullNameIs
<1>2. \A p \in DOMAIN t : p \in DOMAIN m
  <2>1. DOMAIN m = DOMAIN t \cup Ancestors(PlaceOf(t, other)) \cup {PlaceOf(t, other)}
    BY MadeIs
  <2> HIDE DEF m
  <2> QED BY <2>1
<1>3. path \in DOMAIN m => PlaceOf(m, name) = path
  <2> HIDE DEF m
  <2> QED BY DEF PlaceOf
<1>4. CASE path \in DOMAIN t
  <2>1. PlaceOf(t, name) = path
    BY <1>4 DEF PlaceOf
  <2> QED BY <1>2, <1>3, <1>4, <2>1
<1>5. CASE path \notin DOMAIN t
  <2>0. IsInjective(path)
    OBVIOUS
  <2>1. PICK k : FallsOn(t, path, k)
    <3> HIDE DEF path
    <3> QED BY <1>1, <1>5, FallbackIs
  <2> DEFINE walk == WalkFrom(Upto(path, k), path)
  <2>2. PlaceOf(t, name) = walk
    BY <1>1, <1>5, <2>1, FallbackWalks DEF PlaceOf
  <2>3. CASE k = 1
    <3> HIDE DEF path
    <3>1. path \in Path /\ Len(path) \in Nat /\ 1 \in 1 .. Len(path) /\ k \in 1 .. Len(path)
      BY <1>1, <2>3 DEF IsFull, Path
    <3>2. /\ walk \in Path /\ Len(walk) = k + Len(path) - 1
          /\ \A i \in 1 .. k : Upto(walk, i) = Upto(path, i)
          /\ \A i \in 1 .. Len(path) - 1 : walk[k + i] = path[i + 1]
      BY <1>1, <3>1, WalkIs
    <3> HIDE DEF walk
    <3>3. walk[1] = path[1]
      <4>1. Upto(walk, 1) = Upto(path, 1) /\ 1 \in 1 .. Len(walk)
        BY <2>3, <3>1, <3>2
      <4>2. Upto(walk, 1)[1] = walk[1]
        BY <3>2, <4>1, UptoIs
      <4>3. Upto(path, 1)[1] = path[1]
        BY <3>1, UptoIs
      <4> QED BY <4>1, <4>2, <4>3
    <3>4. ASSUME NEW i \in 1 .. Len(path), i # 1 PROVE walk[i] = path[i]
      <4> DEFINE h == i - 1
      <4>1. h \in 1 .. Len(path) - 1 /\ i = h + 1 /\ i = 1 + h
        BY <3>1, <3>4
      <4> HIDE DEF h
      <4> QED BY <2>3, <3>2, <4>1
    <3>5. Len(walk) = Len(path) /\ \A i \in 1 .. Len(walk) : walk[i] = path[i]
      BY <2>3, <3>1, <3>2, <3>3, <3>4
    <3>6. walk = path
      BY <3>1, <3>2, <3>5, SameSeq DEF Path
    <3> QED BY <1>3, <2>2, <3>6
  <2>4. CASE k # 1
    <3> HIDE DEF path, walk
    <3>1. FallsOn(m, path, k)
      BY <1>1, <2>0, <2>1, <2>4, StillFallsOn
    <3> HIDE DEF m
    <3>2. path \notin DOMAIN m
      <4>1. Len(path) \in k + 1 .. Len(path) /\ Upto(path, Len(path)) = path
        BY <1>1, <3>1 DEF FallsOn, IsFull, Path, Upto
      <4> QED BY <3>1, <4>1 DEF FallsOn
    <3>3. PlaceOf(m, name) = walk
      BY <1>1, <3>1, <3>2, FallbackWalks DEF PlaceOf, path, walk
    <3> QED BY <2>2, <3>3 DEF m
  <2> QED BY <2>3, <2>4
<1> QED
  BY <1>4, <1>5

LEMMA DeclaredAreThere ==
  ASSUME ManagerInv, runner = "running"
  PROVE  Declared \subseteq DOMAIN tree
  BY AppliedIsConfigured DEF ManagerInv

LEMMA InitHolds == Init => ManagerInv /\ RowsInv /\ RecordsInv /\ PlacesInv
<1> SUFFICES ASSUME Init PROVE ManagerInv /\ RowsInv /\ RecordsInv /\ PlacesInv
  OBVIOUS
<1>1. DOMAIN tree = {<<Root>>} /\ runner = "starting" /\ place = [j \in Job |-> NotThere]
  BY DEF Init, ManagerInit
<1>2. Closed(tree)
  <2> DEFINE root == <<Root>>
  <2>1. root \in Path /\ Len(root) = 1 /\ root[1] = Root /\ 1 \in 1 .. Len(root) /\ 1 \in 1 .. 1
    BY DEF Path
  <2>2. Upto(root, 1) = root
    <3> HIDE DEF root
    <3>1. Upto(root, 1) \in Path /\ Len(Upto(root, 1)) = 1 /\ Upto(root, 1)[1] = root[1]
      BY <2>1, UptoIs
    <3> QED BY <2>1, <3>1 DEF Path
  <2> QED BY <1>1, <2>1, <2>2 DEF Closed
<1>3. PlacesInv
  BY <1>1, <1>2 DEF PlacesInv, Held, NotThere, Path
<1> QED
  BY <1>3, ManagerInvInit, RecordsInvInit

LEMMA PlacesInvStep ==
  ASSUME ManagerInv, RecordsInv, RowsInv, PlacesInv, [Next]_vars
  PROVE  /\ PlacesInv'
         /\ \A j \in Job :
              ( /\ place[j] # NotThere /\ place'[j] # NotThere /\ rows[j] # NoRow
                /\ IsInjective(FullName(rows[j].channel)) )
              => place'[j] = place[j]
<1> DEFINE Kept == \A j \in Job :
              ( /\ place[j] # NotThere /\ place'[j] # NotThere /\ rows[j] # NoRow
                /\ IsInjective(FullName(rows[j].channel)) )
              => place'[j] = place[j]
<1>1. \A j \in Job : rows[j] # NoRow => rows[j].channel \in Path
  BY DEF RecordsInv
<1>2. ASSUME UNCHANGED <<manager>>,
             \A j \in Job : Held(j)' => Held(j) /\ rows'[j].channel = rows[j].channel
      PROVE  PlacesInv' /\ Kept
  <2>1. UNCHANGED <<tree, place, runner, config>> /\ Declared' = Declared
    BY <1>2 DEF manager, Declared
  <2>2. Kept
    BY <2>1
  <2>3. \A j \in Job : Held(j)' =>
       /\ Above(FullName(rows'[j].channel)) \cap Declared' \subseteq Above(place'[j])
       /\ IsInjective(FullName(rows'[j].channel)) =>
            place'[j] \in DOMAIN tree' /\ place'[j] = PlaceOf(tree', rows'[j].channel)
    BY <1>2, <2>1 DEF PlacesInv
  <2> QED BY <2>1, <2>2, <2>3 DEF PlacesInv
<1>3. CASE RecordsStep /\ UNCHANGED manager
  <2>1. ASSUME UNCHANGED rows PROVE \A j \in Job : Held(j)' => Held(j) /\ rows'[j].channel = rows[j].channel
    BY <1>3, <2>1 DEF Held, manager
  <2>2. ASSUME NEW i \in Job, NEW f \in Function, NEW o \in Overrides, CreateJob(i, f, o)
        PROVE  \A j \in Job : Held(j)' => Held(j) /\ rows'[j].channel = rows[j].channel
    <3>1. place[i] = NotThere /\ place' = place /\ \A j \in Job \ {i} : rows'[j] = rows[j]
      BY <1>3, <2>2 DEF CreateJob, manager, RowsInv
    <3> QED BY <3>1 DEF Held
  <2>3. ASSUME NEW i \in Job, ChangeState(i)
        PROVE  \A j \in Job : Held(j)' => Held(j) /\ rows'[j].channel = rows[j].channel
    <3>1. PICK row \in {SetDone(rows[i]), SetCancelled(rows[i]), SetPending(rows[i])} :
            rows' = [rows EXCEPT ![i] = row]
      BY <2>3 DEF ChangeState
    <3>2. row.channel = rows[i].channel /\ rows[i] # NoRow
      BY <2>3, <3>1 DEF ChangeState, SetDone, SetCancelled, SetPending, RowsInv, IsRow
    <3>3. place' = place
      BY <1>3 DEF manager
    <3> QED BY <3>1, <3>2, <3>3 DEF Held, RowsInv
  <2>4. ASSUME Age
        PROVE  \A j \in Job : Held(j)' => Held(j) /\ rows'[j].channel = rows[j].channel
    <3>1. \A j \in Job : rows'[j] # NoRow => rows[j] # NoRow /\ rows'[j].channel = rows[j].channel
      BY <2>4 DEF Age, RowsInv, IsRow
    <3> QED BY <1>3, <3>1 DEF Held, manager
  <2>5. ASSUME NEW r \in Record, Vacuum(r)
        PROVE  \A j \in Job : Held(j)' => Held(j) /\ rows'[j].channel = rows[j].channel
    <3>1. \A j \in Job : rows'[j] \in {NoRow, rows[j]}
      BY <2>5 DEF Vacuum
    <3> QED BY <1>3, <3>1 DEF Held, manager
  <2>7. ASSUME NEW i \in Job, SetJobEnqueued(i)
        PROVE  \A j \in Job : Held(j)' => Held(j) /\ rows'[j].channel = rows[j].channel
    <3>1. rows' = [rows EXCEPT ![i].state = "unfinished"] /\ rows[i] # NoRow
      BY <2>7 DEF SetJobEnqueued
    <3>2. \A j \in Job : rows'[j] # NoRow => rows[j] # NoRow /\ rows'[j].channel = rows[j].channel
      BY <3>1 DEF RowsInv, IsRow
    <3> QED BY <1>3, <3>2 DEF Held, manager
  <2>6. \A j \in Job : Held(j)' => Held(j) /\ rows'[j].channel = rows[j].channel
    BY <1>3, <2>1, <2>2, <2>3, <2>4, <2>5, <2>7
    DEF RecordsStep, CreateChannel, WriteChannel, UnlinkChannel, WriteFunction, WritesChannels
  <2> QED BY <1>2, <1>3, <2>6
<1>4. CASE ManagerStep /\ UNCHANGED records
  <2>1. \A j \in Job : place[j] = NotThere
    BY <1>4 DEF ManagerStep, ParseConfig, ReadEntry, Configured, PlacesInv
  <2>2. place' = place
    BY <1>4 DEF ManagerStep, ParseConfig, ReadEntry, Configured
  <2>3. Closed(tree')
    <3>1. CASE ReadEntry
      <4> DEFINE E == Entries
                 name == Head(unread).name
      <4>1. E \in Seq(Reading) /\ Len(E) \in Nat
        BY EntriesAre DEF ManagerInv
      <4>2. PICK k \in 0 .. Len(E) : unread = SubSeq(E, k + 1, Len(E)) /\ unread # <<>>
        BY <3>1 DEF ReadEntry, ManagerInv
      <4>3. Head(unread) \in Reading
        <5> DEFINE R == Reading
        <5>1. E \in Seq(R)
          BY <4>1
        <5> HIDE DEF E, R
        <5>2. Head(unread) \in R
          BY <4>1, <4>2, <5>1
        <5> QED BY <5>2 DEF R
      <4>4. name \in Path
        <5>1. \A e \in Entry : Parsed(e).name = e.name /\ e.name \in Path
          BY DEF Parsed, Entry, Path
        <5> QED BY <4>3, <5>1 DEF Reading
      <4>5. FullName(name) \in Path /\ Len(FullName(name)) >= 1
        BY <4>4, FullNameIs DEF IsFull
      <4> DEFINE m == Made(tree, FullName(name))
      <4>6. Closed(m)
        BY <4>5, MadeIsClosed DEF PlacesInv
      <4>7. tree' = Configure(m, Head(unread))
        BY <3>1 DEF ReadEntry
      <4> HIDE DEF m
      <4>8. DOMAIN tree' = DOMAIN m
        BY <4>7 DEF Configure
      <4> QED BY <4>6, <4>8 DEF Closed
    <3>2. CASE ~ReadEntry
      BY <1>4, <3>2 DEF ManagerStep, ParseConfig, Configured, PlacesInv
    <3> QED BY <3>1, <3>2
  <2> QED BY <2>1, <2>2, <2>3 DEF PlacesInv, Held
<1>5. ASSUME NEW i \in Job, Hear(i), UNCHANGED records
      PROVE  PlacesInv' /\ Kept
  <2>1. runner = "running" /\ runner' = "running" /\ config' = config /\ rows' = rows
        /\ Declared' = Declared /\ Declared \subseteq DOMAIN tree
    BY <1>5, DeclaredAreThere DEF Hear, Notify, RemoveJob, records, Declared
  <2>2. CASE rows[i] = NoRow /\ RemoveJob(i)
    <3>1. tree' = tree /\ place' = [place EXCEPT ![i] = NotThere] /\ NotThere \in Path
      BY <2>2 DEF RemoveJob, NotThere, Path
    <3>2. \A j \in Job : Held(j)' => Held(j) /\ place'[j] = place[j]
      BY <2>1, <2>2, <3>1 DEF Held, PlacesInv
    <3>3. Kept
      BY <3>1 DEF PlacesInv
    <3>4. \A j \in Job : Held(j)' =>
       /\ Above(FullName(rows'[j].channel)) \cap Declared' \subseteq Above(place'[j])
       /\ IsInjective(FullName(rows'[j].channel)) =>
            place'[j] \in DOMAIN tree' /\ place'[j] = PlaceOf(tree', rows'[j].channel)
      BY <2>1, <3>1, <3>2 DEF PlacesInv
    <3> QED BY <2>1, <3>1, <3>3, <3>4 DEF PlacesInv
  <2>3. CASE rows[i] # NoRow /\ Notify(i, rows[i].channel)
    <3> DEFINE name == rows[i].channel
               q == PlaceOf(tree, name)
               m == Made(tree, q)
    <3>1. tree' = m /\ place' = [place EXCEPT ![i] = q] /\ name \in Path
      BY <1>1, <2>3 DEF Notify
    <3>2. Closed(tree) /\ place \in [Job -> Path]
      BY DEF PlacesInv
    <3>3. q \in Path /\ Len(q) >= 1 /\ Above(FullName(name)) \cap DOMAIN tree \subseteq Above(q)
      BY <3>1, <3>2, FoundIs
    <3>4. Closed(m) /\ q \in DOMAIN m
      <4> HIDE DEF q
      <4> QED BY <3>2, <3>3, MadeIsClosed
    <3>5. \A p \in DOMAIN tree : p \in DOMAIN m
      <4>1. DOMAIN m = DOMAIN tree \cup Ancestors(q) \cup {q}
        BY MadeIs
      <4> HIDE DEF m
      <4> QED BY <4>1
    <3>6. ASSUME NEW j \in Job, Held(j)
          PROVE  /\ rows[j].channel \in Path
                 /\ Above(FullName(rows[j].channel)) \cap Declared \subseteq Above(place[j])
                 /\ IsInjective(FullName(rows[j].channel)) =>
                      place[j] \in DOMAIN m /\ place[j] = PlaceOf(m, rows[j].channel)
      <4>1. /\ rows[j].channel \in Path
            /\ Above(FullName(rows[j].channel)) \cap Declared \subseteq Above(place[j])
            /\ IsInjective(FullName(rows[j].channel)) =>
                 place[j] \in DOMAIN tree /\ place[j] = PlaceOf(tree, rows[j].channel)
        BY <1>1, <3>6 DEF PlacesInv, Held
      <4>2. ASSUME IsInjective(FullName(rows[j].channel))
            PROVE  PlaceOf(m, rows[j].channel) = PlaceOf(tree, rows[j].channel)
        <5>1. PlaceOf(tree, rows[j].channel) \in DOMAIN m
          <6> HIDE DEF m
          <6> QED BY <3>5, <4>1, <4>2
        <5> QED BY <3>1, <3>2, <4>1, <4>2, <5>1, FoundAgain
      <4> HIDE DEF m
      <4> QED BY <3>5, <4>1, <4>2
    <3>7. IsInjective(FullName(name)) => q = PlaceOf(m, name)
      BY <3>1, <3>2, <3>4, FoundAgain
    <3>8. place'[i] = q /\ \A j \in Job \ {i} : place'[j] = place[j]
      BY <3>1, <3>2
    <3> HIDE DEF m, q
    <3>9. Kept
      BY <2>3, <3>6, <3>7, <3>8 DEF Held
    <3>10. ASSUME NEW j \in Job, Held(j)'
           PROVE  /\ Above(FullName(rows'[j].channel)) \cap Declared' \subseteq Above(place'[j])
                  /\ IsInjective(FullName(rows'[j].channel)) =>
                       place'[j] \in DOMAIN tree' /\ place'[j] = PlaceOf(tree', rows'[j].channel)
      <4>1. CASE j = i
        BY <2>1, <3>1, <3>3, <3>4, <3>7, <3>8, <4>1
      <4>2. CASE j # i
        <5>1. Held(j)
          BY <2>1, <3>8, <3>10, <4>2 DEF Held
        <5> QED BY <2>1, <3>1, <3>6, <3>8, <4>2, <5>1
      <4> QED BY <4>1, <4>2
    <3> QED BY <2>1, <3>1, <3>2, <3>3, <3>4, <3>9, <3>10 DEF PlacesInv
  <2> QED BY <1>5, <2>2, <2>3 DEF Hear
<1>6. CASE UNCHANGED vars
  BY <1>2, <1>6 DEF vars, manager, records, Held
<1> QED
  BY <1>3, <1>4, <1>5, <1>6 DEF Next

\* A job is held by every configured channel that its name lies in
\* (Channel.get_channel_by_name with its fallback).
THEOREM LimitsHold == Spec => []KeepsItsLimits
<1>1. Init => ManagerInv /\ RowsInv /\ RecordsInv /\ PlacesInv
  BY InitHolds
<1>2. PlacesInv => KeepsItsLimits
  BY DEF PlacesInv, KeepsItsLimits, Held
<1> QED
  BY <1>1, <1>2, ManagerInvStep, RowsInvStep, RecordsInvStep, PlacesInvStep, PTL DEF Spec

\* A job stays where it is whenever the runner hears of it again.
THEOREM JobsStay == Spec => NeverMoved
<1>1. Init => ManagerInv /\ RowsInv /\ RecordsInv /\ PlacesInv
  BY InitHolds
<1>2. ManagerInv /\ RowsInv /\ RecordsInv /\ PlacesInv /\ [Next]_vars =>
        [\A j \in Job :
           ( /\ place[j] # NotThere /\ place'[j] # NotThere
             /\ rows[j] # NoRow
             /\ IsInjective(FullName(rows[j].channel)) )
           => place'[j] = place[j]]_vars
  BY PlacesInvStep
<1>3. ManagerInv /\ RowsInv /\ RecordsInv /\ PlacesInv /\ [Next]_vars =>
        (ManagerInv /\ RowsInv /\ RecordsInv /\ PlacesInv)'
  BY ManagerInvStep, RowsInvStep, RecordsInvStep, PlacesInvStep
<1> QED
  BY <1>1, <1>2, <1>3, PTL DEF Spec, NeverMoved
=============================================================================
