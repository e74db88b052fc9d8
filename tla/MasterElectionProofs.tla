----------------------- MODULE MasterElectionProofs -----------------------
(***************************************************************************)
(* However many runners and databases there are, and whatever fails: no    *)
(* database has two masters, no lock outlives the runner that uses it, and *)
(* a runner remembers only the jobs of the databases it serves.            *)
(***************************************************************************)
EXTENDS MasterElection, TLAPS

LEMMA ClosedRunner ==
  ASSUME MasterInv, NEW r \in Runner, Closed(r)
  PROVE  /\ seen' \in [Runner -> SUBSET Db] /\ open' \in [Runner -> SUBSET Installed]
         /\ dead' \in [Runner -> SUBSET Db] /\ holder' \in [Db -> Runner \cup {NoRunner}]
         /\ LocksAreUsed'
         /\ \A x \in Runner : /\ x # r => /\ open'[x] = open[x] /\ dead'[x] = dead[x]
                                          /\ seen'[x] = seen[x]
                              /\ x = r => open'[x] = {} /\ dead'[x] = {} /\ seen'[x] = {}
<1> USE DEF MasterInv, TypeOK, Closed
<1>1. /\ seen' \in [Runner -> SUBSET Db] /\ open' \in [Runner -> SUBSET Installed]
      /\ dead' \in [Runner -> SUBSET Db] /\ holder' \in [Db -> Runner \cup {NoRunner}]
  OBVIOUS
<1>2. \A x \in Runner : /\ x # r => /\ open'[x] = open[x] /\ dead'[x] = dead[x]
                                    /\ seen'[x] = seen[x]
                        /\ x = r => open'[x] = {} /\ dead'[x] = {} /\ seen'[x] = {}
  OBVIOUS
<1>3. ASSUME NEW x \in Runner PROVE Live(x)' = {d \in Db : holder'[d] = x}
  <2>1. Live(r) = {d \in Db : holder[d] = r} /\ Live(x) = {d \in Db : holder[d] = x}
    BY DEF LocksAreUsed
  <2>2. CASE x = r
    BY <1>2, <2>1, <2>2, RunnerAssumption DEF Live
  <2>3. CASE x # r
    BY <1>2, <2>1, <2>3, RunnerAssumption DEF Live
  <2> QED BY <2>2, <2>3
<1> QED BY <1>1, <1>2, <1>3 DEF LocksAreUsed

LEMMA MasterInvStep == MasterInv /\ [Next]_vars => MasterInv'
<1> SUFFICES ASSUME MasterInv, [Next]_vars PROVE MasterInv'
  OBVIOUS
<1> USE DEF MasterInv, TypeOK
<1>1. ASSUME NEW r \in Runner, NEW d \in Db, OpenDatabase(r, d) PROVE MasterInv'
  <2>1. d \notin seen[r] /\ d \notin open[r] /\ d \notin dead[r]
    BY <1>1 DEF OpenDatabase, NextDb
  <2>2. CASE d \in Installed
    <3>1. holder[d] = NoRunner /\ holder' = [holder EXCEPT ![d] = r]
          /\ open' = [open EXCEPT ![r] = @ \cup {d}] /\ dead' = dead
          /\ memory' = [memory EXCEPT ![r] = @ \cup {d}]
          /\ seen' = [seen EXCEPT ![r] = @ \cup {d}] /\ at' = at /\ at[r] = "starting"
          /\ stop' = stop /\ faults' = faults
      BY <1>1, <2>2 DEF OpenDatabase
    <3>2. ASSUME NEW x \in Runner PROVE Live(x)' = {e \in Db : holder'[e] = x}
      BY <2>1, <2>2, <3>1, RunnerAssumption DEF LocksAreUsed, Live
    <3> QED BY <2>2, <3>1, <3>2 DEF LocksAreUsed, MemoryIsServed
  <2>3. CASE d \notin Installed
    <3>1. UNCHANGED <<holder, open, memory, at, dead, stop, faults>>
          /\ seen' = [seen EXCEPT ![r] = @ \cup {d}] /\ at[r] = "starting"
      BY <1>1, <2>3 DEF OpenDatabase
    <3> QED BY <3>1 DEF LocksAreUsed, Live, MemoryIsServed
  <2> QED BY <2>2, <2>3
<1>2. ASSUME NEW r \in Runner, Closed(r), memory' = [memory EXCEPT ![r] = @ \ open[r]],
             at[r] # "stopped", at' = [at EXCEPT ![r] = "sleeping"], stop' = stop, faults' \in Nat
      PROVE  MasterInv'
  <2>1. MemoryIsServed'
    BY <1>2, ClosedRunner DEF MemoryIsServed
  <2> QED BY <1>2, <2>1, ClosedRunner
<1>3. ASSUME NEW r \in Runner, NEW d \in Db, LoseElection(r, d) PROVE MasterInv'
  BY <1>2, <1>3 DEF LoseElection, CloseDatabases
<1>4. ASSUME NEW r \in Runner, Fail(r) PROVE MasterInv'
  <2>1. faults' \in Nat /\ at[r] # "stopped"
    BY <1>4 DEF Fail, Strike
  <2>2. /\ Closed(r) /\ memory' = [memory EXCEPT ![r] = @ \ open[r]]
        /\ at' = [at EXCEPT ![r] = "sleeping"] /\ stop' = stop
    BY <1>4 DEF Fail, CloseDatabases
  <2> QED BY <1>2, <2>1, <2>2
<1>5. ASSUME NEW r \in Runner, BeginLoop(r) \/ WakeUp(r) PROVE MasterInv'
  <2>1. CASE BeginLoop(r)
    BY <2>1 DEF BeginLoop, LocksAreUsed, Live, MemoryIsServed
  <2>2. CASE WakeUp(r)
    BY <2>2 DEF WakeUp, LocksAreUsed, Live, MemoryIsServed
  <2> QED BY <1>5, <2>1, <2>2
<1>6. ASSUME NEW r \in Runner, NEW d \in Db, LoseConnection(r, d) PROVE MasterInv'
  <2>1. /\ d \in open[r] /\ d \notin dead[r] /\ faults' \in Nat
        /\ dead' = [dead EXCEPT ![r] = @ \cup {d}]
        /\ holder' = [holder EXCEPT ![d] = NoRunner]
        /\ UNCHANGED <<at, seen, open, memory, stop>>
    BY <1>6 DEF LoseConnection, Live, Strike
  <2>2. ASSUME NEW x \in Runner PROVE Live(x)' = {e \in Db : holder'[e] = x}
    BY <2>1, RunnerAssumption DEF LocksAreUsed, Live
  <2> QED BY <2>1, <2>2 DEF LocksAreUsed, MemoryIsServed
<1>7. ASSUME NEW r \in Runner, Stop(r) PROVE MasterInv'
  BY <1>7 DEF Stop, Strike, LocksAreUsed, Live, MemoryIsServed
<1>8. ASSUME NEW r \in Runner, Closed(r), memory' = memory, stop' = stop, faults' \in Nat,
             at' = [at EXCEPT ![r] = "stopped"]
      PROVE  MasterInv'
  <2>1. MemoryIsServed'
    BY <1>8, ClosedRunner DEF MemoryIsServed
  <2> QED BY <1>8, <2>1, ClosedRunner
<1>9. ASSUME NEW r \in Runner, Leave(r) \/ Kill(r) PROVE MasterInv'
  BY <1>8, <1>9 DEF Leave, Kill, Strike
<1>10. ASSUME NEW r \in Runner, Recover(r) PROVE MasterInv'
  BY <1>10 DEF Recover, LocksAreUsed, Live, MemoryIsServed
<1>11. CASE UNCHANGED vars
  BY <1>11 DEF vars, LocksAreUsed, Live, MemoryIsServed
<1> QED
  BY <1>1, <1>3, <1>4, <1>5, <1>6, <1>7, <1>9, <1>10, <1>11 DEF Next, Step

\* No database has two runners and no lock is kept in vain, through lost elections,
\* dead connections, stops and kills; the jobs a runner remembers are its own.
THEOREM OneMaster == Spec => []MasterInv
<1>1. Init => MasterInv
  BY RunnerAssumption DEF Init, MasterInv, TypeOK, LocksAreUsed, Live, MemoryIsServed
<1> QED
  BY <1>1, MasterInvStep, PTL DEF Spec
=============================================================================
