--------------------------- MODULE MasterElection ---------------------------
(***************************************************************************)
(* Several job runners, one per Odoo server, of which one at a time may    *)
(* serve the databases: queue_job/jobrunner/runner.py and the worker that  *)
(* runs it, queue_job/jobrunner/__init__.py.                               *)
(*                                                                         *)
(* A runner takes the advisory lock of each database in turn.  It does not *)
(* wait for a lock: one that is taken sends it to sleep, without the locks *)
(* it has, and it begins again.  The lock belongs to the connection, and   *)
(* PostgreSQL frees it when the connection ends, which the runner need not *)
(* notice until it uses that connection.                                   *)
(***************************************************************************)
EXTENDS Naturals, FiniteSets

CONSTANTS Runner,
          NoRunner,
          Db,         \* the databases
          Name,       \* the order of their names
          Listed,     \* the order in which a runner's get_db_names() gives them
          Installed,  \* those that have queue_job and its trigger
          MaxFaults   \* bound on the faults and the stops

ASSUME RunnerAssumption ==
  /\ NoRunner \notin Runner
  /\ Installed \subseteq Db
  /\ Name \in [Db -> Nat]
  /\ \A d, e \in Db : Name[d] = Name[e] => d = e

VARIABLES at,      \* per runner where run() is
          seen,    \* the databases initialize_databases() has come to
          open,    \* db_by_name: the databases it is connected to
          dead,    \* those whose connection has ended unnoticed
          memory,  \* the databases whose jobs are in channel_manager
          stop,    \* _stop
          holder,  \* per database the runner whose connection has the lock
          faults

vars == <<at, seen, open, dead, memory, stop, holder, faults>>

Live(r) == open[r] \ dead[r]

\* Mutant: get_db_names() is not sorted
NextListed(r) == {d \in Db \ seen[r] : \A e \in Db \ seen[r] : Listed[r][d] <= Listed[r][e]}

\* The database that the for loop comes to, in a set of one
NextDb(r) == {d \in Db \ seen[r] : \A e \in Db \ seen[r] : Name[d] <= Name[e]}

Init ==
  /\ at = [r \in Runner |-> "starting"]
  /\ seen = [r \in Runner |-> {}]
  /\ open = [r \in Runner |-> {}]
  /\ dead = [r \in Runner |-> {}]
  /\ memory = [r \in Runner |-> {}]
  /\ stop = [r \in Runner |-> FALSE]
  /\ holder = [d \in Db |-> NoRunner]
  /\ faults = 0

\* The connections of runner r are closed and its locks are free
Closed(r) ==
  /\ seen' = [seen EXCEPT ![r] = {}]
  /\ open' = [open EXCEPT ![r] = {}]
  /\ dead' = [dead EXCEPT ![r] = {}]
  /\ holder' = [d \in Db |-> IF d \in Live(r) THEN NoRunner ELSE holder[d]]

\* close_databases()
CloseDatabases(r) ==
  /\ Closed(r)
  /\ memory' = [memory EXCEPT ![r] = @ \ open[r]]

Strike == faults < MaxFaults /\ faults' = faults + 1

----------------------------------------------------------------------------
(* initialize_databases()                                                  *)

\* A database without queue_job is closed again; of the others the lock is taken,
\* the changes are listened to and the jobs loaded.
OpenDatabase(r, d) ==
  /\ at[r] = "starting" /\ d \in NextDb(r)
  /\ d \in Installed => holder[d] = NoRunner
  /\ seen' = [seen EXCEPT ![r] = @ \cup {d}]
  /\ IF d \in Installed
     THEN /\ holder' = [holder EXCEPT ![d] = r]
          /\ open' = [open EXCEPT ![r] = @ \cup {d}]
          /\ memory' = [memory EXCEPT ![r] = @ \cup {d}]
     ELSE UNCHANGED <<holder, open, memory>>
  /\ UNCHANGED <<at, dead, stop, faults>>

\* Mutant: the databases that were opened before stay open
LoseElectionKeepsLocks(r, d) ==
  /\ at[r] = "starting" /\ d \in NextDb(r)
  /\ d \in Installed /\ holder[d] # NoRunner
  /\ seen' = [seen EXCEPT ![r] = {}] /\ open' = [open EXCEPT ![r] = {}]
  /\ dead' = [dead EXCEPT ![r] = {}] /\ memory' = [memory EXCEPT ![r] = @ \ open[r]]
  /\ at' = [at EXCEPT ![r] = "sleeping"]
  /\ UNCHANGED <<stop, holder, faults>>

\* MasterElectionLost
LoseElection(r, d) ==
  /\ at[r] = "starting" /\ d \in NextDb(r)
  /\ d \in Installed /\ holder[d] # NoRunner
  /\ CloseDatabases(r)
  /\ at' = [at EXCEPT ![r] = "sleeping"]
  /\ UNCHANGED <<stop, faults>>

BeginLoop(r) ==
  /\ at[r] = "starting" /\ seen[r] = Db
  /\ at' = [at EXCEPT ![r] = "running"]
  /\ UNCHANGED <<seen, open, dead, memory, stop, holder, faults>>

----------------------------------------------------------------------------
(* run()                                                                   *)

\* The server or the network ends a connection
LoseConnection(r, d) ==
  /\ d \in Live(r) /\ Strike
  /\ dead' = [dead EXCEPT ![r] = @ \cup {d}]
  /\ holder' = [holder EXCEPT ![d] = NoRunner]
  /\ UNCHANGED <<at, seen, open, memory, stop>>

\* Any exception; one there will be when a connection is dead, as each turn of the
\* loop uses them all.
Fail(r) ==
  /\ at[r] \in {"starting", "running"}
  /\ IF at[r] = "running" /\ dead[r] # {} THEN UNCHANGED faults ELSE Strike
  /\ CloseDatabases(r)
  /\ at' = [at EXCEPT ![r] = "sleeping"]
  /\ UNCHANGED stop

\* After ERROR_RECOVERY_DELAY
WakeUp(r) ==
  /\ at[r] = "sleeping"
  /\ at' = [at EXCEPT ![r] = IF stop[r] THEN "stopped" ELSE "starting"]
  /\ UNCHANGED <<seen, open, dead, memory, stop, holder, faults>>

\* stop(): a signal, or the CPU time limit of the worker
Stop(r) ==
  /\ ~stop[r] /\ Strike
  /\ stop' = [stop EXCEPT ![r] = TRUE]
  /\ UNCHANGED <<at, seen, open, dead, memory, holder>>

\* The loops end, with close_databases(remove_jobs=False)
Leave(r) ==
  /\ at[r] = "running" /\ stop[r]
  /\ Closed(r)
  /\ at' = [at EXCEPT ![r] = "stopped"]
  /\ UNCHANGED <<memory, stop, faults>>

\* A runner of a new process, or after the time limit the worker's next one
Recover(r) ==
  /\ at[r] = "stopped"
  /\ at' = [at EXCEPT ![r] = "starting"]
  /\ memory' = [memory EXCEPT ![r] = {}]
  /\ stop' = [stop EXCEPT ![r] = FALSE]
  /\ UNCHANGED <<seen, open, dead, holder, faults>>

\* The process is killed
Kill(r) ==
  /\ at[r] # "stopped" /\ Strike
  /\ Closed(r)
  /\ at' = [at EXCEPT ![r] = "stopped"]
  /\ UNCHANGED <<memory, stop>>

----------------------------------------------------------------------------
Step(r) == \/ \E d \in Db : OpenDatabase(r, d) \/ LoseElection(r, d)
           \/ BeginLoop(r) \/ WakeUp(r) \/ Leave(r) \/ Recover(r)

Next == \E r \in Runner : \/ Step(r) \/ Fail(r) \/ Stop(r) \/ Kill(r)
                          \/ \E d \in Db : LoseConnection(r, d)

Spec == Init /\ [][Next]_vars

\* Each runner's process goes on, and its loop fails on a dead connection.
FairSpec ==
  Spec /\ \A r \in Runner : WF_vars(Step(r)) /\ WF_vars(dead[r] # {} /\ Fail(r))

----------------------------------------------------------------------------
TypeOK ==
  /\ at \in [Runner -> {"starting", "running", "sleeping", "stopped"}]
  /\ seen \in [Runner -> SUBSET Db]
  /\ open \in [Runner -> SUBSET Installed]
  /\ dead \in [Runner -> SUBSET Db]
  /\ memory \in [Runner -> SUBSET Db]
  /\ stop \in [Runner -> BOOLEAN]
  /\ holder \in [Db -> Runner \cup {NoRunner}]
  /\ faults \in Nat

\* A live connection has the lock of its database and a lock has a live connection:
\* no database has two runners, and none keeps a lock that nobody uses.
LocksAreUsed ==
  \A r \in Runner : Live(r) = {d \in Db : holder[d] = r}

\* A runner has in its channels only jobs of databases it is connected to, so that
\* db_by_name[job.db_name] exists and the jobs of another runner take no capacity.
MemoryIsServed ==
  \A r \in Runner : at[r] # "stopped" => memory[r] \subseteq open[r]

\* The inductive invariant
MasterInv ==
  /\ TypeOK /\ LocksAreUsed /\ MemoryIsServed
  /\ \A r \in Runner : /\ dead[r] \subseteq open[r] /\ open[r] \subseteq seen[r]
                       /\ at[r] \in {"sleeping", "stopped"} => open[r] = {}
                       /\ at[r] = "running" => seen[r] = Db

Serves(r) == at[r] = "running" /\ Live(r) = Installed

\* After the last fault one runner serves all the databases for good.  Two runners
\* that each have the lock the other wants would go on losing the election: they
\* take the locks in the same order, and do not keep them.
SomeoneServes == \E r \in Runner : <>[]Serves(r)
=============================================================================
