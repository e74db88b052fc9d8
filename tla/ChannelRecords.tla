--------------------------- MODULE ChannelRecords ---------------------------
(***************************************************************************)
(* The records that name the channels of jobs: queue.job.channel,          *)
(* queue.job.function with the cache of its configurations, and queue.job  *)
(* as far as its channel, its dates and the vacuum go; together with the   *)
(* manager of ChannelNames.tla, that is told the names.                    *)
(*                                                                         *)
(* A request is one step.  That the runner hears of every change of a row  *)
(* is the subject of JobRunner.tla; here it may hear of a row at any time, *)
(* and again, and enqueue any job that it knows.                           *)
(***************************************************************************)
EXTENDS ChannelNames

CONSTANTS Record,        \* ids of channels
          RootRecord,    \* queue_job.channel_root
          Function,      \* names of job functions
          None,          \* no channel: of an override, a function, the cache
          Overrides,     \* channels that callers ask for, None among them
          LongKept,      \* the channels whose removal_interval is not over yet
                         \* for what was finished since the last Age
          MaxWrites,     \* bound on the writes of channels and functions
          MaxRequests    \* bound on the requests about jobs

ASSUME RecordsAssumption ==
  /\ RootRecord \in Record
  /\ LongKept \subseteq Record
  /\ None \in Overrides /\ Overrides \ {None} \subseteq Seq(Segment \cup {Root})
  /\ None \notin Record

VARIABLES channels,      \* id -> name and parent, of the channels there are
          channelOf,     \* per function its channel_id, None without a record
          jobConfig,     \* the ormcache of job_config: a channel's name, or None
          rows,          \* per job its row
          writes, requests,
          renamed,       \* history: the functions whose channel got another
                         \* complete name since the cache was cleared
          overtaken      \* history: the jobs that the runner enqueued when they had been
                         \* done or cancelled, and that are not finished or requeued since

records == <<channels, channelOf, jobConfig, rows, writes, requests, renamed, overtaken>>
vars == <<manager, records>>

NoRow == [state |-> "none"]

----------------------------------------------------------------------------
(* Channels and functions                                                  *)

CompleteNames(cs) ==
  LET name[r \in DOMAIN cs] ==
        IF r = RootRecord THEN <<Root>> ELSE Append(name[cs[r].parent], cs[r].name)
  IN name

CompleteName(r) == CompleteNames(channels)[r]

\* r and the records below it, from which the parents lead to r: the ORM refuses to
\* make one of them its parent
Below(r) ==
  {s \in DOMAIN channels :
     \A S \in SUBSET DOMAIN channels :
       (s \in S /\ \A x \in S \ {RootRecord} : channels[x].parent \in S) => r \in S}

NamesUnique(cs) ==
  LET name == CompleteNames(cs)
  IN \A r, s \in DOMAIN cs : name[r] = name[s] => r = s

WritesChannels ==
  /\ writes < MaxWrites
  /\ writes' = writes + 1
  /\ UNCHANGED <<channelOf, jobConfig, rows, requests, overtaken>>

Renames(cs) ==
  renamed \cup {f \in Function :
    /\ channelOf[f] # None
    /\ CompleteNames(cs)[channelOf[f]] # CompleteName(channelOf[f])}

CreateChannel(r, n, p) ==
  /\ r \in Record \ DOMAIN channels
  /\ p \in DOMAIN channels
  /\ channels' = [s \in DOMAIN channels \cup {r} |->
                    IF s = r THEN [name |-> n, parent |-> p] ELSE channels[s]]
  /\ NamesUnique(channels')
  /\ renamed' = renamed
  /\ WritesChannels

\* write: another name or parent, not for the root
WriteChannel(r, n, p) ==
  /\ r \in DOMAIN channels
  /\ channels[r].name # Root
  /\ p \in DOMAIN channels \ Below(r)
  /\ channels[r] # [name |-> n, parent |-> p]
  /\ channels' = [channels EXCEPT ![r] = [name |-> n, parent |-> p]]
  /\ NamesUnique(channels')
  /\ renamed' = Renames(channels')
  /\ WritesChannels

\* unlink: not the root, and what is referred to is restricted
UnlinkChannel(r) ==
  /\ r \in DOMAIN channels
  /\ channels[r].name # Root
  /\ Below(r) = {r}
  /\ \A f \in Function : channelOf[f] # r
  /\ channels' = [s \in DOMAIN channels \ {r} |-> channels[s]]
  /\ renamed' = renamed
  /\ WritesChannels

\* Mutant: the cache is left as it is
KeepCache == UNCHANGED <<jobConfig, renamed>>

ClearCache ==
  /\ jobConfig' = [f \in Function |-> None]
  /\ renamed' = {}

\* create, write or unlink of a job function: c is its channel from now on
WriteFunction(f, c) ==
  /\ c \in DOMAIN channels \cup {None}
  /\ c # channelOf[f]
  /\ channelOf' = [channelOf EXCEPT ![f] = c]
  /\ ClearCache
  /\ writes < MaxWrites
  /\ writes' = writes + 1
  /\ UNCHANGED <<channels, rows, requests, overtaken>>

----------------------------------------------------------------------------
(* Jobs                                                                    *)

\* job_config: the default configuration is that of the root channel
ConfiguredChannel(f) ==
  IF jobConfig[f] # None THEN jobConfig[f]
  ELSE IF channelOf[f] = None THEN <<Root>> ELSE CompleteName(channelOf[f])

ChannelOfJob(f, override) == IF override # None THEN override ELSE ConfiguredChannel(f)

Requests ==
  /\ requests < MaxRequests
  /\ requests' = requests + 1
  /\ UNCHANGED <<channels, channelOf, writes, renamed>>

\* Creating the job reads the configuration in any case, for job_function_id.
CreateJob(j, f, override) ==
  /\ rows[j] = NoRow /\ place[j] = NotThere     \* the uuid is a new one
  /\ rows' = [rows EXCEPT ![j] =
       [state |-> "unfinished", channel |-> ChannelOfJob(f, override),
        done |-> "no", cancelled |-> "no"]]
  /\ jobConfig' = [jobConfig EXCEPT ![f] = ConfiguredChannel(f)]
  /\ overtaken' = overtaken
  /\ Requests

\* "unfinished" is every other state: nothing here tells them apart
SetDone(row) == [row EXCEPT !.state = "done", !.done = "just"]
SetCancelled(row) == [row EXCEPT !.state = "cancelled", !.cancelled = "just"]
\* Mutant: the date of the cancellation stays
SetPendingKeepsDate(row) == [row EXCEPT !.state = "unfinished", !.done = "no"]

SetPending(row) == [row EXCEPT !.state = "unfinished", !.done = "no", !.cancelled = "no"]

\* the worker or button_done, button_cancelled, requeue
ChangeState(j) ==
  /\ rows[j] # NoRow
  /\ \E row \in {SetDone(rows[j]), SetCancelled(rows[j]), SetPending(rows[j])} :
       /\ row # rows[j]
       /\ rows' = [rows EXCEPT ![j] = row]
  /\ overtaken' = overtaken \ {j}
  /\ jobConfig' = jobConfig
  /\ Requests

\* set_job_enqueued, of a job that was done or cancelled since the runner heard of it:
\* the dates stay, also when the job is started, fails or is requeued as a dead one
SetJobEnqueued(j) ==
  /\ place[j] # NotThere
  /\ rows[j] # NoRow /\ rows[j].state \in {"done", "cancelled"}
  /\ rows' = [rows EXCEPT ![j].state = "unfinished"]
  /\ overtaken' = overtaken \cup {j}
  /\ UNCHANGED <<channels, channelOf, jobConfig, writes, requests, renamed>>

\* Time passes, longer than every interval.
Age ==
  /\ \E j \in Job : rows[j] # NoRow /\ "just" \in {rows[j].done, rows[j].cancelled}
  /\ rows' = [j \in Job |->
       IF rows[j] = NoRow THEN NoRow
       ELSE [rows[j] EXCEPT !.done = IF @ = "just" THEN "long ago" ELSE @,
                            !.cancelled = IF @ = "just" THEN "long ago" ELSE @]]
  /\ UNCHANGED <<channels, channelOf, jobConfig, writes, requests, renamed, overtaken>>

Expired(r) == {"long ago"} \cup (IF r \in LongKept THEN {} ELSE {"just"})

Vacuumed(r) ==
  {j \in Job : /\ rows[j] # NoRow
               /\ rows[j].channel = CompleteName(r)
               /\ rows[j].done \in Expired(r) \/ rows[j].cancelled \in Expired(r)}

\* the turn of one channel in autovacuum, that commits what it deletes
Vacuum(r) ==
  /\ r \in DOMAIN channels
  /\ Vacuumed(r) # {}
  /\ rows' = [j \in Job |-> IF j \in Vacuumed(r) THEN NoRow ELSE rows[j]]
  /\ overtaken' = overtaken \ Vacuumed(r)
  /\ UNCHANGED <<channels, channelOf, jobConfig, writes, requests, renamed>>

----------------------------------------------------------------------------

\* the runner is told of the row of j as it is
Hear(j) ==
  \/ rows[j] # NoRow /\ Notify(j, rows[j].channel)
  \/ rows[j] = NoRow /\ RemoveJob(j)

Init ==
  /\ ManagerInit
  /\ channels = [r \in {RootRecord} |-> [name |-> Root, parent |-> None]]
  /\ channelOf = [f \in Function |-> None]
  /\ jobConfig = [f \in Function |-> None]
  /\ rows = [j \in Job |-> NoRow]
  /\ writes = 0 /\ requests = 0
  /\ renamed = {} /\ overtaken = {}

RecordsStep ==
  \/ \E r \in Record, n \in Segment \cup {Root}, p \in Record :
       CreateChannel(r, n, p) \/ WriteChannel(r, n, p)
  \/ \E r \in Record : UnlinkChannel(r) \/ Vacuum(r)
  \/ \E f \in Function, c \in Record \cup {None} : WriteFunction(f, c)
  \/ \E j \in Job, f \in Function, override \in Overrides : CreateJob(j, f, override)
  \/ \E j \in Job : ChangeState(j) \/ SetJobEnqueued(j)
  \/ Age

Next ==
  \/ RecordsStep /\ UNCHANGED manager
  \/ (ManagerStep \/ \E j \in Job : Hear(j)) /\ UNCHANGED records

Spec == Init /\ [][Next]_vars

----------------------------------------------------------------------------

(***************************************************************************)
(* KeepsItsLimits: a job the runner knows is held by every configured      *)
(* channel that its own channel, as it is named in its row, lies in: one   *)
(* that is not configured comes to be below the nearest that is, whatever  *)
(* channels were made before for other jobs (get_channel_by_name).         *)
(***************************************************************************)
KeepsItsLimits ==
  \A j \in Job :
    (place[j] # NotThere /\ rows[j] # NoRow) =>
      Above(FullName(rows[j].channel)) \cap Declared \subseteq Above(place[j])

(***************************************************************************)
(* NeverMoved: a job whose row names the same channel is found in the same *)
(* channel every time the runner is told of it, whatever channels other    *)
(* jobs made it add: else it lost its place among those that wait.  It     *)
(* does not hold of a name that has a segment twice (root.a.a.b), because  *)
(* such names are made up on the fallback.                                 *)
(***************************************************************************)
NeverMoved ==
  [][\A j \in Job :
       ( /\ place[j] # NotThere /\ place'[j] # NotThere
         /\ rows[j] # NoRow
         /\ IsInjective(FullName(rows[j].channel)) )
       => place'[j] = place[j]]_vars

(***************************************************************************)
(* NamesFollow: a job that is created without a channel of its own gets    *)
(* the complete name that the channel of its function bears, though the    *)
(* configurations are cached and functions are added, changed and removed  *)
(* all the time: unless that channel, or one it lies in, was renamed or    *)
(* moved since, which does not clear the cache (job_config, ormcache).     *)
(***************************************************************************)
NamesFollow ==
  \A f \in Function \ renamed :
    ChannelOfJob(f, None) = IF channelOf[f] = None THEN <<Root>> ELSE CompleteName(channelOf[f])

(***************************************************************************)
(* VacuumTakesFinished: autovacuum deletes only jobs that are finished,    *)
(* and no other request deletes any: a job that was done or cancelled once *)
(* and that a user requeued has no date left by which it would be found.   *)
(* But a job that was done or cancelled when the runner had it in hand is  *)
(* enqueued all the same and keeps its date (set_job_enqueued): it may be  *)
(* deleted while it runs or when it has failed.                            *)
(***************************************************************************)
VacuumTakesFinished ==
  [][\A j \in Job :
       (rows[j] # NoRow /\ rows'[j] = NoRow)
         => rows[j].state \in {"done", "cancelled"} \/ j \in overtaken]_vars

(***************************************************************************)
(* VacuumTakesDone: what the docstring of autovacuum says, "Delete all     *)
(* jobs done based on the removal interval".  It does not hold, for the    *)
(* jobs that VacuumTakesFinished excepts.                                  *)
(***************************************************************************)
VacuumTakesDone ==
  [][\A j \in Job :
       (rows[j] # NoRow /\ rows'[j] = NoRow) => rows[j].state \in {"done", "cancelled"}]_vars

=============================================================================
