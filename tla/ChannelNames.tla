---------------------------- MODULE ChannelNames ----------------------------
(***************************************************************************)
(* Channels by name: how the ChannelManager of the job runner reads its    *)
(* configuration and finds the channel of a job                            *)
(* (queue_job/jobrunner/channels.py).                                      *)
(*                                                                         *)
(* A name is the sequence of what stands between its dots.  The manager    *)
(* makes channels as it meets names: while it is configured, and for a job *)
(* whose channel is not configured.  A channel is never removed.  What a   *)
(* channel does with its jobs is in Channels.tla.                          *)
(***************************************************************************)
EXTENDS Naturals, Sequences, SequencesExt, FiniteSetsExt

CONSTANTS Root,            \* "root"
          Segment,         \* what stands between the dots of names
          Job,
          NotANumber,
          Numeral,         \* the texts of options that int() reads
          Configurations   \* the texts, as sequences of their entries that are
                           \* not blank

\* An entry has at most one capacity, and options after it: what stands between their
\* "=", so <<key>>, <<key, value>> or more.
Entry ==
  [name: Seq(Segment \cup {Root}),
   capacity: {c \in Seq(Nat \cup {NotANumber}) : Len(c) <= 1},
   options: Seq({o \in Seq(STRING) : o # <<>>})]

ASSUME NamesAssumption ==
  /\ Root \notin Segment
  /\ Configurations \subseteq Seq(Entry)

Unlimited == 0
NotThere == <<>>       \* the manager has no ChannelJob for the uuid
NoText == ""           \* the value of "key="; that of a mere "key" is True

VARIABLES config,      \* the text the process was started with
          unread,      \* what simple_configure has not applied yet
          tree,        \* the channels: full name -> capacity, sequential
          runner,      \* starting, configuring, running, or ended by an exception
          place        \* per job the full name of the channel that has it

manager == <<config, unread, tree, runner, place>>

FullName(name) ==
  IF name = <<>> THEN <<Root>>
  ELSE IF Head(name) = Root THEN name ELSE <<Root>> \o name

Ancestors(path) == {SubSeq(path, 1, k) : k \in 1 .. Len(path) - 1}

Default(path) == [capacity |-> IF path = <<Root>> THEN 1 ELSE Unlimited, sequential |-> FALSE]

\* the tree with the channel at path, and those above it, made where missing
Made(t, path) ==
  LET missing == (Ancestors(path) \cup {path}) \ DOMAIN t
  IN [p \in DOMAIN t \cup missing |-> IF p \in missing THEN Default(p) ELSE t[p]]

\* the channel of t that is the nearest above path
Fallback(t, path) ==
  CHOOSE p \in Ancestors(path) \cap DOMAIN t :
    \A q \in Ancestors(path) \cap DOMAIN t : Len(q) <= Len(p)

(***************************************************************************)
(* get_channel_by_name with parent_fallback.  Below the channel it falls   *)
(* back on the code walks the whole of the asked name again, but for its   *)
(* root: root.sub.x falls on root.sub and comes to be root.sub.sub.x.      *)
(***************************************************************************)
\* Mutant: only the last segment is put below
WalkOfLast(parent, path) == Append(parent, Last(path))

WalkFrom(parent, path) == parent \o Tail(path)

\* Mutant: the channels there are are not looked up
PlaceByWalking(t, name) ==
  LET path == FullName(name)
  IN IF path = <<Root>> THEN path ELSE WalkFrom(Fallback(t, path), path)

PlaceOf(t, name) ==
  LET path == FullName(name)
  IN IF path \in DOMAIN t THEN path ELSE WalkFrom(Fallback(t, path), path)

\* Mutant: a channel that another made already is left as it is
ConfigureNew(t, entry) ==
  IF \E path \in DOMAIN t : FullName(entry.name) \in Ancestors(path) THEN t
  ELSE [t EXCEPT ![FullName(entry.name)] =
         [capacity |-> entry.capacity, sequential |-> entry.sequential]]

Configure(t, entry) ==
  [t EXCEPT ![FullName(entry.name)] =
    [capacity |-> entry.capacity, sequential |-> entry.sequential]]

Wrong(entry) == ~entry.throttled \/ (entry.sequential /\ entry.capacity # 1)

----------------------------------------------------------------------------
(* parse_simple_config                                                     *)

Keys(entry) == [i \in DOMAIN entry.options |-> entry.options[i][1]]

Invalid(entry) ==
  \/ entry.name = <<>>
  \/ entry.capacity = <<NotANumber>>
  \/ \E i \in DOMAIN entry.options : Len(entry.options[i]) > 2
  \/ ~IsInjective(<<"name", "capacity">> \o Keys(entry))

\* bool() of the text: only "sequential=" is not
Sequential(entry) ==
  \E i \in DOMAIN entry.options :
    entry.options[i][1] = "sequential" /\ entry.options[i] # <<"sequential", NoText>>

\* int() of the text, and of True
Throttled(entry) ==
  \A i \in DOMAIN entry.options :
    entry.options[i][1] = "throttle" /\ Len(entry.options[i]) = 2 => entry.options[i][2] \in Numeral

Parsed(entry) ==
  [name |-> entry.name,
   capacity |-> IF entry.capacity = <<>> THEN 1 ELSE entry.capacity[1],
   sequential |-> Sequential(entry),
   throttled |-> Throttled(entry)]

Parse(text) == [i \in DOMAIN text |-> Parsed(text[i])]

----------------------------------------------------------------------------

ManagerInit ==
  /\ config \in Configurations
  /\ unread = <<>>
  /\ tree = [path \in {<<Root>>} |-> Default(path)]
  /\ runner = "starting"
  /\ place = [j \in Job |-> NotThere]

(* The whole text is parsed before any of it is applied. *)
ParseConfig ==
  /\ runner = "starting"
  /\ \/ /\ \E i \in DOMAIN config : Invalid(config[i])
        /\ runner' = "ended"
        /\ UNCHANGED unread
     \/ /\ \A i \in DOMAIN config : ~Invalid(config[i])
        /\ runner' = "configuring"
        /\ unread' = Parse(config)
  /\ UNCHANGED <<config, tree, place>>

(* One entry of the configuration.  An entry that asks for a sequential    *)
(* channel of another capacity than one, or for a throttle that is not a   *)
(* number, is applied before the exception, which ends the start of the    *)
(* runner.                                                                 *)
ReadEntry ==
  /\ runner = "configuring"
  /\ unread # <<>>
  /\ LET entry == Head(unread)
     IN /\ tree' = Configure(Made(tree, FullName(entry.name)), entry)
        /\ runner' = IF Wrong(entry) THEN "ended" ELSE runner
  /\ unread' = Tail(unread)
  /\ UNCHANGED <<config, place>>

Configured ==
  /\ runner = "configuring"
  /\ unread = <<>>
  /\ runner' = "running"
  /\ UNCHANGED <<config, unread, tree, place>>

(* notify: the manager is told of job j, whose row has the given channel.  *)
Notify(j, name) ==
  /\ runner = "running"
  /\ tree' = Made(tree, PlaceOf(tree, name))
  /\ place' = [place EXCEPT ![j] = PlaceOf(tree, name)]
  /\ UNCHANGED <<config, unread, runner>>

(* remove_job: the row of job j is no longer there. *)
RemoveJob(j) ==
  /\ runner = "running"
  /\ place[j] # NotThere
  /\ place' = [place EXCEPT ![j] = NotThere]
  /\ UNCHANGED <<config, unread, tree, runner>>

ManagerStep == ParseConfig \/ ReadEntry \/ Configured

----------------------------------------------------------------------------

Declared == {FullName(Parse(config)[i].name) : i \in DOMAIN Parse(config)}

LastEntry(path) ==
  LET entries == Parse(config)
  IN entries[Max({i \in DOMAIN entries : FullName(entries[i].name) = path})]

(***************************************************************************)
(* AsConfigured: whatever the order of the entries, and whatever channels  *)
(* are made for parents before they are configured and for jobs later, a   *)
(* running manager has every configured channel as the last entry for it   *)
(* says, by either of its names, and gives no other channel a limit: the   *)
(* root excepted, that takes one job when it is not configured             *)
(* (get_channel_from_config, get_channel_by_name).                         *)
(***************************************************************************)
AsConfigured ==
  runner = "running" =>
    /\ Declared \subseteq DOMAIN tree
    /\ \A path \in DOMAIN tree :
         tree[path] =
           IF path \in Declared
           THEN [capacity |-> LastEntry(path).capacity, sequential |-> LastEntry(path).sequential]
           ELSE Default(path)

Above(path) == Ancestors(path) \cup {path}

=============================================================================
