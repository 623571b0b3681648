-------------------------------- MODULE Channels --------------------------------
(***************************************************************************)
(* The channel instances (crabclaw/channels/manager.py) and the channel    *)
(* configurations of the users that they are made from, as the dashboard's *)
(* websocket operates both.  A configuration has a key, user, channel type *)
(* and account; an instance is one object of a channel class, numbered in  *)
(* the order of creation, whose start() runs as a task until it returns,   *)
(* fails or is cancelled.  Replies are routed by the chat that an instance *)
(* heard from last.                                                        *)
(***************************************************************************)
EXTENDS Naturals, Sequences, FiniteSets, Functions, Dicts

CONSTANTS
  Keys,          \* the configurations users may save
  ChatIds,
  Tabs,          \* dashboard connections, each with one operation under way
  MaxInstances   \* bound on the instances ever made

ASSUME ChannelsAssumption ==
  IsFiniteSet(Keys) /\ MaxInstances \in Nat /\ Cardinality(Keys) <= MaxInstances

VARIABLES
  saved,       \* the stored configurations: "none", "off" or "on"
  owner,       \* the key of each instance made so far
  channels,    \* self.channels
  tasks,       \* self.channel_tasks, each by the instance it runs
  gathered,    \* the instances whose tasks belong to start_all
  running,     \* the instances whose start() has not ended
  routeMap,    \* _route_map
  routesOf,    \* _instance_routes
  startAll,    \* start_all: "idle" without channels, "gather" or "ended"; dispatching with "gather"
  op,          \* what each tab waits for
  popped      \* history: instances whose task was popped in place of one that had ended

channelVars == <<saved, owner, channels, tasks, gathered, running, routeMap, routesOf,
                 startAll, op, popped>>

NoOp == [kind |-> "none"]
Stop == 0   \* what an operation awaits that is not the task of an instance: stop()
Instance == DOMAIN owner

(* _init_channels and start_all: an instance for each active configuration *)
ChannelsInit ==
  /\ saved \in [Keys -> {"none", "off", "on"}]
  /\ LET on == {k \in Keys : saved[k] = "on"} IN
     /\ owner \in Bijection(1..Cardinality(on), on)
     /\ channels = [k \in on |-> CHOOSE i \in DOMAIN owner : owner[i] = k]
     /\ gathered = DOMAIN owner
     /\ startAll = IF on = {} THEN "idle" ELSE "gather"
  /\ tasks = <<>>
  /\ running = gathered
  /\ routeMap = <<>> /\ routesOf = <<>>
  /\ op = [t \in Tabs |-> NoOp]
  /\ popped = {}

-----------------------------------------------------------------------------
(* Instances on their own *)

(* start() returns, fails, or is made to by stop() or a cancellation; when *)
(* all tasks that start_all gathered have ended, it returns, and the       *)
(* scheduler shuts the process down.                                       *)
InstanceEnds(i) ==
  /\ i \in running
  /\ running' = running \ {i}
  /\ startAll' = IF startAll = "gather" /\ gathered \cap running' = {} THEN "ended" ELSE startAll
  /\ UNCHANGED <<saved, owner, channels, tasks, gathered, routeMap, routesOf, op, popped>>

(* A message from a chat: _register_route. *)
Hear(i, chat) ==
  LET k == owner[i] IN
  /\ i \in running
  /\ routeMap' = WithEntry(routeMap, chat, k)
  /\ routesOf' = WithEntry(routesOf, k, Lookup(routesOf, k, {}) \cup {chat})
  /\ UNCHANGED <<saved, owner, channels, tasks, gathered, running, startAll, op, popped>>

(* _forget_routes *)
Forgotten(k) ==
  /\ routesOf' = WithoutEntry(routesOf, k)
  /\ routeMap' = Restrict(routeMap, {c \in DOMAIN routeMap : c \notin Lookup(routesOf, k, {}) \/ routeMap[c] # k})

-----------------------------------------------------------------------------
(* Operations of the dashboard *)

\* Fault seed: a task is started whether or not one of the key is running.
NeverRunning(k) == FALSE

\* start_channel_instance: not while the task of the key, whatever it runs, has not ended.
AlreadyRunning(k) == k \in DOMAIN tasks /\ tasks[k] \in running

(* add_or_update_channel of an active record *)
Made(k) ==
  LET i == Len(owner) + 1 IN
  /\ i <= MaxInstances
  /\ owner' = Append(owner, k)
  /\ channels' = WithEntry(channels, k, i)
  /\ IF AlreadyRunning(k) THEN UNCHANGED <<tasks, running>>
     ELSE tasks' = WithEntry(tasks, k, i) /\ running' = running \cup {i}

\* _load_channel_records and _save_channel_records: all records of a file are read,
\* one is changed or left out, and all are written.
Recorded(k)      == saved[k] # "none"
Stored(k, state) == [saved EXCEPT ![k] = state]

(* save_channel_config: one that is saved as inactive stops nothing.       *)
SaveConfig(t, k, active) ==
  /\ op[t] = NoOp
  /\ saved' = Stored(k, IF active THEN "on" ELSE "off")
  /\ IF active THEN Made(k) ELSE UNCHANGED <<owner, channels, tasks, running>>
  /\ UNCHANGED <<gathered, routeMap, routesOf, startAll, op, popped>>

(* set_channel_config_active, with set_channel_active(True)                *)
Activate(t, k) ==
  /\ op[t] = NoOp /\ Recorded(k)
  /\ saved' = Stored(k, "on")
  /\ Made(k)
  /\ UNCHANGED <<gathered, routeMap, routesOf, startAll, op, popped>>

StopFirst(t, kind, k) == op' = [op EXCEPT ![t] = [kind |-> kind, key |-> k, awaits |-> Stop]]

(* set_channel_active(False) up to the await of the channel's stop()       *)
Deactivate(t, k) ==
  /\ op[t] = NoOp
  /\ saved' = Stored(k, IF saved[k] = "on" THEN "off" ELSE saved[k])
  /\ IF k \in DOMAIN channels THEN StopFirst(t, "deactivate", k) ELSE UNCHANGED op
  /\ UNCHANGED <<owner, channels, tasks, gathered, running, routeMap, routesOf, startAll, popped>>

(* delete_channel_config and remove_channel: only an instance with a task  *)
(* in channel_tasks is stopped before it is dropped.                       *)
RemoveChannel(t, k) ==
  /\ op[t] = NoOp /\ Recorded(k)
  /\ saved' = Stored(k, "none")
  /\ IF k \in DOMAIN tasks /\ k \in DOMAIN channels
     THEN StopFirst(t, "remove", k) /\ UNCHANGED <<channels, routeMap, routesOf>>
     ELSE /\ IF k \in DOMAIN channels
             THEN channels' = WithoutEntry(channels, k) /\ Forgotten(k)
             ELSE UNCHANGED <<channels, routeMap, routesOf>>
          /\ UNCHANGED op
  /\ UNCHANGED <<owner, tasks, gathered, running, startAll, popped>>

\* What comes after stop_channel_instance.
Finish(t, k) ==
  /\ channels' = IF op[t].kind = "remove" THEN WithoutEntry(channels, k) ELSE channels
  /\ IF op[t].kind = "remove" /\ k \notin DOMAIN channels
     THEN UNCHANGED <<routeMap, routesOf>> ELSE Forgotten(k)
  /\ op' = [op EXCEPT ![t] = NoOp]

(* stop() has returned or failed: the task that the key has by now, which  *)
(* need not be of the instance that was stopped, is cancelled and awaited; *)
(* one that has ended is not waited for.                                   *)
StopReturned(t) ==
  LET k == op[t].key IN
  /\ op[t] # NoOp /\ op[t].awaits = Stop
  /\ IF AlreadyRunning(k)
     THEN op' = [op EXCEPT ![t].awaits = tasks[k]] /\ UNCHANGED <<channels, tasks, routeMap, routesOf>>
     ELSE tasks' = WithoutEntry(tasks, k) /\ Finish(t, k)
  /\ UNCHANGED <<saved, owner, gathered, running, startAll, popped>>

(* The awaited task has ended and the operation goes on, perhaps after     *)
(* another one: whatever task the key has by then is popped.               *)
TaskEnded(t) ==
  LET k == op[t].key IN
  /\ op[t] # NoOp /\ op[t].awaits # Stop /\ op[t].awaits \notin running
  /\ tasks' = WithoutEntry(tasks, k)
  /\ popped' = popped \cup (IF k \in DOMAIN tasks THEN {tasks[k]} \ {op[t].awaits} ELSE {})
  /\ Finish(t, k)
  /\ UNCHANGED <<saved, owner, gathered, running, startAll>>

ChannelsNext ==
  \/ \E i \in Instance : InstanceEnds(i)
  \/ \E i \in Instance, chat \in ChatIds : Hear(i, chat)
  \/ \E t \in Tabs, k \in Keys :
       \/ \E active \in BOOLEAN : SaveConfig(t, k, active)
       \/ Activate(t, k) \/ Deactivate(t, k) \/ RemoveChannel(t, k)
  \/ \E t \in Tabs : StopReturned(t) \/ TaskEnded(t)

ChannelsSpec == ChannelsInit /\ [][ChannelsNext]_channelVars

-----------------------------------------------------------------------------
(* Properties *)

ChannelsTypeOK ==
  /\ saved \in [Keys -> {"none", "off", "on"}]
  /\ owner \in Seq(Keys) /\ Len(owner) <= MaxInstances
  /\ DOMAIN channels \subseteq Keys /\ \A k \in DOMAIN channels : owner[channels[k]] = k
  /\ DOMAIN tasks \subseteq Keys /\ \A k \in DOMAIN tasks : owner[tasks[k]] = k
  /\ gathered \cup running \cup popped \subseteq Instance
  /\ startAll \in {"idle", "gather", "ended"}

(* What keeps running can still be ended by stop_channel_instance, which   *)
(* looks up the key in channels and cancels the key's task, however many   *)
(* connections change, stop and replace the instances of a configuration   *)
(* between its awaits.  Exceptions: instances that start_all started have  *)
(* no task of their own, and a stop that was waiting for one task to end   *)
(* pops the key also if another one has been started under it since.       *)
StoppableOrGathered ==
  \A i \in running \ (gathered \cup popped) :
    owner[i] \in DOMAIN channels \cap DOMAIN tasks /\ tasks[owner[i]] = i

(* Every route is known to the index by which it is forgotten; so after an *)
(* account was stopped and its routes were forgotten, no reply is routed   *)
(* to it until it has heard from the chat again.                           *)
RoutesAreIndexed ==
  \A c \in DOMAIN routeMap : routeMap[c] \in DOMAIN routesOf /\ c \in routesOf[routeMap[c]]

\* The tasks of the channel instances can be stopped, and every route is
\* forgotten with its instance.
InstancesKept == StoppableOrGathered /\ RoutesAreIndexed
=============================================================================
