------------------------------ MODULE HostProofs ------------------------------
(***************************************************************************)
(* Proofs about the program as the host of its services: the instances of  *)
(* the channels, for any configurations, tabs, chats and bounds, start-up  *)
(* and shutdown, for any signals, and the agent's place among others: its  *)
(* connection to ClawSocial and what it writes there, for any number of    *)
(* clients, losses, peers and letters; about what runs beside the flow of  *)
(* messages: the agent's budget, the typing indicators and the prompts of  *)
(* the command line; about the files that tools edit and the prompts, for  *)
(* any texts, sizes and writes; and that all services together keep their  *)
(* types.                                                                  *)
(***************************************************************************)
EXTENDS MCServices, AdapterProofs

-----------------------------------------------------------------------------
(* The channel instances *)

Ops == {NoOp} \cup [kind : {"deactivate", "remove"}, key : Keys, awaits : Nat]

\* The instances that a dictionary from keys names are of those keys.
NamesOwn(d) == DOMAIN d \subseteq Keys /\ \A k \in DOMAIN d : d[k] \in Instance /\ owner[d[k]] = k

\* What ChannelsTypeOK leaves open: no instance is named or gathered before it is
\* made, what a tab waits for is an operation, and routes are indexed by keys.
HostTypes ==
  /\ ChannelsTypeOK
  /\ NamesOwn(channels) /\ NamesOwn(tasks)
  /\ op \in [Tabs -> Ops]
  /\ DOMAIN routesOf \subseteq Keys

\* The task of a key is never known without the key's instance.
TasksHaveChannels == DOMAIN tasks \subseteq DOMAIN channels

HostInv == HostTypes /\ TasksHaveChannels /\ InstancesKept

\* What start-up makes: an instance for each active configuration.
LEMMA HostInit == ChannelsInit => HostInv
<1> SUFFICES ASSUME ChannelsInit PROVE HostInv
  OBVIOUS
<1> DEFINE on == {k \in Keys : saved[k] = "on"}
           n == Cardinality(on)
<1>1. IsFiniteSet(on) /\ n \in Nat /\ n <= Cardinality(Keys) /\ Cardinality(Keys) \in Nat
  <2>1. IsFiniteSet(on) /\ n <= Cardinality(Keys)
    BY ChannelsAssumption, FS_Subset
  <2> QED
    BY <2>1, ChannelsAssumption, FS_CardinalityType
<1>2. owner \in Bijection(1..n, on) /\ channels = [k \in on |-> CHOOSE i \in DOMAIN owner : owner[i] = k]
  BY DEF ChannelsInit
<1> HIDE DEF n, on
<1>3. owner \in [1..n -> on] /\ \A k \in on : \E i \in 1..n : owner[i] = k
  BY <1>2 DEF Bijection, Surjection, Injection
<1>4. on \subseteq Keys
  BY DEF on
<1>5. owner \in Seq(Keys) /\ Len(owner) = n /\ Instance = 1..n
  BY <1>1, <1>3, <1>4 DEF Instance
<1>6. NamesOwn(channels)
  <2>1. ASSUME NEW k \in on PROVE channels[k] \in 1..n /\ owner[channels[k]] = k
    <3>1. channels[k] = CHOOSE i \in 1..n : owner[i] = k
      BY <1>2, <1>3
    <3> QED
      BY <1>3, <3>1
  <2> QED
    BY <1>2, <1>4, <1>5, <2>1 DEF NamesOwn
<1>7. op \in [Tabs -> Ops]
  BY DEF ChannelsInit, Ops
<1>8. /\ tasks = <<>> /\ routeMap = <<>> /\ routesOf = <<>> /\ popped = {}
      /\ running = gathered /\ gathered = Instance
  BY DEF ChannelsInit, Instance
<1>9. NamesOwn(tasks)
  BY <1>8 DEF NamesOwn
<1>10. ChannelsTypeOK
  <2>1. Len(owner) <= MaxInstances
    BY <1>1, <1>5, ChannelsAssumption
  <2>2. saved \in [Keys -> {"none", "off", "on"}] /\ startAll \in {"idle", "gather", "ended"}
    BY DEF ChannelsInit
  <2> QED
    BY <1>5, <1>6, <1>8, <1>9, <2>1, <2>2 DEF ChannelsTypeOK, NamesOwn
<1> QED
  BY <1>6, <1>7, <1>8, <1>9, <1>10
     DEF HostInv, HostTypes, TasksHaveChannels, InstancesKept, StoppableOrGathered, RoutesAreIndexed

\* Forgetting the routes of a key keeps the other routes indexed.
LEMMA ForgottenFacts ==
  ASSUME NEW k \in Keys, Forgotten(k), RoutesAreIndexed, DOMAIN routesOf \subseteq Keys
  PROVE  RoutesAreIndexed' /\ DOMAIN routesOf' \subseteq Keys
<1>1. DOMAIN routesOf' = DOMAIN routesOf \ {k} /\ \A j \in DOMAIN routesOf : j # k => routesOf'[j] = routesOf[j]
  BY DEF WithEntry, WithoutEntry, Forgotten
<1>2. /\ \A c \in DOMAIN routeMap' : c \in DOMAIN routeMap /\ routeMap'[c] = routeMap[c]
      /\ \A c \in DOMAIN routeMap' : c \notin Lookup(routesOf, k, {}) \/ routeMap[c] # k
  BY DEF Forgotten, Restrict
<1>3. \A c \in DOMAIN routeMap' : routeMap[c] # k
  BY <1>2 DEF RoutesAreIndexed, Lookup
<1> QED
  BY <1>1, <1>2, <1>3 DEF RoutesAreIndexed

\* An instance that is made belongs to its key; a task of it runs or the key's
\* task runs already.
LEMMA MadeFacts ==
  ASSUME HostInv, NEW k \in Keys, Made(k), UNCHANGED <<gathered, routeMap, routesOf, startAll, op, popped>>,
         saved' \in [Keys -> {"none", "off", "on"}]
  PROVE  HostInv'
<1> DEFINE i == Len(owner) + 1
<1>1. owner \in Seq(Keys) /\ Len(owner) \in Nat /\ Instance = 1..Len(owner)
  BY QueueShape DEF HostInv, HostTypes, ChannelsTypeOK, Instance
<1>2. /\ owner' = Append(owner, k) /\ owner' \in Seq(Keys) /\ Len(owner') = i /\ i <= MaxInstances
      /\ owner'[i] = k /\ \A j \in Instance : owner'[j] = owner[j]
      /\ Instance' = Instance \cup {i} /\ i \notin Instance
  <2>1. owner' = Append(owner, k) /\ i <= MaxInstances
    BY DEF Made
  <2>2. Len(Append(owner, k)) = i /\ Append(owner, k) \in Seq(Keys) /\ Append(owner, k)[i] = k
        /\ \A j \in 1..Len(owner) : Append(owner, k)[j] = owner[j]
    BY <1>1, AppendProperties
  <2>3. 1..(Len(owner) + 1) = 1..Len(owner) \cup {i}
    BY <1>1
  <2>4. DOMAIN Append(owner, k) = 1..(Len(owner) + 1)
    BY <1>1, QueueShape
  <2> QED
    BY <1>1, <2>1, <2>2, <2>3, <2>4 DEF Instance
<1> HIDE DEF i
<1>3. channels' = WithEntry(channels, k, i)
  BY DEF Made, i
<1>4. NamesOwn(channels)'
  BY <1>2, <1>3 DEF WithEntry, WithoutEntry, HostInv, HostTypes, NamesOwn
<1>5. CASE AlreadyRunning(k) /\ UNCHANGED <<tasks, running>>
  <2>1. NamesOwn(tasks)'
    BY <1>2, <1>5 DEF HostInv, HostTypes, NamesOwn
  <2>2. ChannelsTypeOK'
    BY <1>2, <1>4, <1>5, <2>1 DEF HostInv, HostTypes, ChannelsTypeOK, NamesOwn
  <2>3. HostTypes'
    BY <1>4, <2>1, <2>2 DEF HostInv, HostTypes
  <2>4. StoppableOrGathered'
    <3>1. \A j \in running : j \in Instance
      BY DEF HostInv, HostTypes, ChannelsTypeOK
    <3> QED
      BY <1>2, <1>3, <1>5, <3>1 DEF WithEntry, WithoutEntry, HostInv, InstancesKept, StoppableOrGathered
  <2> QED
    BY <1>3, <1>5, <2>3, <2>4
       DEF WithEntry, WithoutEntry, HostInv, TasksHaveChannels, InstancesKept, RoutesAreIndexed
<1>6. CASE ~AlreadyRunning(k) /\ tasks' = WithEntry(tasks, k, i) /\ running' = running \cup {i}
  <2>1. NamesOwn(tasks)'
    BY <1>2, <1>6 DEF WithEntry, WithoutEntry, HostInv, HostTypes, NamesOwn
  <2>2. ChannelsTypeOK'
    BY <1>2, <1>4, <1>6, <2>1 DEF HostInv, HostTypes, ChannelsTypeOK, NamesOwn
  <2>3. HostTypes'
    BY <1>4, <2>1, <2>2 DEF HostInv, HostTypes
  <2>4. StoppableOrGathered'
    <3>1. ASSUME NEW j \in running \ (gathered \cup popped)
          PROVE  owner'[j] \in DOMAIN channels' \cap DOMAIN tasks' /\ tasks'[owner'[j]] = j
      <4>1. owner'[j] = owner[j] /\ owner[j] \in DOMAIN channels \cap DOMAIN tasks /\ tasks[owner[j]] = j
        BY <1>2, <3>1 DEF HostInv, HostTypes, ChannelsTypeOK, InstancesKept, StoppableOrGathered
      <4>2. owner[j] # k
        BY <1>6, <3>1, <4>1 DEF AlreadyRunning
      <4> QED
        BY <1>3, <1>6, <4>1, <4>2 DEF WithEntry, WithoutEntry
    <3>2. owner'[i] \in DOMAIN channels' \cap DOMAIN tasks' /\ tasks'[owner'[i]] = i
      BY <1>2, <1>3, <1>6 DEF WithEntry, WithoutEntry
    <3> QED
      BY <1>6, <3>1, <3>2 DEF StoppableOrGathered
  <2> QED
    BY <1>3, <1>6, <2>3, <2>4
       DEF WithEntry, WithoutEntry, HostInv, TasksHaveChannels, InstancesKept, RoutesAreIndexed
<1> QED
  BY <1>5, <1>6 DEF Made, i

LEMMA HostNext == HostInv /\ [ChannelsNext]_channelVars => HostInv'
<1> SUFFICES ASSUME HostInv, [ChannelsNext]_channelVars PROVE HostInv'
  OBVIOUS
<1>1. ASSUME NEW i \in Instance, InstanceEnds(i) PROVE HostInv'
  BY <1>1 DEF InstanceEnds, HostInv, HostTypes, ChannelsTypeOK, NamesOwn, Instance,
              TasksHaveChannels, InstancesKept, StoppableOrGathered, RoutesAreIndexed
<1>2. ASSUME NEW i \in Instance, NEW d \in ChatIds, Hear(i, d) PROVE HostInv'
  <2> DEFINE k == owner[i]
  <2>1. k \in Keys
    BY QueueShape DEF HostInv, HostTypes, ChannelsTypeOK, Instance
  <2> HIDE DEF k
  <2>2. routeMap' = WithEntry(routeMap, d, k)
        /\ routesOf' = WithEntry(routesOf, k, Lookup(routesOf, k, {}) \cup {d})
    BY <1>2 DEF Hear, k
  <2>3. RoutesAreIndexed' /\ DOMAIN routesOf' \subseteq Keys
    <3>1. DOMAIN routesOf' = DOMAIN routesOf \cup {k} /\ routesOf'[k] = Lookup(routesOf, k, {}) \cup {d}
          /\ \A j \in DOMAIN routesOf : j # k => routesOf'[j] = routesOf[j]
      BY <2>2 DEF WithEntry, WithoutEntry
    <3>2. DOMAIN routeMap' = DOMAIN routeMap \cup {d} /\ routeMap'[d] = k
          /\ \A c \in DOMAIN routeMap : c # d => routeMap'[c] = routeMap[c]
      BY <2>2 DEF WithEntry, WithoutEntry
    <3> QED
      BY <2>1, <3>1, <3>2 DEF HostInv, HostTypes, InstancesKept, RoutesAreIndexed, Lookup
  <2> QED
    BY <1>2, <2>3 DEF Hear, HostInv, HostTypes, ChannelsTypeOK, NamesOwn, Instance,
                      TasksHaveChannels, InstancesKept, StoppableOrGathered
<1>3. ASSUME NEW t \in Tabs, NEW k \in Keys, NEW active \in BOOLEAN, SaveConfig(t, k, active) PROVE HostInv'
  <2>1. saved' \in [Keys -> {"none", "off", "on"}]
    BY <1>3 DEF SaveConfig, Stored, HostInv, HostTypes, ChannelsTypeOK
  <2>2. CASE active
    BY <1>3, <2>1, <2>2, MadeFacts DEF SaveConfig
  <2>3. CASE ~active
    BY <1>3, <2>1, <2>3 DEF SaveConfig, HostInv, HostTypes, ChannelsTypeOK, NamesOwn, Instance,
         TasksHaveChannels, InstancesKept, StoppableOrGathered, RoutesAreIndexed
  <2> QED
    BY <2>2, <2>3
<1>4. ASSUME NEW t \in Tabs, NEW k \in Keys, Activate(t, k) PROVE HostInv'
  <2>1. saved' \in [Keys -> {"none", "off", "on"}]
    BY <1>4 DEF Activate, Stored, HostInv, HostTypes, ChannelsTypeOK
  <2> QED
    BY <1>4, <2>1, MadeFacts DEF Activate
<1>5. ASSUME NEW t \in Tabs, NEW k \in Keys, Deactivate(t, k) PROVE HostInv'
  <2>1. saved' \in [Keys -> {"none", "off", "on"}]
    BY <1>5 DEF Deactivate, Stored, HostInv, HostTypes, ChannelsTypeOK
  <2>2. op' \in [Tabs -> Ops]
    <3>1. ASSUME k \in DOMAIN channels
          PROVE  [kind |-> "deactivate", key |-> k, awaits |-> Stop] \in Ops
      BY <3>1 DEF Ops, Stop
    <3> QED
      BY <1>5, <3>1 DEF Deactivate, StopFirst, HostInv, HostTypes
  <2> QED
    BY <1>5, <2>1, <2>2 DEF Deactivate, HostInv, HostTypes, ChannelsTypeOK, NamesOwn, Instance,
         TasksHaveChannels, InstancesKept, StoppableOrGathered, RoutesAreIndexed
<1>6. ASSUME NEW t \in Tabs, NEW k \in Keys, RemoveChannel(t, k) PROVE HostInv'
  <2>1. saved' \in [Keys -> {"none", "off", "on"}]
    BY <1>6 DEF RemoveChannel, Stored, HostInv, HostTypes, ChannelsTypeOK
  <2>2. CASE k \in DOMAIN tasks /\ k \in DOMAIN channels
    <3>1. [kind |-> "remove", key |-> k, awaits |-> Stop] \in Ops
      BY DEF Ops, Stop
    <3>2. op' \in [Tabs -> Ops]
      BY <1>6, <2>2, <3>1 DEF RemoveChannel, StopFirst, HostInv, HostTypes
    <3> QED
      BY <1>6, <2>1, <2>2, <3>2 DEF RemoveChannel, HostInv, HostTypes, ChannelsTypeOK, NamesOwn, Instance,
         TasksHaveChannels, InstancesKept, StoppableOrGathered, RoutesAreIndexed
  <2>3. CASE k \notin DOMAIN tasks /\ k \in DOMAIN channels
    <3>1. channels' = WithoutEntry(channels, k) /\ Forgotten(k) /\ UNCHANGED <<op, owner, tasks, gathered, running, startAll, popped>>
      BY <1>6, <2>3 DEF RemoveChannel
    <3>2. RoutesAreIndexed' /\ DOMAIN routesOf' \subseteq Keys
      BY <3>1, ForgottenFacts DEF HostInv, HostTypes, InstancesKept
    <3>3. DOMAIN channels' = DOMAIN channels \ {k} /\ \A j \in DOMAIN channels : j # k => channels'[j] = channels[j]
      BY <3>1 DEF WithEntry, WithoutEntry
    <3>4. NamesOwn(channels)'
      BY <3>1, <3>3 DEF NamesOwn, Instance, HostInv, HostTypes
    <3> QED
      BY <2>1, <2>3, <3>1, <3>2, <3>3, <3>4 DEF HostInv, HostTypes, ChannelsTypeOK, NamesOwn, Instance,
         TasksHaveChannels, InstancesKept, StoppableOrGathered
  <2>4. CASE k \notin DOMAIN channels
    BY <1>6, <2>1, <2>4 DEF RemoveChannel, HostInv, HostTypes, ChannelsTypeOK, NamesOwn, Instance,
         TasksHaveChannels, InstancesKept, StoppableOrGathered, RoutesAreIndexed
  <2> QED
    BY <2>2, <2>3, <2>4
<1>a. ASSUME NEW t \in Tabs, NEW k \in Keys, Finish(t, k), tasks' = WithoutEntry(tasks, k),
             k \in DOMAIN tasks /\ tasks[k] \in running => tasks[k] \in popped',
             popped \subseteq popped' /\ popped' \subseteq Instance,
             UNCHANGED <<saved, owner, gathered, running, startAll>>
      PROVE  HostInv'
  <2>1. /\ channels' = IF op[t].kind = "remove" THEN WithoutEntry(channels, k) ELSE channels
        /\ UNCHANGED <<routeMap, routesOf>> \/ Forgotten(k)
        /\ op' = [op EXCEPT ![t] = NoOp]
    BY <1>a DEF Finish
  <2>2. RoutesAreIndexed' /\ DOMAIN routesOf' \subseteq Keys
    <3>1. CASE UNCHANGED <<routeMap, routesOf>>
      BY <3>1 DEF HostInv, HostTypes, InstancesKept, RoutesAreIndexed
    <3>2. CASE Forgotten(k)
      BY <3>2, ForgottenFacts DEF HostInv, HostTypes, InstancesKept
    <3> QED
      BY <2>1, <3>1, <3>2
  <2>3. DOMAIN tasks' = DOMAIN tasks \ {k} /\ \A j \in DOMAIN tasks : j # k => tasks'[j] = tasks[j]
    BY <1>a DEF WithoutEntry
  <2>4. /\ DOMAIN channels' \subseteq DOMAIN channels /\ DOMAIN channels \ {k} \subseteq DOMAIN channels'
        /\ \A j \in DOMAIN channels' : channels'[j] = channels[j]
    BY <2>1 DEF WithoutEntry
  <2>5. NamesOwn(channels)' /\ NamesOwn(tasks)'
    BY <1>a, <2>3, <2>4 DEF NamesOwn, Instance, HostInv, HostTypes
  <2>6. op' \in [Tabs -> Ops]
    BY <2>1 DEF HostInv, HostTypes, Ops
  <2>7. HostTypes'
    BY <1>a, <2>2, <2>5, <2>6 DEF HostInv, HostTypes, ChannelsTypeOK, NamesOwn, Instance
  <2>8. TasksHaveChannels'
    BY <2>3, <2>4 DEF HostInv, TasksHaveChannels
  <2>9. StoppableOrGathered'
    <3> SUFFICES ASSUME NEW j \in running \ (gathered \cup popped')
                 PROVE  owner[j] \in DOMAIN channels' \cap DOMAIN tasks' /\ tasks'[owner[j]] = j
      BY <1>a DEF StoppableOrGathered
    <3>1. owner[j] \in DOMAIN channels \cap DOMAIN tasks /\ tasks[owner[j]] = j
      BY <1>a DEF HostInv, InstancesKept, StoppableOrGathered
    <3>2. owner[j] # k
      BY <1>a, <3>1
    <3> QED
      BY <2>3, <2>4, <3>1, <3>2
  <2> QED
    BY <2>2, <2>7, <2>8, <2>9 DEF HostInv, InstancesKept
<1>b. ASSUME NEW t \in Tabs, op[t] # NoOp PROVE op[t].key \in Keys /\ op[t].awaits \in Nat
  BY <1>b DEF HostInv, HostTypes, Ops
<1>7. ASSUME NEW t \in Tabs, StopReturned(t) PROVE HostInv'
  <2>0. PICK k \in Keys : k = op[t].key
    BY <1>7, <1>b DEF StopReturned
  <2>1. CASE AlreadyRunning(k)
    <3>1. /\ op' = [op EXCEPT ![t].awaits = tasks[k]]
          /\ UNCHANGED <<saved, owner, gathered, running, startAll, channels, tasks, routeMap,
                         routesOf, popped>>
      BY <1>7, <2>0, <2>1 DEF StopReturned
    <3>2. tasks[k] \in Nat
      BY <2>1, QueueShape DEF AlreadyRunning, HostInv, HostTypes, NamesOwn, Instance, ChannelsTypeOK
    <3>3. op[t] \in [kind : {"deactivate", "remove"}, key : Keys, awaits : Nat]
      BY <1>7 DEF StopReturned, HostInv, HostTypes, Ops
    <3>4. op' \in [Tabs -> Ops]
      BY <3>1, <3>2, <3>3 DEF HostInv, HostTypes, Ops
    <3> QED
      BY <3>1, <3>4 DEF HostInv, HostTypes, ChannelsTypeOK, NamesOwn, Instance,
         TasksHaveChannels, InstancesKept, StoppableOrGathered, RoutesAreIndexed
  <2>2. CASE ~AlreadyRunning(k)
    <3>1. /\ tasks' = WithoutEntry(tasks, k) /\ Finish(t, k)
          /\ UNCHANGED <<saved, owner, gathered, running, startAll, popped>>
      BY <1>7, <2>0, <2>2 DEF StopReturned
    <3>2. ~(k \in DOMAIN tasks /\ tasks[k] \in running)
      BY <2>2 DEF AlreadyRunning
    <3>3. popped \subseteq Instance
      BY DEF HostInv, HostTypes, ChannelsTypeOK
    <3> QED
      BY <1>a, <3>1, <3>2, <3>3
  <2> QED
    BY <2>1, <2>2
<1>9. ASSUME NEW t \in Tabs, TaskEnded(t) PROVE HostInv'
  <2>0. PICK k \in Keys : k = op[t].key
    BY <1>9, <1>b DEF TaskEnded
  <2>1. /\ op[t].awaits \notin running /\ tasks' = WithoutEntry(tasks, k) /\ Finish(t, k)
        /\ popped' = popped \cup (IF k \in DOMAIN tasks THEN {tasks[k]} \ {op[t].awaits} ELSE {})
        /\ UNCHANGED <<saved, owner, gathered, running, startAll>>
    BY <1>9, <2>0 DEF TaskEnded
  <2>2. popped' \subseteq Instance
    BY <2>1 DEF HostInv, HostTypes, ChannelsTypeOK, NamesOwn
  <2> QED
    BY <1>a, <2>1, <2>2
<1>8. CASE UNCHANGED channelVars
  BY <1>8 DEF channelVars, HostInv, HostTypes, ChannelsTypeOK, NamesOwn, Instance,
              TasksHaveChannels, InstancesKept, StoppableOrGathered, RoutesAreIndexed
<1> QED
  BY <1>1, <1>2, <1>3, <1>4, <1>5, <1>6, <1>7, <1>8, <1>9 DEF ChannelsNext

\* However tabs save, activate, deactivate and remove configurations between the
\* awaits of each other's stops, while instances end and hear from chats
\* (crabclaw/channels/manager.py), what runs outside start_all can be stopped by
\* its key, unless a stop that was waiting for an earlier task has dropped its
\* task, and routes are forgotten with it.
THEOREM InstancesStayStoppable == ChannelsSpec => []InstancesKept
<1>1. HostInv => InstancesKept
  BY DEF HostInv
<1> QED
  BY HostInit, HostNext, <1>1, PTL DEF ChannelsSpec

-----------------------------------------------------------------------------
(* Start-up and shutdown *)

\* Where run() is once main has entered stop().
MainHasStop == stopper = Main => /\ at \in {"stopping", "returned", "closing", "over"}
                                 /\ stage[Main] \in 2..Finished
                                 /\ at # "stopping" => stage[Main] = Finished

\* What the stages of stop() that caller c has passed were to end is down.
PassedAreDown(c) ==
  \A j \in 1..Len(Stages) : j < stage[c] /\ Stages[j] \in Services => Stages[j] \notin up

\* Only who set _stopping is within stop(); main gets through it, and what its stop()
\* has passed is down and stays so; a service that is up was never stopped.
LifeInv ==
  /\ LifecycleTypeOK
  /\ stopping <=> stopper # Nobody
  /\ at \in {"connecting", "waiting"} => stopper # Main
  /\ at = "connecting" => ~stopping
  /\ at = "stopping" => stopper = Main
  /\ MainHasStop
  /\ \A c \in Callers : Midway(c) => stopper = c
  /\ stopping => "cron" \notin up
  /\ stopper = Main => PassedAreDown(Main)
  /\ stopper = Main /\ stage[Main] = Finished => ~unsaved
  /\ ~stopping => \A s \in Services : stops[s] = 0
  /\ \A s \in Services : stops[s] <= 1 /\ (s \in up => stops[s] = 0)

LEMMA StageFacts ==
  /\ Len(Stages) = 8 /\ Finished = 9
  /\ Stages[1] = "cron" /\ Stages[2] = "mcp" /\ Stages[3] = "engine" /\ Stages[4] = "channels"
  /\ Stages[5] = "dashboard" /\ Stages[6] = "gateway" /\ Stages[7] = "tasks" /\ Stages[8] = "state"
  /\ \A j \in 1..Len(Stages) : j = 1 \/ j = 2 \/ j = 3 \/ j = 4 \/ j = 5 \/ j = 6 \/ j = 7 \/ j = 8
<1>1. Len(Stages) = 8
  BY DEF Stages
<1> QED
  BY <1>1 DEF Stages, Finished

\* Main has stopped everything when it has passed all stages.
LEMMA AllDown ==
  ASSUME up \subseteq Services, stage[Main] = Finished, PassedAreDown(Main)
  PROVE  up = {}
BY StageFacts DEF PassedAreDown, Services

LEMMA LifeInit == LifecycleInit => LifeInv
<1> SUFFICES ASSUME LifecycleInit PROVE LifeInv
  OBVIOUS
<1>1. Finished = 9 /\ Len(Stages) = 8
  BY StageFacts
<1>2. Main # Nobody
  BY DEF Main, Nobody
<1>3. LifecycleTypeOK
  <2>1. stage \in [Callers -> 0..Finished] /\ stops \in [Services -> Nat]
    BY <1>1 DEF LifecycleInit
  <2>2. up \subseteq Services /\ core \subseteq CoreTasks
    BY DEF LifecycleInit, Services
  <2> QED
    BY <2>1, <2>2 DEF LifecycleInit, LifecycleTypeOK
<1>4. stage[Main] = 0 /\ \A c \in Callers : ~Midway(c)
  BY <1>1 DEF LifecycleInit, Callers, Midway
<1> QED
  BY <1>1, <1>2, <1>3, <1>4 DEF LifecycleInit, LifeInv, MainHasStop, PassedAreDown, Main

\* The entry into stop(), by main or a signal.
LEMMA EnteredKeeps ==
  ASSUME LifeInv, NEW c \in Callers, Entered(c),
         at \notin {"connecting", "over"}, UNCHANGED <<core, unsaved>>,
         IF c = Main THEN at = "waiting" /\ at' = "stopping" /\ ~stopping ELSE UNCHANGED at
  PROVE  LifeInv'
<1>1. Finished = 9 /\ Len(Stages) = 8 /\ Main # Nobody /\ Main \in Callers /\ Nobody \notin Callers
  BY StageFacts, SignalsAssumption DEF Main, Nobody, Callers
<1>2. CASE ~stopping
  <2>1. /\ stopping' = TRUE /\ stopper' = c /\ up' = up \ {"cron"}
        /\ stops' = [stops EXCEPT !["cron"] = @ + 1] /\ stage' = [stage EXCEPT ![c] = 2]
    BY <1>2 DEF Entered, MayStop
  <2>2. "cron" \in Services
    BY DEF Services
  <2>3. LifecycleTypeOK'
    <3>1. stage' \in [Callers -> 0..Finished] /\ stops' \in [Services -> Nat]
      BY <1>1, <2>1, <2>2 DEF LifeInv, LifecycleTypeOK
    <3>2. at' \in {at, "stopping"} /\ UNCHANGED <<core, unsaved>>
      OBVIOUS
    <3> QED
      BY <2>1, <3>1, <3>2 DEF LifeInv, LifecycleTypeOK
  <2>4. stage'[c] = 2 /\ \A d \in Callers : d # c => stage'[d] = stage[d]
    BY <2>1 DEF LifeInv, LifecycleTypeOK
  <2>5. \A d \in Callers : Midway(d)' => stopper' = d
    BY <1>1, <1>2, <2>1, <2>4 DEF LifeInv, Midway
  <2>6. stopper' = Main => PassedAreDown(Main)'
    BY <1>1, <2>1, <2>4, StageFacts DEF PassedAreDown
  <2>7. \A s \in Services : stops'[s] <= 1 /\ (s \in up' => stops'[s] = 0)
    BY <1>2, <2>1, <2>2 DEF LifeInv, LifecycleTypeOK
  <2>8. MainHasStop'
    BY <1>1, <2>1, <2>4 DEF MainHasStop
  <2>9. stopping' <=> stopper' # Nobody
    BY <1>1, <2>1
  <2> QED
    BY <1>1, <1>2, <2>1, <2>3, <2>4, <2>5, <2>6, <2>7, <2>8, <2>9 DEF LifeInv
<1>3. CASE stopping
  <2>1. stage' = [stage EXCEPT ![c] = Finished] /\ UNCHANGED <<at, stopping, stopper, up, stops>> /\ c # Main
    BY <1>3 DEF Entered, MayStop
  <2>2. LifecycleTypeOK'
    BY <1>1, <2>1 DEF LifeInv, LifecycleTypeOK
  <2>3. stage'[c] = Finished /\ \A d \in Callers : d # c => stage'[d] = stage[d]
    BY <2>1 DEF LifeInv, LifecycleTypeOK
  <2> QED
    BY <1>1, <1>3, <2>1, <2>2, <2>3 DEF LifeInv, MainHasStop, Midway, PassedAreDown
<1> QED
  BY <1>2, <1>3 DEF LifeInv, LifecycleTypeOK

\* One stage of a stop() that is under way.
LEMMA StageKeeps ==
  ASSUME LifeInv, NEW c \in Callers, StopStage(c)
  PROVE  LifeInv'
<1>1. Finished = 9 /\ Len(Stages) = 8 /\ Main # Nobody /\ Main \in Callers
  BY StageFacts DEF Main, Nobody, Callers
<1>2. stage[c] \in 2..8 /\ stopper = c /\ stage' = [stage EXCEPT ![c] = @ + 1]
      /\ UNCHANGED <<at, stopping, stopper>>
  BY <1>1 DEF StopStage, LifeInv, Midway
<1>3. stage'[c] = stage[c] + 1 /\ \A d \in Callers : d # c => stage'[d] = stage[d]
  BY <1>2 DEF LifeInv, LifecycleTypeOK
<1>4. /\ up' \subseteq up /\ (StageOf(c) \in Services => StageOf(c) \notin up')
      /\ \A s \in Services : stops'[s] = stops[s] \/ (s \in up /\ s \notin up' /\ stops'[s] = stops[s] + 1)
      /\ stops' \in [Services -> Nat]
  <2>1. CASE StageOf(c) \in Services
    BY <2>1 DEF StopStage, Ended, LifeInv, LifecycleTypeOK
  <2>2. CASE StageOf(c) \notin Services
    BY <2>2 DEF StopStage, LifeInv, LifecycleTypeOK
  <2> QED
    BY <2>1, <2>2
<1>5. core' \subseteq core /\ unsaved' \in BOOLEAN /\ (unsaved' => unsaved) /\ (StageOf(c) = "state" => ~unsaved')
  BY DEF StopStage, LifeInv, LifecycleTypeOK
<1>6. LifecycleTypeOK'
  BY <1>1, <1>2, <1>4, <1>5 DEF LifeInv, LifecycleTypeOK
<1>7. MainHasStop'
  BY <1>1, <1>2, <1>3 DEF LifeInv, MainHasStop
<1>8. \A d \in Callers : Midway(d)' => stopper' = d
  BY <1>1, <1>2, <1>3 DEF LifeInv, Midway
<1>9. stopper' = Main => PassedAreDown(Main)'
  <2> SUFFICES ASSUME stopper = Main, NEW j \in 1..Len(Stages), j < stage'[Main], Stages[j] \in Services
               PROVE  Stages[j] \notin up'
    BY <1>2 DEF PassedAreDown
  <2>1. c = Main /\ stage'[Main] = stage[Main] + 1
    BY <1>2, <1>3
  <2>2. CASE j < stage[Main]
    BY <1>4, <2>2 DEF LifeInv, PassedAreDown
  <2>3. CASE j = stage[Main]
    BY <1>4, <2>1, <2>3 DEF StageOf
  <2> QED
    BY <1>1, <1>2, <2>1, <2>2, <2>3
<1>10. stopper' = Main /\ stage'[Main] = Finished => ~unsaved'
  <2>1. ASSUME stopper = Main, stage'[Main] = Finished PROVE ~unsaved'
    <3>1. c = Main /\ stage[Main] = 8
      BY <1>1, <1>2, <1>3, <2>1
    <3> QED
      BY <1>5, <3>1, StageFacts DEF StageOf
  <2> QED
    BY <1>2, <2>1
<1>11. \A s \in Services : stops'[s] <= 1 /\ (s \in up' => stops'[s] = 0)
  <2> TAKE s \in Services
  <2>1. stops[s] <= 1 /\ (s \in up => stops[s] = 0) /\ stops[s] \in Nat
    BY DEF LifeInv, LifecycleTypeOK
  <2> QED
    BY <1>4, <2>1
<1>12. stopping' /\ "cron" \notin up'
  BY <1>1, <1>2, <1>4, SignalsAssumption DEF LifeInv, Callers
<1> QED
  BY <1>2, <1>6, <1>7, <1>8, <1>9, <1>10, <1>11, <1>12 DEF LifeInv

\* The end of main cancels what is left: a stop() is cut short or goes on.
LEMMA CancelKeeps ==
  ASSUME LifeInv, CancelAll
  PROVE  LifeInv'
<1>1. Finished = 9 /\ Len(Stages) = 8 /\ Main \in Callers /\ Main \notin Signals
  BY StageFacts, SignalsAssumption DEF Main, Callers
<1>2. /\ at = "returned" /\ at' = "closing" /\ core' = {}
      /\ UNCHANGED <<up, stopping, stopper, stops, unsaved>>
  BY DEF CancelAll
<1>3. /\ stage' \in [Callers -> 0..Finished]
      /\ \A c \in Callers : stage'[c] = stage[c] \/ (c \in Signals /\ stage'[c] = Finished)
  BY <1>1 DEF CancelAll, LifeInv, LifecycleTypeOK, Callers
<1>4. stage'[Main] = stage[Main]
  BY <1>1, <1>3
<1>5. LifecycleTypeOK'
  BY <1>2, <1>3 DEF LifeInv, LifecycleTypeOK
<1>6. \A d \in Callers : Midway(d)' => stopper' = d
  BY <1>1, <1>2, <1>3 DEF LifeInv, Midway
<1> QED
  BY <1>1, <1>2, <1>4, <1>5, <1>6 DEF LifeInv, MainHasStop, PassedAreDown

LEMMA LifeNext == LifeInv /\ [LifecycleNext]_lifecycleVars => LifeInv'
<1> SUFFICES ASSUME LifeInv, [LifecycleNext]_lifecycleVars PROVE LifeInv'
  OBVIOUS
<1>0. Finished = 9 /\ Len(Stages) = 8 /\ Main \in Callers /\ Main \notin Signals
  BY StageFacts, SignalsAssumption DEF Main, Callers
<1>1. CASE Connected
  <2>1. /\ at = "connecting" /\ at' = "waiting" /\ ~stopping /\ stopper # Main
        /\ up' \subseteq up \cup Services /\ core' = CoreTasks
        /\ UNCHANGED <<stopping, stopper, stage, stops, unsaved>>
    BY <1>1 DEF Connected, LifeInv, Services, CoreTasks
  <2>2. LifecycleTypeOK'
    BY <2>1 DEF LifeInv, LifecycleTypeOK
  <2>3. \A s \in Services : stops[s] = 0
    BY <2>1 DEF LifeInv
  <2> QED
    BY <2>1, <2>2, <2>3 DEF LifeInv, MainHasStop, Midway
<1>2. CASE Interrupted
  BY <1>2 DEF Interrupted, LifeInv, LifecycleTypeOK, MainHasStop, Midway, PassedAreDown
<1>3. CASE StateChanges
  <2>1. stopper = Main /\ stage[Main] = Finished => FALSE
    <3>1. "dashboard" \in up /\ "dashboard" \in Services
      BY <1>3 DEF StateChanges, Services
    <3> QED
      BY <1>0, <3>1, StageFacts DEF LifeInv, PassedAreDown
  <2> QED
    BY <1>3, <2>1 DEF StateChanges, LifeInv, LifecycleTypeOK, MainHasStop, Midway, PassedAreDown
<1>4. ASSUME NEW t \in CoreTasks, CoreEnds(t) PROVE LifeInv'
  BY <1>4 DEF CoreEnds, LifeInv, LifecycleTypeOK, MainHasStop, Midway, PassedAreDown
<1>5. CASE SaveInterval
  BY <1>5 DEF SaveInterval, LifeInv, LifecycleTypeOK, MainHasStop, Midway, PassedAreDown
<1>6. ASSUME NEW s \in Signals, Signal(s) PROVE LifeInv'
  BY <1>0, <1>6, EnteredKeeps DEF Signal, Callers
<1>7. CASE Wake
  <2>1. CASE stopping
    BY <1>7, <2>1 DEF Wake, LifeInv, LifecycleTypeOK, MainHasStop, Midway, PassedAreDown
  <2>2. CASE ~stopping
    <3>1. at = "waiting" /\ at' = "stopping" /\ Entered(Main) /\ UNCHANGED <<core, unsaved>>
      BY <1>7, <2>2 DEF Wake
    <3> QED
      BY <1>0, <2>2, <3>1, EnteredKeeps
  <2> QED
    BY <2>1, <2>2
<1>8. ASSUME NEW c \in Callers, StopStage(c) PROVE LifeInv'
  BY <1>8, StageKeeps
<1>9. CASE MainStopped
  BY <1>9 DEF MainStopped, LifeInv, LifecycleTypeOK, MainHasStop, Midway, PassedAreDown
<1>10. CASE CancelAll
  BY <1>10, CancelKeeps
<1>11. CASE LoopCloses
  BY <1>11 DEF LoopCloses, LifeInv, LifecycleTypeOK, MainHasStop, Midway, PassedAreDown
<1>12. CASE UNCHANGED lifecycleVars
  BY <1>12 DEF lifecycleVars, LifeInv, LifecycleTypeOK, MainHasStop, Midway, PassedAreDown
<1> QED
  BY <1>1, <1>2, <1>3, <1>4, <1>5, <1>6, <1>7, <1>8, <1>9, <1>10, <1>11, <1>12 DEF LifecycleNext

\* Whatever signals come in between (crabclaw/agent/scheduler.py), a shutdown that
\* run() began is complete, with the state saved, when the process ends, cron is
\* stopped after any shutdown, and no service is stopped twice.
THEOREM ShutdownIsOrderly == LifecycleSpec => []OrderlyEnd
<1>1. LifeInv => OrderlyEnd
  <2> SUFFICES ASSUME LifeInv PROVE OrderlyEnd
    OBVIOUS
  <2>1. ASSUME at = "over", stopper = Main PROVE up = {} /\ ~unsaved
    <3>1. stage[Main] = Finished /\ PassedAreDown(Main) /\ ~unsaved /\ up \subseteq Services
      BY <2>1 DEF LifeInv, MainHasStop, LifecycleTypeOK
    <3> QED
      BY <3>1, AllDown
  <2>2. stopper # Nobody => "cron" \notin up
    BY DEF LifeInv
  <2>3. \A s \in Services : stops[s] <= 1
    BY DEF LifeInv
  <2> QED
    BY <2>1, <2>2, <2>3 DEF OrderlyEnd
<1> QED
  BY LifeInit, LifeNext, <1>1, PTL DEF LifecycleSpec

-----------------------------------------------------------------------------
(* The connection to ClawSocial                                             *)

\* A client that left has nothing that could connect again, unless it was reconnecting then.
GoneForGood(c) == link[c] # "open" /\ receiver[c] = FALSE /\ reconnect[c] = "none"

ClawTypes ==
  /\ client \in Clients \cup {NoClient} /\ made \in 0..MaxClients /\ leaving \in 0..3
  /\ link \in [Clients -> {"none", "open", "lost"}]
  /\ again \in [Clients -> BOOLEAN] /\ receiver \in [Clients -> BOOLEAN]
  /\ reconnect \in [Clients -> {"none", "sleeping", "connecting"}]

ClawInv ==
  /\ ClawTypes
  /\ \A c \in Clients : c = client \/ c \in unsettled \/ GoneForGood(c)
  /\ leaving # 0 => managerOp \in {"stop", "restart"}
  /\ managerOp = "connect" => client # NoClient
  /\ managerOp \in {"stop", "restart"} =>
       /\ client # NoClient /\ leaving # 0 /\ again[client] = FALSE
       /\ client \in unsettled \/ /\ reconnect[client] = "none"
                                  /\ leaving \in {2, 3} => receiver[client] = FALSE

LEMMA ClawStart == ClawSocialInit => ClawInv
<1> SUFFICES ASSUME ClawSocialInit PROVE ClawInv
  OBVIOUS
<1> USE ClawSocialAssumption DEF ClawSocialInit
<1>1. ClawTypes
  BY DEF ClawTypes, NoClient, Clients
<1>2. \A c \in Clients : GoneForGood(c)
  BY DEF GoneForGood
<1> QED
  BY <1>1, <1>2 DEF ClawInv

LEMMA ClawStep == ClawInv /\ [ClawSocialNext]_clawSocialVars => ClawInv'
<1> SUFFICES ASSUME ClawInv, [ClawSocialNext]_clawSocialVars PROVE ClawInv'
  OBVIOUS
<1> USE ClawSocialAssumption
<1>1. CASE UNCHANGED clawSocialVars
  BY <1>1 DEF clawSocialVars, ClawInv, ClawTypes, GoneForGood
<1>2. CASE StartFresh
  BY <1>2 DEF StartFresh, NewClient, ClawInv, ClawTypes, GoneForGood, Clients, NoClient
<1>3. ASSUME NEW way \in {"stop", "restart"}, StopClient(way) PROVE ClawInv'
  BY <1>3 DEF StopClient, LeaveBegun, Leaving, ClawInv, ClawTypes, GoneForGood, Clients, NoClient
<1>4. CASE StartConnected
  BY <1>4 DEF StartConnected, Linked, ClawInv, ClawTypes, GoneForGood, Clients, NoClient
<1>5. CASE StartFails
  BY <1>5 DEF StartFails, NotLinked, ClawInv, ClawTypes, GoneForGood, Clients, NoClient
<1>6. CASE LeaveStep /\ LeaveReceiver(client)
  <2>1. /\ client \in Clients /\ again[client] = FALSE /\ managerOp \in {"stop", "restart"}
        /\ client \in unsettled \/ reconnect[client] = "none"
    BY <1>6 DEF LeaveReceiver, ClawInv, ClawTypes
  <2>2. /\ leaving' = 2 /\ UNCHANGED <<client, made, managerOp, link, again, unsettled, reconnect>>
        /\ \/ receiver' = [receiver EXCEPT ![client] = FALSE]
           \/ receiver[client] = FALSE /\ receiver' = receiver
    <3>1. receiver[client] \in BOOLEAN
      BY <2>1 DEF ClawInv, ClawTypes
    <3> QED
      BY <1>6, <2>1, <3>1, Zenon DEF LeaveStep, LeaveReceiver, ReceiverEnded
  <2>3. ClawTypes'
    <3>1. receiver' \in [Clients -> BOOLEAN]
      BY <2>2, Zenon DEF ClawInv, ClawTypes
    <3>2. leaving' \in 0..3
      BY <2>2
    <3> QED
      BY <2>2, <3>1, <3>2, Zenon DEF ClawInv, ClawTypes
  <2>4. receiver'[client] = FALSE /\ \A c \in Clients \ {client} : receiver'[c] = receiver[c]
    BY <2>1, <2>2 DEF ClawInv, ClawTypes
  <2> QED
    BY <2>1, <2>2, <2>3, <2>4 DEF ClawInv, GoneForGood
<1>7. CASE LeaveStep /\ LeaveHeartbeat(client)
  BY <1>7 DEF LeaveStep, LeaveHeartbeat, ClawInv, ClawTypes, GoneForGood, Clients, NoClient
<1>8. CASE LeaveEnds
  <2>1. /\ client \in Clients
        /\ client \in unsettled \/ (reconnect[client] = "none" /\ receiver[client] = FALSE)
    BY <1>8 DEF LeaveEnds, LeaveSocket, ClawInv, ClawTypes
  <2>2. /\ leaving' = 0 /\ managerUp' = FALSE /\ link' = [link EXCEPT ![client] = "none"]
        /\ UNCHANGED <<isUp, receiver, beats, reconnect, again, unsettled, losses>>
    BY <1>8 DEF LeaveEnds, LeaveSocket
  <2>3. \/ made < MaxClients /\ made' = made + 1 /\ client' = made + 1 /\ managerOp' = "connect"
        \/ made' = made /\ client' = NoClient /\ managerOp' = "idle"
    BY <1>8 DEF LeaveEnds, NewClient
  <2>4. ClawTypes'
    BY <2>1, <2>2, <2>3 DEF ClawInv, ClawTypes, Clients, NoClient
  <2>5. link'[client] = "none" /\ \A c \in Clients \ {client} : link'[c] = link[c]
    BY <2>1, <2>2 DEF ClawInv, ClawTypes
  <2>6. \A c \in Clients : c \in unsettled' \/ GoneForGood(c)'
    BY <2>1, <2>2, <2>5 DEF ClawInv, GoneForGood
  <2>7. managerOp' = "connect" => client' # NoClient
    BY <2>3 DEF NoClient, ClawInv, ClawTypes
  <2> QED
    BY <2>2, <2>3, <2>4, <2>6, <2>7 DEF ClawInv
<1>9. ASSUME NEW c \in Clients,
             \/ Lose(c) \/ ReceiverEnds(c) \/ HeartbeatEnds(c)
             \/ ReconnectWakes(c) \/ Reconnected(c) \/ ReconnectFails(c)
      PROVE  ClawInv'
  <2>1. CASE Lose(c)
    BY <2>1 DEF Lose, managerVars, ClawInv, ClawTypes, GoneForGood, Clients, NoClient
  <2>2. CASE ReceiverEnds(c)
    BY <2>2 DEF ReceiverEnds, ReceiverEnded, managerVars, ClawInv, ClawTypes, GoneForGood, Clients, NoClient
  <2>3. CASE HeartbeatEnds(c)
    BY <2>3 DEF HeartbeatEnds, managerVars, ClawInv, ClawTypes, GoneForGood, Clients, NoClient
  <2>4. CASE ReconnectWakes(c)
    BY <2>4 DEF ReconnectWakes, managerVars, ClawInv, ClawTypes, GoneForGood, Clients, NoClient
  <2>5. CASE Reconnected(c)
    BY <2>5 DEF Reconnected, Linked, managerVars, ClawInv, ClawTypes, GoneForGood, Clients, NoClient
  <2>6. CASE ReconnectFails(c)
    BY <2>6 DEF ReconnectFails, managerVars, ClawInv, ClawTypes, GoneForGood, Clients, NoClient
  <2> QED
    BY <1>9, <2>1, <2>2, <2>3, <2>4, <2>5, <2>6
<1> QED
  BY <1>1, <1>2, <1>3, <1>4, <1>5, <1>6, <1>7, <1>8, <1>9 DEF ClawSocialNext, LeaveStep

\* WebSocketManager and its clients (clawsocial/scripts): however connections are lost and
\* clients started and stopped, the manager's client alone has a connection and a receive
\* loop, but for those that were reconnecting when they were stopped.
THEOREM OneConnection == ClawSocialSpec => []SoleConnection
<1>1. ClawInv => SoleConnection
  BY DEF ClawInv, SoleConnection, OpenLinks, GoneForGood
<1> QED
  BY <1>1, ClawStart, ClawStep, PTL DEF ClawSocialSpec

-----------------------------------------------------------------------------
(* What agents write to each other                                          *)

LetterRecord == [to : Peers, id : (0..MaxClock) \X Wordings, key : {0, 1}]

LetterTypes ==
  /\ clock \in 0..MaxClock
  /\ sends \in Seq(LetterRecord)
  /\ sendStage \in [Letter -> {"sending", "waiting", "ended"}]
  /\ answer \in [Letter -> {"open", "acked", "cancelled", "failed"}]
  /\ routed \subseteq Letter
  /\ starts \in [Peers -> Nat \ {0}]
  /\ inHand \in [Peers -> [letter : {0} \cup Letter, acked : BOOLEAN]]

\* The entries of _pending_acks are under the msg_ids of their letters, and without a twin
\* a letter has one exactly as long as its send_message runs.
EntriesOwn == \A id \in DOMAIN pending : pending[id] \in Letter /\ sends[pending[id]].id = id
EntriesWait ==
  \A n \in Letter : ~Twin(n) =>
    (sendStage[n] # "ended" <=> sends[n].id \in DOMAIN pending /\ pending[sends[n].id] = n)

\* A peer handles what is addressed to it.
HandsOwn ==
  \A p \in Peers : /\ inHand[p].letter # 0 => sends[inHand[p].letter].to = p
                   /\ inHand[p].letter = 0 => inHand[p].acked = FALSE

\* What became of a letter that its peer has acknowledged.
Treated(n) ==
  \/ n \in read \cup cut \/ ~CanDecrypt(n)
  \/ inHand[sends[n].to].letter = n /\ inHand[sends[n].to].acked = TRUE

AcksTreated == \A a \in acks : \E n \in Letter : sends[n].id = a.id /\ Treated(n)
AckedTreated == \A n \in Letter : answer[n] = "acked" => Twin(n) \/ Treated(n)

LettersInv == LetterTypes /\ EntriesOwn /\ EntriesWait /\ HandsOwn /\ AcksTreated /\ AckedTreated

LEMMA LettersStart == LettersInit => LettersInv
<1> SUFFICES ASSUME LettersInit PROVE LettersInv
  OBVIOUS
<1>1. Letter = {} /\ DOMAIN pending = {} /\ acks = {}
  BY DEF LettersInit, Letter
<1>2. LetterTypes
  <2>1. sends \in Seq(LetterRecord) /\ sendStage \in [Letter -> {"sending", "waiting", "ended"}]
        /\ answer \in [Letter -> {"open", "acked", "cancelled", "failed"}]
    BY <1>1 DEF LettersInit
  <2>2. inHand \in [Peers -> [letter : {0} \cup Letter, acked : BOOLEAN]]
    BY DEF LettersInit, NoLetter
  <2>3. clock \in 0..MaxClock /\ starts \in [Peers -> Nat \ {0}] /\ routed \subseteq Letter
    BY LettersAssumption DEF LettersInit
  <2> QED
    BY <2>1, <2>2, <2>3 DEF LetterTypes
<1>3. HandsOwn
  BY DEF HandsOwn, LettersInit, NoLetter
<1> QED
  BY <1>1, <1>2, <1>3 DEF LettersInv, EntriesOwn, EntriesWait, AcksTreated, AckedTreated

LEMMA LetterFacts ==
  ASSUME LetterTypes
  PROVE  /\ Letter = 1..Len(sends) /\ Len(sends) \in Nat
         /\ \A n \in Letter : sends[n] \in LetterRecord /\ sends[n].to \in Peers /\ sends[n].key \in {0, 1}
<1>1. Letter = 1..Len(sends) /\ Len(sends) \in Nat /\ \A n \in Letter : sends[n] \in LetterRecord
  BY QueueShape DEF LetterTypes, Letter
<1> QED
  BY <1>1 DEF LetterRecord

LEMMA Lengthened ==
  ASSUME NEW S, NEW m \in Nat, NEW q \in [1..m -> S], NEW x \in S
  PROVE  /\ Append(q, x) \in [1..(m + 1) -> S] /\ Append(q, x)[m + 1] = x
         /\ \A n \in 1..m : Append(q, x)[n] = q[n]
<1>1. q \in Seq(S) /\ Len(q) = m
  BY IsASeq, LenProperties
<1>2. /\ Append(q, x) \in Seq(S) /\ Len(Append(q, x)) = m + 1
      /\ \A n \in 1..m : Append(q, x)[n] = q[n]
      /\ Append(q, x)[m + 1] = x
  BY <1>1, AppendProperties
<1> QED
  BY <1>2, LenProperties

\* Letters stay what they are, and a twin stays one.
LEMMA MoreLetters ==
  ASSUME LetterTypes, NEW peer \in Peers, NEW wording \in Wordings, NEW encrypt \in BOOLEAN,
         SendMessage(peer, wording, encrypt)
  PROVE  \E k \in Nat, id \in (0..MaxClock) \X Wordings :
           /\ k = Len(sends) + 1 /\ k \notin Letter /\ Letter' = Letter \cup {k}
           /\ sends' \in Seq(LetterRecord) /\ \A n \in Letter : sends'[n] = sends[n]
           /\ sends'[k].id = id /\ clock' \in 0..MaxClock
           /\ sendStage' \in [Letter' -> {"sending", "waiting", "ended"}]
           /\ answer' \in [Letter' -> {"open", "acked", "cancelled", "failed"}]
           /\ \A n \in Letter : sendStage'[n] = sendStage[n] /\ answer'[n] = answer[n]
           /\ sendStage'[k] = "sending" /\ answer'[k] = "open"
           /\ pending' = WithEntry(pending, id, k)
<1>0. PICK time \in clock..MaxClock :
        /\ clock' = time
        /\ sends' = Append(sends, [to |-> peer, id |-> <<time, wording>>,
                                   key |-> IF encrypt /\ peer \in KeyHolders THEN 1 ELSE 0])
        /\ sendStage' = Append(sendStage, "sending") /\ answer' = Append(answer, "open")
        /\ pending' = WithEntry(pending, <<time, wording>>, Len(sends'))
  BY DEF SendMessage
<1>1. PICK id :
        /\ id = <<time, wording>> /\ clock' = time
        /\ sends' = Append(sends, [to |-> peer, id |-> id, key |-> IF encrypt /\ peer \in KeyHolders THEN 1 ELSE 0])
        /\ sendStage' = Append(sendStage, "sending") /\ answer' = Append(answer, "open")
        /\ pending' = WithEntry(pending, id, Len(sends'))
  BY <1>0
<1>2. clock \in Nat /\ MaxClock \in Nat /\ time \in 0..MaxClock /\ id \in (0..MaxClock) \X Wordings
  BY <1>1, LettersAssumption DEF LetterTypes
<1>3. PICK rec \in LetterRecord : rec.id = id /\ sends' = Append(sends, rec)
  BY <1>1, <1>2 DEF LetterRecord
<1>4. /\ sends' \in Seq(LetterRecord) /\ DOMAIN sends' = 1..(Len(sends) + 1)
      /\ \A n \in 1..Len(sends) : sends'[n] = sends[n]
      /\ sends'[Len(sends) + 1] = rec /\ Len(sends') = Len(sends) + 1
  BY <1>3, QueueShape, AppendProperties DEF LetterTypes
<1>5. Letter = 1..Len(sends) /\ Len(sends) \in Nat /\ Letter' = 1..(Len(sends) + 1)
  BY <1>4, LetterFacts DEF Letter
<1>6. PICK m \in Nat : m = Len(sends) /\ Letter = 1..m /\ Letter' = 1..(m + 1)
  BY <1>5
<1>7. /\ sendStage' \in [Letter' -> {"sending", "waiting", "ended"}] /\ sendStage'[Len(sends) + 1] = "sending"
      /\ \A n \in Letter : sendStage'[n] = sendStage[n]
  <2>1. PICK S : S = {"sending", "waiting", "ended"}
    OBVIOUS
  <2>2. "sending" \in S
    BY <2>1
  <2>3. PICK q \in [1..m -> S] : q = sendStage
    BY <1>6, <2>1 DEF LetterTypes
  <2>4. Append(q, "sending") \in [1..(m + 1) -> S]
    BY <1>6, <2>2, <2>3, Lengthened
  <2>5. Append(q, "sending")[m + 1] = "sending"
    BY <1>6, <2>2, <2>3, Lengthened
  <2>6. \A n \in 1..m : Append(q, "sending")[n] = q[n]
    BY <1>6, <2>2, <2>3, Lengthened
  <2> QED
    BY <1>1, <1>6, <2>1, <2>3, <2>4, <2>5, <2>6, Zenon
<1>8. /\ answer' \in [Letter' -> {"open", "acked", "cancelled", "failed"}] /\ answer'[Len(sends) + 1] = "open"
      /\ \A n \in Letter : answer'[n] = answer[n]
  <2>1. PICK S : S = {"open", "acked", "cancelled", "failed"}
    OBVIOUS
  <2>2. "open" \in S
    BY <2>1
  <2>3. PICK q \in [1..m -> S] : q = answer
    BY <1>6, <2>1 DEF LetterTypes
  <2>4. Append(q, "open") \in [1..(m + 1) -> S]
    BY <1>6, <2>2, <2>3, Lengthened
  <2>5. Append(q, "open")[m + 1] = "open"
    BY <1>6, <2>2, <2>3, Lengthened
  <2>6. \A n \in 1..m : Append(q, "open")[n] = q[n]
    BY <1>6, <2>2, <2>3, Lengthened
  <2> QED
    BY <1>1, <1>6, <2>1, <2>3, <2>4, <2>5, <2>6, Zenon
<1>9. Len(sends) + 1 \in Nat /\ Len(sends) + 1 \notin Letter /\ Letter' = Letter \cup {Len(sends) + 1}
  BY <1>5
<1> QED
  BY <1>1, <1>2, <1>3, <1>4, <1>5, <1>7, <1>8, <1>9

LEMMA SendKeepsLetters ==
  ASSUME LettersInv, NEW peer \in Peers, NEW wording \in Wordings, NEW encrypt \in BOOLEAN,
         SendMessage(peer, wording, encrypt), UNCHANGED <<routed, acks, peerVars>>
  PROVE  LettersInv'
<1>0. LetterTypes /\ EntriesOwn /\ EntriesWait /\ HandsOwn /\ AcksTreated /\ AckedTreated
      /\ UNCHANGED <<routed, acks, starts, inHand, read, cut>>
  BY DEF LettersInv, peerVars
<1>1. PICK k \in Nat, id \in (0..MaxClock) \X Wordings :
        /\ k = Len(sends) + 1 /\ k \notin Letter /\ Letter' = Letter \cup {k}
        /\ sends' \in Seq(LetterRecord) /\ \A n \in Letter : sends'[n] = sends[n]
        /\ sends'[k].id = id /\ clock' \in 0..MaxClock
        /\ sendStage' \in [Letter' -> {"sending", "waiting", "ended"}]
        /\ answer' \in [Letter' -> {"open", "acked", "cancelled", "failed"}]
        /\ \A n \in Letter : sendStage'[n] = sendStage[n] /\ answer'[n] = answer[n]
        /\ sendStage'[k] = "sending" /\ answer'[k] = "open"
        /\ pending' = WithEntry(pending, id, k)
  BY <1>0, MoreLetters
<1>2. /\ DOMAIN pending' = DOMAIN pending \cup {id} /\ pending'[id] = k
      /\ \A d \in DOMAIN pending \ {id} : pending'[d] = pending[d]
  BY <1>1 DEF WithEntry
<1>3. \A n \in Letter : Twin(n) => Twin(n)'
  BY <1>1 DEF Twin
<1>4. \A n \in Letter : Treated(n) => Treated(n)'
  BY <1>0, <1>1 DEF Treated, CanDecrypt
<1>5. LetterTypes'
  <2>1. inHand' \in [Peers -> [letter : {0} \cup Letter', acked : BOOLEAN]]
    <3>1. inHand \in [Peers -> [letter : {0} \cup Letter, acked : BOOLEAN]]
      BY <1>0 DEF LetterTypes
    <3>2. \A p \in Peers : inHand[p] \in [letter : {0} \cup Letter', acked : BOOLEAN]
      BY <1>1, <3>1
    <3> QED
      BY <1>0, <3>1, <3>2
  <2>2. routed' \subseteq Letter' /\ starts' \in [Peers -> Nat \ {0}]
    BY <1>0, <1>1 DEF LetterTypes
  <2> QED
    BY <1>1, <2>1, <2>2 DEF LetterTypes
<1>6. EntriesOwn'
  BY <1>0, <1>1, <1>2 DEF EntriesOwn
<1>7. EntriesWait'
  <2> SUFFICES ASSUME NEW n \in Letter', ~Twin(n)'
               PROVE  sendStage'[n] # "ended" <=> sends'[n].id \in DOMAIN pending' /\ pending'[sends'[n].id] = n
    BY DEF EntriesWait
  <2>1. CASE n = k
    BY <1>1, <1>2, <2>1
  <2>2. CASE n \in Letter
    <3>1. ~Twin(n)
      BY <1>3, <2>2
    <3>2. sends[n].id # id
      BY <1>1, <2>2 DEF Twin
    <3> QED
      BY <1>0, <1>1, <1>2, <2>2, <3>1, <3>2 DEF EntriesWait
  <2> QED
    BY <1>1, <2>1, <2>2
<1>8. HandsOwn'
  BY <1>0, <1>1 DEF HandsOwn, LetterTypes
<1>9. AcksTreated' /\ AckedTreated'
  BY <1>0, <1>1, <1>3, <1>4 DEF AcksTreated, AckedTreated
<1> QED
  BY <1>5, <1>6, <1>7, <1>8, <1>9 DEF LettersInv

\* What a step of a call that runs already has to show.
LEMMA CallKeepsLetters ==
  ASSUME LettersInv, NEW n \in Letter, UNCHANGED <<clock, sends, routed, acks, peerVars>>,
         NEW after \in {"sending", "waiting", "ended"}, NEW told \in {"open", "acked", "cancelled", "failed"},
         sendStage' = [sendStage EXCEPT ![n] = after], answer' = [answer EXCEPT ![n] = told],
         told = "acked" => answer[n] = "acked" \/ Twin(n) \/ Treated(n),
         \/ pending' = pending /\ after # "ended" /\ sendStage[n] # "ended"
         \/ pending' = pending /\ after = sendStage[n]
         \/ DropEntry(n) /\ after = "ended"
  PROVE  LettersInv'
<1>0. LetterTypes /\ EntriesOwn /\ EntriesWait /\ HandsOwn /\ AcksTreated /\ AckedTreated
      /\ UNCHANGED <<sends, routed, acks, starts, inHand, read, cut>> /\ Letter' = Letter
  BY DEF LettersInv, peerVars, Letter
<1>1. \A m \in Letter : Twin(m)' <=> Twin(m)
  BY <1>0 DEF Twin
<1>2. \A m \in Letter : Treated(m)' <=> Treated(m)
  BY <1>0 DEF Treated, CanDecrypt
<1>3. LetterTypes'
  BY <1>0 DEF LetterTypes
<1>4. /\ DOMAIN pending' \subseteq DOMAIN pending /\ \A d \in DOMAIN pending' : pending'[d] = pending[d]
      /\ \A d \in DOMAIN pending : d # sends[n].id => d \in DOMAIN pending'
  BY DEF DropEntry, Restrict
<1>5. EntriesOwn'
  BY <1>0, <1>4 DEF EntriesOwn
<1>6. EntriesWait'
  <2> SUFFICES ASSUME NEW m \in Letter, ~Twin(m)
               PROVE  sendStage'[m] # "ended" <=> sends[m].id \in DOMAIN pending' /\ pending'[sends[m].id] = m
    BY <1>0, <1>1 DEF EntriesWait
  <2>1. sendStage[m] # "ended" <=> sends[m].id \in DOMAIN pending /\ pending[sends[m].id] = m
    BY <1>0 DEF EntriesWait
  <2>2. CASE m # n
    <3>1. sends[m].id # sends[n].id
      BY <2>2 DEF Twin
    <3>2. sendStage'[m] = sendStage[m]
      BY <1>0, <2>2 DEF LetterTypes
    <3> QED
      BY <1>4, <2>1, <3>1, <3>2
  <2>3. CASE m = n
    <3>1. sendStage'[m] = after
      BY <1>0, <2>3 DEF LetterTypes
    <3>2. CASE pending' = pending /\ after # "ended" /\ sendStage[n] # "ended"
      BY <2>1, <2>3, <3>1, <3>2
    <3>4. CASE pending' = pending /\ after = sendStage[n]
      BY <2>1, <2>3, <3>1, <3>4
    <3>3. CASE DropEntry(n) /\ after = "ended"
      BY <2>3, <3>1, <3>3 DEF DropEntry, Restrict
    <3> QED
      BY <3>2, <3>3, <3>4
  <2> QED
    BY <2>2, <2>3
<1>7. HandsOwn'
  BY <1>0 DEF HandsOwn
<1>8. AcksTreated'
  BY <1>0, <1>2 DEF AcksTreated
<1>9. AckedTreated'
  <2> SUFFICES ASSUME NEW m \in Letter, answer'[m] = "acked" PROVE Twin(m) \/ Treated(m)
    BY <1>0, <1>1, <1>2 DEF AckedTreated
  <2>1. m # n => answer[m] = "acked"
    BY <1>0 DEF LetterTypes
  <2>2. m = n => told = "acked"
    BY <1>0 DEF LetterTypes
  <2> QED
    BY <1>0, <2>1, <2>2 DEF AckedTreated
<1> QED
  BY <1>3, <1>5, <1>6, <1>7, <1>8, <1>9 DEF LettersInv

\* What a step of a peer or of the router has to show.
LEMMA PeerKeepsLetters ==
  ASSUME LettersInv, UNCHANGED senderVars, LetterTypes', HandsOwn',
         \A n \in Letter : Treated(n) => Treated(n)', AcksTreated'
  PROVE  LettersInv'
<1>1. UNCHANGED <<sends, sendStage, answer, pending>> /\ Letter' = Letter
  BY DEF senderVars, Letter
<1>2. \A n \in Letter : Twin(n)' <=> Twin(n)
  BY <1>1 DEF Twin
<1>3. EntriesOwn' /\ EntriesWait'
  BY <1>1, <1>2 DEF LettersInv, EntriesOwn, EntriesWait
<1>4. AckedTreated'
  BY <1>1, <1>2 DEF LettersInv, AckedTreated
<1> QED
  BY <1>3, <1>4 DEF LettersInv

\* A peer whose receive loop takes up or lays down a letter that it has not acknowledged.
LEMMA HandKeepsLetters ==
  ASSUME LettersInv, UNCHANGED <<senderVars, routed, acks, starts, read, cut>>,
         NEW p \in Peers, ~inHand[p].acked, NEW n \in {0} \cup Letter, n # 0 => sends[n].to = p,
         inHand' = [inHand EXCEPT ![p] = [letter |-> n, acked |-> FALSE]]
  PROVE  LettersInv'
<1>0. LetterTypes /\ HandsOwn /\ AcksTreated
      /\ UNCHANGED <<clock, sends, sendStage, answer, pending, routed, acks, starts, read, cut>>
      /\ Letter' = Letter
  BY DEF LettersInv, senderVars, Letter
<1>1. inHand[p].acked = FALSE
  BY <1>0 DEF LetterTypes
<1>2. /\ inHand' \in [Peers -> [letter : {0} \cup Letter, acked : BOOLEAN]]
      /\ inHand'[p] = [letter |-> n, acked |-> FALSE]
      /\ \A q \in Peers \ {p} : inHand'[q] = inHand[q]
  <2>1. [letter |-> n, acked |-> FALSE] \in [letter : {0} \cup Letter, acked : BOOLEAN]
    OBVIOUS
  <2> QED
    BY <1>0, <2>1 DEF LetterTypes
<1>3. LetterTypes'
  BY <1>0, <1>2 DEF LetterTypes
<1>4. HandsOwn'
  BY <1>0, <1>2 DEF HandsOwn
<1>5. \A m \in Letter : Treated(m) => Treated(m)'
  <2> SUFFICES ASSUME NEW m \in Letter, Treated(m) PROVE Treated(m)'
    OBVIOUS
  <2>1. CanDecrypt(m)' <=> CanDecrypt(m)
    BY <1>0 DEF CanDecrypt
  <2>2. sends[m].to \in Peers
    BY <1>0, LetterFacts
  <2> QED
    BY <1>0, <1>1, <1>2, <2>1, <2>2 DEF Treated
<1>6. AcksTreated'
  BY <1>0, <1>5 DEF AcksTreated
<1> QED
  BY <1>3, <1>4, <1>5, <1>6, PeerKeepsLetters

LEMMA SenderKeepsLetters ==
  ASSUME LettersInv, SenderStep
  PROVE  LettersInv'
<1>0. LetterTypes /\ EntriesOwn /\ AcksTreated /\ UNCHANGED <<routed, acks, peerVars>>
  BY DEF LettersInv, SenderStep
<1>1. ASSUME NEW peer \in Peers, NEW wording \in Wordings, NEW encrypt \in BOOLEAN,
             SendMessage(peer, wording, encrypt)
      PROVE  LettersInv'
  BY <1>0, <1>1, SendKeepsLetters
<1>2. ASSUME NEW n \in Letter, Sent(n) \/ TimesOut(n) \/ SendFails(n) \/ Returns(n)
      PROVE  LettersInv'
  <2>1. /\ sendStage[n] \in {"sending", "waiting", "ended"} /\ sendStage = [sendStage EXCEPT ![n] = sendStage[n]]
        /\ answer[n] \in {"open", "acked", "cancelled", "failed"} /\ answer = [answer EXCEPT ![n] = answer[n]]
    BY <1>0 DEF LetterTypes
  <2>2. CASE Sent(n)
    <3>1. /\ sendStage' = [sendStage EXCEPT ![n] = "waiting"] /\ answer' = [answer EXCEPT ![n] = answer[n]]
          /\ pending' = pending /\ sendStage[n] # "ended" /\ UNCHANGED <<clock, sends>>
      BY <2>1, <2>2 DEF Sent
    <3>2. PICK told \in {"open", "acked", "cancelled", "failed"} : told = answer[n]
      BY <2>1
    <3> QED
      BY <1>0, <3>1, <3>2, CallKeepsLetters
  <2>3. CASE TimesOut(n)
    <3>1. /\ answer' = [answer EXCEPT ![n] = "cancelled"] /\ sendStage' = [sendStage EXCEPT ![n] = sendStage[n]]
          /\ pending' = pending /\ UNCHANGED <<clock, sends>>
      BY <2>1, <2>3 DEF TimesOut
    <3>2. PICK after \in {"sending", "waiting", "ended"} : after = sendStage[n]
      BY <2>1
    <3> QED
      BY <1>0, <3>1, <3>2, CallKeepsLetters
  <2>4. CASE SendFails(n)
    <3>1. /\ sendStage' = [sendStage EXCEPT ![n] = "ended"] /\ answer' = [answer EXCEPT ![n] = "failed"]
          /\ DropEntry(n) /\ UNCHANGED <<clock, sends>>
      BY <2>4 DEF SendFails
    <3> QED
      BY <1>0, <3>1, CallKeepsLetters
  <2>5. CASE Returns(n)
    <3>1. /\ sendStage' = [sendStage EXCEPT ![n] = "ended"] /\ answer' = [answer EXCEPT ![n] = answer[n]]
          /\ DropEntry(n) /\ UNCHANGED <<clock, sends>>
      BY <2>1, <2>5 DEF Returns
    <3>2. PICK told \in {"open", "acked", "cancelled", "failed"} : told = answer[n]
      BY <2>1
    <3> QED
      BY <1>0, <3>1, <3>2, CallKeepsLetters
  <2> QED
    BY <1>2, <2>2, <2>3, <2>4, <2>5
<1>3. ASSUME NEW a \in acks, AckComes(a) PROVE LettersInv'
  <2>1. PICK n : n = pending[a.id]
    OBVIOUS
  <2>2. /\ a.id \in DOMAIN pending /\ answer' = [answer EXCEPT ![n] = "acked"]
        /\ UNCHANGED <<clock, sends, sendStage, pending>>
    BY <1>3, <2>1 DEF AckComes
  <2>3. n \in Letter /\ sends[n].id = a.id
    BY <1>0, <2>1, <2>2 DEF EntriesOwn
  <2>4. Twin(n) \/ Treated(n)
    <3>1. PICK m \in Letter : sends[m].id = a.id /\ Treated(m)
      BY <1>0 DEF AcksTreated
    <3> QED
      BY <2>3, <3>1 DEF Twin
  <2>5. PICK after \in {"sending", "waiting", "ended"} : after = sendStage[n]
    BY <1>0, <2>3 DEF LetterTypes
  <2>6. sendStage' = [sendStage EXCEPT ![n] = after]
    BY <1>0, <2>2, <2>5 DEF LetterTypes
  <2> QED
    BY <1>0, <2>2, <2>3, <2>4, <2>5, <2>6, CallKeepsLetters
<1> QED
  BY <1>1, <1>2, <1>3 DEF SenderStep

LEMMA PeersKeepLetters ==
  ASSUME LettersInv, NEW p \in Peers,
         \/ AckDeparts(p) \/ Handled(p) \/ AckFails(p) \/ PeerRestarts(p)
         \/ \E n \in routed : TakeLetter(p, n)
  PROVE  LettersInv'
<1>0. LetterTypes /\ HandsOwn /\ AcksTreated /\ (UNCHANGED senderVars => Letter' = Letter)
  BY DEF LettersInv, senderVars, Letter
<1>1. PICK n \in {0} \cup Letter : n = inHand[p].letter
  BY <1>0 DEF LetterTypes
<1>2. /\ inHand[p] = [letter |-> n, acked |-> inHand[p].acked] /\ inHand[p].acked \in BOOLEAN
      /\ n # 0 => n \in Letter /\ sends[n].to = p
      /\ inHand[p].acked = TRUE => n # 0
  BY <1>0, <1>1 DEF LetterTypes, HandsOwn
<1>3. ASSUME NEW m \in routed, TakeLetter(p, m) PROVE LettersInv'
  <2>1. /\ m \in {0} \cup Letter /\ sends[m].to = p /\ ~inHand[p].acked
        /\ inHand' = [inHand EXCEPT ![p] = [letter |-> m, acked |-> FALSE]]
        /\ UNCHANGED <<senderVars, routed, acks, starts, read, cut>>
    BY <1>0, <1>3 DEF TakeLetter, NoLetter, LetterTypes
  <2> QED
    BY <2>1, HandKeepsLetters
<1>4. CASE AckFails(p)
  <2>1. /\ ~inHand[p].acked /\ inHand' = [inHand EXCEPT ![p] = [letter |-> 0, acked |-> FALSE]]
        /\ UNCHANGED <<senderVars, routed, acks, starts, read, cut>>
    BY <1>4 DEF AckFails, NoLetter
  <2> QED
    BY <2>1, HandKeepsLetters
<1>5. CASE AckDeparts(p)
  <2>1. /\ acks' = acks \cup {[id |-> sends[n].id, from |-> p]}
        /\ inHand' = [inHand EXCEPT ![p].acked = TRUE] /\ n # 0
        /\ UNCHANGED <<senderVars, routed, starts, read, cut>>
    <3>1. inHand[p] # NoLetter /\ ~inHand[p].acked
      BY <1>5 DEF AckDeparts
    <3>2. n # 0
      BY <1>2, <3>1, Zenon DEF NoLetter
    <3> QED
      BY <1>1, <1>5, <3>2 DEF AckDeparts
  <2>2. /\ inHand' \in [Peers -> [letter : {0} \cup Letter, acked : BOOLEAN]]
        /\ inHand'[p].letter = n /\ inHand'[p].acked = TRUE
        /\ \A q \in Peers \ {p} : inHand'[q] = inHand[q]
    BY <1>0, <1>1, <2>1 DEF LetterTypes
  <2>3. LetterTypes' /\ Letter' = Letter
    BY <1>0, <2>1, <2>2 DEF LetterTypes, senderVars
  <2>4. HandsOwn'
    BY <1>0, <1>2, <2>1, <2>2 DEF HandsOwn, senderVars
  <2>5. \A m \in Letter : Treated(m) => Treated(m)'
    <3> SUFFICES ASSUME NEW m \in Letter, Treated(m) PROVE Treated(m)'
      OBVIOUS
    <3>1. (CanDecrypt(m)' <=> CanDecrypt(m)) /\ sends' = sends
      BY <2>1 DEF CanDecrypt, senderVars
    <3>2. sends[m].to \in Peers
      BY <1>0, LetterFacts
    <3> QED
      BY <1>1, <2>1, <2>2, <3>1, <3>2 DEF Treated
  <2>6. n \in Letter /\ Treated(n)' /\ sends' = sends
    BY <1>2, <2>1, <2>2 DEF Treated, senderVars
  <2>7. AcksTreated'
    <3> SUFFICES ASSUME NEW a \in acks' PROVE \E m \in Letter : sends[m].id = a.id /\ Treated(m)'
      BY <2>3, <2>6 DEF AcksTreated
    <3>1. CASE a \in acks
      BY <1>0, <2>5, <3>1 DEF AcksTreated
    <3>2. CASE a = [id |-> sends[n].id, from |-> p]
      BY <2>6, <3>2
    <3> QED
      BY <2>1, <3>1, <3>2
  <2> QED
    BY <2>1, <2>3, <2>4, <2>5, <2>7, PeerKeepsLetters
<1>6. CASE Handled(p)
  <2>1. /\ inHand[p].acked = TRUE /\ inHand' = [inHand EXCEPT ![p] = [letter |-> 0, acked |-> FALSE]]
        /\ read' = IF CanDecrypt(n) THEN read \cup {n} ELSE read
        /\ UNCHANGED <<senderVars, routed, acks, starts, cut>>
    BY <1>1, <1>2, <1>6, Zenon DEF Handled, NoLetter
  <2>2. \A m \in Letter : Treated(m) => Treated(m)'
    <3> SUFFICES ASSUME NEW m \in Letter, Treated(m) PROVE Treated(m)'
      OBVIOUS
    <3>1. (CanDecrypt(m)' <=> CanDecrypt(m)) /\ sends' = sends
      BY <2>1 DEF CanDecrypt, senderVars
    <3>2. sends[m].to \in Peers
      BY <1>0, LetterFacts
    <3>3. CASE sends[m].to = p /\ m = n
      BY <2>1, <3>1, <3>3 DEF Treated
    <3>4. CASE sends[m].to = p /\ m # n
      BY <1>1, <2>1, <3>1, <3>4 DEF Treated
    <3>5. CASE sends[m].to # p
      <4>1. inHand'[sends[m].to] = inHand[sends[m].to]
        BY <1>0, <2>1, <3>2, <3>5 DEF LetterTypes
      <4> QED
        BY <2>1, <3>1, <4>1 DEF Treated
    <3> QED
      BY <3>3, <3>4, <3>5
  <2>3. /\ inHand' \in [Peers -> [letter : {0} \cup Letter, acked : BOOLEAN]]
        /\ inHand'[p] = [letter |-> 0, acked |-> FALSE]
        /\ \A q \in Peers \ {p} : inHand'[q] = inHand[q]
    BY <1>0, <2>1 DEF LetterTypes
  <2>4. LetterTypes' /\ Letter' = Letter
    BY <1>0, <2>1, <2>3 DEF LetterTypes, senderVars
  <2>5. HandsOwn'
    BY <1>0, <2>1, <2>3 DEF HandsOwn, senderVars
  <2>6. AcksTreated'
    BY <1>0, <2>1, <2>2, <2>4 DEF AcksTreated, senderVars
  <2> QED
    BY <2>1, <2>2, <2>4, <2>5, <2>6, PeerKeepsLetters
<1>7. CASE PeerRestarts(p)
  <2>1. /\ starts' = [starts EXCEPT ![p] = @ + 1]
        /\ inHand' = [inHand EXCEPT ![p] = [letter |-> 0, acked |-> FALSE]]
        /\ cut' = IF inHand[p].acked THEN cut \cup {n} ELSE cut
        /\ UNCHANGED <<senderVars, routed, acks, read>>
    BY <1>1, <1>7 DEF PeerRestarts, NoLetter
  <2>2. \A m \in Letter : ~CanDecrypt(m) => ~CanDecrypt(m)'
    <3> SUFFICES ASSUME NEW m \in Letter, ~CanDecrypt(m) PROVE ~CanDecrypt(m)'
      OBVIOUS
    <3>1. /\ sends[m].key \in {0, 1} /\ sends[m].to \in Peers /\ sends' = sends
          /\ starts[sends[m].to] \in Nat \ {0}
      BY <1>0, <2>1, LetterFacts DEF LetterTypes, senderVars
    <3>2. starts'[sends[m].to] \in {starts[sends[m].to], starts[sends[m].to] + 1}
      BY <1>0, <2>1, <3>1 DEF LetterTypes
    <3> QED
      BY <3>1, <3>2 DEF CanDecrypt
  <2>3. \A m \in Letter : Treated(m) => Treated(m)'
    <3> SUFFICES ASSUME NEW m \in Letter, Treated(m) PROVE Treated(m)'
      OBVIOUS
    <3>1. (~CanDecrypt(m) => ~CanDecrypt(m)') /\ sends' = sends
      BY <2>1, <2>2 DEF senderVars
    <3>2. sends[m].to \in Peers
      BY <1>0, LetterFacts
    <3>3. CASE sends[m].to = p
      <4>1. cut \subseteq cut'
        BY <2>1
      <4>2. inHand[p].letter = m /\ inHand[p].acked = TRUE => m \in cut'
        BY <1>1, <2>1
      <4> QED
        BY <2>1, <3>1, <3>3, <4>1, <4>2 DEF Treated
    <3>4. CASE sends[m].to # p
      <4>1. inHand'[sends[m].to] = inHand[sends[m].to]
        BY <1>0, <2>1, <3>2, <3>4 DEF LetterTypes
      <4> QED
        BY <2>1, <3>1, <4>1 DEF Treated
    <3> QED
      BY <3>3, <3>4
  <2>4. /\ inHand' \in [Peers -> [letter : {0} \cup Letter, acked : BOOLEAN]]
        /\ inHand'[p] = [letter |-> 0, acked |-> FALSE]
        /\ \A q \in Peers \ {p} : inHand'[q] = inHand[q]
    BY <1>0, <2>1 DEF LetterTypes
  <2>5. starts' \in [Peers -> Nat \ {0}]
    <3>1. starts[p] + 1 \in Nat \ {0}
      BY <1>0 DEF LetterTypes
    <3> QED
      BY <1>0, <2>1, <3>1 DEF LetterTypes
  <2>6. LetterTypes' /\ Letter' = Letter
    BY <1>0, <2>1, <2>4, <2>5 DEF LetterTypes, senderVars
  <2>7. HandsOwn'
    BY <1>0, <2>1, <2>4 DEF HandsOwn, senderVars
  <2>8. AcksTreated'
    BY <1>0, <2>1, <2>3, <2>6 DEF AcksTreated, senderVars
  <2> QED
    BY <2>1, <2>3, <2>6, <2>7, <2>8, PeerKeepsLetters
<1> QED
  BY <1>3, <1>4, <1>5, <1>6, <1>7

LEMMA LettersStep ==
  ASSUME LettersInv, [LettersNext]_letterVars
  PROVE  LettersInv'
<1>1. CASE UNCHANGED letterVars
  <2>1. UNCHANGED <<senderVars, routed, acks, starts, inHand, read, cut>> /\ Letter' = Letter
    BY <1>1 DEF letterVars, senderVars, Letter
  <2>2. LetterTypes' /\ HandsOwn' /\ AcksTreated' /\ \A n \in Letter : Treated(n) => Treated(n)'
    BY <2>1 DEF LettersInv, senderVars, LetterTypes, HandsOwn, AcksTreated, Treated, CanDecrypt
  <2> QED
    BY <2>1, <2>2, PeerKeepsLetters
<1>2. CASE SenderStep
  BY <1>2, SenderKeepsLetters
<1>3. ASSUME NEW n \in Letter, Departs(n) PROVE LettersInv'
  <2>1. UNCHANGED <<senderVars, acks, starts, inHand, read, cut>> /\ Letter' = Letter /\ routed' = routed \cup {n}
    BY <1>3 DEF Departs, senderVars, peerVars, Letter
  <2>2. LetterTypes'
    BY <1>3, <2>1 DEF LettersInv, senderVars, LetterTypes
  <2>3. HandsOwn' /\ AcksTreated' /\ \A m \in Letter : Treated(m) => Treated(m)'
    BY <2>1 DEF LettersInv, senderVars, HandsOwn, AcksTreated, Treated, CanDecrypt
  <2> QED
    BY <2>1, <2>2, <2>3, PeerKeepsLetters
<1>4. ASSUME NEW p \in Peers,
             \/ AckDeparts(p) \/ Handled(p) \/ AckFails(p) \/ PeerRestarts(p)
             \/ \E n \in routed : TakeLetter(p, n)
      PROVE  LettersInv'
  BY <1>4, PeersKeepLetters
<1> QED
  BY <1>1, <1>2, <1>3, <1>4 DEF LettersNext

\* What agents write to each other (clawsocial/scripts, websocket_client.py): an
\* acknowledged letter was read or is about to be, and an acknowledgement can reach exactly
\* the calls that wait for one, whatever is lost, late, repeated or timed out; but for
\* letters with one msg_id, lost keys and receive loops that were cancelled.
THEOREM LettersArrive == LettersSpec => []LettersKept
<1>1. LettersInv => LettersKept
  <2> SUFFICES ASSUME LettersInv PROVE AckedIsRead /\ WaitersAreReached
    BY DEF LettersKept
  <2>1. AckedIsRead
    BY DEF LettersInv, AckedTreated, Treated, AckedIsRead
  <2>2. WaitersAreReached
    <3> SUFFICES ASSUME NEW n \in Letter, ~Twin(n)
                 PROVE  sendStage[n] # "ended" <=> \E id \in DOMAIN pending : pending[id] = n
      BY DEF WaitersAreReached
    <3>1. \A id \in DOMAIN pending : pending[id] = n => id = sends[n].id
      BY DEF LettersInv, EntriesOwn
    <3> QED
      BY <3>1 DEF LettersInv, EntriesWait
  <2> QED
    BY <2>1, <2>2
<1>2. LettersInv /\ [LettersNext]_letterVars => LettersInv'
  BY LettersStep
<1> QED
  BY <1>1, <1>2, LettersStart, PTL DEF LettersSpec

\* The two together: what the client of the ClawSocial network promises.
THEOREM AgentsStayReached == ClawSocialSpec /\ LettersSpec => []AgentsReached
BY OneConnection, LettersArrive, PTL DEF AgentsReached

-----------------------------------------------------------------------------
(* Typing indicators *)

TaskTypes ==
  /\ roomOf \in Seq(Rooms) /\ live \subseteq DOMAIN roomOf /\ cancelled \subseteq DOMAIN roomOf
  /\ registered \in [Rooms -> {0} \cup DOMAIN roomOf] /\ quiet \subseteq Rooms

RunningOn == live \ cancelled

\* A task that runs on is the one of its room, which waits for an answer.
TasksKnown == \A t \in RunningOn : registered[roomOf[t]] = t /\ roomOf[t] \notin quiet

\* The room of a message that is being handled waits for an answer; Matrix has cancelled
\* its old task before the new one is made.
HandlerFits ==
  /\ hearing.at # "idle" => hearing.room \in Rooms /\ hearing.room \notin quiet
  /\ hearing.at \in {"renew", "notify"} => registered[hearing.room] = 0
  /\ replying.at # "idle" => replying.room \in Rooms
  /\ syncLoop # "on" => hearing = Idle

\* Once stop() has begun no task of Matrix is made; those that run on are of the rooms
\* that it has yet to close.
ClosingFits ==
  platform = "matrix" =>
    /\ closing.at \in {"idle", "rooms", "sync", "over"}
    /\ closing.at # "idle" => ~isRunning
    /\ closing.at = "rooms" => \A t \in RunningOn : roomOf[t] \in toClose
    /\ closing.at \in {"sync", "over"} => RunningOn = {}
    /\ closing.at = "over" => syncLoop = "over"

TypingInv == TaskTypes /\ TasksKnown /\ HandlerFits /\ ClosingFits

LEMMA TaskFacts ==
  ASSUME TaskTypes
  PROVE  /\ Len(roomOf) \in Nat /\ DOMAIN roomOf = 1..Len(roomOf)
         /\ \A t \in DOMAIN roomOf : roomOf[t] \in Rooms
         /\ \A r \in Rooms : registered[r] \in {0} \cup DOMAIN roomOf
BY QueueShape DEF TaskTypes

LEMMA TaskCancelled ==
  ASSUME TaskTypes, TasksKnown, NEW room \in Rooms, Cancel(room), quiet' \subseteq quiet \cup {room}
  PROVE  /\ TaskTypes' /\ TasksKnown' /\ roomOf' = roomOf
         /\ \A r \in Rooms : registered'[r] = registered[r] \/ registered'[r] = 0
         /\ RunningOn' \subseteq RunningOn /\ \A t \in RunningOn' : roomOf[t] # room
<1>1. /\ cancelled' = cancelled \cup ({registered[room]} \ {0}) /\ roomOf' = roomOf /\ live' = live
      /\ registered' = [registered EXCEPT ![room] = 0]
  BY DEF Cancel
<1>2. TaskTypes'
  BY <1>1, TaskFacts DEF TaskTypes
<1>3. RunningOn' \subseteq RunningOn
  BY <1>1 DEF RunningOn
<1>4. \A t \in RunningOn' : roomOf[t] # room
  BY <1>1, <1>3, TaskFacts DEF TasksKnown, RunningOn, TaskTypes
<1>5. \A r \in Rooms : registered'[r] = IF r = room THEN 0 ELSE registered[r]
  BY <1>1 DEF TaskTypes
<1>6. ASSUME NEW t \in RunningOn' PROVE registered'[roomOf'[t]] = t /\ roomOf'[t] \notin quiet'
  <2>1. t \in RunningOn /\ roomOf[t] \in Rooms /\ roomOf[t] # room
    BY <1>3, <1>4, TaskFacts DEF RunningOn, TaskTypes
  <2> QED
    BY <1>1, <1>5, <2>1 DEF TasksKnown
<1> QED
  BY <1>1, <1>2, <1>3, <1>4, <1>5, <1>6 DEF TasksKnown

LEMMA TaskCreated ==
  ASSUME TaskTypes, TasksKnown, NEW room \in Rooms, room \notin quiet, Create(room), quiet' = quiet,
         cancelled' = cancelled \cup ({registered[room]} \ {0}) \/ (cancelled' = cancelled /\ registered[room] = 0)
  PROVE  /\ TaskTypes' /\ TasksKnown'
         /\ \A r \in Rooms \ {room} : registered'[r] = registered[r]
<1>0. PICK n \in Nat : n = Len(roomOf) + 1
  BY TaskFacts
<1>1. /\ roomOf' = Append(roomOf, room) /\ roomOf' \in Seq(Rooms) /\ DOMAIN roomOf' = 1..n /\ Len(roomOf') = n
      /\ roomOf'[n] = room /\ \A t \in DOMAIN roomOf : roomOf'[t] = roomOf[t]
  <2>1. roomOf \in Seq(Rooms) /\ roomOf' = Append(roomOf, room)
    BY DEF Create, TaskTypes
  <2>2. Len(Append(roomOf, room)) = Len(roomOf) + 1
    BY <2>1, AppendProperties
  <2> QED
    BY <1>0, <2>1, <2>2, QueueShape
<1>2. live' = live \cup {n} /\ registered' = [registered EXCEPT ![room] = n]
  BY <1>1 DEF Create
<1>3. n \notin DOMAIN roomOf /\ n \in DOMAIN roomOf' /\ DOMAIN roomOf \subseteq DOMAIN roomOf'
  BY <1>0, <1>1, TaskFacts
<1>4. cancelled' \subseteq DOMAIN roomOf /\ cancelled \subseteq cancelled'
  BY TaskFacts DEF TaskTypes
<1>5. TaskTypes'
  BY <1>1, <1>2, <1>3, <1>4 DEF TaskTypes
<1>6. \A r \in Rooms : registered'[r] = IF r = room THEN n ELSE registered[r]
  BY <1>2 DEF TaskTypes
<1>7. ASSUME NEW t \in RunningOn' PROVE registered'[roomOf'[t]] = t /\ roomOf'[t] \notin quiet'
  <2>1. CASE t = n
    BY <1>1, <1>6, <2>1
  <2>2. CASE t # n
    <3>1. t \in RunningOn /\ t \in DOMAIN roomOf
      BY <1>2, <1>4, <2>2 DEF RunningOn, TaskTypes
    <3>2. registered[roomOf[t]] = t /\ roomOf[t] \notin quiet /\ roomOf[t] \in Rooms
      BY <3>1, TaskFacts DEF TasksKnown
    <3>3. t # 0 /\ t \notin cancelled'
      BY <3>1, TaskFacts DEF RunningOn
    <3>4. roomOf[t] # room
      BY <3>2, <3>3
    <3> QED
      BY <1>1, <1>6, <3>1, <3>2, <3>4
  <2> QED
    BY <2>1, <2>2
<1> QED
  BY <1>5, <1>6, <1>7 DEF TasksKnown

LEMMA TypingStart == TypingInit => TypingInv
<1> SUFFICES ASSUME TypingInit PROVE TypingInv
  OBVIOUS
<1>1. /\ roomOf = <<>> /\ live = {} /\ cancelled = {} /\ registered = [r \in Rooms |-> 0] /\ quiet = {}
      /\ hearing = Idle /\ replying = Idle /\ closing = Idle /\ syncLoop = "on" /\ isRunning = TRUE
  BY DEF TypingInit
<1>2. <<>> \in Seq(Rooms) /\ Idle.at = "idle"
  BY DEF Idle
<1>3. TaskTypes /\ RunningOn = {}
  BY <1>1, <1>2 DEF TaskTypes, RunningOn
<1> QED
  BY <1>1, <1>2, <1>3 DEF TypingInv, TasksKnown, HandlerFits, ClosingFits

LEMMA HandlerKeepsTyping ==
  ASSUME TypingInv,
         \/ \E room \in Rooms, mentioned \in BOOLEAN : HearIn(room, mentioned)
         \/ DiscordPasses \/ MatrixRenews \/ MatrixNotifies \/ MatrixPasses
  PROVE  TypingInv'
<1>0. /\ TaskTypes /\ TasksKnown /\ HandlerFits /\ ClosingFits
      /\ UNCHANGED <<fixedVars, stopVars, syncLoop, replying>>
  BY DEF TypingInv, HearIn, DiscordPasses, MatrixRenews, MatrixNotifies, MatrixPasses
<1>1. ASSUME NEW room \in Rooms, NEW mentioned \in BOOLEAN, HearIn(room, mentioned)
      PROVE  TypingInv'
  <2>1. /\ syncLoop = "on" /\ hearing' = At("fetch", room, 0) /\ quiet' = quiet \ {room}
        /\ UNCHANGED <<fixedVars, stopVars, syncLoop, taskVars, replying>>
    BY <1>1 DEF HearIn
  <2>2. hearing'.at = "fetch" /\ hearing'.room = room
    BY <2>1 DEF At
  <2>3. TaskTypes' /\ TasksKnown' /\ RunningOn' = RunningOn
    BY <1>0, <2>1 DEF TaskTypes, TasksKnown, RunningOn, taskVars
  <2>4. HandlerFits'
    BY <1>0, <2>1, <2>2 DEF HandlerFits
  <2>5. ClosingFits'
    BY <1>0, <2>1, <2>3 DEF ClosingFits, fixedVars, stopVars, taskVars
  <2> QED
    BY <2>3, <2>4, <2>5 DEF TypingInv
<1>2. CASE DiscordPasses
  <2>1. /\ platform = "discord" /\ hearing.at = "fetch" /\ StartTyping(hearing.room) /\ hearing' = Idle
        /\ UNCHANGED <<fixedVars, stopVars, syncLoop, replying, quiet>>
    BY <1>2 DEF DiscordPasses
  <2>2. PICK room \in Rooms : room = hearing.room /\ room \notin quiet
    BY <1>0, <2>1 DEF HandlerFits
  <2>3. Create(room) /\ cancelled' = cancelled \cup ({registered[room]} \ {0})
    BY <2>1, <2>2 DEF StartTyping
  <2>4. TaskTypes' /\ TasksKnown'
    BY <1>0, <2>1, <2>2, <2>3, TaskCreated
  <2>5. HandlerFits' /\ ClosingFits'
    BY <1>0, <2>1 DEF HandlerFits, ClosingFits, Idle, fixedVars
  <2> QED
    BY <2>4, <2>5 DEF TypingInv
<1>3. CASE MatrixRenews
  <2>1. /\ hearing.at = "fetch" /\ Cancel(hearing.room)
        /\ hearing' = At("renew", hearing.room, registered[hearing.room])
        /\ UNCHANGED <<fixedVars, stopVars, syncLoop, replying, quiet>>
    BY <1>3 DEF MatrixRenews
  <2>2. PICK room \in Rooms : room = hearing.room /\ room \notin quiet /\ syncLoop = "on"
    <3>1. hearing # Idle
      BY <2>1 DEF Idle
    <3> QED
      BY <1>0, <2>1, <3>1 DEF HandlerFits
  <2>3. /\ TaskTypes' /\ TasksKnown' /\ roomOf' = roomOf /\ RunningOn' \subseteq RunningOn
    BY <1>0, <2>1, <2>2, TaskCancelled
  <2>4. registered'[room] = 0
    BY <1>0, <2>1, <2>2 DEF Cancel, TaskTypes
  <2>5. hearing'.at = "renew" /\ hearing'.room = room
    BY <2>1, <2>2 DEF At
  <2>6. HandlerFits'
    BY <1>0, <2>1, <2>2, <2>4, <2>5 DEF HandlerFits
  <2>7. ClosingFits'
    BY <1>0, <2>1, <2>3 DEF ClosingFits, fixedVars, stopVars
  <2> QED
    BY <2>3, <2>6, <2>7 DEF TypingInv
<1>4. CASE MatrixNotifies
  <2>1. /\ hearing.at = "renew" /\ hearing' = At("notify", hearing.room, 0)
        /\ UNCHANGED <<fixedVars, stopVars, syncLoop, taskVars, replying, quiet>>
    BY <1>4 DEF MatrixNotifies
  <2>2. hearing'.at = "notify" /\ hearing'.room = hearing.room /\ hearing # Idle
    BY <2>1 DEF At, Idle
  <2>3. TaskTypes' /\ TasksKnown' /\ RunningOn' = RunningOn
    BY <1>0, <2>1 DEF TaskTypes, TasksKnown, RunningOn, taskVars
  <2>4. HandlerFits'
    BY <1>0, <2>1, <2>2 DEF HandlerFits, taskVars
  <2>5. ClosingFits'
    BY <1>0, <2>1, <2>3 DEF ClosingFits, fixedVars, stopVars, taskVars
  <2> QED
    BY <2>3, <2>4, <2>5 DEF TypingInv
<1>5. CASE MatrixPasses
  <2>1. /\ hearing.at = "notify" /\ CreateIfRunning(hearing.room) /\ hearing' = Idle
        /\ UNCHANGED <<fixedVars, stopVars, syncLoop, cancelled, replying, quiet>>
    BY <1>5 DEF MatrixPasses
  <2>2. PICK room \in Rooms : room = hearing.room /\ room \notin quiet /\ registered[room] = 0
    BY <1>0, <2>1 DEF HandlerFits
  <2>3. HandlerFits'
    BY <1>0, <2>1 DEF HandlerFits, Idle
  <2>4. CASE isRunning
    <3>1. Create(room)
      BY <2>1, <2>2, <2>4 DEF CreateIfRunning
    <3>2. TaskTypes' /\ TasksKnown'
      BY <1>0, <2>1, <2>2, <3>1, TaskCreated
    <3>3. ClosingFits'
      BY <1>0, <2>1, <2>4 DEF ClosingFits, fixedVars, stopVars
    <3> QED
      BY <2>3, <3>2, <3>3 DEF TypingInv
  <2>5. CASE ~isRunning
    <3>1. UNCHANGED <<roomOf, live, registered>>
      BY <2>1, <2>5 DEF CreateIfRunning
    <3>2. TaskTypes' /\ TasksKnown' /\ RunningOn' = RunningOn
      BY <1>0, <2>1, <3>1 DEF TaskTypes, TasksKnown, RunningOn
    <3>3. ClosingFits'
      BY <1>0, <2>1, <3>1, <3>2 DEF ClosingFits, fixedVars, stopVars
    <3> QED
      BY <2>3, <3>2, <3>3 DEF TypingInv
  <2> QED
    BY <2>4, <2>5
<1> QED
  BY <1>1, <1>2, <1>3, <1>4, <1>5

LEMMA RepliesKeepTyping ==
  ASSUME TypingInv,
         \/ \E room \in Rooms : Reply(room)
         \/ Cleared \/ \E progress \in BOOLEAN : ReplyPosted(progress)
  PROVE  TypingInv'
<1>0. /\ TaskTypes /\ TasksKnown /\ HandlerFits /\ ClosingFits
      /\ UNCHANGED <<fixedVars, stopVars, syncLoop, hearing>>
  BY DEF TypingInv, Reply, Cleared, ReplyPosted
<1>1. ASSUME UNCHANGED <<taskVars, quiet>>, replying'.at # "idle" => replying'.room \in Rooms
      PROVE  TypingInv'
  <2>1. TaskTypes' /\ TasksKnown' /\ RunningOn' = RunningOn
    BY <1>0, <1>1 DEF TaskTypes, TasksKnown, RunningOn, taskVars
  <2>2. HandlerFits'
    BY <1>0, <1>1 DEF HandlerFits, taskVars
  <2>3. ClosingFits'
    BY <1>0, <1>1, <2>1 DEF ClosingFits, fixedVars, stopVars, taskVars
  <2> QED
    BY <2>1, <2>2, <2>3 DEF TypingInv
<1>2. Idle.at = "idle" /\ \A where, room, task : At(where, room, task).at = where /\ At(where, room, task).room = room
  BY DEF Idle, At
<1>3. ASSUME NEW room \in Rooms, Reply(room) PROVE TypingInv'
  BY <1>1, <1>2, <1>3 DEF Reply
<1>4. CASE Cleared
  BY <1>1, <1>2, <1>4 DEF Cleared
<1>5. ASSUME NEW progress \in BOOLEAN, ReplyPosted(progress) PROVE TypingInv'
  <2>1. CASE progress /\ platform = "matrix"
    BY <1>1, <1>2, <1>5, <2>1 DEF ReplyPosted
  <2>2. CASE ~(progress /\ platform = "matrix")
    <3>1. /\ replying.at = "posting" /\ Cancel(replying.room) /\ AnsweredIn(replying.room)
          /\ replying' = IF platform = "discord" THEN Idle
                         ELSE At("clear", replying.room, registered[replying.room])
      BY <1>5, <2>2 DEF ReplyPosted
    <3>2. PICK room \in Rooms : room = replying.room
      BY <1>0, <3>1 DEF HandlerFits
    <3>3. quiet' = IF hearing.room = room THEN quiet ELSE quiet \cup {room}
      BY <3>1, <3>2 DEF AnsweredIn
    <3>4. /\ TaskTypes' /\ TasksKnown' /\ roomOf' = roomOf /\ RunningOn' \subseteq RunningOn
          /\ \A r \in Rooms : registered'[r] = registered[r] \/ registered'[r] = 0
      BY <1>0, <3>1, <3>2, <3>3, TaskCancelled
    <3>5. replying'.at # "idle" => replying'.room \in Rooms
      BY <1>2, <3>1, <3>2
    <3>6. HandlerFits'
      BY <1>0, <3>3, <3>4, <3>5 DEF HandlerFits
    <3>7. ClosingFits'
      BY <1>0, <3>4 DEF ClosingFits, fixedVars, stopVars
    <3> QED
      BY <3>4, <3>6, <3>7 DEF TypingInv
  <2> QED
    BY <2>1, <2>2
<1> QED
  BY <1>3, <1>4, <1>5

LEMMA ConnectionKeepsTyping ==
  ASSUME TypingInv, Breaks \/ SyncResumes \/ LoopEnds \/ RoomsClosed \/ GraceEnds \/ Stopped
  PROVE  TypingInv'
<1>0. /\ TaskTypes /\ TasksKnown /\ HandlerFits /\ ClosingFits
      /\ UNCHANGED <<fixedVars, isRunning, taskVars, replying, toClose, quiet>>
  BY DEF TypingInv, Breaks, SyncResumes, LoopEnds, RoomsClosed, GraceEnds, Stopped, stopVars
<1>1. TaskTypes' /\ TasksKnown' /\ RunningOn' = RunningOn /\ roomOf' = roomOf /\ registered' = registered
  BY <1>0 DEF TaskTypes, TasksKnown, RunningOn, taskVars
<1>2. Idle.at = "idle" /\ \A where, room, task : At(where, room, task).at = where
  BY DEF Idle, At
<1>3. hearing' = Idle \/ (hearing' = hearing /\ (syncLoop' # "on" => hearing = Idle))
  BY <1>0 DEF Breaks, SyncResumes, LoopEnds, RoomsClosed, GraceEnds, Stopped, stopVars, HandlerFits
<1>4. HandlerFits'
  BY <1>0, <1>1, <1>2, <1>3 DEF HandlerFits
<1>5. ClosingFits'
  <2>1. CASE Breaks \/ SyncResumes \/ LoopEnds \/ GraceEnds
    <3>1. UNCHANGED closing /\ (syncLoop = "over" => syncLoop' = "over")
      BY <2>1 DEF Breaks, SyncResumes, LoopEnds, GraceEnds, stopVars
    <3> QED
      BY <1>0, <1>1, <3>1 DEF ClosingFits, fixedVars
  <2>2. CASE RoomsClosed
    <3>1. closing.at = "rooms" /\ toClose = {} /\ closing'.at = "sync"
      BY <1>2, <2>2 DEF RoomsClosed
    <3> QED
      BY <1>0, <1>1, <3>1 DEF ClosingFits, fixedVars
  <2>3. CASE Stopped
    <3>1. /\ closing'.at = "over" /\ syncLoop' = syncLoop
          /\ closing.at = "socket" \/ (closing.at = "sync" /\ syncLoop = "over")
      BY <1>2, <2>3 DEF Stopped
    <3> QED
      BY <1>0, <1>1, <3>1 DEF ClosingFits, fixedVars
  <2> QED
    BY <2>1, <2>2, <2>3
<1> QED
  BY <1>1, <1>4, <1>5 DEF TypingInv

LEMMA ClosingKeepsTyping ==
  ASSUME TypingInv, StopDiscord \/ StopMatrix \/ \E room \in Rooms : CloseRoom(room)
  PROVE  TypingInv'
<1>0. /\ TaskTypes /\ TasksKnown /\ HandlerFits /\ ClosingFits
      /\ UNCHANGED <<fixedVars, syncLoop, roomOf, live, hearing, replying, quiet>>
  BY DEF TypingInv, StopDiscord, StopMatrix, CloseRoom, Cancel, taskVars
<1>2. \A where, room, task : At(where, room, task).at = where
  BY DEF At
<1>3. CASE StopDiscord
  <2>1. /\ platform = "discord" /\ registered' = [r \in Rooms |-> 0]
        /\ cancelled' = (cancelled \cup {registered[r] : r \in Rooms}) \ {0}
    BY <1>3 DEF StopDiscord
  <2>2. RunningOn' = {}
    <3> SUFFICES ASSUME NEW t \in RunningOn' PROVE FALSE
      OBVIOUS
    <3>1. t \in live /\ t \in DOMAIN roomOf /\ t # 0 /\ t \notin cancelled
      BY <1>0, <2>1, TaskFacts DEF RunningOn, TaskTypes
    <3>2. registered[roomOf[t]] = t /\ roomOf[t] \in Rooms
      BY <1>0, <3>1, TaskFacts DEF TasksKnown, RunningOn
    <3>3. t \in cancelled'
      BY <2>1, <3>1, <3>2
    <3> QED
      BY <3>3 DEF RunningOn
  <2>3. TaskTypes'
    BY <1>0, <2>1, TaskFacts DEF TaskTypes
  <2>4. HandlerFits'
    BY <1>0, <2>1 DEF HandlerFits
  <2> QED
    BY <1>0, <2>1, <2>2, <2>3, <2>4 DEF TypingInv, TasksKnown, ClosingFits, fixedVars
<1>4. CASE StopMatrix
  <2>1. /\ isRunning' = FALSE /\ toClose' = {r \in Rooms : registered[r] # 0} /\ closing'.at = "rooms"
        /\ UNCHANGED taskVars
    BY <1>2, <1>4 DEF StopMatrix
  <2>2. TaskTypes' /\ TasksKnown' /\ RunningOn' = RunningOn
    BY <1>0, <2>1 DEF TaskTypes, TasksKnown, RunningOn, taskVars
  <2>3. \A t \in RunningOn : roomOf[t] \in toClose'
    BY <1>0, <2>1, TaskFacts DEF TasksKnown, RunningOn, TaskTypes
  <2>4. HandlerFits'
    BY <1>0, <2>1 DEF HandlerFits, taskVars
  <2>5. ClosingFits'
    BY <1>0, <2>1, <2>2, <2>3 DEF ClosingFits
  <2> QED
    BY <2>2, <2>4, <2>5 DEF TypingInv
<1>5. ASSUME NEW room \in Rooms, CloseRoom(room) PROVE TypingInv'
  <2>1. /\ closing.at = "rooms" /\ closing'.at = "rooms" /\ toClose' = toClose \ {room}
        /\ Cancel(room) /\ isRunning' = isRunning
    BY <1>2, <1>5 DEF CloseRoom
  <2>2. /\ TaskTypes' /\ TasksKnown' /\ roomOf' = roomOf
        /\ \A r \in Rooms : registered'[r] = registered[r] \/ registered'[r] = 0
        /\ RunningOn' \subseteq RunningOn /\ \A t \in RunningOn' : roomOf[t] # room
    BY <1>0, <2>1, TaskCancelled
  <2>3. HandlerFits'
    BY <1>0, <2>2 DEF HandlerFits
  <2>4. ClosingFits'
    BY <1>0, <2>1, <2>2 DEF ClosingFits, fixedVars
  <2> QED
    BY <2>2, <2>3, <2>4 DEF TypingInv
<1> QED
  BY <1>3, <1>4, <1>5

LEMMA TypingStep == TypingInv /\ [TypingNext]_typingVars => TypingInv'
<1> SUFFICES ASSUME TypingInv, [TypingNext]_typingVars PROVE TypingInv'
  OBVIOUS
<1>0. TaskTypes /\ TasksKnown /\ HandlerFits /\ ClosingFits
  BY DEF TypingInv
<1>1. ASSUME NEW task \in Tasks, KeepaliveEnds(task) PROVE TypingInv'
  <2>1. /\ live' = live \ {task}
        /\ UNCHANGED <<fixedVars, stopVars, syncLoop, roomOf, cancelled, registered, hearing, replying, quiet>>
    BY <1>1 DEF KeepaliveEnds
  <2>2. RunningOn' \subseteq RunningOn
    BY <2>1 DEF RunningOn
  <2>3. TaskTypes' /\ TasksKnown' /\ HandlerFits'
    BY <1>0, <2>1, <2>2 DEF TaskTypes, TasksKnown, HandlerFits
  <2>4. ClosingFits'
    BY <1>0, <2>1, <2>2 DEF ClosingFits, fixedVars, stopVars
  <2> QED
    BY <2>3, <2>4 DEF TypingInv
<1>2. CASE UNCHANGED typingVars
  <2>1. TaskTypes' /\ TasksKnown' /\ HandlerFits' /\ RunningOn' = RunningOn
    BY <1>0, <1>2 DEF TaskTypes, TasksKnown, HandlerFits, RunningOn, typingVars
  <2>2. ClosingFits'
    BY <1>0, <1>2, <2>1 DEF ClosingFits, typingVars
  <2> QED
    BY <2>1, <2>2 DEF TypingInv
<1> QED
  BY <1>1, <1>2, HandlerKeepsTyping, RepliesKeepTyping, ConnectionKeepsTyping, ClosingKeepsTyping DEF TypingNext

\* Wherever the handler of a message, send() and stop() of matrix.py and discord.py
\* await, a keepalive that runs on is registered for its room, which waits for an
\* answer, and when the stop() of Matrix has returned none does.
THEOREM TypingFollows == TypingSpec => []TypingKept
<1>1. TypingInv => TypingKept
  <2> SUFFICES ASSUME TypingInv PROVE TypingKept
    OBVIOUS
  <2>1. KeepalivesAreKnown /\ AnsweredRoomsAreQuiet
    BY DEF TypingInv, TasksKnown, RunningOn, KeepalivesAreKnown, AnsweredRoomsAreQuiet
  <2>2. NothingAfterStop
    BY DEF TypingInv, ClosingFits, HandlerFits, RunningOn, NothingAfterStop
  <2> QED
    BY <2>1, <2>2 DEF TypingKept
<1> QED
  BY <1>1, TypingStart, TypingStep, PTL DEF TypingSpec

-----------------------------------------------------------------------------
(* The prompts of the command line *)

Printout == [turn : Nat, reply : Nat]

NothingWaits == toAgent = <<>> /\ thinking = 0 /\ toUser = <<>>

\* One prompt is under way at a time, and where it is.
UnderWay ==
  /\ prompt = "waiting" =>
       /\ asked > 0
       /\ \/ toAgent = <<asked>> /\ thinking = 0 /\ toUser = <<>> /\ turnResponse = <<>> /\ ~turnDone
          \/ toAgent = <<>> /\ thinking = asked /\ toUser = <<>> /\ turnResponse = <<>> /\ ~turnDone
          \/ toAgent = <<>> /\ thinking = 0 /\ toUser = <<asked>> /\ turnResponse = <<>> /\ ~turnDone
          \/ NothingWaits /\ turnResponse = <<asked>>
          \/ NothingWaits /\ turnResponse = <<>> /\ ~turnDone /\ asked \in speechless
  /\ prompt \notin {"waiting", "killed"} => NothingWaits
  /\ prompt \in {"password", "reading", "waiting"} => listener = "running"

\* Replies were printed under their prompts, and none of the prompt under way.
PrintedInOrder ==
  /\ printed \in Seq(Printout) /\ asked \in Nat
  /\ \A i \in DOMAIN printed : /\ printed[i].reply \in {printed[i].turn, NotInitialized}
                               /\ printed[i].turn <= asked
                               /\ prompt = "waiting" => printed[i].turn < asked
  /\ \A i, j \in DOMAIN printed : i < j => printed[i].turn < printed[j].turn

Options == [port : {DefaultPort, 2}, http : {NotGiven, 3}, ws : {NotGiven, 4}]

ConsoleInv == UnderWay /\ PrintedInOrder /\ PortsDistinct /\ wanted \in Options

LEMMA ConsoleStart == ConsoleInit => ConsoleInv
<1> SUFFICES ASSUME ConsoleInit PROVE ConsoleInv
  OBVIOUS
<1>1. /\ prompt \in {"password", "ports", "reading"} /\ asked = 0 /\ printed = <<>> /\ NothingWaits
      /\ listener = "running"
      /\ wanted \in Options
  BY DEF ConsoleInit, NothingWaits, Options
<1>2. <<>> \in Seq(Printout)
  OBVIOUS
<1> QED
  BY <1>1, <1>2 DEF ConsoleInv, UnderWay, PrintedInOrder, PortsDistinct

\* A reply is printed under the prompt that is asked.
LEMMA PrintedNext ==
  ASSUME PrintedInOrder, prompt = "waiting", printed' = Append(printed, [turn |-> asked, reply |-> asked]),
         asked' = asked, prompt' # "waiting"
  PROVE  PrintedInOrder'
<1>1. PICK new \in Printout : new = [turn |-> asked, reply |-> asked]
  BY DEF PrintedInOrder, Printout
<1>2. /\ printed \in Seq(Printout) /\ printed' \in Seq(Printout) /\ Len(printed) \in Nat
      /\ DOMAIN printed = 1..Len(printed) /\ DOMAIN printed' = 1..(Len(printed) + 1)
      /\ \A i \in 1..Len(printed) : printed'[i] = printed[i]
      /\ printed'[Len(printed) + 1] = new
  BY <1>1, QueueShape DEF PrintedInOrder
<1>3. \A i \in DOMAIN printed' : (i \in DOMAIN printed /\ printed'[i] = printed[i])
                                  \/ (i = Len(printed) + 1 /\ printed'[i] = new)
  BY <1>2
<1>4. new.turn = asked /\ new.reply = asked /\ asked \in Nat
  BY <1>1 DEF PrintedInOrder
<1>5. \A i \in DOMAIN printed : printed[i].turn \in Nat
  <2>1. \A i \in DOMAIN printed : printed[i] \in Printout
    BY <1>2, QueueShape
  <2> QED
    BY <2>1 DEF Printout
<1>6. ASSUME NEW i \in DOMAIN printed', NEW j \in DOMAIN printed', i < j
      PROVE  printed'[i].turn < printed'[j].turn
  <2>1. i \in DOMAIN printed /\ printed'[i] = printed[i]
    BY <1>2, <1>3, <1>6
  <2>2. CASE j \in DOMAIN printed /\ printed'[j] = printed[j]
    BY <1>6, <2>1, <2>2 DEF PrintedInOrder
  <2>3. CASE printed'[j] = new
    BY <1>4, <2>1, <2>3 DEF PrintedInOrder
  <2> QED
    BY <1>3, <2>2, <2>3
<1>7. \A i \in DOMAIN printed' : printed'[i].reply \in {printed'[i].turn, NotInitialized} /\ printed'[i].turn <= asked
  BY <1>3, <1>4 DEF PrintedInOrder
<1> QED
  BY <1>2, <1>4, <1>6, <1>7 DEF PrintedInOrder

\* The user's side.
LEMMA UserKeepsConsole ==
  ASSUME UnderWay, PrintedInOrder,
         \/ \E right \in BOOLEAN : Authenticate(right)
         \/ Direct \/ Submit \/ Continue \/ Leave \/ Close \/ Interrupt
  PROVE  UnderWay' /\ PrintedInOrder' /\ prompt' \notin {"serving", "ports"}
<1>1. ASSUME NEW right \in BOOLEAN, Authenticate(right) PROVE UnderWay' /\ PrintedInOrder' /\ prompt' \notin {"serving", "ports"}
  <2>1. prompt = "password" /\ prompt' \in {"password", "reading", "closed"}
        /\ UNCHANGED <<asked, toAgent, thinking, speechless, toUser, turnDone, turnResponse, printed, listener>>
    BY <1>1 DEF Authenticate
  <2> QED
    BY <2>1 DEF UnderWay, PrintedInOrder, NothingWaits
<1>2. CASE Direct
  <2>1. /\ prompt = "reading" /\ prompt' = "closed" /\ asked' = 1 /\ printed' = <<[turn |-> 1, reply |-> 0]>>
        /\ UNCHANGED <<toAgent, thinking, toUser>>
    BY <1>2 DEF Direct, NotInitialized
  <2>2. UnderWay'
    BY <2>1 DEF UnderWay, NothingWaits
  <2>3. PICK p \in Printout : p = [turn |-> 1, reply |-> 0]
    BY DEF Printout
  <2>4. printed' \in Seq(Printout) /\ DOMAIN printed' = {1} /\ printed'[1] = p /\ p.turn = 1 /\ p.reply = 0
    BY <2>1, <2>3
  <2> QED
    BY <2>1, <2>2, <2>4 DEF PrintedInOrder, NotInitialized
<1>3. CASE Submit
  <2>1. /\ prompt = "reading" /\ prompt' = "waiting" /\ asked' = asked + 1 /\ turnDone' = FALSE
        /\ turnResponse' = <<>> /\ toAgent' = Append(toAgent, asked') /\ UNCHANGED <<thinking, toUser, printed, listener>>
    BY <1>3 DEF Submit
  <2>2. toAgent = <<>> /\ thinking = 0 /\ toUser = <<>> /\ asked \in Nat /\ listener = "running"
    BY <2>1 DEF UnderWay, NothingWaits, PrintedInOrder
  <2>3. toAgent' = <<asked'>> /\ asked' \in Nat /\ asked' > 0
    BY <2>1, <2>2
  <2>4. UnderWay'
    BY <2>1, <2>2, <2>3 DEF UnderWay
  <2>5. \A i \in DOMAIN printed : printed[i].turn \in Nat
    <3>1. \A i \in DOMAIN printed : printed[i] \in Printout
      BY QueueShape DEF PrintedInOrder
    <3> QED
      BY <3>1 DEF Printout
  <2>6. PrintedInOrder'
    BY <2>1, <2>3, <2>5 DEF PrintedInOrder
  <2> QED
    BY <2>1, <2>4, <2>6
<1>4. CASE Continue
  <2>1. /\ prompt = "waiting" /\ turnDone /\ prompt' = "reading"
        /\ printed' = IF turnResponse = <<>> THEN printed
                      ELSE Append(printed, [turn |-> asked, reply |-> Head(turnResponse)])
        /\ UNCHANGED <<asked, toAgent, thinking, toUser, listener>>
    BY <1>4 DEF Continue
  <2>2. NothingWaits /\ turnResponse = <<asked>>
    BY <2>1 DEF UnderWay
  <2>3. UnderWay'
    BY <2>1, <2>2 DEF UnderWay, NothingWaits
  <2>4. turnResponse # <<>> /\ Head(turnResponse) = asked
    BY <2>2
  <2>5. printed' = Append(printed, [turn |-> asked, reply |-> asked])
    BY <2>1, <2>4
  <2> QED
    BY <2>1, <2>3, <2>5, PrintedNext
<1>5. CASE Leave \/ Close \/ Interrupt
  <2>1. /\ prompt \in {"reading", "waiting", "leaving"} /\ prompt' \in {"leaving", "closed", "killed"}
        /\ prompt' # "killed" => prompt # "waiting"
        /\ UNCHANGED <<asked, toAgent, thinking, speechless, toUser, turnDone, turnResponse, printed>>
    BY <1>5 DEF Leave, Close, Interrupt
  <2> QED
    BY <2>1 DEF UnderWay, PrintedInOrder, NothingWaits
<1> QED
  BY <1>1, <1>2, <1>3, <1>4, <1>5

\* The tasks' side.
LEMMA TasksKeepConsole ==
  ASSUME UnderWay, PrintedInOrder,
         \/ Collect \/ CollectorEnds \/ Receive \/ ListenerEnds
         \/ \E text \in BOOLEAN : Answer(text)
  PROVE  UnderWay' /\ PrintedInOrder' /\ prompt' = prompt
<1>0. prompt # "killed" /\ UNCHANGED <<prompt, asked>>
  BY DEF Collect, CollectorEnds, Receive, ListenerEnds, Answer
<1>1. CASE Collect
  <2>1. /\ toUser # <<>> /\ toUser' = Tail(toUser) /\ turnDone' = TRUE /\ UNCHANGED <<toAgent, thinking, listener>>
        /\ IF turnDone
           THEN /\ printed' = Append(printed, [turn |-> asked, reply |-> Head(toUser)])
                /\ UNCHANGED turnResponse
           ELSE /\ turnResponse' = Append(turnResponse, Head(toUser))
                /\ UNCHANGED printed
    BY <1>1 DEF Collect
  <2>2. /\ prompt = "waiting" /\ asked > 0 /\ toAgent = <<>> /\ thinking = 0 /\ toUser = <<asked>>
        /\ turnResponse = <<>> /\ ~turnDone
    BY <1>0, <2>1 DEF UnderWay, NothingWaits
  <2>3. toUser' = <<>> /\ turnResponse' = <<asked>> /\ printed' = printed
    BY <2>1, <2>2
  <2> QED
    BY <1>0, <2>1, <2>2, <2>3 DEF UnderWay, PrintedInOrder, NothingWaits
<1>2. CASE CollectorEnds
  <2>1. UNCHANGED <<toAgent, thinking, speechless, toUser, turnDone, turnResponse, printed, listener>>
    BY <1>2 DEF CollectorEnds
  <2> QED
    BY <1>0, <2>1 DEF UnderWay, PrintedInOrder, NothingWaits
<1>3. CASE Receive
  <2>1. /\ toAgent # <<>> /\ thinking' = Head(toAgent) /\ toAgent' = Tail(toAgent)
        /\ UNCHANGED <<toUser, turnDone, turnResponse, printed, listener>>
    BY <1>3 DEF Receive
  <2>2. prompt = "waiting" /\ asked > 0 /\ toAgent = <<asked>> /\ toUser = <<>> /\ turnResponse = <<>> /\ ~turnDone
    BY <1>0, <2>1 DEF UnderWay, NothingWaits
  <2>3. toAgent' = <<>> /\ thinking' = asked
    BY <2>1, <2>2
  <2> QED
    BY <1>0, <2>1, <2>2, <2>3 DEF UnderWay, PrintedInOrder
<1>4. CASE ListenerEnds
  <2>1. listener = "cancelled" /\ thinking' = 0 /\ UNCHANGED <<toAgent, speechless, toUser, turnDone, turnResponse, printed>>
    BY <1>4 DEF ListenerEnds
  <2> QED
    BY <1>0, <2>1 DEF UnderWay, PrintedInOrder, NothingWaits
<1>5. ASSUME NEW text \in BOOLEAN, Answer(text) PROVE UnderWay' /\ PrintedInOrder'
  <2>1. /\ thinking # 0 /\ thinking' = 0 /\ UNCHANGED <<toAgent, turnDone, turnResponse, printed, listener>>
        /\ toUser' = IF text THEN Append(toUser, thinking) ELSE toUser
        /\ speechless' = IF text THEN speechless ELSE speechless \cup {thinking}
    BY <1>5 DEF Answer
  <2>2. prompt = "waiting" /\ asked > 0 /\ toAgent = <<>> /\ thinking = asked /\ toUser = <<>> /\ turnResponse = <<>> /\ ~turnDone
    BY <1>0, <2>1 DEF UnderWay, NothingWaits
  <2>3. toUser' = <<asked>> \/ (toUser' = <<>> /\ asked \in speechless')
    BY <2>1, <2>2
  <2> QED
    BY <1>0, <2>1, <2>2, <2>3 DEF UnderWay, PrintedInOrder, NothingWaits
<1> QED
  BY <1>0, <1>1, <1>2, <1>3, <1>4, <1>5

\* The search for a port finds the first that is free.
LEMMA FirstFreePort ==
  ASSUME NEW from \in Nat, from <= MaxPort
  PROVE  /\ FirstFree(from) \in from..MaxPort
         /\ FirstFree(from) < MaxPort => \A q \in from..FirstFree(from) - 1 : ~Free(q)
<1>0. MaxPort \in Nat
  BY ConsoleAssumption
<1>1. CASE \A p \in from..MaxPort - 1 : ~Free(p)
  <2>1. FirstFree(from) = MaxPort
    BY <1>1 DEF FirstFree
  <2> QED
    BY <1>0, <2>1
<1>2. CASE \E p \in from..MaxPort - 1 : Free(p)
  <2>1. PICK S : S = {p \in from..MaxPort - 1 : Free(p)}
    OBVIOUS
  <2>2. S # {} /\ S \subseteq Nat
    BY <1>0, <1>2, <2>1
  <2>3. PICK p \in S : \A q \in S : ~(<<q, p>> \in OpToRel(<, Nat))
    BY <2>2, NatLessThanWellFounded, WFMin, Zenon
  <2>4. \A q \in S : ~(q < p)
    BY <2>2, <2>3 DEF OpToRel
  <2>5. p \in from..MaxPort - 1 /\ Free(p) /\ \A q \in from..p - 1 : ~Free(q)
    BY <1>0, <2>1, <2>2, <2>4
  <2>6. /\ FirstFree(from) \in from..MaxPort - 1
        /\ \A q \in from..FirstFree(from) - 1 : ~Free(q)
    BY <1>2, <2>5 DEF FirstFree
  <2> QED
    BY <1>0, <2>6
<1> QED
  BY <1>1, <1>2

LEMMA PortsPicked ==
  ASSUME wanted \in Options, PickPorts
  PROVE  PortsDistinct' /\ prompt' \in {"serving", "closed"} /\ wanted' = wanted
<1>1. PICK g, h, w, found :
        /\ g = GatewayPort /\ h = HttpPort /\ w = WsPort
        /\ found = [gateway |-> g, http |-> h, ws |-> w]
  OBVIOUS
<1>2. \/ prompt' = "closed"
      \/ /\ prompt' = "serving" /\ ports' = found /\ \A k \in DOMAIN found : found[k] < MaxPort /\ Free(found[k])
  BY <1>1 DEF PickPorts
<1>3. UNCHANGED <<busyPorts, wanted>>
  BY DEF PickPorts
<1>4. CASE prompt' = "closed"
  BY <1>3, <1>4 DEF PortsDistinct
<1>5. CASE /\ prompt' = "serving" /\ ports' = found
           /\ \A k \in DOMAIN found : found[k] < MaxPort /\ Free(found[k])
  <2>1. DOMAIN found = {"gateway", "http", "ws"} /\ found.gateway = g /\ found.http = h /\ found.ws = w
    BY <1>1
  <2>2. /\ g < MaxPort /\ Free(g) /\ h < MaxPort /\ Free(h) /\ w < MaxPort /\ Free(w)
    BY <1>5, <2>1
  <2>3. wanted.port \in {1, 2} /\ MaxPort \in Nat /\ MaxPort > 4
    BY ConsoleAssumption DEF Options, DefaultPort
  <2>4. g \in Nat
    <3>1. g = wanted.port \/ g = FirstFree(2)
      BY <1>1 DEF GatewayPort, DefaultPort
    <3> QED
      BY <2>3, <3>1, FirstFreePort
  <2>5. ASSUME wanted.http = NotGiven, wanted.ws = NotGiven, ~(wanted.port = DefaultPort /\ ~Free(g + 1))
        PROVE  g # h /\ g # w /\ h # w
    <3>1. h = FirstFree(g + 1) /\ g + 1 \in Nat /\ g + 1 <= MaxPort
      BY <1>1, <2>2, <2>3, <2>4, <2>5 DEF HttpPort
    <3>2. h \in g + 1..MaxPort /\ \A q \in g + 1..h - 1 : ~Free(q)
      BY <2>2, <3>1, FirstFreePort
    <3>3. CASE wanted.port # DefaultPort
      <4>1. w = FirstFree(h + 1)
        BY <1>1, <2>5, <3>3 DEF WsPort, ConfiguredHttp
      <4>2. h + 1 \in Nat /\ h + 1 <= MaxPort
        BY <2>2, <2>3, <2>4, <3>2
      <4>3. w \in h + 1..MaxPort
        BY <4>1, <4>2, FirstFreePort
      <4> QED
        BY <2>3, <2>4, <3>2, <4>3
    <3>4. CASE wanted.port = DefaultPort /\ Free(g + 1)
      <4>1. w = FirstFree(g + 2)
        BY <1>1, <2>5, <3>4 DEF WsPort
      <4>2. h = g + 1
        BY <2>3, <2>4, <3>2, <3>4
      <4>3. g + 2 \in Nat /\ g + 2 <= MaxPort
        BY <2>2, <2>3, <2>4, <4>2
      <4>4. w \in g + 2..MaxPort
        BY <4>1, <4>3, FirstFreePort
      <4> QED
        BY <2>3, <2>4, <4>2, <4>4
    <3> QED
      BY <2>5, <3>3, <3>4
  <2>6. \A p : Free(p)' <=> Free(p)
    BY <1>3 DEF Free
  <2>7. (\A k \in DOMAIN ports : Free(ports[k]))'
    BY <1>5, <2>6
  <2>8. \/ wanted.http # NotGiven \/ wanted.ws # NotGiven
        \/ wanted.port = DefaultPort /\ ~Free(g + 1)
        \/ \A k, l \in DOMAIN ports' : k # l => ports'[k] # ports'[l]
    BY <1>5, <2>1, <2>5
  <2> QED
    BY <1>3, <1>5, <2>1, <2>6, <2>7, <2>8 DEF PortsDistinct
<1> QED
  BY <1>2, <1>3, <1>4, <1>5

LEMMA ConsoleStep == ConsoleInv /\ [ConsoleNext]_consoleVars => ConsoleInv'
<1> SUFFICES ASSUME ConsoleInv, [ConsoleNext]_consoleVars PROVE ConsoleInv'
  OBVIOUS
<1>0. UnderWay /\ PrintedInOrder /\ PortsDistinct /\ wanted \in Options
  BY DEF ConsoleInv
<1>1. CASE PickPorts
  <2>1. prompt = "ports" /\ UNCHANGED <<asked, toAgent, thinking, speechless, toUser, turnDone, turnResponse, printed, listener>>
    BY <1>1 DEF PickPorts
  <2>2. PortsDistinct' /\ prompt' \in {"serving", "closed"} /\ wanted' = wanted
    BY <1>0, <1>1, PortsPicked
  <2>3. UnderWay' /\ PrintedInOrder'
    BY <1>0, <2>1, <2>2 DEF UnderWay, PrintedInOrder, NothingWaits
  <2> QED
    BY <1>0, <2>2, <2>3 DEF ConsoleInv
<1>2. CASE Converse /\ UNCHANGED <<command, busyPorts, wanted, ports>>
  <2>1. UnderWay' /\ PrintedInOrder' /\ (prompt' # "serving" \/ prompt' = prompt)
    BY <1>0, <1>2, UserKeepsConsole, TasksKeepConsole DEF Converse
  <2>2. PortsDistinct'
    BY <1>0, <1>2, <2>1 DEF PortsDistinct, Free
  <2> QED
    BY <1>0, <1>2, <2>1, <2>2 DEF ConsoleInv
<1>3. CASE UNCHANGED consoleVars
  BY <1>0, <1>3 DEF ConsoleInv, UnderWay, PrintedInOrder, NothingWaits, PortsDistinct, Free, consoleVars, chatVars
<1> QED
  BY <1>1, <1>2, <1>3 DEF ConsoleNext

\* Between the prompt of cli/commands.py, the agent's loop and the collector of replies
\* one prompt is under way: its reply is printed under it or still on its way to it; and
\* the gateway picks ports that are free and differ.
THEOREM RepliesStandUnderPrompts == ConsoleSpec => []ConsoleKept
<1>1. ConsoleInv => ConsoleKept
  <2> SUFFICES ASSUME ConsoleInv PROVE ConsoleKept
    OBVIOUS
  <2>1. UnderWay /\ PrintedInOrder /\ PortsDistinct
    BY DEF ConsoleInv
  <2>2. ASSUME prompt = "waiting"
        PROVE  \/ asked \in speechless \/ thinking = asked
               \/ \E i \in DOMAIN toAgent : toAgent[i] = asked
               \/ \E i \in DOMAIN toUser : toUser[i] = asked
               \/ \E i \in DOMAIN turnResponse : turnResponse[i] = asked
    <3>1. PICK one : one = <<asked>>
      OBVIOUS
    <3>2. 1 \in DOMAIN one /\ one[1] = asked
      BY <3>1
    <3>3. thinking = asked \/ asked \in speechless \/ toAgent = one \/ toUser = one \/ turnResponse = one
      BY <2>1, <2>2, <3>1 DEF UnderWay
    <3> QED
      BY <3>2, <3>3
  <2> QED
    BY <2>1, <2>2 DEF ConsoleKept, TurnsPaired, PrintedInOrder
<1> QED
  BY <1>1, ConsoleStart, ConsoleStep, PTL DEF ConsoleSpec

-----------------------------------------------------------------------------
(* Prompt files and the tools for files *)

\* What str.count has seen in a text up to the place k: nothing, or a place with others
\* only where they overlap it, or more.
SeenUpto(s, P, width, k) ==
  /\ s \in [found : Nat, free : Nat]
  /\ s.found = 0 => s.free <= 1 /\ \A q \in P : q > k
  /\ s.found = 1 => \E p \in P : /\ p <= k /\ s.free = p + width
                                 /\ \A q \in P : q <= k => p <= q /\ q < p + width

LEMMA ScannedOn ==
  ASSUME NEW P \in SUBSET (Nat \ {0}), NEW width \in Nat \ {0}, NEW k \in Nat, NEW s, SeenUpto(s, P, width, k)
  PROVE  SeenUpto(IF k + 1 \in P /\ s.free <= k + 1
                  THEN [found |-> s.found + 1, free |-> k + 1 + width] ELSE s, P, width, k + 1)
<1>1. s.found \in Nat /\ s.free \in Nat /\ s \in [found : Nat, free : Nat]
  BY DEF SeenUpto
<1>2. CASE k + 1 \in P /\ s.free <= k + 1
  <2>1. PICK t : t = [found |-> s.found + 1, free |-> k + 1 + width]
    OBVIOUS
  <2>2. t \in [found : Nat, free : Nat] /\ t.found = s.found + 1 /\ t.free = k + 1 + width
    BY <1>1, <2>1
  <2>3. CASE t.found = 1
    <3>1. \A q \in P : q > k
      BY <1>1, <2>2, <2>3 DEF SeenUpto
    <3>2. \A q \in P : q <= k + 1 => k + 1 <= q /\ q < k + 1 + width
      BY <3>1
    <3> QED
      BY <1>2, <2>1, <2>2, <2>3, <3>2 DEF SeenUpto
  <2>4. CASE t.found # 1
    BY <1>1, <1>2, <2>1, <2>2, <2>4 DEF SeenUpto
  <2> QED
    BY <2>3, <2>4
<1>3. CASE ~(k + 1 \in P /\ s.free <= k + 1)
  <2>1. ASSUME s.found = 0 PROVE s.free <= 1 /\ \A q \in P : q > k + 1
    <3>1. s.free <= 1 /\ \A q \in P : q > k
      BY <2>1 DEF SeenUpto
    <3>2. k + 1 \notin P
      BY <1>1, <1>3, <3>1
    <3> QED
      BY <3>1, <3>2
  <2>2. ASSUME s.found = 1
        PROVE  \E p \in P : p <= k + 1 /\ s.free = p + width /\ \A q \in P : q <= k + 1 => p <= q /\ q < p + width
    <3>1. PICK p \in P : p <= k /\ s.free = p + width /\ \A q \in P : q <= k => p <= q /\ q < p + width
      BY <2>2 DEF SeenUpto
    <3>2. ASSUME NEW q \in P, q <= k + 1 PROVE p <= q /\ q < p + width
      <4>1. CASE q <= k
        BY <3>1, <4>1
      <4>2. CASE q = k + 1
        <5>1. q < p + width
          BY <1>1, <1>3, <3>1, <4>2
        <5>2. p <= q
          BY <3>1, <4>2
        <5> QED
          BY <5>1, <5>2
      <4> QED
        BY <3>2, <4>1, <4>2
    <3> QED
      BY <3>1, <3>2
  <2> QED
    BY <1>1, <1>3, <2>1, <2>2 DEF SeenUpto
<1> QED
  BY <1>2, <1>3

\* Where a text occurs once by str.count, each other place overlaps the first.
LEMMA CountedOnce ==
  ASSUME NEW old \in Seq(Tokens), NEW text \in Seq(Tokens)
  PROVE  /\ Count(old, text) \in Nat
         /\ Count(old, text) = 1 =>
              \E p \in Places(old, text) : \A q \in Places(old, text) :
                p <= q /\ (q # p => q - p < Len(old))
<1>1. PICK n \in Nat : n = Len(text) + 1
  BY LenProperties
<1>2. PICK P \in SUBSET (1..n) : P = Places(old, text)
  BY <1>1 DEF Places
<1>3. PICK width \in Nat \ {0} : width = (IF old = <<>> THEN 1 ELSE Len(old))
  BY EmptySeq, LenProperties
<1>4. PICK V : V = [found : Nat, free : Nat]
  OBVIOUS
<1>5. PICK e \in V : e = [found |-> 0, free |-> 1]
  BY <1>4
<1>6. PICK next : next = [i \in 1..n |-> [v \in V |-> IF i \in P /\ v.free <= i
                                                     THEN [found |-> v.found + 1, free |-> i + width] ELSE v]]
  OBVIOUS
<1>7. next \in [1..n -> [V -> V]]
  <2>1. ASSUME NEW i \in 1..n, NEW v \in V PROVE [found |-> v.found + 1, free |-> i + width] \in V
    <3>1. v.found + 1 \in Nat /\ i + width \in Nat
      BY <1>4
    <3> QED
      BY <1>4, <3>1
  <2>2. \A i \in 1..n, v \in V : (IF i \in P /\ v.free <= i
                                  THEN [found |-> v.found + 1, free |-> i + width] ELSE v) \in V
    BY <2>1
  <2> QED
    BY <1>6, <2>2
<1>8. PICK g \in [0..n -> V] : g[0] = e /\ Follows(g, next, n)
  BY <1>7, RecursionHasValue
<1>9. g = [i \in 0..n |-> IF i = 0 THEN [found |-> 0, free |-> 1]
                          ELSE IF i \in P /\ g[i - 1].free <= i
                               THEN [found |-> g[i - 1].found + 1, free |-> i + width] ELSE g[i - 1]]
  <2>1. ASSUME NEW i \in 0..n
        PROVE  g[i] = IF i = 0 THEN [found |-> 0, free |-> 1]
                      ELSE IF i \in P /\ g[i - 1].free <= i
                           THEN [found |-> g[i - 1].found + 1, free |-> i + width] ELSE g[i - 1]
    <3>1. CASE i = 0
      BY <1>5, <1>8, <3>1
    <3>2. CASE i # 0
      <4>1. i \in 1..n /\ i - 1 \in 0..n /\ g[i - 1] \in V
        BY <3>2
      <4>2. g[i] = next[i][g[i - 1]]
        BY <1>8, <4>1 DEF Follows
      <4> QED
        BY <1>6, <3>2, <4>1, <4>2
    <3> QED
      BY <3>1, <3>2
  <2> QED
    BY <2>1
<1>10. PICK h : /\ h = [i \in 0..n |-> IF i = 0 THEN [found |-> 0, free |-> 1]
                                       ELSE IF i \in P /\ h[i - 1].free <= i
                                            THEN [found |-> h[i - 1].found + 1, free |-> i + width] ELSE h[i - 1]]
                /\ Count(old, text) = h[n].found
  <2>1. \E h : h = [i \in 0..Len(text) + 1 |->
                      IF i = 0 THEN [found |-> 0, free |-> 1]
                      ELSE IF i \in Places(old, text) /\ h[i - 1].free <= i
                           THEN [found |-> h[i - 1].found + 1,
                                 free |-> i + (IF old = <<>> THEN 1 ELSE Len(old))] ELSE h[i - 1]]
    BY <1>1, <1>2, <1>3, <1>9
  <2>2. \E h : /\ h = [i \in 0..Len(text) + 1 |->
                      IF i = 0 THEN [found |-> 0, free |-> 1]
                      ELSE IF i \in Places(old, text) /\ h[i - 1].free <= i
                           THEN [found |-> h[i - 1].found + 1,
                                 free |-> i + (IF old = <<>> THEN 1 ELSE Len(old))] ELSE h[i - 1]]
               /\ Count(old, text) = h[Len(text) + 1].found
    BY <2>1 DEF Count
  <2> QED
    BY <1>1, <1>2, <1>3, <2>2
<1>11. SeenUpto(h[n], P, width, n)
  <2>1. \A i \in 0..n : h[i] = IF i = 0 THEN [found |-> 0, free |-> 1]
                               ELSE IF i \in P /\ h[i - 1].free <= i
                                    THEN [found |-> h[i - 1].found + 1, free |-> i + width] ELSE h[i - 1]
    BY <1>10
  <2> DEFINE E == {k \in 0..n : SeenUpto(h[k], P, width, k)}
  <2>2. 0 \in E
    <3>1. h[0] = [found |-> 0, free |-> 1]
      <4>1. PICK i \in 0..n : i = 0
        OBVIOUS
      <4>2. h[i] = [found |-> 0, free |-> 1]
        BY <2>1, <4>1
      <4> QED
        BY <4>1, <4>2
    <3>2. \A q \in P : q > 0
      OBVIOUS
    <3>3. SeenUpto(h[0], P, width, 0)
      BY <3>1, <3>2 DEF SeenUpto
    <3> QED
      BY <3>3
  <2>3. ASSUME NEW k \in 0..(n - 1), k \in E PROVE k + 1 \in E
    <3>1. PICK j \in 1..n : j = k + 1 /\ j - 1 = k /\ j # 0 /\ j \in 0..n /\ SeenUpto(h[k], P, width, k)
      BY <2>3
    <3>2. h[j] = IF k + 1 \in P /\ h[k].free <= k + 1
                 THEN [found |-> h[k].found + 1, free |-> k + 1 + width] ELSE h[k]
      BY <2>1, <3>1
    <3>3. SeenUpto(h[j], P, width, k + 1)
      BY <3>1, <3>2, ScannedOn
    <3> QED
      BY <3>1, <3>3
  <2> HIDE DEF E
  <2>4. 0..n \subseteq E
    BY <2>2, <2>3, CountingUp
  <2>5. n \in E
    BY <2>4
  <2> QED
    BY <2>5 DEF E
<1>12. Count(old, text) \in Nat
  BY <1>10, <1>11 DEF SeenUpto
<1>13. ASSUME Count(old, text) = 1
       PROVE  \E p \in P : \A q \in P : p <= q /\ (q # p => q - p < Len(old))
  <2>1. PICK p \in P : \A q \in P : q <= n => p <= q /\ q < p + width
    BY <1>10, <1>11, <1>13 DEF SeenUpto
  <2>2. ASSUME NEW q \in P PROVE p <= q /\ (q # p => q - p < Len(old))
    <3>1. p <= q /\ q < p + width
      BY <2>1
    <3>2. CASE old = <<>>
      BY <1>3, <3>1, <3>2
    <3>3. CASE old # <<>>
      <4>1. width = Len(old) /\ p \in Nat /\ q \in Nat
        BY <1>3, <3>3
      <4> QED
        BY <3>1, <4>1
    <3> QED
      BY <3>2, <3>3
  <2> QED
    BY <2>2
<1> QED
  BY <1>2, <1>12, <1>13

LEMMA ReplacedTypes ==
  ASSUME NEW old \in Seq(Tokens), NEW new \in Seq(Tokens), NEW text \in Seq(Tokens),
         NEW place \in Places(old, text)
  PROVE  ReplacedAt(text, place, old, new) \in Seq(Tokens)
<1>1. PICK n \in Nat : n = Len(text) /\ \A i \in 1..n : text[i] \in Tokens
  BY LenProperties
<1>2. PICK m \in Nat : m = Len(old)
  BY LenProperties
<1>3. place \in 1..n + 1
  BY <1>1 DEF Places
<1>4. SubSeq(text, 1, place - 1) \in Seq(Tokens)
  <2>1. \A i \in 1..(place - 1) : text[i] \in Tokens
    BY <1>1, <1>3
  <2>2. place - 1 \in Int
    BY <1>3
  <2> QED
    BY <2>1, <2>2, SubSeqProperties, 1 \in Int
<1>5. SubSeq(text, place + m, n) \in Seq(Tokens)
  <2>1. \A i \in (place + m)..n : text[i] \in Tokens
    BY <1>1, <1>3
  <2>2. place + m \in Int /\ n \in Int
    BY <1>3
  <2> QED
    BY <2>1, <2>2, SubSeqProperties
<1> QED
  BY <1>1, <1>2, <1>4, <1>5, ConcatProperties DEF ReplacedAt

\* What an edit that succeeds makes of the text.
LEMMA EditFacts ==
  ASSUME NEW old \in Seq(Tokens), NEW new \in Seq(Tokens), NEW text \in Seq(Tokens), Count(old, text) = 1
  PROVE  \E place \in Places(old, text) :
           /\ ReplacedFirst(text, old, new) = ReplacedAt(text, place, old, new)
           /\ \A other \in Places(old, text) :
                other # place => other - place < Len(old) /\ place - other < Len(old)
<1>1. PICK p \in Places(old, text) : \A q \in Places(old, text) : p <= q /\ (q # p => q - p < Len(old))
  BY CountedOnce
<1>2. Places(old, text) \subseteq Int
  BY DEF Places
<1>3. (CHOOSE i \in Places(old, text) : \A j \in Places(old, text) : i <= j) = p
  <2>1. PICK x : x = (CHOOSE i \in Places(old, text) : \A j \in Places(old, text) : i <= j)
    OBVIOUS
  <2>2. x \in Places(old, text) /\ \A j \in Places(old, text) : x <= j
    BY <1>1, <2>1
  <2>3. x <= p /\ p <= x
    BY <1>1, <2>2
  <2>4. x = p
    BY <1>2, <2>2, <2>3
  <2> QED
    BY <2>1, <2>4
<1>4. ASSUME NEW q \in Places(old, text), q # p PROVE q - p < Len(old) /\ p - q < Len(old)
  <2>1. q - p < Len(old) /\ p <= q /\ Len(old) \in Nat
    BY <1>1, <1>4, LenProperties
  <2>2. p \in Int /\ q \in Int
    BY <1>2
  <2> QED
    BY <2>1, <2>2
<1> QED
  BY <1>1, <1>3, <1>4 DEF ReplacedFirst

LEMMA TextTypes == \A n \in Nat : SmallTexts(n) \subseteq Seq(Tokens)
<1> SUFFICES ASSUME NEW n \in Nat, NEW s \in SmallTexts(n) PROVE s \in Seq(Tokens)
  OBVIOUS
<1>1. PICK m \in 0..n : s \in [1..m -> Tokens]
  BY DEF SmallTexts, SeqOf
<1> QED
  BY <1>1, IsASeq

EditInv == FileToolsTypeOK /\ EditsKeepTheRest

LEMMA FilesStart == FileToolsInit => EditInv
<1> SUFFICES ASSUME FileToolsInit PROVE EditInv
  OBVIOUS
<1>1. <<>> \in Seq(Tokens) /\ <<Plain>> \in Seq(Tokens)
  BY EmptySeq DEF Tokens
<1>2. fileText \in {Missing, <<>>, <<Plain>>} /\ before = fileText
      /\ toolCall = [tool |-> "none", path |-> "file", old |-> <<>>, new |-> <<>>, answer |-> "ok"]
  BY DEF FileToolsInit
<1>3. FileToolsTypeOK
  BY <1>1, <1>2 DEF FileToolsTypeOK, PathKinds
<1>4. EditsKeepTheRest
  BY <1>2 DEF EditsKeepTheRest
<1> QED
  BY <1>3, <1>4 DEF EditInv

\* A call is kept as it was made.
LEMMA CallFacts ==
  ASSUME NEW tool \in {"none", "read_file", "list_dir", "write_file", "edit_file"}, NEW path \in PathKinds,
         NEW old \in Seq(Tokens), NEW new \in Seq(Tokens), NEW reply \in {"ok", "warning", "error"},
         CallTool(tool, path, old, new, reply), FileToolsTypeOK, before' = fileText,
         fileText' \in Seq(Tokens) \cup {Missing}
  PROVE  /\ FileToolsTypeOK'
         /\ toolCall'.tool = tool /\ toolCall'.old = old /\ toolCall'.new = new /\ toolCall'.answer = reply
BY DEF CallTool, FileToolsTypeOK

LEMMA ReadKeeps ==
  ASSUME EditInv, NEW path \in PathKinds, ReadFile(path) \/ ListDir(path)
  PROVE  EditInv'
<1>1. FileToolsTypeOK /\ fileText \in Seq(Tokens) \cup {Missing} /\ before' = fileText /\ fileText' = fileText
  BY DEF EditInv, FileToolsTypeOK, ReadFile, ListDir
<1>2. PICK tool \in {"read_file", "list_dir"}, reply \in {"ok", "error"} :
        CallTool(tool, path, <<>>, <<>>, reply)
  BY DEF ReadFile, ListDir
<1>3. FileToolsTypeOK' /\ toolCall'.tool = tool
  <2>1. <<>> \in Seq(Tokens)
    BY EmptySeq
  <2> QED
    BY <1>1, <1>2, <2>1, CallFacts
<1>4. EditsKeepTheRest'
  BY <1>1, <1>2, <1>3 DEF EditsKeepTheRest
<1> QED
  BY <1>3, <1>4 DEF EditInv

LEMMA NotMissing == \A text \in Seq(Tokens) : text # Missing
<1> SUFFICES ASSUME NEW text \in Seq(Tokens), text = Missing PROVE FALSE
  OBVIOUS
<1>1. Len(text) = 1 /\ text[1] = 0 /\ 1 \in 1..Len(text)
  BY DEF Missing
<1>2. text[1] \in Tokens
  BY <1>1, ElementOfSeq
<1> QED
  BY <1>1, <1>2 DEF Tokens, Plain, Refused

LEMMA WriteKeeps ==
  ASSUME EditInv, NEW path \in PathKinds, NEW text \in Seq(Tokens), WriteFile(path, text)
  PROVE  EditInv'
<1> DEFINE good == path = "file" /\ Len(text) <= MaxFileWrite /\ Safe(text)
           reply == IF good THEN "ok" ELSE "error"
<1>1. /\ FileToolsTypeOK /\ before' = fileText /\ CallTool("write_file", path, <<>>, text, reply)
      /\ fileText' = IF good THEN text ELSE fileText
  BY DEF EditInv, WriteFile
<1>2. fileText' \in Seq(Tokens) \cup {Missing} /\ <<>> \in Seq(Tokens) /\ reply \in {"ok", "error"}
  BY <1>1, EmptySeq DEF FileToolsTypeOK
<1> HIDE DEF good, reply
<1>3. FileToolsTypeOK' /\ toolCall'.tool = "write_file" /\ toolCall'.answer = reply
  BY <1>1, <1>2, CallFacts
<1>4. CASE good
  <2>1. fileText' = text /\ reply = "ok" /\ Len(text) <= MaxFileWrite
    BY <1>1, <1>4 DEF good, reply
  <2>2. text # Missing
    BY NotMissing
  <2>3. Len(text) <= MaxFileRead
    BY <2>1, LenProperties, FileToolsAssumption
  <2>4. Readable("file")'
    BY <2>1, <2>2, <2>3 DEF Readable
  <2> QED
    BY <1>3, <2>1, <2>4 DEF EditInv, EditsKeepTheRest
<1>5. CASE ~good
  <2>1. fileText' = before' /\ reply = "error"
    BY <1>1, <1>5 DEF reply
  <2> QED
    BY <1>3, <2>1 DEF EditInv, EditsKeepTheRest
<1> QED
  BY <1>4, <1>5

LEMMA EditKeeps ==
  ASSUME EditInv, NEW path \in PathKinds, NEW old \in Seq(Tokens), NEW new \in Seq(Tokens),
         EditFile(path, old, new)
  PROVE  EditInv'
<1>1. PICK verdict : verdict = EditVerdict(path, old, new)
  OBVIOUS
<1>2. /\ FileToolsTypeOK /\ before' = fileText /\ CallTool("edit_file", path, old, new, verdict)
      /\ fileText' = IF verdict = "ok" THEN ReplacedFirst(fileText, old, new) ELSE fileText
  BY <1>1 DEF EditInv, EditFile
<1>3. verdict \in {"ok", "warning", "error"}
  BY <1>1 DEF EditVerdict
<1>4. CASE verdict = "ok"
  <2>1. /\ Readable(path) /\ Count(old, fileText) # 0 /\ ~(Count(old, fileText) > 1)
        /\ ~(Len(ReplacedFirst(fileText, old, new)) > MaxFileWrite)
    BY <1>1, <1>4 DEF EditVerdict
  <2>2. fileText \in Seq(Tokens)
    BY <1>2, <2>1 DEF Readable, FileToolsTypeOK
  <2>3. Count(old, fileText) = 1
    <3>1. PICK c \in Nat : c = Count(old, fileText)
      BY <2>2, CountedOnce
    <3> QED
      BY <2>1, <3>1
  <2>4. PICK place \in Places(old, fileText) :
          /\ ReplacedFirst(fileText, old, new) = ReplacedAt(fileText, place, old, new)
          /\ \A other \in Places(old, fileText) :
               other # place => other - place < Len(old) /\ place - other < Len(old)
    BY <2>2, <2>3, EditFacts
  <2>5. fileText' = ReplacedAt(fileText, place, old, new)
    BY <1>2, <1>4, <2>4
  <2>6. fileText' \in Seq(Tokens)
    BY <2>2, <2>5, ReplacedTypes
  <2>7. /\ FileToolsTypeOK' /\ toolCall'.tool = "edit_file" /\ toolCall'.answer = "ok"
        /\ toolCall'.old = old /\ toolCall'.new = new
    BY <1>2, <1>4, <2>6, CallFacts
  <2>8. Readable("file")'
    <3>1. PICK t \in Seq(Tokens) : t = fileText'
      BY <2>6
    <3>2. t # Missing
      BY <3>1, NotMissing
    <3>3. ~(Len(t) > MaxFileWrite)
      BY <1>2, <1>4, <2>1, <3>1
    <3>4. Len(t) <= MaxFileRead
      BY <3>3, LenProperties, FileToolsAssumption
    <3> QED
      BY <3>1, <3>2, <3>4 DEF Readable
  <2>9. EditsKeepTheRest'
    BY <1>2, <2>4, <2>5, <2>7, <2>8 DEF EditsKeepTheRest
  <2> QED
    BY <2>7, <2>9 DEF EditInv
<1>5. CASE verdict # "ok"
  <2>1. fileText' = fileText /\ fileText' = before'
    BY <1>2, <1>5
  <2>2. FileToolsTypeOK' /\ toolCall'.answer = verdict
    BY <1>2, <1>3, <2>1, CallFacts DEF FileToolsTypeOK
  <2>3. EditsKeepTheRest'
    BY <1>5, <2>1, <2>2 DEF EditsKeepTheRest
  <2> QED
    BY <2>2, <2>3 DEF EditInv
<1> QED
  BY <1>4, <1>5

LEMMA EditStep == EditInv /\ [FileToolsNext]_fileVars => EditInv'
<1> SUFFICES ASSUME EditInv, [FileToolsNext]_fileVars PROVE EditInv'
  OBVIOUS
<1>1. <<>> \in Seq(Tokens) /\ <<Plain>> \in Seq(Tokens)
  BY EmptySeq DEF Tokens
<1>2. ASSUME NEW path \in PathKinds,
             ReadFile(path) \/ ListDir(path) \/ WriteFile(path, <<Plain>>) \/ EditFile(path, <<Plain>>, <<>>)
      PROVE  EditInv'
  BY <1>1, <1>2, ReadKeeps, WriteKeeps, EditKeeps
<1>3. ASSUME NEW text \in SmallTexts(MaxFileWrite + 1), WriteFile("file", text) PROVE EditInv'
  <2>1. text \in Seq(Tokens) /\ "file" \in PathKinds
    BY TextTypes, FileToolsAssumption DEF PathKinds
  <2> QED
    BY <1>3, <2>1, WriteKeeps
<1>4. ASSUME NEW old \in SmallTexts(2), NEW new \in SmallTexts(2), EditFile("file", old, new) PROVE EditInv'
  <2>1. old \in Seq(Tokens) /\ new \in Seq(Tokens) /\ "file" \in PathKinds
    BY TextTypes DEF PathKinds
  <2> QED
    BY <1>4, <2>1, EditKeeps
<1>5. ASSUME NEW text \in SmallTexts(MaxFileRead + 1) \cup {Missing}, OtherProgram(text) PROVE EditInv'
  <2>1. text \in Seq(Tokens) \cup {Missing} /\ "file" \in PathKinds
    BY TextTypes, FileToolsAssumption DEF PathKinds
  <2>2. CallTool("none", "file", <<>>, <<>>, "ok") /\ before' = fileText /\ fileText' = text /\ FileToolsTypeOK
    BY <1>5 DEF OtherProgram, EditInv
  <2>3. FileToolsTypeOK' /\ toolCall'.tool = "none" /\ toolCall'.answer = "ok"
    BY <1>1, <2>1, <2>2, CallFacts
  <2>4. EditsKeepTheRest'
    BY <2>3 DEF EditsKeepTheRest
  <2> QED
    BY <2>3, <2>4 DEF EditInv
<1>6. CASE UNCHANGED fileVars
  BY <1>6 DEF fileVars, EditInv, FileToolsTypeOK, EditsKeepTheRest, Readable
<1> QED
  BY <1>2, <1>3, <1>4, <1>5, <1>6 DEF FileToolsNext

\* Whatever other programs do to a file, an edit by the agent's tools (filesystem.py)
\* replaces the only place of a text, or one that the other places overlap, and keeps the rest.
THEOREM EditsStay == FileToolsSpec => []EditsKeepTheRest
<1>1. EditInv => EditsKeepTheRest
  BY DEF EditInv
<1> QED
  BY <1>1, FilesStart, EditStep, PTL DEF FileToolsSpec

\* What is in the editor, while only it moves files: a file of a folder as it was asked for, or
\* one of the root that lies in a single folder beside it.
OnlyIn(x) == x \in SubFolders /\ \A f \in SubFolders : HasPrompt(f) <=> f = x

ShownHere ==
  /\ editor # NotOpen => editor.name \in Folders
  /\ editor.alone =>
       /\ editor.name # "root" => editor.from = editor.name
       /\ editor.name = "root" /\ editor.spread = 1 => OnlyIn(editor.from)

Shelf == [Folders -> {NoPrompt} \cup Nat]
Shown == [name : Folders \cup {"none"}, from : Folders \cup {"none"}, spread : Nat, alone : BOOLEAN]
Page  == [folder : Folders, text : Nat] \cup {NoPage}

PagesPlaced ==
  \A p \in Pens : pages[p] # NoPage => HasPrompt(pages[p].folder)

PromptFileTypes ==
  /\ placed \in Shelf /\ writes \in Nat /\ pages \in [Pens -> Page]
  /\ editor \in Shown
  /\ {event, reading, unwatched} \subseteq BOOLEAN

PromptFileInv ==
  /\ PromptFileTypes /\ PagesPlaced /\ ShownHere /\ SavedWhereShown /\ TemplatesFollowFiles

\* The first folder that has the prompt, when only one has it.
LEMMA FirstIsOnly ==
  ASSUME NEW x, OnlyIn(x)
  PROVE  /\ FirstOf(<<"prompts", "memory", "social", "nature", "root">>) = x
         /\ FirstOf(<<"nature", "social", "memory", "prompts">>) = x
<1>1. x \in {"nature", "social", "memory", "prompts"} /\ \A f \in SubFolders : HasPrompt(f) <=> f = x
  BY DEF OnlyIn, SubFolders
<1>2. FirstOf(<<"nature", "social", "memory", "prompts">>) = x
  <2> DEFINE order == <<"nature", "social", "memory", "prompts">>
             found == {i \in DOMAIN order : HasPrompt(order[i])}
  <2>1. DOMAIN order = 1..4 /\ order[1] = "nature" /\ order[2] = "social" /\ order[3] = "memory" /\ order[4] = "prompts"
    OBVIOUS
  <2>2. PICK k \in 1..4 : order[k] = x /\ \A i \in 1..4 : order[i] = x <=> i = k
    BY <1>1, <2>1
  <2>3. found = {k}
    BY <1>1, <2>1, <2>2 DEF SubFolders
  <2>4. (CHOOSE i \in found : \A j \in found : i <= j) = k
    BY <2>3
  <2> QED
    BY <2>2, <2>3, <2>4 DEF FirstOf
<1>3. FirstOf(<<"prompts", "memory", "social", "nature", "root">>) = x
  <2> DEFINE order == <<"prompts", "memory", "social", "nature", "root">>
             found == {i \in DOMAIN order : HasPrompt(order[i])}
  <2>1. DOMAIN order = 1..5 /\ order[1] = "prompts" /\ order[2] = "memory" /\ order[3] = "social"
        /\ order[4] = "nature" /\ order[5] = "root"
    OBVIOUS
  <2>2. PICK k \in 1..4 : order[k] = x /\ \A i \in 1..4 : order[i] = x <=> i = k
    BY <1>1, <2>1
  <2>3. k \in found /\ \A j \in found : j = k \/ j = 5
    BY <1>1, <2>1, <2>2 DEF SubFolders
  <2>4. (CHOOSE i \in found : \A j \in found : i <= j) = k
    <3>1. k \in found /\ \A j \in found : k <= j
      BY <2>2, <2>3
    <3>2. PICK m : m = (CHOOSE i \in found : \A j \in found : i <= j)
      OBVIOUS
    <3>3. m \in found /\ \A j \in found : m <= j
      BY <3>1, <3>2
    <3>4. m = k
      BY <2>2, <2>3, <3>1, <3>3
    <3> QED
      BY <3>2, <3>4
  <2> QED
    BY <2>2, <2>3, <2>4 DEF FirstOf
<1> QED
  BY <1>2, <1>3

LEMMA FoundThere ==
  ASSUME NEW n \in Nat, NEW order \in [1..n -> Folders]
  PROVE  FirstOf(order) \in Folders \cup {"none"}
<1> DEFINE found == {i \in DOMAIN order : HasPrompt(order[i])}
<1>1. CASE found = {}
  BY <1>1 DEF FirstOf
<1>2. CASE found # {}
  <2>1. found \in SUBSET Nat
    OBVIOUS
  <2>2. PICK k \in found : \A j \in found : k <= j
    BY <1>2, <2>1, LeastOf
  <2>3. PICK m : m = (CHOOSE i \in found : \A j \in found : i <= j)
    OBVIOUS
  <2>4. m \in 1..n
    BY <2>2, <2>3
  <2>5. FirstOf(order) = order[m]
    BY <1>2, <2>3 DEF FirstOf
  <2> QED
    BY <2>4, <2>5
<1> QED
  BY <1>1, <1>2

LEMMA PromptFilesStart == PromptFilesInit => PromptFileInv
<1> SUFFICES ASSUME PromptFilesInit PROVE PromptFileInv
  OBVIOUS
<1>1. /\ placed \in [Folders -> {NoPrompt, Packed}] /\ writes = Packed /\ editor = NotOpen
      /\ savedTo = "none" /\ pages = [p \in Pens |-> NoPage] /\ event = FALSE /\ reading = FALSE
      /\ template = placed["prompts"] /\ unwatched = FALSE
  BY DEF PromptFilesInit
<1>2. placed \in Shelf
  BY <1>1 DEF Shelf, Packed
<1>3. pages \in [Pens -> Page]
  BY <1>1 DEF Page
<1>4. editor \in Shown /\ editor.alone = FALSE
  BY <1>1 DEF NotOpen, Shown
<1>5. PromptFileTypes
  BY <1>1, <1>2, <1>3, <1>4 DEF PromptFileTypes, Packed
<1>6. PagesPlaced
  BY <1>1 DEF PagesPlaced
<1> QED
  BY <1>1, <1>4, <1>5, <1>6 DEF PromptFileInv, ShownHere, SavedWhereShown, TemplatesFollowFiles

\* A step that moves no file leaves the editor's part as it is, and so does a disturbance.
LEMMA EditorRests ==
  ASSUME PromptFileInv, UNCHANGED <<editor, savedTo>>,
         \A f \in Folders : HasPrompt(f)' <=> HasPrompt(f)
  PROVE  ShownHere' /\ SavedWhereShown'
<1>1. ShownHere /\ SavedWhereShown
  BY DEF PromptFileInv
<1>2. SubFolders \subseteq Folders
  BY DEF Folders
<1>3. ShownHere'
  BY <1>1, <1>2 DEF ShownHere, OnlyIn
<1>4. SavedWhereShown'
  BY <1>1 DEF SavedWhereShown
<1> QED
  BY <1>3, <1>4

LEMMA EditorDisturbed ==
  ASSUME PromptFileInv, Disturbed
  PROVE  /\ ShownHere' /\ SavedWhereShown'
         /\ editor' \in Shown
<1>1. editor \in Shown
  BY DEF PromptFileInv, PromptFileTypes
<1>2. /\ editor' \in Shown
      /\ editor'.alone = FALSE /\ savedTo' = "none" /\ editor'.name = editor.name
  BY <1>1 DEF Disturbed, Shown
<1>3. editor = NotOpen => editor' = NotOpen
  <2>1. NotOpen.alone = FALSE
    BY Zenon DEF NotOpen
  <2>2. [NotOpen EXCEPT !.alone = FALSE] = NotOpen
    BY <2>1 DEF NotOpen
  <2> QED
    BY <2>2 DEF Disturbed
<1>4. editor # NotOpen => editor.name \in Folders
  BY DEF PromptFileInv, ShownHere
<1> QED
  BY <1>2, <1>3, <1>4 DEF ShownHere, SavedWhereShown

\* What a writer does to the folders and to the watcher.
LEMMA TruncateFacts ==
  ASSUME PromptFileInv, NEW pen \in Pens, NEW folder \in Folders, Truncate(pen, folder)
  PROVE  /\ placed' \in Shelf /\ writes' \in Nat /\ pages' \in [Pens -> Page]
         /\ {event', reading', unwatched'} \subseteq BOOLEAN
         /\ PagesPlaced' /\ TemplatesFollowFiles'
         /\ \A f \in Folders : HasPrompt(f)' <=> (HasPrompt(f) \/ f = folder)
<1>1. /\ placed \in Shelf /\ writes \in Nat /\ pages \in [Pens -> Page]
      /\ {event, reading, unwatched} \subseteq BOOLEAN /\ PagesPlaced /\ TemplatesFollowFiles
  BY DEF PromptFileInv, PromptFileTypes
<1>2. /\ writes' = writes + 1
      /\ pages' = [pages EXCEPT ![pen] = [folder |-> folder, text |-> writes']]
      /\ placed' = [placed EXCEPT ![folder] = Emptied]
      /\ event' = (event \/ folder = "prompts") /\ UNCHANGED <<reading, template, unwatched>>
  BY DEF Truncate, Put
<1>3. placed' \in Shelf /\ \A f \in Folders : placed'[f] = IF f = folder THEN Emptied ELSE placed[f]
  BY <1>1, <1>2 DEF Shelf, Emptied
<1>4. writes' \in Nat /\ pages' \in [Pens -> Page]
  BY <1>1, <1>2 DEF Page
<1>5. {event', reading', unwatched'} \subseteq BOOLEAN
  BY <1>1, <1>2
<1>6. \A f \in Folders : HasPrompt(f)' <=> (HasPrompt(f) \/ f = folder)
  BY <1>3 DEF HasPrompt, Emptied, NoPrompt
<1>7. PagesPlaced'
  <2> SUFFICES ASSUME NEW p \in Pens, pages'[p] # NoPage PROVE placed'[pages'[p].folder] # NoPrompt
    BY DEF PagesPlaced, HasPrompt
  <2>1. CASE p = pen
    <3>1. pages'[p].folder = folder
      BY <1>1, <1>2, <2>1
    <3> QED
      BY <1>6, <3>1 DEF HasPrompt
  <2>2. CASE p # pen
    <3>1. pages'[p] = pages[p] /\ pages[p].folder \in Folders /\ HasPrompt(pages[p].folder)
      BY <1>1, <1>2, <2>2 DEF PagesPlaced, Page
    <3> QED
      BY <1>6, <3>1 DEF HasPrompt
  <2> QED
    BY <2>1, <2>2
<1>8. TemplatesFollowFiles'
  <2>1. CASE folder = "prompts"
    <3>1. pages'[pen].folder = "prompts"
      BY <1>1, <1>2, <2>1
    <3> QED
      BY <3>1 DEF TemplatesFollowFiles
  <2>2. CASE folder # "prompts"
    <3>1. event' = event /\ placed'["prompts"] = placed["prompts"]
      BY <1>1, <1>2, <1>3, <2>2 DEF Folders, SubFolders
    <3>2. ASSUME \A p \in Pens : pages'[p].folder # "prompts"
          PROVE  \A p \in Pens : pages[p].folder # "prompts"
      <4> SUFFICES ASSUME NEW p \in Pens PROVE pages[p].folder # "prompts"
        OBVIOUS
      <4>1. CASE p = pen
        <5>1. pages[p] = NoPage
          BY <4>1 DEF Truncate
        <5> QED
          BY <5>1 DEF NoPage
      <4>2. CASE p # pen
        BY <1>1, <1>2, <3>2, <4>2
      <4> QED
        BY <4>1, <4>2
    <3> QED
      BY <1>1, <1>2, <3>1, <3>2 DEF TemplatesFollowFiles
  <2> QED
    BY <2>1, <2>2
<1> QED
  BY <1>3, <1>4, <1>5, <1>6, <1>7, <1>8

LEMMA OpenKeeps ==
  ASSUME PromptFileInv, NEW name \in Folders, OpenFile(name)
  PROVE  PromptFileInv'
<1>1. /\ name \in Folders \ {"memory"} /\ HasPrompt(name)
      /\ editor' = [name |-> name, from |-> ReadFrom(name),
                    spread |-> Cardinality({f \in SubFolders : HasPrompt(f)}), alone |-> TRUE]
      /\ savedTo' = "none"
      /\ UNCHANGED <<placed, writes, pages, event, reading, template, unwatched>>
  BY DEF OpenFile, ListedFiles
<1>2. PICK spread \in Nat : /\ spread = Cardinality({f \in SubFolders : HasPrompt(f)})
                            /\ spread = 1 => \E x : {f \in SubFolders : HasPrompt(f)} = {x}
  <2>1. IsFiniteSet(SubFolders)
    <3>1. SubFolders = ({"nature"} \cup {"social"}) \cup ({"memory"} \cup {"prompts"})
      BY DEF SubFolders
    <3> QED
      BY <3>1, FS_Singleton, FS_Union
  <2>2. IsFiniteSet({f \in SubFolders : HasPrompt(f)})
    BY <2>1, FS_Subset
  <2> QED
    BY <2>2, FS_CardinalityType, FS_Singleton
<1>3. PICK from : from = ReadFrom(name)
  OBVIOUS
<1>4. name # "root" => from = name
  BY <1>1, <1>3 DEF ReadFrom
<1>5. name = "root" /\ spread = 1 => OnlyIn(from)
  <2> SUFFICES ASSUME name = "root", spread = 1 PROVE OnlyIn(from)
    OBVIOUS
  <2>1. PICK x : {f \in SubFolders : HasPrompt(f)} = {x}
    BY <1>2
  <2>2. OnlyIn(x)
    BY <2>1 DEF OnlyIn
  <2>3. from = x
    BY <1>3, <2>2, FirstIsOnly DEF ReadFrom
  <2> QED
    BY <2>2, <2>3
<1>6. from \in Folders \cup {"none"}
  <2>1. <<"prompts", "memory", "social", "nature", "root">> \in [1..5 -> Folders]
    BY DEF Folders, SubFolders
  <2> QED
    BY <1>3, <2>1, FoundThere DEF ReadFrom
<1>7. editor' \in Shown /\ editor'.alone = TRUE
      /\ editor'.name = name /\ editor'.from = from /\ editor'.spread = spread
  BY <1>1, <1>2, <1>3, <1>6 DEF Shown
<1>8. ShownHere'
  <2>1. OnlyIn(from)' <=> OnlyIn(from)
    BY <1>1 DEF OnlyIn, HasPrompt
  <2> QED
    BY <1>4, <1>5, <1>7, <2>1 DEF ShownHere, OnlyIn
<1>9. PromptFileTypes'
  BY <1>1, <1>7 DEF PromptFileInv, PromptFileTypes
<1>10. PagesPlaced' /\ TemplatesFollowFiles'
  BY <1>1 DEF PromptFileInv, PagesPlaced, HasPrompt, TemplatesFollowFiles
<1>11. SavedWhereShown'
  BY <1>1 DEF SavedWhereShown
<1> QED
  BY <1>8, <1>9, <1>10, <1>11 DEF PromptFileInv

LEMMA SaveKeeps ==
  ASSUME PromptFileInv, SaveEditor
  PROVE  PromptFileInv'
<1>1. PICK folder : folder = SaveTo(editor.name)
  OBVIOUS
<1>2. /\ editor # NotOpen /\ Truncate("editor", folder) /\ savedTo' = folder /\ editor' = editor
      /\ editor \in Shown /\ ShownHere
  BY <1>1 DEF SaveEditor, PromptFileInv, PromptFileTypes
<1>3. folder \in Folders
  <2>1. <<"nature", "social", "memory", "prompts">> \in [1..4 -> Folders]
    BY DEF Folders, SubFolders
  <2>2. "nature" \in Folders /\ editor.name \in Folders
    BY <1>2 DEF ShownHere, Folders, SubFolders
  <2> QED
    BY <1>1, <2>1, <2>2, FoundThere DEF SaveTo
<1>4. /\ placed' \in Shelf /\ writes' \in Nat /\ pages' \in [Pens -> Page]
      /\ {event', reading', unwatched'} \subseteq BOOLEAN /\ PagesPlaced' /\ TemplatesFollowFiles'
      /\ \A f \in Folders : HasPrompt(f)' <=> (HasPrompt(f) \/ f = folder)
  BY <1>2, <1>3, TruncateFacts DEF Pens
<1>5. editor.alone /\ editor.name # "root" => folder = editor.from
  BY <1>1, <1>2 DEF ShownHere, SaveTo
<1>6. editor.alone /\ editor.name = "root" /\ editor.spread = 1 => folder = editor.from
  <2> SUFFICES ASSUME editor.alone, editor.name = "root", editor.spread = 1 PROVE folder = editor.from
    OBVIOUS
  <2>1. OnlyIn(editor.from)
    BY <1>2 DEF ShownHere
  <2>2. FirstOf(<<"nature", "social", "memory", "prompts">>) = editor.from /\ editor.from # "none"
    BY <2>1, FirstIsOnly DEF OnlyIn, SubFolders
  <2> QED
    BY <1>1, <2>2 DEF SaveTo
<1>7. SavedWhereShown'
  BY <1>2, <1>5, <1>6 DEF SavedWhereShown
<1>8. ShownHere'
  <2>1. ASSUME editor.alone, editor.name = "root", editor.spread = 1 PROVE OnlyIn(editor.from)'
    <3>1. OnlyIn(editor.from) /\ folder = editor.from
      BY <1>2, <1>6, <2>1 DEF ShownHere
    <3>2. SubFolders \subseteq Folders
      BY DEF Folders
    <3>3. \A f \in SubFolders : HasPrompt(f)' <=> f = editor.from
      BY <1>4, <3>1, <3>2 DEF OnlyIn
    <3> QED
      BY <1>2, <3>1, <3>3 DEF OnlyIn
  <2> QED
    BY <1>2, <2>1 DEF ShownHere
<1>9. PromptFileTypes'
  BY <1>2, <1>4 DEF PromptFileTypes
<1> QED
  BY <1>4, <1>7, <1>8, <1>9 DEF PromptFileInv

LEMMA PageKeeps ==
  ASSUME PromptFileInv, NEW pen \in Pens, PageWritten(pen)
  PROVE  PromptFileInv'
<1>1. /\ placed \in Shelf /\ writes \in Nat /\ pages \in [Pens -> Page]
      /\ {event, reading, unwatched} \subseteq BOOLEAN /\ PagesPlaced /\ TemplatesFollowFiles
  BY DEF PromptFileInv, PromptFileTypes
<1>2. PICK folder \in Folders, text \in Nat : pages[pen] = [folder |-> folder, text |-> text]
  BY <1>1 DEF PageWritten, Page
<1>3. /\ pages[pen] # NoPage /\ pages[pen].folder = folder /\ pages[pen].text = text
      /\ placed' = [placed EXCEPT ![folder] = text] /\ event' = (event \/ folder = "prompts")
      /\ pages' = [pages EXCEPT ![pen] = NoPage]
      /\ UNCHANGED <<reading, template, unwatched, writes, editor, savedTo>>
  BY <1>2 DEF PageWritten, Put
<1>4. placed' \in Shelf /\ \A f \in Folders : placed'[f] = IF f = folder THEN text ELSE placed[f]
  BY <1>1, <1>3 DEF Shelf
<1>5. HasPrompt(folder)
  BY <1>1, <1>3 DEF PagesPlaced
<1>6. \A f \in Folders : HasPrompt(f)' <=> HasPrompt(f)
  BY <1>4, <1>5 DEF HasPrompt, NoPrompt
<1>7. pages' \in [Pens -> Page] /\ \A p \in Pens : pages'[p] = IF p = pen THEN NoPage ELSE pages[p]
  BY <1>1, <1>3 DEF Page
<1>8. PromptFileTypes'
  BY <1>1, <1>3, <1>4, <1>7 DEF PromptFileInv, PromptFileTypes
<1>9. PagesPlaced'
  <2> SUFFICES ASSUME NEW p \in Pens, pages'[p] # NoPage PROVE placed'[pages'[p].folder] # NoPrompt
    BY DEF PagesPlaced, HasPrompt
  <2>1. pages'[p] = pages[p] /\ pages[p].folder \in Folders /\ HasPrompt(pages[p].folder)
    BY <1>1, <1>7 DEF PagesPlaced, Page
  <2> QED
    BY <1>6, <2>1 DEF HasPrompt
<1>10. TemplatesFollowFiles'
  <2>1. CASE folder = "prompts"
    BY <1>3, <2>1 DEF TemplatesFollowFiles
  <2>2. CASE folder # "prompts"
    <3>1. event' = event /\ placed'["prompts"] = placed["prompts"]
      BY <1>1, <1>3, <1>4, <2>2 DEF Folders, SubFolders
    <3>2. ASSUME \A p \in Pens : pages'[p].folder # "prompts"
          PROVE  \A p \in Pens : pages[p].folder # "prompts"
      BY <1>3, <1>7, <2>2, <3>2
    <3> QED
      BY <1>1, <1>3, <3>1, <3>2 DEF TemplatesFollowFiles
  <2> QED
    BY <2>1, <2>2
<1> QED
  BY <1>3, <1>6, <1>8, <1>9, <1>10, EditorRests DEF PromptFileInv

\* Others move files of which nobody is writing the page.
LEMMA MoveKeeps ==
  ASSUME PromptFileInv, NEW folder \in Folders, NEW text \in {NoPrompt} \cup Nat,
         \A p \in Pens : pages[p].folder # folder, Disturbed, writes' \in Nat,
         placed' = [placed EXCEPT ![folder] = text], unwatched' = (unwatched \/ folder = "prompts"),
         UNCHANGED <<pages, event, reading, template>>
  PROVE  PromptFileInv'
<1>1. /\ placed \in Shelf /\ pages \in [Pens -> Page]
      /\ {event, reading, unwatched} \subseteq BOOLEAN /\ PagesPlaced /\ TemplatesFollowFiles
  BY DEF PromptFileInv, PromptFileTypes
<1>2. placed' \in Shelf /\ \A f \in Folders : f # folder => placed'[f] = placed[f]
  BY <1>1 DEF Shelf
<1>3. PromptFileTypes'
  BY <1>1, <1>2, EditorDisturbed DEF PromptFileTypes
<1>4. PagesPlaced'
  <2> SUFFICES ASSUME NEW p \in Pens, pages[p] # NoPage PROVE placed'[pages[p].folder] # NoPrompt
    BY DEF PagesPlaced, HasPrompt
  <2>1. pages[p].folder \in Folders /\ HasPrompt(pages[p].folder) /\ pages[p].folder # folder
    BY <1>1 DEF PagesPlaced, Page
  <2> QED
    BY <1>2, <2>1 DEF HasPrompt
<1>5. TemplatesFollowFiles'
  <2>1. CASE folder = "prompts"
    BY <2>1 DEF TemplatesFollowFiles
  <2>2. CASE folder # "prompts"
    <3>1. placed'["prompts"] = placed["prompts"]
      BY <1>2, <2>2 DEF Folders, SubFolders
    <3> QED
      BY <1>1, <2>2, <3>1 DEF TemplatesFollowFiles
  <2> QED
    BY <2>1, <2>2
<1> QED
  BY <1>3, <1>4, <1>5, EditorDisturbed DEF PromptFileInv

\* The handler of the watcher.
LEMMA WatcherKeeps ==
  ASSUME PromptFileInv, TakeEvent \/ ReloadTemplate
  PROVE  PromptFileInv'
<1>1. UNCHANGED <<placed, writes, editor, savedTo, pages>>
  BY DEF TakeEvent, ReloadTemplate
<1>2. PromptFileTypes /\ PagesPlaced /\ TemplatesFollowFiles
  BY DEF PromptFileInv
<1>3. PromptFileTypes'
  BY <1>1, <1>2 DEF PromptFileTypes, TakeEvent, ReloadTemplate
<1>4. PagesPlaced' /\ \A f \in Folders : HasPrompt(f)' <=> HasPrompt(f)
  BY <1>1, <1>2 DEF PagesPlaced, HasPrompt
<1>5. TemplatesFollowFiles'
  <2>1. CASE TakeEvent
    BY <2>1 DEF TakeEvent, TemplatesFollowFiles
  <2>2. CASE ReloadTemplate
    BY <1>1, <2>2 DEF ReloadTemplate, TemplatesFollowFiles
  <2> QED
    BY <2>1, <2>2
<1> QED
  BY <1>1, <1>3, <1>4, <1>5, EditorRests DEF PromptFileInv

LEMMA PromptFilesStep == PromptFileInv /\ [PromptFilesNext]_promptFileVars => PromptFileInv'
<1> SUFFICES ASSUME PromptFileInv, [PromptFilesNext]_promptFileVars PROVE PromptFileInv'
  OBVIOUS
<1>1. ASSUME NEW pen \in Pens, NEW folder \in Folders, Truncate(pen, folder), Disturbed
      PROVE  PromptFileInv'
  BY <1>1, TruncateFacts, EditorDisturbed DEF PromptFileInv, PromptFileTypes
<1>2. CASE SaveProfile
  BY <1>1, <1>2 DEF SaveProfile, Pens, Folders, SubFolders
<1>3. ASSUME NEW folder \in Folders, OtherWrites(folder) PROVE PromptFileInv'
  BY <1>1, <1>3 DEF OtherWrites, Pens
<1>4. ASSUME NEW folder \in Folders, OtherRemoves(folder) PROVE PromptFileInv'
  <2>1. writes' \in Nat
    BY <1>4 DEF OtherRemoves, PromptFileInv, PromptFileTypes
  <2> QED
    BY <1>4, <2>1, MoveKeeps DEF OtherRemoves
<1>5. CASE OtherRenames
  <2>1. writes' \in Nat /\ "prompts" \in Folders
    BY <1>5 DEF OtherRenames, PromptFileInv, PromptFileTypes, Folders, SubFolders
  <2>2. unwatched' = (unwatched \/ "prompts" = "prompts")
    BY <1>5 DEF OtherRenames
  <2> QED
    BY <1>5, <2>1, <2>2, MoveKeeps DEF OtherRenames
<1>6. CASE UNCHANGED promptFileVars
  <2>1. UNCHANGED <<placed, writes, editor, savedTo, pages, event, reading, template, unwatched>>
    BY <1>6 DEF promptFileVars
  <2>2. PromptFileTypes' /\ PagesPlaced' /\ TemplatesFollowFiles' /\ \A f \in Folders : HasPrompt(f)' <=> HasPrompt(f)
    BY <2>1 DEF PromptFileInv, PromptFileTypes, PagesPlaced, TemplatesFollowFiles, HasPrompt
  <2> QED
    BY <2>1, <2>2, EditorRests DEF PromptFileInv
<1> QED
  BY <1>2, <1>3, <1>4, <1>5, <1>6, OpenKeeps, SaveKeeps, PageKeeps, WatcherKeeps DEF PromptFilesNext

\* The prompts' editor (dashboard/server.py) saves the file it shows unless that is one of the
\* root, and the templates in memory (templates/manager.py) are those of the files once the
\* watcher has told all, over any interleaving of threads that truncate and write.
THEOREM PromptsFollowFiles == PromptFilesSpec => []PromptFilesKept
<1>1. PromptFileInv => PromptFilesKept
  BY DEF PromptFileInv, PromptFilesKept
<1> QED
  BY <1>1, PromptFilesStart, PromptFilesStep, PTL DEF PromptFilesSpec

\* Both together, as the services are checked.
THEOREM FilesStay == FileToolsSpec /\ PromptFilesSpec => []FilesKept
<1>1. EditsKeepTheRest /\ PromptFilesKept => FilesKept
  BY DEF FilesKept
<1> QED
  BY <1>1, EditsStay, PromptsFollowFiles, PTL

-----------------------------------------------------------------------------
(* The services together, as they are checked.                             *)

\* The instances of the channels and their tasks stay where ChannelsTypeOK has them.
THEOREM ChannelsStayTyped == ChannelsSpec => []ChannelsTypeOK
<1>1. HostInv => ChannelsTypeOK
  BY DEF HostInv, HostTypes
<1> QED
  BY <1>1, HostInit, HostNext, PTL DEF ChannelsSpec

\* The phases of start-up and shutdown are those of the gateway.
THEOREM LifecycleStaysTyped == LifecycleSpec => []LifecycleTypeOK
<1>1. LifeInv => LifecycleTypeOK
  BY DEF LifeInv
<1> QED
  BY <1>1, LifeInit, LifeNext, PTL DEF LifecycleSpec

\* A file stays a text or missing, whatever the tools are asked.
THEOREM EditsStayTyped == FileToolsSpec => []FileToolsTypeOK
<1>1. EditInv => FileToolsTypeOK
  BY DEF EditInv
<1> QED
  BY <1>1, FilesStart, EditStep, PTL DEF FileToolsSpec

\* The manager of ClawSocial and its clients keep their types, and a client no more heartbeats
\* than were started.
THEOREM ClawSocialStaysTyped == ClawSocialSpec => []ClawSocialTypeOK
<1> USE ClawSocialAssumption
<1> DEFINE Beside ==
      /\ managerUp \in BOOLEAN /\ managerOp \in {"idle", "connect", "stop", "restart"}
      /\ unsettled \subseteq Clients /\ losses \in 0..MaxLosses
      /\ isUp \in [Clients -> BOOLEAN] /\ beats \in [Clients -> Nat]
<1>1. ClawInv /\ Beside => ClawSocialTypeOK
  BY DEF ClawInv, ClawTypes, ClawSocialTypeOK
<1>2. ClawSocialInit => Beside
  <2> SUFFICES ASSUME ClawSocialInit PROVE Beside
    OBVIOUS
  <2>1. 0 \in 0..MaxLosses /\ losses = 0 /\ unsettled = {} /\ managerUp = FALSE /\ managerOp = "idle"
    BY DEF ClawSocialInit
  <2>2. isUp \in [Clients -> BOOLEAN] /\ beats \in [Clients -> Nat]
    BY DEF ClawSocialInit
  <2> QED
    BY <2>1, <2>2, Zenon
<1>3. ClawInv /\ Beside /\ [ClawSocialNext]_clawSocialVars => Beside'
  <2> SUFFICES ASSUME ClawInv, Beside, [ClawSocialNext]_clawSocialVars PROVE Beside'
    OBVIOUS
  <2>0. client \in Clients \/ client = NoClient
    BY DEF ClawInv, ClawTypes
  <2>1. CASE UNCHANGED clawSocialVars
    BY <2>1 DEF clawSocialVars, managerVars
  <2>2. CASE StartFresh
    BY <2>2 DEF StartFresh, NewClient
  <2>3. ASSUME NEW way \in {"stop", "restart"}, StopClient(way) PROVE Beside'
    <3>1. client \in Clients
      BY <2>0, <2>3 DEF StopClient
    <3>2. isUp' = [isUp EXCEPT ![client] = FALSE] /\ UNCHANGED <<managerUp, beats, losses>> /\ managerOp' = way
          /\ (unsettled' = unsettled \cup {client} \/ unsettled' = unsettled)
      BY <2>3 DEF StopClient, LeaveBegun
    <3> QED
      BY <3>1, <3>2
  <2>4. CASE StartConnected
    <3>1. client \in Clients
      BY <2>0, <2>4 DEF StartConnected, ClawInv
    <3> QED
      BY <2>4, <3>1 DEF StartConnected, Linked
  <2>5. CASE StartFails
    BY <2>5 DEF StartFails, NotLinked
  <2>6. CASE LeaveStep
    <3>1. client \in Clients
      BY <2>0, <2>6 DEF LeaveStep, LeaveReceiver, LeaveHeartbeat, ClawInv
    <3>2. CASE LeaveReceiver(client)
      <4>1. UNCHANGED <<managerUp, managerOp, unsettled, losses, beats>>
        BY <2>6, <3>2 DEF LeaveStep, LeaveReceiver
      <4>2. isUp' = [isUp EXCEPT ![client] = FALSE] \/ isUp' = isUp
        BY <3>2, Zenon DEF LeaveReceiver, ReceiverEnded
      <4>3. isUp' \in [Clients -> BOOLEAN]
        BY <3>1, <4>2
      <4> QED
        BY <4>1, <4>3
    <3>3. CASE LeaveHeartbeat(client)
      BY <2>6, <3>1, <3>3 DEF LeaveStep, LeaveHeartbeat
    <3> QED
      BY <2>6, <3>2, <3>3 DEF LeaveStep
  <2>7. CASE LeaveEnds
    BY <2>7 DEF LeaveEnds, LeaveSocket, NewClient
  <2>8. ASSUME NEW c \in Clients,
               \/ Lose(c) \/ ReceiverEnds(c) \/ HeartbeatEnds(c)
               \/ ReconnectWakes(c) \/ Reconnected(c) \/ ReconnectFails(c)
        PROVE  Beside'
    <3>1. CASE Lose(c)
      BY <3>1 DEF Lose, managerVars
    <3>2. CASE ReceiverEnds(c)
      BY <3>2 DEF ReceiverEnds, ReceiverEnded, managerVars
    <3>3. CASE HeartbeatEnds(c)
      BY <3>3 DEF HeartbeatEnds, managerVars
    <3>4. CASE ReconnectWakes(c)
      BY <3>4 DEF ReconnectWakes, managerVars
    <3>5. CASE Reconnected(c)
      BY <3>5 DEF Reconnected, Linked, managerVars
    <3>6. CASE ReconnectFails(c)
      BY <3>6 DEF ReconnectFails, managerVars
    <3> QED
      BY <2>8, <3>1, <3>2, <3>3, <3>4, <3>5, <3>6
  <2> QED
    BY <2>1, <2>2, <2>3, <2>4, <2>5, <2>6, <2>7, <2>8 DEF ClawSocialNext
<1> QED
  BY <1>1, <1>2, <1>3, ClawStart, ClawStep, PTL DEF ClawSocialSpec

\* Letters, their futures and the entries of _pending_acks keep their types: two entries are
\* never the same letter's, and what a peer reads was sent.
THEOREM LettersStayTyped == LettersSpec => []LettersTypeOK
<1> DEFINE Beside == starts \in [Peers -> 1..MaxStarts] /\ read \subseteq Letter /\ cut \subseteq Letter
<1>1. LettersInv /\ Beside => LettersTypeOK
  <2> SUFFICES ASSUME LettersInv, Beside PROVE LettersTypeOK
    OBVIOUS
  <2>1. LetterTypes /\ EntriesOwn
    BY DEF LettersInv
  <2>2. \A n \in Letter : sends[n] \in [to : Peers, id : (0..MaxClock) \X Wordings, key : {0, 1}]
    BY <2>1, LetterFacts DEF LetterRecord
  <2>3. Letter = DOMAIN sendStage /\ Letter = DOMAIN answer /\ routed \cup read \cup cut \subseteq Letter
    BY <2>1 DEF LetterTypes
  <2>4. \A n \in Letter : /\ sendStage[n] \in {"sending", "waiting", "ended"}
                          /\ answer[n] \in {"open", "acked", "cancelled", "failed"}
    BY <2>1 DEF LetterTypes
  <2>5. IsInjective(pending)
    BY <2>1, Zenon DEF EntriesOwn, IsInjective
  <2> QED
    BY <2>1, <2>2, <2>3, <2>4, <2>5 DEF LettersTypeOK, LetterTypes
<1>2. LettersInit => Beside
  BY LettersAssumption DEF LettersInit
<1>3. LettersInv /\ Beside /\ [LettersNext]_letterVars => Beside'
  <2> SUFFICES ASSUME LettersInv, Beside, [LettersNext]_letterVars PROVE Beside'
    OBVIOUS
  <2>1. LetterTypes /\ HandsOwn
    BY DEF LettersInv
  <2>2. CASE UNCHANGED letterVars
    BY <2>2 DEF letterVars, Letter
  <2>3. CASE SenderStep
    <3>1. UNCHANGED <<starts, read, cut>>
      BY <2>3 DEF SenderStep, peerVars
    <3>2. Letter \subseteq Letter'
      <4>1. ASSUME NEW peer \in Peers, NEW wording \in Wordings, NEW encrypt \in BOOLEAN,
                   SendMessage(peer, wording, encrypt)
            PROVE  Letter \subseteq Letter'
        BY <2>1, <4>1, MoreLetters
      <4>2. ASSUME NEW n \in Letter, Sent(n) \/ TimesOut(n) \/ SendFails(n) \/ Returns(n)
            PROVE  Letter \subseteq Letter'
        BY <4>2 DEF Sent, TimesOut, SendFails, Returns, Letter
      <4>3. ASSUME NEW a \in acks, AckComes(a) PROVE Letter \subseteq Letter'
        BY <4>3 DEF AckComes, Letter
      <4> QED
        BY <2>3, <4>1, <4>2, <4>3, Zenon DEF SenderStep
    <3> QED
      BY <3>1, <3>2
  <2>4. ASSUME NEW n \in Letter, Departs(n) PROVE Beside'
    BY <2>4 DEF Departs, senderVars, peerVars, Letter
  <2>5. ASSUME NEW p \in Peers,
               \/ AckDeparts(p) \/ Handled(p) \/ AckFails(p) \/ PeerRestarts(p)
               \/ \E n \in routed : TakeLetter(p, n)
        PROVE  Beside'
    <3>1. inHand[p].acked => inHand[p].letter \in Letter
      BY <2>1 DEF LetterTypes, HandsOwn
    <3>2. Letter' = Letter
      BY <2>5 DEF AckDeparts, Handled, AckFails, PeerRestarts, TakeLetter, senderVars, Letter
    <3>3. CASE AckDeparts(p) \/ AckFails(p) \/ \E n \in routed : TakeLetter(p, n)
      BY <3>2, <3>3 DEF AckDeparts, AckFails, TakeLetter
    <3>4. CASE Handled(p)
      BY <3>1, <3>2, <3>4 DEF Handled
    <3>5. CASE PeerRestarts(p)
      <4>1. starts'= [starts EXCEPT ![p] = starts[p] + 1] /\ starts[p] \in 1..MaxStarts /\ starts[p] < MaxStarts
            /\ read' = read
        BY <3>5 DEF PeerRestarts
      <4>2. starts' \in [Peers -> 1..MaxStarts]
        BY <4>1, LettersAssumption
      <4>3. cut' \subseteq Letter
        BY <3>1, <3>5 DEF PeerRestarts
      <4> QED
        BY <3>2, <4>1, <4>2, <4>3
    <3> QED
      BY <2>5, <3>3, <3>4, <3>5
  <2> QED
    BY <2>2, <2>3, <2>4, <2>5, Zenon DEF LettersNext
<1> QED
  BY <1>1, <1>2, <1>3, LettersStart, LettersStep, PTL DEF LettersSpec

\* The levels of the body stay within their bounds: what an action costs never takes energy
\* or confidence below zero, and no payment overdraws the account.
THEOREM BodyStaysTyped == BodySpec => []BodyTypeOK
<1> USE MetabolismAssumption
<1> DEFINE Beside ==
      /\ living \in {"tick", "act", "ended"} /\ energy \in 0..EnergyMax
      /\ drives \subseteq {"achievement", "social", "curiosity"}
      /\ focus \subseteq {"hunger", "achievement", "social", "curiosity", "contact", "strategy"}
      /\ lonely \in BOOLEAN /\ strategy \in BOOLEAN
      /\ confidence \in 0..ConfidenceMax /\ balance \in 0..MaxBalance
      /\ credits \in 0..MaxBalance \cup {FallbackCredits}
<1>1. Beside => BodyTypeOK
  <2> SUFFICES ASSUME Beside PROVE BodyTypeOK
    OBVIOUS
  <2>1. {lonely, strategy} \subseteq BOOLEAN
    BY Zenon
  <2> QED
    BY <2>1, Zenon DEF BodyTypeOK
<1>2. BodyInit => Beside
  <2> SUFFICES ASSUME BodyInit PROVE Beside
    OBVIOUS
  <2>1. (ConfidenceMax * 7) \div 10 \in 0..ConfidenceMax
    OBVIOUS
  <2>2. EnergyMax \in 0..EnergyMax
    OBVIOUS
  <2> QED
    BY <2>1, <2>2 DEF BodyInit
<1>3. ASSUME Beside, NEW success \in BOOLEAN, Outcome(success)
      PROVE  /\ confidence' \in 0..ConfidenceMax /\ strategy' \in BOOLEAN /\ living' = "tick" /\ focus' = {}
  <2>1. confidence' \in 0..ConfidenceMax
    BY <1>3 DEF Outcome, AtMost, AtLeast
  <2>2. strategy' \in BOOLEAN
    BY <1>3 DEF Outcome
  <2> QED
    BY <1>3, <2>1, <2>2 DEF Outcome
<1>4. ASSUME Beside PROVE Tired \in 0..EnergyMax
  BY <1>4 DEF Tired, AtLeast
<1>5. Beside /\ [BodyNext]_bodyVars => Beside'
  <2> SUFFICES ASSUME Beside, [BodyNext]_bodyVars PROVE Beside'
    OBVIOUS
  <2>1. CASE UNCHANGED bodyVars
    BY <2>1 DEF bodyVars
  <2>2. ASSUME NEW grown \in SUBSET ({"social", "curiosity"} \ drives), NEW alone \in {lonely, TRUE},
               NEW query \in Queries,
               NEW selected \in SUBSET Felt(energy - TimeDecay, drives \cup grown, alone),
               Live(grown, alone, query, selected)
        PROVE  Beside'
    <3>1. /\ energy > TimeDecay /\ energy' = energy - TimeDecay /\ drives' = drives \cup grown /\ living' = "act"
          /\ lonely' = alone /\ focus' = selected /\ strategy' = FALSE
          /\ credits' = Heard(query, balance) /\ UNCHANGED <<confidence, balance>>
      BY <2>2 DEF Live
    <3>2. energy' \in 0..EnergyMax
      BY <3>1
    <3>3. focus' \subseteq {"hunger", "achievement", "social", "curiosity", "contact", "strategy"}
      <4>1. drives \cup grown \subseteq {"achievement", "social", "curiosity"}
        OBVIOUS
      <4>2. Felt(energy - TimeDecay, drives \cup grown, alone)
              \subseteq {"hunger", "achievement", "social", "curiosity", "contact", "strategy"}
        BY <4>1 DEF Felt, Hunger, Contact, Strategy
      <4> QED
        BY <3>1, <4>2, Zenon
    <3>4. lonely' \in BOOLEAN /\ strategy' \in BOOLEAN
      BY <3>1, Zenon
    <3>5. credits' \in 0..MaxBalance \cup {FallbackCredits} /\ balance' \in 0..MaxBalance
      BY <3>1 DEF Heard
    <3> QED
      BY <3>1, <3>2, <3>3, <3>4, <3>5
  <2>3. CASE RunOut
    BY <2>3 DEF RunOut
  <2>4. ASSUME NEW first \in Queries, NEW payment \in Answers, NEW free \in BOOLEAN, Recharge(first, payment, free)
        PROVE  Beside'
    <3>1. PICK known, pays, paid :
            /\ known = Heard(first, balance) /\ pays = (Affords(known) /\ Settles(payment))
            /\ paid = (pays /\ payment = "answered")
      OBVIOUS
    <3>2. /\ balance' = IF pays THEN balance - RechargeCost ELSE balance
          /\ credits' = IF paid THEN balance' ELSE known
          /\ energy' = IF paid /\ free THEN AtMost(EnergyMax, Tired + RechargeAmount) ELSE Tired
          /\ Outcome(paid /\ free) /\ UNCHANGED <<drives, lonely>>
      BY <2>4, <3>1 DEF Recharge
    <3>3. pays => balance >= RechargeCost
      BY <3>1 DEF Settles
    <3>4. balance' \in 0..MaxBalance
      BY <3>2, <3>3
    <3>5. credits' \in 0..MaxBalance \cup {FallbackCredits}
      BY <3>1, <3>2, <3>4 DEF Heard
    <3>6. energy' \in 0..EnergyMax
      BY <1>4, <3>2 DEF AtMost
    <3>7. (paid /\ free) \in BOOLEAN
      OBVIOUS
    <3>8. /\ confidence' \in 0..ConfidenceMax /\ strategy' \in BOOLEAN /\ living' = "tick" /\ focus' = {}
      BY <1>3, <3>2, <3>7
    <3> QED
      BY <3>2, <3>4, <3>5, <3>6, <3>8
  <2>5. ASSUME NEW payment \in Answers, NEW refresh \in Queries, WorkForCredits(payment, refresh)
        PROVE  Beside'
    <3>1. /\ Done(payment) => balance + Wage <= MaxBalance
          /\ balance' = Earned(payment) /\ credits' = Heard(refresh, balance')
          /\ energy' = Tired /\ Outcome(payment = "answered") /\ UNCHANGED <<drives, lonely>>
      BY <2>5 DEF WorkForCredits
    <3>2. balance' \in 0..MaxBalance
      BY <3>1 DEF Earned
    <3>3. credits' \in 0..MaxBalance \cup {FallbackCredits}
      BY <3>1, <3>2 DEF Heard
    <3>4. (payment = "answered") \in BOOLEAN
      OBVIOUS
    <3>5. /\ confidence' \in 0..ConfidenceMax /\ strategy' \in BOOLEAN /\ living' = "tick" /\ focus' = {}
      BY <1>3, <3>1, <3>4
    <3> QED
      BY <1>4, <3>1, <3>2, <3>3, <3>5
  <2>6. CASE SocialInteraction
    <3>1. /\ confidence' \in 0..ConfidenceMax /\ strategy' \in BOOLEAN /\ living' = "tick" /\ focus' = {}
      BY <1>3, <2>6 DEF SocialInteraction
    <3> QED
      BY <1>4, <2>6, <3>1 DEF SocialInteraction
  <2>7. CASE SafeMode
    <3>1. /\ confidence' \in 0..ConfidenceMax /\ strategy' \in BOOLEAN /\ living' = "tick" /\ focus' = {}
      BY <1>3, <2>7 DEF SafeMode
    <3> QED
      BY <1>4, <2>7, <3>1 DEF SafeMode
  <2>8. CASE NoAction
    BY <2>8 DEF NoAction
  <2>9. ASSUME NEW finds \in BOOLEAN, ExploreEnvironment(finds) PROVE Beside'
    <3>1. /\ confidence' \in 0..ConfidenceMax /\ strategy' \in BOOLEAN /\ living' = "tick" /\ focus' = {}
      BY <1>3, <2>9 DEF ExploreEnvironment
    <3> QED
      BY <1>4, <2>9, <3>1 DEF ExploreEnvironment
  <2>10. ASSUME NEW amount \in 0..MaxBalance, MoveCredits(amount) PROVE Beside'
    BY <2>10 DEF MoveCredits
  <2> QED
    BY <2>1, <2>2, <2>3, <2>4, <2>5, <2>6, <2>7, <2>8, <2>9, <2>10, Zenon DEF BodyNext
<1> QED
  BY <1>1, <1>2, <1>5, PTL DEF BodySpec

\* The ports that are picked are ports.
LEMMA PortsAreNumbers ==
  ASSUME wanted \in Options, PickPorts, \A k \in DOMAIN ports : ports[k] \in 0..MaxPort - 1
  PROVE  \A k \in DOMAIN ports' : ports'[k] \in 0..MaxPort - 1
<1>1. PICK g, h, w, found :
        /\ g = GatewayPort /\ h = HttpPort /\ w = WsPort
        /\ found = [gateway |-> g, http |-> h, ws |-> w]
  OBVIOUS
<1>2. \/ ports' = ports
      \/ ports' = found /\ \A k \in DOMAIN found : found[k] < MaxPort
  BY <1>1 DEF PickPorts
<1>3. CASE ports' = found /\ \A k \in DOMAIN found : found[k] < MaxPort
  <2>1. DOMAIN found = {"gateway", "http", "ws"} /\ found.gateway = g /\ found.http = h /\ found.ws = w
    BY <1>1
  <2>2. g < MaxPort /\ h < MaxPort /\ w < MaxPort
    BY <1>3, <2>1
  <2>3. /\ wanted.port \in {1, 2} /\ wanted.http \in {0, 3} /\ wanted.ws \in {0, 4}
        /\ MaxPort \in Nat /\ MaxPort > 4
    BY ConsoleAssumption DEF Options, DefaultPort, NotGiven
  <2>4. \A from \in Nat : FirstFree(from) \in Nat
    <3> SUFFICES ASSUME NEW from \in Nat PROVE FirstFree(from) \in Nat
      OBVIOUS
    <3>1. CASE from <= MaxPort
      BY <2>3, <3>1, FirstFreePort
    <3>2. CASE from > MaxPort
      <4>1. from..MaxPort - 1 = {}
        BY <2>3, <3>2
      <4> QED
        BY <2>3, <4>1 DEF FirstFree
    <3> QED
      BY <2>3, <3>1, <3>2
  <2>5. g \in Nat
    <3>1. g = wanted.port \/ g = FirstFree(DefaultPort + 1)
      BY <1>1 DEF GatewayPort
    <3>2. DefaultPort + 1 \in Nat
      BY DEF DefaultPort
    <3> QED
      BY <2>3, <2>4, <3>1, <3>2
  <2>6. h \in Nat
    <3>1. h = wanted.http \/ h = FirstFree(g + 1)
      BY <1>1 DEF HttpPort
    <3>2. g + 1 \in Nat
      BY <2>5
    <3> QED
      BY <2>3, <2>4, <3>1, <3>2
  <2>7. w \in Nat
    <3>1. w = wanted.ws \/ w = FirstFree(ConfiguredHttp + 1) \/ w = FirstFree(g + 2)
      BY <1>1 DEF WsPort
    <3>2. ConfiguredHttp + 1 \in Nat /\ g + 2 \in Nat
      BY <1>1, <2>5, <2>6 DEF ConfiguredHttp, DefaultPort
    <3> QED
      BY <2>3, <2>4, <3>1, <3>2
  <2>8. g \in 0..MaxPort - 1 /\ h \in 0..MaxPort - 1 /\ w \in 0..MaxPort - 1
    BY <2>2, <2>3, <2>5, <2>6, <2>7
  <2> QED
    BY <1>3, <2>1, <2>8, Zenon
<1> QED
  BY <1>2, <1>3, Zenon

LEMMA ElementsTyped == ASSUME NEW S, NEW q \in Seq(S) PROVE \A i \in DOMAIN q : q[i] \in S
BY QueueShape

\* The conversation at the prompt keeps its types: prompts are numbered from one and no
\* more passwords are tried than three.
THEOREM ConsoleStaysTyped == ConsoleSpec => []ConsoleTypeOK
<1> USE ConsoleAssumption
<1> DEFINE TurnReplies == [turn : 1..(MaxPrompts + 1), reply : 0..MaxPrompts]
           Asking ==
             /\ command \in {"agent", "chat", "message", "gateway"}
             /\ prompt \in {"password", "reading", "waiting", "leaving", "closed", "killed", "ports", "serving"}
             /\ attempts \in 0..3 /\ (prompt = "password" => attempts # 0)
             /\ asked \in 0..(MaxPrompts + 1) /\ thinking \in 0..MaxPrompts
             /\ turnDone \in BOOLEAN
           Talking ==
             /\ toAgent \in Seq(1..MaxPrompts) /\ toUser \in Seq(1..MaxPrompts)
             /\ turnResponse \in Seq(1..MaxPrompts) /\ speechless \subseteq 1..MaxPrompts
             /\ printed \in Seq(TurnReplies)
           Serving ==
             /\ listener \in {"running", "cancelled", "ended"} /\ collector \in {"running", "cancelled", "ended"}
             /\ busyPorts \subseteq 1..MaxPort - 1 /\ \A k \in DOMAIN ports : ports[k] \in 0..MaxPort - 1
           Beside == Asking /\ Talking /\ Serving
<1>1. Beside => ConsoleTypeOK
  <2> SUFFICES ASSUME Beside PROVE ConsoleTypeOK
    OBVIOUS
  <2>1. \A i \in DOMAIN printed : printed[i].turn \in 1..(MaxPrompts + 1) /\ printed[i].reply \in 0..MaxPrompts
    <3>1. \A i \in DOMAIN printed : printed[i] \in TurnReplies
      BY ElementsTyped, Zenon
    <3> QED
      BY <3>1
  <2>2. {toAgent, toUser, turnResponse} \subseteq Seq(1..MaxPrompts)
    BY Zenon
  <2>3. {listener, collector} \subseteq {"running", "cancelled", "ended"}
    BY Zenon
  <2> QED
    BY <2>1, <2>2, <2>3, Zenon DEF ConsoleTypeOK
<1>2. ConsoleInit => Beside
  <2> SUFFICES ASSUME ConsoleInit PROVE Beside
    OBVIOUS
  <2>1. Asking
    BY DEF ConsoleInit
  <2>2. Talking
    <3>1. \A S : <<>> \in Seq(S)
      OBVIOUS
    <3>2. toAgent = <<>> /\ toUser = <<>> /\ turnResponse = <<>> /\ speechless = {} /\ printed = <<>>
      BY DEF ConsoleInit
    <3> HIDE DEF TurnReplies
    <3> QED
      BY <3>1, <3>2
  <2>3. Serving
    <3>1. \A k \in DOMAIN NoPorts : NoPorts[k] \in 0..MaxPort - 1
      BY DEF NoPorts
    <3> QED
      BY <3>1 DEF ConsoleInit
  <2> QED
    BY <2>1, <2>2, <2>3
<1>3. ConsoleInv /\ Beside /\ [ConsoleNext]_consoleVars => Beside'
  <2> SUFFICES ASSUME ConsoleInv, Beside, [ConsoleNext]_consoleVars PROVE Beside'
    OBVIOUS
  <2>0. UnderWay /\ wanted \in Options
    BY DEF ConsoleInv
  <2>1. CASE UNCHANGED consoleVars
    BY <2>1, Zenon DEF consoleVars, chatVars
  <2>2. CASE PickPorts
    <3>1. /\ prompt' \in {"serving", "closed"}
          /\ UNCHANGED <<command, attempts, asked, thinking, turnDone>>
          /\ UNCHANGED <<toAgent, toUser, turnResponse, speechless, printed>>
          /\ UNCHANGED <<listener, collector, busyPorts>>
      BY <2>2 DEF PickPorts
    <3>2. \A k \in DOMAIN ports' : ports'[k] \in 0..MaxPort - 1
      BY <2>0, <2>2, PortsAreNumbers
    <3>3. prompt' \in {"password", "reading", "waiting", "leaving", "closed", "killed", "ports", "serving"}
          /\ prompt' # "password"
      BY <3>1
    <3> QED
      BY <3>1, <3>2, <3>3, Zenon
  <2>3. CASE Converse /\ UNCHANGED <<command, busyPorts, wanted, ports>>
    <3>1. ASSUME NEW right \in BOOLEAN, Authenticate(right) PROVE Beside'
      <4>1. /\ UNCHANGED <<asked, thinking, turnDone>>
            /\ UNCHANGED <<toAgent, toUser, turnResponse, speechless, printed>> /\ UNCHANGED <<listener, collector>>
        BY <3>1 DEF Authenticate
      <4>2. /\ attempts' \in 0..3 /\ (prompt' = "password" => attempts' # 0)
            /\ prompt' \in {"password", "reading", "closed"}
        BY <3>1 DEF Authenticate
      <4>3. prompt' \in {"password", "reading", "waiting", "leaving", "closed", "killed", "ports", "serving"}
        BY <4>2
      <4> QED
        BY <2>3, <4>1, <4>2, <4>3, Zenon
    <3>2. CASE Direct
      <4>1. /\ UNCHANGED <<attempts, thinking, turnDone>> /\ asked' = 1 /\ prompt' = "closed"
            /\ UNCHANGED <<toAgent, toUser, turnResponse, speechless>> /\ UNCHANGED <<listener, collector>>
            /\ printed' = <<[turn |-> 1, reply |-> NotInitialized]>>
        BY <3>2 DEF Direct
      <4>2. [turn |-> 1, reply |-> NotInitialized] \in TurnReplies
        BY DEF NotInitialized
      <4>3. printed' \in Seq(TurnReplies)
        BY <4>1, <4>2
      <4>4. asked' \in 0..(MaxPrompts + 1)
        BY <4>1
      <4>5. Asking'
        BY <2>3, <4>1, <4>4
      <4> QED
        BY <2>3, <4>1, <4>3, <4>5, Zenon
    <3>3. CASE Submit
      <4>1. /\ UNCHANGED <<attempts, thinking>> /\ prompt' = "waiting" /\ asked < MaxPrompts /\ asked' = asked + 1
            /\ turnDone' = FALSE /\ turnResponse' = <<>> /\ toAgent' = Append(toAgent, asked')
            /\ UNCHANGED <<toUser, speechless, printed>> /\ UNCHANGED <<listener, collector>>
        BY <3>3 DEF Submit
      <4>2. asked' \in 1..MaxPrompts /\ asked' \in 0..(MaxPrompts + 1)
        BY <4>1
      <4>3. turnResponse' \in Seq(1..MaxPrompts)
        BY <4>1
      <4>4. toAgent' \in Seq(1..MaxPrompts)
        BY <4>1, <4>2, QueueShape
      <4>5. turnDone' \in BOOLEAN
        BY <4>1
      <4> QED
        BY <2>3, <4>1, <4>2, <4>3, <4>4, <4>5, Zenon
    <3>4. CASE Continue
      <4>1. /\ UNCHANGED <<attempts, asked, thinking, turnDone>> /\ prompt = "waiting" /\ prompt' = "reading"
            /\ UNCHANGED <<toAgent, toUser, turnResponse, speechless>> /\ UNCHANGED <<listener, collector>>
            /\ printed' = IF turnResponse = <<>> THEN printed
                          ELSE Append(printed, [turn |-> asked, reply |-> Head(turnResponse)])
        BY <3>4 DEF Continue
      <4>2. asked \in 1..(MaxPrompts + 1)
        BY <2>0, <4>1 DEF UnderWay
      <4>3. ASSUME turnResponse # <<>> PROVE printed' \in Seq(TurnReplies)
        <5>1. PICK new : new = [turn |-> asked, reply |-> Head(turnResponse)]
          OBVIOUS
        <5>2. Head(turnResponse) \in 0..MaxPrompts
          BY <4>3, QueueShape
        <5>3. new \in TurnReplies
          BY <4>2, <5>1, <5>2
        <5>4. printed' = Append(printed, new)
          BY <4>1, <4>3, <5>1
        <5> HIDE DEF TurnReplies
        <5>5. Append(printed, new) \in Seq(TurnReplies)
          BY <5>3
        <5> QED
          BY <5>4, <5>5, Zenon
      <4>4. printed' \in Seq(TurnReplies)
        BY <4>1, <4>3
      <4> QED
        BY <2>3, <4>1, <4>4, Zenon
    <3>5. CASE Leave \/ Close \/ Interrupt \/ CollectorEnds \/ ListenerEnds
      <4>1. /\ UNCHANGED <<attempts, asked, turnDone>> /\ (prompt' = prompt \/ prompt' \in {"leaving", "closed", "killed"})
            /\ UNCHANGED <<toAgent, toUser, turnResponse, speechless, printed>>
            /\ (thinking' = thinking \/ thinking' = 0)
            /\ listener' \in {"running", "cancelled", "ended"} /\ collector' \in {"running", "cancelled", "ended"}
        BY <3>5 DEF Leave, Close, Interrupt, CollectorEnds, ListenerEnds
      <4>2. Asking'
        BY <2>3, <4>1
      <4> QED
        BY <2>3, <4>1, <4>2, Zenon
    <3>6. CASE Collect
      <4>1. /\ UNCHANGED <<attempts, asked, thinking>> /\ prompt # "killed" /\ prompt' = prompt /\ turnDone' = TRUE
            /\ UNCHANGED <<toAgent, speechless>> /\ UNCHANGED <<listener, collector>>
            /\ toUser # <<>> /\ toUser' = Tail(toUser)
            /\ \/ printed' = Append(printed, [turn |-> asked, reply |-> Head(toUser)]) /\ turnResponse' = turnResponse
               \/ printed' = printed /\ turnResponse' = Append(turnResponse, Head(toUser))
        BY <3>6 DEF Collect
      <4>2. asked \in 1..(MaxPrompts + 1)
        BY <2>0, <4>1 DEF UnderWay, NothingWaits
      <4>3. PICK next \in 1..MaxPrompts : next = Head(toUser)
        BY <4>1, QueueShape
      <4>4. toUser' \in Seq(1..MaxPrompts)
        BY <4>1, QueueShape
      <4>5. [turn |-> asked, reply |-> next] \in TurnReplies
        <5>1. next \in 0..MaxPrompts
          OBVIOUS
        <5> QED
          BY <4>2, <5>1
      <4>6. PICK new \in TurnReplies : new = [turn |-> asked, reply |-> next]
        BY <4>5, Zenon
      <4> HIDE DEF TurnReplies
      <4>7. printed' \in Seq(TurnReplies)
        <5>1. Append(printed, new) \in Seq(TurnReplies)
          BY <4>6
        <5>2. printed' = Append(printed, new) \/ printed' = printed
          BY <4>1, <4>3, <4>6
        <5> QED
          BY <5>1, <5>2, Zenon
      <4>8. turnResponse' \in Seq(1..MaxPrompts)
        <5>1. Append(turnResponse, next) \in Seq(1..MaxPrompts)
          OBVIOUS
        <5>2. turnResponse' = Append(turnResponse, next) \/ turnResponse' = turnResponse
          BY <4>1, <4>3
        <5> QED
          BY <5>1, <5>2, Zenon
      <4>9. turnDone' \in BOOLEAN
        BY <4>1
      <4> QED
        BY <2>3, <4>1, <4>4, <4>7, <4>8, <4>9, Zenon
    <3>7. CASE Receive
      <4>1. /\ UNCHANGED <<attempts, asked, turnDone, prompt>>
            /\ UNCHANGED <<toUser, turnResponse, speechless, printed>> /\ UNCHANGED <<listener, collector>>
            /\ toAgent # <<>> /\ toAgent' = Tail(toAgent) /\ thinking' = Head(toAgent)
        BY <3>7 DEF Receive
      <4>2. toAgent' \in Seq(1..MaxPrompts) /\ thinking' \in 1..MaxPrompts
        BY <4>1, QueueShape
      <4>3. thinking' \in 0..MaxPrompts
        BY <4>2
      <4> QED
        BY <2>3, <4>1, <4>2, <4>3, Zenon
    <3>8. ASSUME NEW text \in BOOLEAN, Answer(text) PROVE Beside'
      <4>1. /\ UNCHANGED <<attempts, asked, turnDone, prompt>>
            /\ UNCHANGED <<toAgent, turnResponse, printed>> /\ UNCHANGED <<listener, collector>>
            /\ thinking # 0 /\ thinking' = 0
            /\ (toUser' = Append(toUser, thinking) \/ toUser' = toUser)
            /\ (speechless' = speechless \cup {thinking} \/ speechless' = speechless)
        BY <3>8 DEF Answer
      <4>2. thinking \in 1..MaxPrompts
        BY <4>1
      <4>3. toUser' \in Seq(1..MaxPrompts)
        <5>1. Append(toUser, thinking) \in Seq(1..MaxPrompts)
          BY <4>2
        <5> QED
          BY <4>1, <5>1, Zenon
      <4>4. speechless' \subseteq 1..MaxPrompts
        BY <4>1, <4>2
      <4>5. thinking' \in 0..MaxPrompts
        BY <4>1
      <4> QED
        BY <2>3, <4>1, <4>3, <4>4, <4>5, Zenon
    <3> QED
      BY <2>3, <3>1, <3>2, <3>3, <3>4, <3>5, <3>6, <3>7, <3>8, Zenon DEF Converse
  <2> QED
    BY <2>1, <2>2, <2>3, Zenon DEF ConsoleNext
<1> QED
  BY <1>1, <1>2, <1>3, ConsoleStart, ConsoleStep, PTL DEF ConsoleSpec

\* Handlers and stop() of Matrix and Discord are in a room of theirs or in none, and await
\* a task that was made.
THEOREM TypingStaysTyped == TypingSpec => []TypingTypeOK
<1> USE TypingAssumption
<1> DEFINE Doings == {"idle", "fetch", "renew", "notify", "posting", "clear", "rooms", "sync", "socket", "over"}
           Doing == [at : Doings, room : Rooms \cup {"none"}, awaits : {0} \cup Tasks]
           Beside == /\ isRunning \in BOOLEAN /\ syncLoop \in {"on", "resting", "over"} /\ toClose \subseteq Rooms
                   /\ hearing \in Doing /\ replying \in Doing /\ closing \in Doing
<1>1. TypingInv /\ Beside => TypingTypeOK
  <2> SUFFICES ASSUME TypingInv, Beside PROVE TypingTypeOK
    OBVIOUS
  <2>1. TaskTypes
    BY DEF TypingInv
  <2>2. \A h \in {hearing, replying, closing} : h.room \in Rooms \cup {"none"} /\ h.awaits \in {0} \cup Tasks
    OBVIOUS
  <2>3. live \cup cancelled \subseteq Tasks /\ registered \in [Rooms -> {0} \cup Tasks]
        /\ toClose \cup quiet \subseteq Rooms /\ roomOf \in Seq(Rooms)
    BY <2>1 DEF TaskTypes, Tasks
  <2> QED
    BY <2>2, <2>3, Zenon DEF TypingTypeOK
<1>2. TypingInit => Beside
  <2> SUFFICES ASSUME TypingInit PROVE Beside
    OBVIOUS
  <2>1. Idle \in Doing
    BY DEF Idle
  <2>2. hearing = Idle /\ replying = Idle /\ closing = Idle /\ isRunning = TRUE /\ syncLoop = "on" /\ toClose = {}
    BY DEF TypingInit
  <2>3. isRunning \in BOOLEAN /\ syncLoop \in {"on", "resting", "over"} /\ toClose \subseteq Rooms
    BY <2>2
  <2> QED
    BY <2>1, <2>2, <2>3, Zenon
<1>3. TypingInv /\ Beside /\ [TypingNext]_typingVars => Beside'
  <2> SUFFICES ASSUME TypingInv, Beside, [TypingNext]_typingVars PROVE Beside'
    OBVIOUS
  <2>0. TaskTypes /\ HandlerFits
    BY DEF TypingInv
  <2>1. \A r \in Rooms : registered[r] \in {0} \cup Tasks
    BY <2>0 DEF TaskTypes, Tasks
  <2>2. Tasks \subseteq Tasks'
    <3>1. roomOf' = roomOf \/ \E r \in Rooms : roomOf' = Append(roomOf, r)
      <4>1. ASSUME NEW room, Create(room) \/ CreateIfRunning(room) \/ StartTyping(room) \/ Cancel(room)
            PROVE  roomOf' = roomOf \/ roomOf' = Append(roomOf, room)
        BY <4>1 DEF Create, CreateIfRunning, StartTyping, Cancel
      <4>2. CASE DiscordPasses
        <5>1. StartTyping(hearing.room) /\ hearing.room \in Rooms
          BY <2>0, <4>2 DEF DiscordPasses, HandlerFits
        <5> QED
          BY <4>1, <5>1
      <4>3. CASE MatrixPasses
        <5>1. CreateIfRunning(hearing.room) /\ hearing.room \in Rooms
          BY <2>0, <4>3 DEF MatrixPasses, HandlerFits
        <5> QED
          BY <4>1, <5>1
      <4>4. CASE UNCHANGED typingVars
        BY <4>4 DEF typingVars
      <4>5. ASSUME NEW room \in Rooms,
                   (\E mentioned \in BOOLEAN : HearIn(room, mentioned)) \/ Reply(room) \/ CloseRoom(room)
            PROVE  roomOf' = roomOf
        BY <4>5 DEF HearIn, Reply, CloseRoom, Cancel, taskVars
      <4>6. CASE MatrixRenews \/ MatrixNotifies \/ Cleared \/ \E progress \in BOOLEAN : ReplyPosted(progress)
        BY <4>6 DEF MatrixRenews, MatrixNotifies, Cleared, ReplyPosted, Cancel, taskVars
      <4>7. CASE Breaks \/ SyncResumes \/ LoopEnds \/ StopDiscord \/ StopMatrix \/ RoomsClosed \/ GraceEnds \/ Stopped
        BY <4>7 DEF Breaks, SyncResumes, LoopEnds, StopDiscord, StopMatrix, RoomsClosed, GraceEnds, Stopped, taskVars
      <4>8. ASSUME NEW task \in Tasks, KeepaliveEnds(task) PROVE roomOf' = roomOf
        BY <4>8 DEF KeepaliveEnds
      <4> QED
        BY <4>2, <4>3, <4>4, <4>5, <4>6, <4>7, <4>8, Zenon DEF TypingNext
    <3>2. \A r \in Rooms : DOMAIN roomOf \subseteq DOMAIN Append(roomOf, r)
      BY <2>0 DEF TaskTypes
    <3> QED
      BY <3>1, <3>2, Zenon DEF Tasks
  <2>3. \A h \in Doing : h \in Doing'
    BY <2>2
  <2>4. ASSUME NEW place \in Doings, NEW room \in Rooms \cup {"none"}, NEW task \in {0} \cup Tasks
        PROVE  At(place, room, task) \in Doing'
    BY <2>2 DEF At
  <2>5. /\ \A r \in Rooms, place \in Doings : At(place, r, registered[r]) \in Doing' /\ At(place, r, 0) \in Doing'
        /\ \A place \in Doings : At(place, "none", 0) \in Doing'
        /\ Idle \in Doing'
    <3>1. Idle = At("idle", "none", 0) /\ "idle" \in Doings
      BY DEF Idle, At
    <3> HIDE DEF Doings, Doing
    <3> QED
      BY <2>1, <2>4, <3>1, Zenon
  <2>6. /\ hearing.at # "idle" => hearing.room \in Rooms
        /\ replying.at # "idle" => replying.room \in Rooms
    BY <2>0 DEF HandlerFits
  <2>11. /\ "fetch" \in Doings /\ "renew" \in Doings /\ "notify" \in Doings /\ "posting" \in Doings
        /\ "clear" \in Doings /\ "rooms" \in Doings /\ "socket" \in Doings /\ "sync" \in Doings
        /\ "over" \in Doings
    OBVIOUS
  <2>7. hearing' \in Doing'
    <3> HIDE DEF Doing, Doings
    <3>1. CASE hearing' = hearing
      BY <2>3, <3>1, Zenon
    <3>2. CASE hearing' = Idle
      BY <2>5, <3>2, Zenon
    <3>3. ASSUME NEW room \in Rooms, NEW mentioned \in BOOLEAN, HearIn(room, mentioned)
          PROVE  hearing' \in Doing'
      BY <2>5, <2>11, <3>3, Zenon DEF HearIn
    <3>4. CASE MatrixRenews
      <4>1. hearing.room \in Rooms /\ hearing' = At("renew", hearing.room, registered[hearing.room])
        BY <2>6, <3>4 DEF MatrixRenews
      <4> QED
        BY <2>5, <2>11, <4>1, Zenon
    <3>5. CASE MatrixNotifies
      <4>1. hearing.room \in Rooms /\ hearing' = At("notify", hearing.room, 0)
        BY <2>6, <3>5 DEF MatrixNotifies
      <4> QED
        BY <2>5, <2>11, <4>1, Zenon
    <3>6. \/ hearing' = hearing \/ hearing' = Idle \/ MatrixRenews \/ MatrixNotifies
          \/ \E room \in Rooms, mentioned \in BOOLEAN : HearIn(room, mentioned)
      BY Zenon DEF TypingNext, typingVars, Reply, CloseRoom, DiscordPasses, MatrixPasses, Cleared, ReplyPosted,
                   Breaks, SyncResumes, LoopEnds, GraceEnds, KeepaliveEnds, StopDiscord, StopMatrix, RoomsClosed,
                   Stopped
    <3> QED
      BY <3>1, <3>2, <3>3, <3>4, <3>5, <3>6, Zenon
  <2>8. replying' \in Doing'
    <3> HIDE DEF Doing, Doings
    <3>1. CASE replying' = replying
      BY <2>3, <3>1, Zenon
    <3>2. CASE replying' = Idle
      BY <2>5, <3>2, Zenon
    <3>3. ASSUME NEW room \in Rooms, Reply(room) PROVE replying' \in Doing'
      BY <2>5, <2>11, <3>3, Zenon DEF Reply
    <3>4. ASSUME NEW progress \in BOOLEAN, ReplyPosted(progress) PROVE replying' \in Doing'
      <4>1. \/ replying' = Idle
            \/ replying.room \in Rooms /\ replying' = At("clear", replying.room, registered[replying.room])
        BY <2>6, <3>4 DEF ReplyPosted
      <4> QED
        BY <2>5, <2>11, <4>1, Zenon
    <3>5. \/ replying' = replying \/ replying' = Idle
          \/ (\E room \in Rooms : Reply(room)) \/ (\E progress \in BOOLEAN : ReplyPosted(progress))
      BY Zenon DEF TypingNext, typingVars, HearIn, CloseRoom, DiscordPasses, MatrixRenews, MatrixNotifies,
                   MatrixPasses, Cleared, Breaks, SyncResumes, LoopEnds, GraceEnds, KeepaliveEnds,
                   StopDiscord, StopMatrix, RoomsClosed, Stopped
    <3> QED
      BY <3>1, <3>2, <3>3, <3>4, <3>5, Zenon
  <2>9. /\ closing' \in Doing' /\ isRunning' \in BOOLEAN /\ toClose' \subseteq Rooms
    <3> HIDE DEF Doing, Doings
    <3>1. CASE UNCHANGED stopVars
      BY <2>3, <3>1, Zenon DEF stopVars
    <3>2. ASSUME NEW room \in Rooms, CloseRoom(room)
          PROVE  closing' \in Doing' /\ isRunning' \in BOOLEAN /\ toClose' \subseteq Rooms
      <4>1. closing' = At("rooms", room, registered[room]) /\ isRunning' = isRunning /\ toClose' = toClose \ {room}
        BY <3>2 DEF CloseRoom
      <4>2. closing' \in Doing'
        BY <2>5, <2>11, <4>1, Zenon
      <4>3. isRunning' \in BOOLEAN
        BY <4>1, Zenon
      <4> QED
        BY <4>1, <4>2, <4>3
    <3>3. CASE StopDiscord
      <4>1. closing' = At("socket", "none", 0) /\ isRunning' = FALSE /\ toClose' = toClose
        BY <3>3 DEF StopDiscord
      <4>2. closing' \in Doing'
        BY <2>5, <2>11, <4>1, Zenon
      <4>3. isRunning' \in BOOLEAN
        BY <4>1, Zenon
      <4> QED
        BY <4>1, <4>2, <4>3
    <3>4. CASE StopMatrix
      <4>1. closing' = At("rooms", "none", 0) /\ isRunning' = FALSE /\ toClose' = {r \in Rooms : registered[r] # 0}
        BY <3>4 DEF StopMatrix
      <4>2. closing' \in Doing'
        BY <2>5, <2>11, <4>1, Zenon
      <4>3. isRunning' \in BOOLEAN
        BY <4>1, Zenon
      <4> QED
        BY <4>1, <4>2, <4>3
    <3>5. CASE RoomsClosed
      <4>1. closing' = At("sync", "none", 0) /\ isRunning' = isRunning /\ toClose' = toClose
        BY <3>5 DEF RoomsClosed
      <4>2. closing' \in Doing'
        BY <2>5, <2>11, <4>1, Zenon
      <4>3. isRunning' \in BOOLEAN
        BY <4>1, Zenon
      <4> QED
        BY <4>1, <4>2, <4>3
    <3>6. CASE Stopped
      <4>1. closing' = At("over", "none", 0) /\ isRunning' = isRunning /\ toClose' = toClose
        BY <3>6 DEF Stopped
      <4>2. closing' \in Doing'
        BY <2>5, <2>11, <4>1, Zenon
      <4>3. isRunning' \in BOOLEAN
        BY <4>1, Zenon
      <4> QED
        BY <4>1, <4>2, <4>3
    <3>7. \/ UNCHANGED stopVars \/ StopDiscord \/ StopMatrix \/ RoomsClosed \/ Stopped
          \/ \E room \in Rooms : CloseRoom(room)
      BY Zenon DEF TypingNext, typingVars, stopVars, HearIn, Reply, DiscordPasses, MatrixRenews, MatrixNotifies,
                   MatrixPasses, Cleared, ReplyPosted, Breaks, SyncResumes, LoopEnds, GraceEnds, KeepaliveEnds
    <3> QED
      BY <3>1, <3>2, <3>3, <3>4, <3>5, <3>6, <3>7, Zenon
  <2>10. syncLoop' \in {"on", "resting", "over"}
    <3>1. syncLoop' = syncLoop \/ syncLoop' = "resting" \/ syncLoop' = "on" \/ syncLoop' = "over"
      BY Zenon DEF TypingNext, typingVars, HearIn, Reply, CloseRoom, DiscordPasses, MatrixRenews, MatrixNotifies,
                   MatrixPasses, Cleared, ReplyPosted, Breaks, SyncResumes, LoopEnds, GraceEnds, KeepaliveEnds,
                   StopDiscord, StopMatrix, RoomsClosed, Stopped
    <3> QED
      BY <3>1
  <2> QED
    BY <2>7, <2>8, <2>9, <2>10, Zenon
<1> QED
  BY <1>1, <1>2, <1>3, TypingStart, TypingStep, PTL DEF TypingSpec

LEMMA SubFoldersFinite == IsFiniteSet(SubFolders)
<1>1. IsFiniteSet({"nature"})
  BY FS_Singleton
<1>2. IsFiniteSet({"nature"} \cup {"social"} \cup {"memory"} \cup {"prompts"})
  BY <1>1, FS_AddElement
<1>3. SubFolders = {"nature"} \cup {"social"} \cup {"memory"} \cup {"prompts"}
  BY DEF SubFolders
<1> QED
  BY <1>2, <1>3

\* Files, pages and the template are texts that were written, and the editor counts no more
\* folders than there are.
THEOREM PromptFilesStayTyped == PromptFilesSpec => []PromptFilesTypeOK
<1> DEFINE Texts == NoPrompt..MaxWrites
           Beside ==
             /\ placed \in [Folders -> Texts] /\ template \in Texts /\ writes \in Packed..MaxWrites
             /\ editor.spread \in 0..Cardinality(SubFolders) /\ savedTo \in Folders \cup {"none"}
             /\ \A p \in Pens : pages[p].text \in Texts
<1>0. /\ MaxWrites \in Nat /\ MaxWrites > 0 /\ NoPrompt = -1 /\ Packed = 1 /\ Emptied = 0
      /\ IsFiniteSet(SubFolders) /\ Cardinality(SubFolders) \in Nat
  BY PromptFilesAssumption, SubFoldersFinite, FS_CardinalityType DEF NoPrompt, Packed, Emptied
<1>1. PromptFileInv /\ Beside => PromptFilesTypeOK
  <2> SUFFICES ASSUME PromptFileInv, Beside PROVE PromptFilesTypeOK
    OBVIOUS
  <2>1. editor \in Shown /\ pages \in [Pens -> Page] /\ {event, reading, unwatched} \subseteq BOOLEAN
    BY DEF PromptFileInv, PromptFileTypes
  <2>2. editor.name \in Folders \cup {"none"} /\ editor.alone \in BOOLEAN
    BY <2>1 DEF Shown
  <2>3. \A p \in Pens : pages[p].folder \in Folders \cup {"none"}
    BY <2>1 DEF Page, NoPage
  <2>4. {event, reading, unwatched, editor.alone} \subseteq BOOLEAN
    BY <2>1, <2>2, Zenon
  <2> QED
    BY <2>2, <2>3, <2>4, Zenon DEF PromptFilesTypeOK
<1>2. PromptFilesInit => Beside
  <2> SUFFICES ASSUME PromptFilesInit PROVE Beside
    OBVIOUS
  <2>1. /\ placed \in [Folders -> {NoPrompt, Packed}] /\ writes = Packed /\ editor = NotOpen /\ savedTo = "none"
        /\ pages = [p \in Pens |-> NoPage] /\ template = placed["prompts"]
    BY DEF PromptFilesInit
  <2>2. placed \in [Folders -> Texts]
    BY <1>0, <2>1
  <2>3. template \in Texts
    BY <2>1, <2>2 DEF Folders, SubFolders
  <2>4. writes \in Packed..MaxWrites /\ editor.spread \in 0..Cardinality(SubFolders)
    BY <1>0, <2>1 DEF NotOpen
  <2>5. \A p \in Pens : pages[p].text \in Texts
    BY <1>0, <2>1 DEF NoPage
  <2>6. savedTo \in Folders \cup {"none"}
    BY <2>1
  <2> QED
    BY <2>2, <2>3, <2>4, <2>5, <2>6
<1>3. PromptFileInv /\ Beside /\ [PromptFilesNext]_promptFileVars => Beside'
  <2> SUFFICES ASSUME PromptFileInv, Beside, [PromptFilesNext]_promptFileVars PROVE Beside'
    OBVIOUS
  <2>0. /\ pages \in [Pens -> Page] /\ editor \in Shown
        /\ \A p \in Pens : pages[p] # NoPage => pages[p].folder \in Folders
        /\ editor # NotOpen => editor.name \in Folders
    BY DEF PromptFileInv, PromptFileTypes, ShownHere, Page
  <2>1. ASSUME NEW folder, NEW text \in Texts, Put(folder, text)
        PROVE  placed' \in [Folders -> Texts] /\ template' \in Texts
    BY <2>1 DEF Put
  <2>2. ASSUME NEW pen, NEW folder, Truncate(pen, folder)
        PROVE  /\ placed' \in [Folders -> Texts] /\ template' \in Texts /\ writes' \in Packed..MaxWrites
               /\ \A p \in Pens : pages'[p].text \in Texts
    <3>1. writes' \in Packed..MaxWrites /\ writes' \in Texts
      BY <1>0, <2>2 DEF Truncate
    <3>2. placed' \in [Folders -> Texts] /\ template' \in Texts
      <4>1. Emptied \in Texts
        BY <1>0
      <4>2. Put(folder, Emptied)
        BY <2>2 DEF Truncate
      <4> QED
        BY <2>1, <4>1, <4>2
    <3>3. \A p \in Pens : pages'[p].text \in Texts
      <4>1. pages' = [pages EXCEPT ![pen] = [folder |-> folder, text |-> writes']]
        BY <2>2 DEF Truncate
      <4> QED
        BY <2>0, <3>1, <4>1
    <3> QED
      BY <3>1, <3>2, <3>3
  <2>3. CASE UNCHANGED promptFileVars
    BY <2>3 DEF promptFileVars
  <2>4. CASE SaveEditor
    <3>1. editor.name \in Folders /\ Truncate("editor", SaveTo(editor.name))
          /\ savedTo' = SaveTo(editor.name) /\ editor' = editor
      BY <2>0, <2>4 DEF SaveEditor
    <3>2. SaveTo(editor.name) \in Folders \cup {"none"}
      <4>1. FirstOf(<<"nature", "social", "memory", "prompts">>) \in Folders \cup {"none"}
        <5>1. <<"nature", "social", "memory", "prompts">> \in [1..4 -> Folders]
          BY DEF Folders, SubFolders
        <5> QED
          BY <5>1, FoundThere
      <4> QED
        BY <3>1, <4>1 DEF SaveTo, Folders, SubFolders
    <3> QED
      BY <2>2, <3>1, <3>2
  <2>5. ASSUME Disturbed PROVE editor'.spread = editor.spread /\ savedTo' = "none"
    BY <2>0, <2>5 DEF Disturbed, Shown
  <2>6. CASE SaveProfile
    BY <2>2, <2>5, <2>6 DEF SaveProfile
  <2>7. CASE OtherRenames
    <3>1. writes < MaxWrites /\ writes' = writes + 1 /\ placed' = [placed EXCEPT !["prompts"] = writes']
          /\ Disturbed /\ UNCHANGED <<pages, template>>
      BY <2>7 DEF OtherRenames
    <3>2. writes' \in Packed..MaxWrites /\ writes' \in Texts
      BY <1>0, <3>1
    <3>3. placed' \in [Folders -> Texts]
      BY <3>1, <3>2
    <3> QED
      BY <2>5, <3>1, <3>2, <3>3
  <2>8. CASE TakeEvent
    BY <2>8 DEF TakeEvent
  <2>9. CASE ReloadTemplate
    <3>1. placed["prompts"] \in Texts
      BY DEF Folders, SubFolders
    <3> QED
      BY <2>9, <3>1 DEF ReloadTemplate
  <2>10. ASSUME NEW folder \in Folders, OpenFile(folder) PROVE Beside'
    <3>1. PICK f : f = {g \in SubFolders : HasPrompt(g)}
      OBVIOUS
    <3>2. IsFiniteSet(f) /\ Cardinality(f) <= Cardinality(SubFolders) /\ Cardinality(f) \in Nat
      BY <1>0, <3>1, FS_Subset, FS_CardinalityType
    <3>3. editor' = [name |-> folder, from |-> ReadFrom(folder), spread |-> Cardinality(f), alone |-> TRUE]
          /\ savedTo' = "none" /\ UNCHANGED <<placed, writes, pages, template>>
      BY <2>10, <3>1 DEF OpenFile
    <3>4. editor'.spread \in 0..Cardinality(SubFolders)
      BY <1>0, <3>2, <3>3
    <3> QED
      BY <3>3, <3>4
  <2>11. ASSUME NEW folder \in Folders, OtherWrites(folder) PROVE Beside'
    BY <2>2, <2>5, <2>11 DEF OtherWrites
  <2>12. ASSUME NEW folder \in Folders, OtherRemoves(folder) PROVE Beside'
    <3>1. placed' = [placed EXCEPT ![folder] = NoPrompt] /\ Disturbed /\ UNCHANGED <<writes, pages, template>>
      BY <2>12 DEF OtherRemoves
    <3>2. NoPrompt \in Texts
      BY <1>0
    <3> QED
      BY <2>5, <3>1, <3>2
  <2>13. ASSUME NEW pen \in Pens, PageWritten(pen) PROVE Beside'
    <3>1. Put(pages[pen].folder, pages[pen].text) /\ pages' = [pages EXCEPT ![pen] = NoPage]
          /\ UNCHANGED <<writes, editor, savedTo>>
      BY <2>13 DEF PageWritten
    <3>2. placed' \in [Folders -> Texts] /\ template' \in Texts
      BY <2>1, <3>1
    <3>3. NoPage.text \in Texts
      BY <1>0 DEF NoPage
    <3> QED
      BY <2>0, <3>1, <3>2, <3>3
  <2> QED
    BY <2>3, <2>4, <2>6, <2>7, <2>8, <2>9, <2>10, <2>11, <2>12, <2>13, Zenon DEF PromptFilesNext
<1> QED
  BY <1>1, <1>2, <1>3, PromptFilesStart, PromptFilesStep, PTL DEF PromptFilesSpec

\* A sequence whose elements are in a smaller set is one of it.
LEMMA QueueOfFewer ==
  ASSUME NEW S, NEW T, NEW q \in Seq(S), Range(q) \subseteq T
  PROVE  q \in Seq(T)
<1>1. PICK n \in Nat : n = Len(q) /\ q \in [1..n -> S]
  BY LenProperties
<1>2. \A i \in 1..n : q[i] \in T
  BY <1>1 DEF Range
<1>3. q \in [1..n -> T]
  BY <1>1, <1>2
<1> QED
  BY <1>1, <1>3, IsASeq

\* The updates are numbered as they arrive, in all the places where they may be, and what is
\* being sent is one of the replies.
THEOREM TelegramStaysTyped == TelegramSpec => []TelegramTypeOK
<1> DEFINE Beside == bot \in {"running", "stopping", "stopped"} /\ flushing \in BOOLEAN /\ typing \in BOOLEAN
<1>1. TelegramInv /\ SpeechInv /\ Beside => TelegramTypeOK
  <2> SUFFICES ASSUME TelegramInv, SpeechInv, Beside PROVE TelegramTypeOK
    OBVIOUS
  <2>1. /\ arrived \in Seq(Update) /\ updateQueue \in Seq(Nat) /\ album \in Seq(Nat)
        /\ handedOver \in Seq(Seq(Nat)) /\ handling \in Nat
    BY DEF TelegramInv, TelegramTypes
  <2>2. PICK all : all = DOMAIN arrived
    OBVIOUS
  <2>3. Len(arrived) \in Nat /\ all = 1..Len(arrived)
    BY <2>1, <2>2, LenProperties
  <2>4. /\ Range(updateQueue) \subseteq all /\ {handling} \ {0} \subseteq all /\ Range(album) \subseteq all
        /\ HandedUpdates \subseteq all /\ dropped \subseteq all
    <3>1. Range(updateQueue) \cup ({handling} \ {0}) \cup Range(album) \cup HandedUpdates \cup dropped = all
      BY <2>2 DEF TelegramInv, Placed
    <3> QED
      BY <3>1, Zenon
  <2>5. updateQueue \in Seq(all) /\ album \in Seq(all)
    BY <2>1, <2>4, QueueOfFewer
  <2>6. handedOver \in Seq(Seq(all))
    <3>1. ASSUME NEW q \in Range(handedOver) PROVE q \in Seq(all)
      <4>1. Range(handedOver) \subseteq Seq(Nat)
        BY <2>1, QueueRange
      <4>2. Range(q) \subseteq HandedUpdates
        BY DEF HandedUpdates
      <4>3. Range(q) \subseteq all
        BY <2>4, <4>2
      <4> QED
        BY <4>1, <4>3, QueueOfFewer
    <3>2. Range(handedOver) \subseteq Seq(all)
      BY <3>1
    <3> QED
      BY <2>1, <3>2, QueueOfFewer
  <2>7. handling \in 0..Len(arrived)
    BY <2>1, <2>3, <2>4
  <2>8. sending.mode \in {"none", "file", "html", "plain"}
    <3>1. sending \in Tried \/ sending = Nothing
      BY DEF SpeechInv, SpeechTypes
    <3> QED
      BY <3>1 DEF Tried, Nothing
  <2>9. outgoing \in 0..Len(Replies) /\ timeouts \in 0..MaxTimeouts
    BY DEF SpeechInv, SpeechTypes
  <2>10. {flushing, typing} \subseteq BOOLEAN /\ {updateQueue, album} \subseteq Seq(all)
    BY <2>5, Zenon
  <2> QED
    BY <2>2, <2>4, <2>6, <2>7, <2>8, <2>9, <2>10, Zenon DEF TelegramTypeOK
<1>2. TelegramInit => Beside
  <2> SUFFICES ASSUME TelegramInit PROVE Beside
    OBVIOUS
  <2>1. bot = "running" /\ flushing = FALSE /\ typing = FALSE
    BY DEF TelegramInit
  <2> QED
    BY <2>1
<1>3. Beside /\ [TelegramNext]_telegramVars => Beside'
  <2> SUFFICES ASSUME Beside, [TelegramNext]_telegramVars PROVE Beside'
    OBVIOUS
  <2>1. \/ bot' = bot \/ bot' = "stopping" \/ bot' = "stopped"
    BY Zenon DEF TelegramNext, Hears, Shuts, Speaks, telegramVars, inboundVars, outboundVars, Arrive, TakeUpdate, HandleSingle,
                 BufferPart, FlushAlbum, StopTelegram, TelegramStopped, SendReply, SendFile, SendText,
                 TextFails, TextTimesOut, ShownOrNot
  <2>2. flushing' = flushing \/ flushing' = TRUE \/ flushing' = FALSE
    BY Zenon DEF TelegramNext, Hears, Shuts, Speaks, telegramVars, inboundVars, outboundVars, Arrive, TakeUpdate, HandleSingle,
                 BufferPart, FlushAlbum, StopTelegram, TelegramStopped, SendReply, SendFile, SendText,
                 TextFails, TextTimesOut, ShownOrNot
  <2>3. typing' = typing \/ typing' = TRUE \/ typing' = FALSE \/ typing' = (typing \/ album = <<>>)
    BY Zenon DEF TelegramNext, Hears, Shuts, Speaks, telegramVars, inboundVars, outboundVars, Arrive, TakeUpdate, HandleSingle,
                 BufferPart, FlushAlbum, StopTelegram, TelegramStopped, SendReply, SendFile, SendText,
                 TextFails, TextTimesOut, ShownOrNot
  <2>4. bot' \in {"running", "stopping", "stopped"}
    BY <2>1
  <2>5. flushing' \in BOOLEAN /\ typing' \in BOOLEAN
    BY <2>2, <2>3, Zenon
  <2> QED
    BY <2>4, <2>5
<1>4. TelegramInv /\ [TelegramNext]_telegramVars => TelegramInv'
  <2>1. UNCHANGED inboundVars /\ TelegramInv => TelegramInv'
    BY DEF inboundVars, TelegramInv, TelegramTypes, HandedApart, Placed, AlbumFlushes, HandedUpdates
  <2>2. Speaks \/ UNCHANGED telegramVars => UNCHANGED inboundVars
    BY DEF Speaks, SendReply, SendFile, SendText, TextFails, TextTimesOut, ShownOrNot, telegramVars
  <2> QED
    BY <2>1, <2>2, HearsKeeps DEF TelegramNext
<1> QED
  BY <1>1, <1>2, <1>3, <1>4, TelegramStart, SpeechStart, SpeechStep, PTL DEF TelegramSpec

\* Every mail that is anywhere has come in, and no more uids are remembered than are to be.
THEOREM MailboxStaysTyped == MailboxSpec => []MailboxTypeOK
<1> DEFINE Beside ==
      /\ mails \in 0..MaxMails /\ IsFiniteSet(processed) /\ processed \subseteq Mails
      /\ Cardinality(processed) <= MaxUids
      /\ Range(batch) \subseteq Mails /\ Range(delivered) \subseteq Mails
      /\ Polling => fetch.todo \subseteq Mails /\ Range(fetch.fetched) \subseteq Mails
<1>0. MaxMails \in Nat /\ MaxUids \in Nat /\ MaxUids > 0 /\ Mails = 1..MaxMails
  BY MailboxAssumption DEF Mails
<1>1. MailInv /\ Beside => MailboxTypeOK
  <2> SUFFICES ASSUME MailInv, Beside PROVE MailboxTypeOK
    OBVIOUS
  <2>1. batch \in Seq(Nat) /\ delivered \in Seq(Nat) /\ unseen \subseteq 1..mails /\ fetch \in Poll \cup {NoPoll}
    BY DEF MailInv, MailTypes
  <2>2. batch \in Seq(Mails) /\ delivered \in Seq(Mails)
    BY <2>1, QueueOfFewer
  <2>3. fetch.attempt \in 0..2
    BY <2>1 DEF Poll, NoPoll
  <2>4. {batch, delivered} \subseteq Seq(Mails)
    BY <2>2, Zenon
  <2> QED
    BY <2>1, <2>3, <2>4, Zenon DEF MailboxTypeOK
<1>2. MailboxInit => Beside
  <2> SUFFICES ASSUME MailboxInit PROVE Beside
    OBVIOUS
  <2>1. /\ mails = 0 /\ processed = {} /\ batch = <<>> /\ delivered = <<>> /\ fetch = NoPoll
    BY DEF MailboxInit
  <2>2. IsFiniteSet(processed) /\ Cardinality(processed) = 0
    BY <2>1, FS_EmptySet
  <2>3. Range(batch) = {} /\ Range(delivered) = {} /\ ~Polling
    BY <2>1, NothingQueued DEF Polling
  <2>4. mails \in 0..MaxMails /\ processed \subseteq Mails
    BY <1>0, <2>1
  <2> QED
    BY <1>0, <2>2, <2>3, <2>4
<1>3. MailInv /\ Beside /\ [MailboxNext]_mailboxVars => Beside'
  <2> SUFFICES ASSUME MailInv, Beside, [MailboxNext]_mailboxVars PROVE Beside'
    OBVIOUS
  <2>1. /\ batch \in Seq(Nat) /\ delivered \in Seq(Nat) /\ unseen \subseteq Mails /\ mails \in Nat
        /\ Polling => fetch \in Poll /\ fetch.fetched \in Seq(Nat)
    <3>1. MailTypes
      BY DEF MailInv
    <3>2. unseen \subseteq Mails
      BY <1>0, <3>1 DEF MailTypes
    <3> QED
      BY <3>1, <3>2, PollFacts DEF MailTypes
  <2>2. ~(NoPoll # NoPoll)
    OBVIOUS
  <2>3. CASE UNCHANGED mailboxVars
    BY <2>3, Zenon DEF mailboxVars, Polling
  <2>4. CASE MailArrives
    <3>1. mails' \in 0..MaxMails
      BY <1>0, <2>1, <2>4 DEF MailArrives
    <3> QED
      BY <2>4, <3>1, Zenon DEF MailArrives, Polling
  <2>5. CASE PollBegins
    <3>1. fetch' = [attempt |-> 1, todo |-> unseen, fetched |-> <<>>, storing |-> 0]
      BY <2>5 DEF PollBegins
    <3>2. fetch'.todo = unseen /\ fetch'.fetched = <<>>
      BY <3>1
    <3>3. fetch'.todo \subseteq Mails /\ Range(fetch'.fetched) \subseteq Mails
      BY <2>1, <3>2, NothingQueued
    <3> QED
      BY <2>5, <3>3, Zenon DEF PollBegins, Polling
  <2>6. CASE MarkSeen
    <3>1. Polling /\ fetch' = [fetch EXCEPT !.storing = 0]
          /\ UNCHANGED <<mails, processed, batch, delivered>>
      BY <2>6 DEF MarkSeen
    <3>2. fetch'.todo = fetch.todo /\ fetch'.fetched = fetch.fetched
      BY <2>1, <3>1 DEF Poll
    <3> QED
      BY <3>1, <3>2, Zenon
  <2>7. CASE PollReturns
    <3>1. Polling /\ batch' = fetch.fetched /\ fetch' = NoPoll /\ UNCHANGED <<mails, processed, delivered>>
      BY <2>7 DEF PollReturns
    <3> QED
      BY <3>1, Zenon DEF Polling
  <2>8. CASE PollIsStale
    <3>1. Polling /\ fetch' = Refetched(unseen) /\ UNCHANGED <<mails, processed, batch, delivered>>
      BY <2>8 DEF PollIsStale
    <3>2. fetch'.todo = unseen /\ fetch'.fetched = fetch.fetched
      BY <2>1, <3>1 DEF Poll, Refetched
    <3> QED
      BY <2>1, <3>1, <3>2, Zenon
  <2>9. CASE PollRaises
    <3>1. fetch' = NoPoll /\ UNCHANGED <<mails, processed, batch, delivered>>
      BY <2>9 DEF PollRaises
    <3> QED
      BY <3>1, Zenon DEF Polling
  <2>10. CASE HandMail
    <3>1. batch # <<>> /\ delivered' = Append(delivered, Head(batch)) /\ batch' = Tail(batch)
          /\ UNCHANGED <<mails, processed, fetch>>
      BY <2>10 DEF HandMail
    <3>2. Head(batch) \in Nat /\ Head(batch) \in Range(batch) /\ Range(Tail(batch)) \subseteq Range(batch)
      BY <2>1, <3>1, QueueRange, QueueShape
    <3>3. Range(delivered') = Range(delivered) \cup {Head(batch)}
      BY <2>1, <3>1, <3>2, QueueRange
    <3>4. Range(delivered') \subseteq Mails /\ Range(batch') \subseteq Mails
      BY <3>1, <3>2, <3>3
    <3> QED
      BY <3>1, <3>4, Zenon DEF Polling
  <2>11. CASE RestartMailbox
    <3>1. fetch' = NoPoll /\ processed' = {} /\ batch' = <<>> /\ UNCHANGED <<mails, delivered>>
      BY <2>11 DEF RestartMailbox
    <3>2. IsFiniteSet(processed') /\ Cardinality(processed') = 0 /\ Range(batch') = {}
      BY <3>1, FS_EmptySet, NothingQueued
    <3>3. Cardinality(processed') <= MaxUids /\ processed' \subseteq Mails
      BY <1>0, <3>1, <3>2
    <3> QED
      BY <3>1, <3>2, <3>3, Zenon DEF Polling
  <2>12. ASSUME Polling, NEW uid \in fetch.todo, FetchMail(uid) PROVE Beside'
    <3>1. fetch \in Poll /\ uid \in Nat /\ uid \in Mails
      BY <1>0, <2>1, <2>12 DEF Poll
    <3>2. CASE uid \in Range(fetch.fetched) \cup processed
      <4>1. fetch' = [fetch EXCEPT !.todo = fetch.todo \ {uid}] /\ processed' = processed
            /\ UNCHANGED <<mails, batch, delivered>>
        BY <2>12, <3>2 DEF FetchMail
      <4>2. fetch'.todo \subseteq fetch.todo /\ fetch'.fetched = fetch.fetched
        BY <3>1, <4>1 DEF Poll
      <4> QED
        BY <2>12, <4>1, <4>2
    <3>3. CASE uid \notin Range(fetch.fetched) \cup processed
      <4>1. fetch' = [fetch EXCEPT !.todo = fetch.todo \ {uid}, !.fetched = Append(fetch.fetched, uid), !.storing = uid]
            /\ Processed(uid) /\ UNCHANGED <<mails, batch, delivered>>
        BY <2>12, <3>3 DEF FetchMail
      <4>2. fetch'.todo \subseteq fetch.todo /\ fetch'.fetched = Append(fetch.fetched, uid)
        BY <3>1, <4>1 DEF Poll
      <4>3. Range(fetch'.fetched) = Range(fetch.fetched) \cup {uid}
        BY <2>1, <2>12, <3>1, <4>2, QueueRange
      <4>4. PICK all : all = processed \cup {uid}
        OBVIOUS
      <4>5. IsFiniteSet(all) /\ Cardinality(all) = Cardinality(processed) + 1 /\ all \subseteq Mails
            /\ Cardinality(processed) \in Nat
        BY <3>1, <3>3, <4>4, FS_AddElement, FS_CardinalityType
      <4>6. processed' \subseteq Mails /\ IsFiniteSet(processed') /\ Cardinality(processed') <= MaxUids
        <5>1. CASE Cardinality(all) <= MaxUids
          BY <4>1, <4>4, <4>5, <5>1 DEF Processed
        <5>2. CASE ~(Cardinality(all) <= MaxUids)
          <6>1. processed' \subseteq all /\ Cardinality(processed') = Cardinality(all) - Cardinality(all) \div 2
            BY <4>1, <4>4, <5>2 DEF Processed
          <6>2. IsFiniteSet(processed')
            BY <4>5, <6>1, FS_Subset
          <6>3. Cardinality(all) = MaxUids + 1
            BY <1>0, <4>5, <5>2
          <6>4. (MaxUids + 1) \div 2 >= 1
            BY <1>0
          <6> QED
            BY <1>0, <4>5, <6>1, <6>2, <6>3, <6>4
        <5> QED
          BY <5>1, <5>2
      <4> QED
        BY <2>12, <3>1, <4>1, <4>2, <4>3, <4>6
    <3> QED
      BY <3>2, <3>3
  <2> QED
    BY <2>3, <2>4, <2>5, <2>6, <2>7, <2>8, <2>9, <2>10, <2>11, <2>12, Zenon DEF MailboxNext
<1> QED
  BY <1>1, <1>2, <1>3, MailStart, MailStep, PTL DEF MailboxSpec

\* What was ignored, lost or forgotten was posted, and the window holds no more ids than it is to.
THEOREM InboxStaysTyped == InboxSpec => []InboxTypeOK
<1> DEFINE Beside ==
      /\ gone \subseteq DOMAIN postings /\ evicted \subseteq DOMAIN postings
      /\ Len(window) <= WindowSize /\ repeats \in 0..MaxRepeats
<1>0. WindowSize \in Nat /\ WindowSize > 0 /\ MaxRepeats \in Nat
  BY InboxAssumption
<1>1. PostInv /\ Beside => InboxTypeOK
  <2> SUFFICES ASSUME PostInv, Beside PROVE InboxTypeOK
    OBVIOUS
  <2>1. OnTheWire \cup InWork \cup Range(passedOn) \subseteq DOMAIN postings
        /\ Range(window) \subseteq Range(passedOn) \cup gone \cup InWork
    BY DEF PostInv, PostsKnown
  <2>2. \A i \in DOMAIN wire : wire[i].post \in DOMAIN postings
    BY <2>1 DEF OnTheWire
  <2>3. Range(window) \cup evicted \subseteq DOMAIN postings /\ Range(passedOn) \cup gone \subseteq DOMAIN postings
    BY <2>1
  <2>4. {listening, knowsItself} \subseteq BOOLEAN
    BY Zenon DEF PostInv, PostTypes
  <2> QED
    BY <2>2, <2>3, <2>4, Zenon DEF InboxTypeOK
<1>2. InboxInit => Beside
  <2> SUFFICES ASSUME InboxInit PROVE Beside
    OBVIOUS
  <2>1. window = <<>> /\ evicted = {} /\ gone = {} /\ repeats = 0
    BY DEF InboxInit
  <2> QED
    BY <1>0, <2>1
<1>3. PostInv /\ Beside /\ [InboxNext]_postVars => Beside'
  <2> SUFFICES ASSUME PostInv, Beside, [InboxNext]_postVars PROVE Beside'
    OBVIOUS
  <2>1. /\ postings \in Seq(PostedKinds) /\ window \in Seq(Nat) /\ wire \in Seq(Delivery)
        /\ OnTheWire \subseteq Nat
    <3>1. postings \in Seq(PostedKinds) /\ window \in Seq(Nat) /\ wire \in Seq(Delivery)
      BY DEF PostInv, PostTypes
    <3>2. OnTheWire \subseteq Nat
      BY <3>1, PostsInQueue DEF OnTheWire, PostsOf
    <3> QED
      BY <3>1, <3>2
  <2>2. wire # <<>> => ThisPost \in OnTheWire
    <3>1. wire # <<>> => PostsOf(wire) = PostsOf(Tail(wire)) \cup {Head(wire).post}
      BY <2>1, PostsInQueue
    <3> QED
      BY <3>1, Zenon DEF PostsOf, OnTheWire, ThisPost
  <2>3. /\ OnTheWire \subseteq DOMAIN postings /\ InWork \subseteq DOMAIN postings
        /\ Range(window) \subseteq DOMAIN postings
    BY Zenon DEF PostInv, PostsKnown
  <2>4. /\ (window' = window /\ evicted' = evicted) \/ (wire # <<>> /\ Mark)
        /\ \/ gone' = gone
           \/ gone' = gone \cup {ThisPost} /\ wire # <<>>
           \/ gone' = gone \cup OnTheWire
           \/ \E h \in work : gone' = gone \cup {h.post} \/ gone' = gone \cup {h.post} \cup OnTheWire
           \/ \E S \in SUBSET work, T \in {{}, OnTheWire} : gone' = gone \cup {h.post : h \in S} \cup T
        /\ postings' = postings \/ (\E sort \in PostKinds : postings' = Append(postings, sort))
        /\ repeats' = repeats \/ (repeats < MaxRepeats /\ repeats' = repeats + 1)
    <3>1. CASE UNCHANGED postVars
      BY <3>1, Zenon DEF postVars
    <3>2. ASSUME NEW sort \in PostKinds, Posted(sort)
          PROVE  UNCHANGED <<window, evicted, gone, repeats>> /\ postings' = Append(postings, sort)
      BY <3>2 DEF Posted
    <3>3. ASSUME NEW p \in DOMAIN postings, Repeated(p)
          PROVE  UNCHANGED <<window, evicted, gone, postings>> /\ repeats < MaxRepeats /\ repeats' = repeats + 1
      BY <3>3 DEF Repeated
    <3>4. CASE ConnectionLost
      BY <3>4, Zenon DEF ConnectionLost
    <3>5. CASE \/ FeishuTakes \/ WecomTakes \/ QQTakes \/ WhatsAppTakes
               \/ SlackTakes \/ DingTalkTakes \/ DiscordTakes \/ MatrixTakes
      <4>1. wire # <<>> /\ UNCHANGED <<postings, repeats>>
        BY <3>5, Zenon DEF FeishuTakes, WecomTakes, QQTakes, WhatsAppTakes, SlackTakes, DingTalkTakes,
                           DiscordTakes, MatrixTakes, Taking
      <4>2. (window' = window /\ evicted' = evicted) \/ Mark
        BY <3>5, Zenon DEF FeishuTakes, WecomTakes, QQTakes, WhatsAppTakes, SlackTakes, DingTalkTakes,
                           DiscordTakes, MatrixTakes, UnlessSeen, WindowStays
      <4>3. \A awaits : Handle(awaits) => gone' = gone
        BY Zenon DEF Handle
      <4>4. gone' = gone \/ gone' = gone \cup {ThisPost}
        BY <3>5, <4>3, Zenon DEF FeishuTakes, WecomTakes, QQTakes, WhatsAppTakes, SlackTakes, DingTalkTakes,
                                 DiscordTakes, MatrixTakes, UnlessSeen, Ignore
      <4> QED
        BY <4>1, <4>2, <4>4, Zenon
    <3>6. ASSUME NEW h \in work, Resumes(h) \/ Raises(h)
          PROVE  /\ UNCHANGED <<window, evicted, postings, repeats>>
                 /\ \/ gone' = gone \/ gone' = gone \cup {h.post}
                    \/ gone' = gone \cup {h.post} \cup OnTheWire
      BY <3>6, Zenon DEF Resumes, Raises
    <3>7. ASSUME NEW overdue \in BOOLEAN, StopListening(overdue)
          PROVE  /\ UNCHANGED <<window, evicted, postings, repeats>>
                 /\ \E S \in SUBSET work, T \in {{}, OnTheWire} : gone' = gone \cup {h.post : h \in S} \cup T
      <4>1. PICK S : S = {h \in work : \/ adapter = "dingtalk" /\ h.todo = <<"task">>
                                       \/ adapter = "matrix" /\ overdue}
        OBVIOUS
      <4>2. PICK T : T = IF adapter = "feishu" THEN {} ELSE OnTheWire
        OBVIOUS
      <4>3. gone' = gone \cup {h.post : h \in S} \cup T /\ UNCHANGED <<window, evicted, postings, repeats>>
        BY <3>7, <4>1, <4>2 DEF StopListening
      <4>4. S \in SUBSET work /\ T \in {{}, OnTheWire}
        BY <4>1, <4>2
      <4> QED
        BY <4>3, <4>4, Zenon
    <3> QED
      BY <3>1, <3>2, <3>3, <3>4, <3>5, <3>6, <3>7, Zenon DEF InboxNext
  <2>5. DOMAIN postings \subseteq DOMAIN postings'
    <3>1. \A sort \in PostKinds : DOMAIN postings \subseteq DOMAIN Append(postings, sort)
      BY <2>1
    <3> QED
      BY <2>4, <3>1, Zenon
  <2>6. gone' \subseteq DOMAIN postings
    <3>1. \A h \in work : h.post \in DOMAIN postings
      BY <2>3 DEF InWork
    <3> QED
      BY <2>2, <2>3, <2>4, <3>1
  <2>7. evicted' \subseteq DOMAIN postings /\ Len(window') <= WindowSize
    <3>1. CASE window' = window /\ evicted' = evicted
      BY <3>1
    <3>2. CASE wire # <<>> /\ Mark
      <4>1. PICK id \in Nat : id = ThisPost
        BY <2>1, <2>2, <3>2
      <4>2. window' = Remembered(id) /\ evicted' = evicted \cup (Range(window) \ Range(window'))
        BY <3>2, <4>1 DEF Mark
      <4>3. Append(window, id) \in Seq(Nat) /\ Len(Append(window, id)) = Len(window) + 1 /\ Len(window) \in Nat
        BY <2>1, AppendProperties, LenProperties
      <4>4. Append(window, id) # <<>>
        <5>1. PICK longer : longer = Append(window, id)
          OBVIOUS
        <5>2. longer # <<>>
          BY <4>3, <5>1, EmptySeq
        <5> QED
          BY <5>1, <5>2, Zenon
      <4>5. Len(Tail(Append(window, id))) = Len(window)
        BY <4>3, <4>4, HeadTailProperties
      <4>6. Len(window') <= WindowSize
        BY <1>0, <4>2, <4>3, <4>5 DEF Remembered
      <4> QED
        BY <2>3, <4>2, <4>6
    <3> QED
      BY <2>4, <3>1, <3>2
  <2>8. repeats' \in 0..MaxRepeats
    BY <1>0, <2>4
  <2> QED
    BY <2>5, <2>6, <2>7, <2>8
<1> QED
  BY <1>1, <1>2, <1>3, InboxStart, PostStep, PTL DEF InboxSpec

\* What an adapter gave up or named is a file of the reply, what was shown against a failure was
\* shown, and no call is tried more often than it may.
THEOREM OutboxStaysTyped == OutboxSpec => []OutboxTypeOK
<1>1. OutboxInv => OutboxTypeOK
  <2> SUFFICES ASSUME OutTypes PROVE OutboxTypeOK
    BY DEF OutboxInv
  <2>1. \A i \in DOMAIN todo : todo[i] \in OutCall
    BY ElementOfSeq, LenProperties DEF OutTypes
  <2>2. \A i \in DOMAIN todo : todo[i].tries \in 1..SendTries
    BY <2>1 DEF OutCall
  <2> QED
    BY <2>2, Zenon DEF OutTypes, OutboxTypeOK
<1> QED
  BY <1>1, OutboxStart, OutboxStep, PTL DEF OutboxSpec

\* The messages that an instance has taken, and all that the channel has to do with.
Taken == seen \cup everHeard \cup ToSet(heard) \cup ToSet(entries)
Concerned == Taken \cup missed \cup ToSet(pushes) \cup ToSet(orphans)

LEMMA SessionTakes ==
  ASSUME InboxTypes, NEW ms \in Seq(Nat), Distinct(ms), SessionEvents(ms)
  PROVE  Taken' \subseteq Taken \cup ToSet(ms)
<1>1. PICK new : new = Unseen(ms)
  OBVIOUS
<1>2. new \in Seq(Nat) /\ ToSet(new) \subseteq ToSet(ms)
  BY <1>1, UnseenFacts
<1>3. /\ heard' = heard \o new /\ everHeard' = everHeard \cup ToSet(new) /\ seen' = seen \cup ToSet(ms)
      /\ entries' = entries
  BY <1>1 DEF SessionEvents, Dispatched
<1>4. ToSet(heard') = ToSet(heard) \cup ToSet(new)
  BY <1>2, <1>3, Joined DEF InboxTypes
<1> QED
  BY <1>2, <1>3, <1>4 DEF Taken

LEMMA PanelTakes ==
  ASSUME InboxTypes, NEW m \in Nat, PanelEvent(m)
  PROVE  Taken' \subseteq Taken \cup {m}
<1>1. CASE m \in seen
  BY <1>1, SingleFacts DEF PanelEvent, inboxVars, Taken
<1>2. CASE m \notin seen /\ m \in Mentioned
  <2>1. PICK more : more = Append(entries, m)
    OBVIOUS
  <2>2. /\ seen' = seen \cup {m} /\ entries' = <<>> /\ heard' = heard \o more
        /\ everHeard' = everHeard \cup ToSet(more)
    BY <1>2, <2>1, SingleFacts DEF PanelEvent, FlushedWith, Dispatched
  <2>3. more \in Seq(Nat) /\ ToSet(more) = ToSet(entries) \cup {m}
    BY <2>1, Appended DEF InboxTypes
  <2>4. ToSet(heard') = ToSet(heard) \cup ToSet(more)
    BY <2>2, <2>3, Joined DEF InboxTypes
  <2>5. ToSet(<<>>) = {}
    BY DEF ToSet
  <2> QED
    BY <2>2, <2>3, <2>4, <2>5 DEF Taken
<1>3. CASE m \notin seen /\ m \notin Mentioned
  <2>1. seen' = seen \cup {m} /\ entries' = Append(entries, m) /\ UNCHANGED <<heard, everHeard>>
    BY <1>3, SingleFacts DEF PanelEvent, Enqueued
  <2>2. ToSet(entries') = ToSet(entries) \cup {m}
    BY <2>1, Appended DEF InboxTypes
  <2> QED
    BY <2>1, <2>2 DEF Taken
<1> QED
  BY <1>1, <1>2, <1>3

LEMMA PayloadTakes ==
  ASSUME MochatTypes, NEW from \in Nat, NEW to \in Nat, WatchPayload(from, to)
  PROVE  Taken' \subseteq Taken \cup (from + 1)..to /\ missed' \subseteq missed \cup (base + 1)..to
<1>1. missed' \subseteq missed \cup (base + 1)..to
  BY DEF WatchPayload, After
<1>2. CASE cold
  BY <1>1, <1>2 DEF WatchPayload, inboxVars, Taken
<1>3. CASE ~cold
  <2>1. SessionEvents(Stretch(from, to))
    BY <1>3 DEF WatchPayload, Stretch
  <2>2. Stretch(from, to) \in Seq(Nat) /\ Distinct(Stretch(from, to)) /\ ToSet(Stretch(from, to)) = (from + 1)..to
    BY StretchFacts
  <2>3. Taken' \subseteq Taken \cup (from + 1)..to
    BY <2>1, <2>2, SessionTakes, TypesSplit
  <2> QED
    BY <1>1, <2>3
<1> QED
  BY <1>2, <1>3

\* The channel has only to do with messages that were posted, and no answer goes beyond them.
THEOREM MochatStaysTyped == MochatSpec => []MochatTypeOK
<1> DEFINE Beside ==
      /\ posts \in 0..Posts /\ life \in 1..MaxLives
      /\ saveDue \in BOOLEAN /\ fallback \in BOOLEAN
      /\ Concerned \subseteq 1..posts
      /\ ack.state = "answered" => ack.to <= posts
      /\ poll.state = "answered" => poll.to <= posts
      /\ base <= posts
      /\ oldCalls \in 0..MaxCalls /\ (ack.state \in {"asked", "answered"} => oldCalls < MaxCalls)
<1>0. /\ Posts \in Nat /\ Posts > 0 /\ MaxLives \in Nat /\ MaxLives > 0
      /\ WatchLimit \in Nat /\ MaxCalls \in Nat /\ MaxCalls > 0
  BY MochatAssumption
<1>1. MochatInv /\ Beside => MochatTypeOK
  <2> SUFFICES ASSUME MochatInv, Beside PROVE MochatTypeOK
    OBVIOUS
  <2>1. /\ pushes \in Seq(Nat \ {0}) /\ entries \in Seq(Nat) /\ heard \in Seq(Nat) /\ orphans \in Seq(Nat)
    BY DEF MochatInv, MochatTypes
  <2>2. Concerned \subseteq 1..Posts
    BY <1>0
  <2>3. PICK all : all = 1..Posts
    OBVIOUS
  <2>4. /\ Range(pushes) \subseteq all /\ Range(entries) \subseteq all /\ Range(heard) \subseteq all
        /\ Range(orphans) \subseteq all /\ seen \cup everHeard \cup missed \subseteq all
    BY <2>2, <2>3 DEF Concerned, Taken, ToSet, Range
  <2>5. pushes \in Seq(all) /\ entries \in Seq(all) /\ heard \in Seq(all) /\ orphans \in Seq(all)
    BY <2>1, <2>4, QueueOfFewer
  <2>6. {pushes, entries, heard, orphans} \subseteq Seq(1..Posts) /\ seen \cup everHeard \cup missed \subseteq 1..Posts
    BY <2>3, <2>4, <2>5, Zenon
  <2>7. {socketUp, subscribed, fallback, saveDue, cold, timer} \subseteq BOOLEAN
    BY Zenon DEF MochatInv, MochatTypes
  <2>8. /\ kind \in {"session", "panel"} /\ phase \in {"running", "stopping", "stopped"}
        /\ ack \in Requests /\ poll \in Requests
        /\ cursor \in Nat \cup {Absent} /\ cursorFile \in Nat \cup {Absent}
    BY Zenon DEF MochatInv, MochatTypes
  <2>9. base \in 0..Posts
    <3>1. base \in Nat
      BY DEF MochatInv, MochatTypes
    <3> QED
      BY <1>0, <3>1
  <2> QED
    BY <2>6, <2>7, <2>8, <2>9, Zenon DEF MochatTypeOK
<1>2. MochatInit => Beside
  <2> SUFFICES ASSUME MochatInit PROVE Beside
    OBVIOUS
  <2>1. posts \in 0..Posts /\ life \in 1..MaxLives
    BY <1>0 DEF MochatInit
  <2>2. saveDue \in BOOLEAN /\ fallback \in BOOLEAN
    BY Zenon DEF MochatInit
  <2>3. Concerned = {}
    BY DEF MochatInit, Concerned, Taken, ToSet
  <2>4. ack.state = "none" /\ poll.state = "none"
    BY DEF MochatInit, None
  <2>5. base <= posts /\ oldCalls \in 0..MaxCalls
    BY <1>0 DEF MochatInit
  <2> QED
    BY <2>1, <2>2, <2>3, <2>4, <2>5
<1>3. MochatInv /\ Beside /\ [MochatNext]_mochatVars => Beside'
  <2> SUFFICES ASSUME MochatInv, Beside, [MochatNext]_mochatVars PROVE Beside'
    OBVIOUS
  <2>1. /\ MochatTypes /\ InboxTypes /\ posts \in Nat /\ base \in Nat
        /\ pushes \in Seq(Nat \ {0}) /\ pushes \in Seq(Nat) /\ entries \in Seq(Nat) /\ heard \in Seq(Nat)
        /\ orphans \in Seq(Nat)
        /\ Concerned \subseteq 1..posts
    <3>1. pushes \in Seq(Nat \ {0}) => pushes \in Seq(Nat)
      OBVIOUS
    <3> QED
      BY <3>1, TypesSplit DEF MochatInv, MochatTypes
  <2>2. ack \in Requests /\ poll \in Requests
    BY <2>1, TypesSplit
  <2>3. /\ life' = life \/ (life < MaxLives /\ life' = life + 1)
        /\ posts' = posts \/ (posts < Posts /\ posts' = posts + 1)
    BY Zenon DEF MochatNext, Post, Connect, ServerSubscribes, AckArrives, AckTimesOut, OldCallTimesOut, PushArrives,
                 InboxNotice, Disconnect, PollAsked, PollAnswered, PollHandled, DelayOver, OrphanDelayOver,
                 SaveCursor, StopBegins, StopEnds, StartAgain, mochatVars, serverVars
  <2>a. base' = base
    BY Zenon DEF MochatNext, Post, Connect, ServerSubscribes, AckArrives, AckTimesOut, OldCallTimesOut, PushArrives,
                 InboxNotice, Disconnect, PollAsked, PollAnswered, PollHandled, DelayOver, OrphanDelayOver,
                 SaveCursor, StopBegins, StopEnds, StartAgain, mochatVars, serverVars
  <2>4. posts' \in 0..Posts /\ life' \in 1..MaxLives /\ posts <= posts'
    BY <1>0, <2>1, <2>3
  <2>5. saveDue' \in BOOLEAN /\ fallback' \in BOOLEAN
    <3>1. \A from, to : WatchPayload(from, to) => saveDue' \in {saveDue, TRUE}
      BY Zenon DEF WatchPayload, Marked
    <3>2. saveDue' = saveDue \/ saveDue' = TRUE \/ saveDue' = FALSE
      BY <3>1, Zenon DEF MochatNext, Post, Connect, ServerSubscribes, AckArrives, AckTimesOut, OldCallTimesOut, PushArrives,
                 InboxNotice, Disconnect, PollAsked, PollAnswered, PollHandled, DelayOver, OrphanDelayOver,
                 SaveCursor, StopBegins, StopEnds, StartAgain, mochatVars, cursorVars
    <3>3. \/ fallback' = fallback \/ fallback' = FALSE \/ fallback' \in BOOLEAN
          \/ fallback' = (fallback \/ phase = "running")
      BY Zenon DEF MochatNext, Post, Connect, ServerSubscribes, AckArrives, AckTimesOut, OldCallTimesOut, PushArrives,
                 InboxNotice, Disconnect, PollAsked, PollAnswered, PollHandled, DelayOver, OrphanDelayOver,
                 SaveCursor, StopBegins, StopEnds, StartAgain, mochatVars, workerVars, Fallback, NoFallback
    <3>4. (fallback \/ phase = "running") \in BOOLEAN
      BY Zenon
    <3> QED
      BY <3>2, <3>3, <3>4, Zenon
  <2>6. /\ ack'.state = "answered" => ack'.to <= posts'
        /\ poll'.state = "answered" => poll'.to <= posts'
    <3>1. /\ None.state = "none" /\ \A from : Asked(from).state = "asked" /\ Late(from).state = "late"
          /\ \A from, to : Answered(from, to).state = "answered" /\ Answered(from, to).to = to
      BY DEF None, Asked, Late, Answered
    <3>2. \/ ack' = ack \/ ack' = None \/ (\E from : ack' = Asked(from) \/ ack' = Late(from))
          \/ ack.state \in {"asked", "late"} /\ ack' = Answered(ack.from, AnswerEnd(ack.from))
      <4>1. AckTimesOut => ack' = None \/ \E from : ack' = Late(from)
        BY DEF AckTimesOut
      <4> QED
        BY <4>1, Zenon DEF MochatNext, Post, Connect, ServerSubscribes, AckArrives, OldCallTimesOut, PushArrives,
                 InboxNotice, Disconnect, PollAsked, PollAnswered, PollHandled, DelayOver, OrphanDelayOver,
                 SaveCursor, StopBegins, StopEnds, StartAgain, mochatVars, socketVars
    <3>3. \/ poll' = poll \/ poll' = None \/ \E from : poll' = Asked(from) \/ poll' = Answered(from, posts)
          \/ poll.state = "asked" /\ poll' = Answered(poll.from, AnswerEnd(poll.from))
          \/ poll.state = "answered" /\ \E from : poll' = Answered(from, poll.to)
      <4>1. PollAnswered => \/ poll' = None \/ \E from : poll' = Answered(from, posts)
                            \/ poll.state = "asked" /\ poll' = Answered(poll.from, AnswerEnd(poll.from))
        BY DEF PollAnswered
      <4> QED
        BY <4>1, Zenon DEF MochatNext, Post, Connect, ServerSubscribes, AckArrives, AckTimesOut, OldCallTimesOut, PushArrives,
                 InboxNotice, Disconnect, PollAsked, PollHandled, DelayOver, OrphanDelayOver,
                 SaveCursor, StopBegins, StopEnds, StartAgain, mochatVars, workerVars, Fallback, NoFallback
    <3>4. posts \in Int /\ posts' \in Int /\ posts <= posts'
      BY <2>1, <2>4
    <3>a. \A from \in Nat : AnswerEnd(from) \in Nat /\ AnswerEnd(from) <= posts
      BY <1>0, <2>1 DEF AnswerEnd
    <3>b. /\ ack.state \in {"asked", "late"} => ack.from \in Nat
          /\ poll.state = "asked" => poll.from \in Nat
      BY <2>2, RequestFacts
    <3>5. ack'.state = "answered" => ack'.to <= posts'
      <4>1. CASE ack' = ack
        <5>1. ack.state = "answered" => ack.to \in Int
          BY <2>2, RequestFacts
        <5> QED
          BY <3>4, <4>1, <5>1
      <4> QED
        BY <3>1, <3>2, <3>4, <3>a, <3>b, <4>1
    <3>6. poll'.state = "answered" => poll'.to <= posts'
      <4>1. poll.state = "answered" => poll.to \in Int
        BY <2>2, RequestFacts
      <4>2. CASE poll' = poll
        BY <3>4, <4>1, <4>2
      <4>3. CASE poll.state = "answered" /\ \E from : poll' = Answered(from, poll.to)
        BY <3>1, <3>4, <4>1, <4>3
      <4> QED
        BY <3>1, <3>3, <3>4, <3>a, <3>b, <4>2, <4>3
    <3> QED
      BY <3>5, <3>6
  <2>9. oldCalls' \in 0..MaxCalls /\ (ack'.state \in {"asked", "answered"} => oldCalls' < MaxCalls)
    <3>1. /\ None.state = "none" /\ \A from : Asked(from).state = "asked" /\ Late(from).state = "late"
      BY DEF None, Asked, Late
    <3>2. CASE Disconnect
      BY <1>0, <3>1, <3>2 DEF Disconnect
    <3>3. CASE Connect
      BY <1>0, <3>3 DEF Connect
    <3>4. CASE OldCallTimesOut
      BY <1>0, <3>4 DEF OldCallTimesOut
    <3>5. CASE StopEnds \/ StartAgain
      BY <1>0, <3>5 DEF StopEnds, StartAgain
    <3>6. CASE ServerSubscribes \/ AckArrives \/ AckTimesOut
      <4>1. /\ oldCalls' = oldCalls
            /\ ack'.state \in {"asked", "answered"} => ack.state \in {"asked", "answered"}
        BY <3>1, <3>6 DEF ServerSubscribes, AckArrives, AckTimesOut
      <4> QED
        BY <4>1
    <3>7. CASE ~(Disconnect \/ Connect \/ OldCallTimesOut \/ StopEnds \/ StartAgain \/ ServerSubscribes
                   \/ AckArrives \/ AckTimesOut)
      <4>1. oldCalls' = oldCalls /\ ack' = ack
        BY <3>7, Zenon DEF MochatNext, Post, PushArrives,
                 InboxNotice, PollAsked, PollAnswered, PollHandled, DelayOver, OrphanDelayOver,
                 SaveCursor, StopBegins, mochatVars, socketVars
      <4> QED
        BY <4>1
    <3> QED
      BY <3>2, <3>3, <3>4, <3>5, <3>6, <3>7, Zenon
  <2>7. Concerned' \subseteq Concerned \cup 1..posts'
    <3> DEFINE Goal == Concerned' \subseteq Concerned \cup 1..posts'
    <3>1. posts \in Nat /\ posts' \in Nat /\ 1..posts \subseteq 1..posts'
      BY <2>1, <2>4
    <3>2. ToSet(<<>>) = {}
      BY DEF ToSet
    <3>3. UNCHANGED inboxVars => Taken' = Taken
      BY DEF inboxVars, Taken
    <3>4. ASSUME Taken' \subseteq Taken \cup 1..posts',
                 missed' \subseteq missed \cup 1..posts',
                 ToSet(pushes') \subseteq ToSet(pushes) \cup 1..posts',
                 ToSet(orphans') \subseteq ToSet(orphans) \cup ToSet(entries)
          PROVE  Goal
      BY <3>4 DEF Concerned, Taken
    <3>5. CASE UNCHANGED mochatVars
      BY <3>5 DEF mochatVars, Concerned, Taken
    <3>6. CASE Post
      <4>1. pushes' = pushes \/ pushes' = Append(pushes, posts + 1)
        BY <3>6, Zenon DEF Post
      <4>2. posts + 1 \in Nat /\ posts + 1 \in 1..posts'
        BY <3>1, <3>6 DEF Post
      <4>3. ToSet(Append(pushes, posts + 1)) = ToSet(pushes) \cup {posts + 1}
        BY <2>1, <4>2, Appended
      <4>4. UNCHANGED inboxVars /\ UNCHANGED <<missed, orphans>>
        BY <3>6, Zenon DEF Post, cursorVars
      <4>5. ToSet(pushes') \subseteq ToSet(pushes) \cup 1..posts'
        BY <4>1, <4>2, <4>3
      <4> QED
        BY <3>3, <3>4, <4>4, <4>5
    <3>7. CASE \/ Connect \/ PollAsked \/ PollAnswered \/ SaveCursor \/ OldCallTimesOut
      <4>1. UNCHANGED inboxVars /\ UNCHANGED <<missed, orphans, pushes>>
        BY <3>7, Zenon DEF Connect, PollAsked, PollAnswered, SaveCursor, OldCallTimesOut, socketVars, cursorVars
      <4> QED
        BY <3>3, <3>4, <4>1
    <3>8. CASE ServerSubscribes \/ AckTimesOut
      <4>1. UNCHANGED inboxVars /\ UNCHANGED <<pushes, orphans>>
        BY <3>8, Zenon DEF ServerSubscribes, AckTimesOut
      <4>a. PICK end \in Nat : ack.state \in {"asked", "late"} => end = AnswerEnd(ack.from)
        <5>1. ack.state \in {"asked", "late"} => AnswerEnd(ack.from) \in Nat
          BY <1>0, <2>1, <2>2, RequestFacts DEF AnswerEnd
        <5> QED
          BY <5>1
      <4>2. \/ missed' \subseteq missed
            \/ ack.state = "asked" /\ missed' \subseteq missed \cup (end + 1)..posts
            \/ ack.state = "late" /\ missed' \subseteq missed \cup (ack.from + 1)..posts
            \/ ack.state = "answered" /\ missed' \subseteq missed \cup (ack.from + 1)..ack.to
        BY <3>8, <4>a DEF ServerSubscribes, AckTimesOut, After
      <4>3. /\ ack.state = "late" => ack.from \in Nat
            /\ ack.state = "answered" => ack.from \in Nat /\ ack.to \in Nat /\ ack.to <= posts
        BY <2>2, RequestFacts
      <4>4. missed' \subseteq missed \cup 1..posts
        BY <3>1, <4>2, <4>3
      <4> QED
        BY <3>1, <3>3, <3>4, <4>1, <4>4
    <3>9. ASSUME NEW from \in Nat, NEW to \in 0..posts, WatchPayload(from, to)
          PROVE  Taken' \subseteq Taken \cup 1..posts' /\ missed' \subseteq missed \cup 1..posts'
      <4>0. to \in Nat /\ to <= posts' /\ posts' \in Nat
        BY <2>1, <2>4, <3>1
      <4>1. to \in Nat /\ (from + 1)..to \subseteq 1..posts' /\ (base + 1)..to \subseteq 1..posts'
        <5>1. ASSUME NEW x \in Nat PROVE (x + 1)..to \subseteq 1..posts'
          BY <4>0
        <5> QED
          BY <2>1, <4>0, <5>1
      <4>2. Taken' \subseteq Taken \cup (from + 1)..to /\ missed' \subseteq missed \cup (base + 1)..to
        BY <2>1, <3>9, <4>1, PayloadTakes
      <4> QED
        BY <4>1, <4>2
    <3>10. CASE AckArrives
      <4>1. ack.from \in Nat /\ ack.to \in 0..posts
        BY <2>1, <2>2, <3>10, RequestFacts DEF AckArrives
      <4>2. UNCHANGED <<pushes, orphans>>
        BY <3>10 DEF AckArrives
      <4>3. CASE kind = "session"
        <5>1. WatchPayload(ack.from, ack.to)
          BY <3>10, <4>3 DEF AckArrives
        <5> QED
          BY <3>4, <3>9, <4>1, <4>2, <5>1
      <4>4. CASE kind # "session"
        <5>1. UNCHANGED inboxVars /\ missed' = missed
          BY <3>10, <4>4 DEF AckArrives, cursorVars
        <5> QED
          BY <3>3, <3>4, <4>2, <5>1
      <4> QED
        BY <4>3, <4>4
    <3>11. CASE PushArrives
      <4>1. PICK m : m = Head(pushes)
        OBVIOUS
      <4>2. pushes # <<>> /\ pushes' = Tail(pushes) /\ orphans' = orphans
        BY <3>11 DEF PushArrives
      <4>3. m \in ToSet(pushes) /\ ToSet(Tail(pushes)) \subseteq ToSet(pushes) /\ m \in Nat \ {0}
        <5>1. Range(Tail(pushes)) \subseteq Range(pushes) /\ Head(pushes) \in Range(pushes)
          BY <2>1, <4>2, QueueRange
        <5>2. Range(pushes) = ToSet(pushes) /\ Range(Tail(pushes)) = ToSet(Tail(pushes))
          BY DEF Range, ToSet
        <5>3. Head(pushes) \in Nat \ {0}
          BY <2>1, <4>2, HeadTailProperties
        <5> QED
          BY <4>1, <5>1, <5>2, <5>3
      <4>4. m \in 1..posts
        BY <2>1, <4>3 DEF Concerned
      <4>5. CASE kind = "session"
        <5>1. m - 1 \in Nat /\ m \in 0..posts
          BY <4>4
        <5>2. WatchPayload(m - 1, m)
          BY <3>11, <4>1, <4>5 DEF PushArrives
        <5>3. Taken' \subseteq Taken \cup 1..posts' /\ missed' \subseteq missed \cup 1..posts'
          BY <3>9, <5>1, <5>2
        <5> QED
          BY <3>4, <4>2, <4>3, <5>3
      <4>6. CASE kind # "session"
        <5>1. PanelEvent(m) /\ missed' = missed
          BY <3>11, <4>1, <4>6 DEF PushArrives, cursorVars
        <5>2. Taken' \subseteq Taken \cup {m}
          BY <2>1, <4>3, <5>1, PanelTakes
        <5>3. Taken' \subseteq Taken \cup 1..posts'
          BY <3>1, <4>4, <5>2
        <5> QED
          BY <3>4, <4>2, <4>3, <5>1, <5>3
      <4> QED
        BY <4>5, <4>6
    <3>12. ASSUME NEW m \in Noticed, InboxNotice(m) PROVE Goal
      <4>1. m \in Nat /\ m \in 1..posts
        <5>1. m \in 1..Posts
          BY MochatAssumption
        <5> QED
          BY <2>1, <3>12, <5>1 DEF InboxNotice
      <4>2. SessionEvents(<<m>>) /\ UNCHANGED <<pushes, missed, orphans>>
        BY <3>12, Zenon DEF InboxNotice, socketVars, cursorVars
      <4>3. <<m>> \in Seq(Nat) /\ Distinct(<<m>>) /\ ToSet(<<m>>) = {m}
        BY <4>1, SingleFacts
      <4>4. Taken' \subseteq Taken \cup {m}
        BY <2>1, <4>2, <4>3, SessionTakes
      <4>5. Taken' \subseteq Taken \cup 1..posts'
        BY <3>1, <4>1, <4>4
      <4> QED
        BY <3>4, <4>2, <4>5
    <3>13. CASE Disconnect \/ StopEnds
      <4>1. UNCHANGED inboxVars /\ orphans' = orphans /\ pushes' = <<>> /\ missed' = StillMissed(CursorOr0)
        BY <3>13, Zenon DEF Disconnect, StopEnds
      <4>2. missed' \subseteq missed
        BY <4>1 DEF StillMissed
      <4> QED
        BY <3>2, <3>3, <3>4, <4>1, <4>2
    <3>14. CASE PollHandled
      <4>1. poll.state = "answered" /\ UNCHANGED <<pushes, orphans>>
        BY <3>14, Zenon DEF PollHandled, socketVars
      <4>2. poll.from \in Nat /\ poll.to \in Nat /\ poll.to <= posts
        BY <2>2, <4>1, RequestFacts
      <4>3. CASE kind = "session"
        <5>1. WatchPayload(poll.from, poll.to) /\ poll.to \in 0..posts
          BY <3>1, <3>14, <4>2, <4>3 DEF PollHandled
        <5> QED
          BY <3>4, <3>9, <4>1, <4>2, <5>1
      <4>4. CASE kind # "session" /\ poll.from < poll.to
        <5>1. poll.from + 1 \in Nat /\ poll.from + 1 \in 1..posts
          BY <3>1, <4>2, <4>4
        <5>2. PanelEvent(poll.from + 1) /\ missed' = missed
          BY <3>14, <4>4 DEF PollHandled, cursorVars
        <5>3. Taken' \subseteq Taken \cup {poll.from + 1}
          BY <2>1, <5>1, <5>2, PanelTakes
        <5>4. Taken' \subseteq Taken \cup 1..posts'
          BY <3>1, <5>1, <5>3
        <5> QED
          BY <3>4, <4>1, <5>2, <5>4
      <4>5. CASE kind # "session" /\ ~(poll.from < poll.to)
        <5>1. UNCHANGED inboxVars /\ missed' = missed
          BY <3>14, <4>5 DEF PollHandled, cursorVars
        <5> QED
          BY <3>3, <3>4, <4>1, <5>1
      <4> QED
        BY <4>3, <4>4, <4>5
    <3>15. CASE DelayOver
      <4>1. /\ entries' = <<>> /\ seen' = seen /\ heard' = heard \o entries
            /\ everHeard' = everHeard \cup ToSet(entries) /\ UNCHANGED <<pushes, missed, orphans>>
        BY <3>15 DEF DelayOver, Dispatched, socketVars, cursorVars
      <4>2. ToSet(heard') = ToSet(heard) \cup ToSet(entries)
        BY <2>1, <4>1, Joined
      <4>3. Taken' \subseteq Taken
        BY <3>2, <4>1, <4>2 DEF Taken
      <4> QED
        BY <3>4, <4>1, <4>3
    <3>16. CASE OrphanDelayOver
      <4>1. /\ orphans' = <<>> /\ everHeard' = everHeard \cup ToSet(orphans)
            /\ UNCHANGED <<pushes, missed, seen, entries, heard>>
        BY <3>16 DEF OrphanDelayOver, socketVars, cursorVars
      <4> QED
        BY <3>2, <4>1 DEF Concerned, Taken
    <3>17. CASE StopBegins
      <4>1. entries' = <<>> /\ UNCHANGED <<seen, heard, everHeard, pushes, missed, orphans>>
        BY <3>17 DEF StopBegins, socketVars, cursorVars
      <4> QED
        BY <3>2, <4>1 DEF Concerned, Taken
    <3>18. CASE StartAgain
      <4>1. /\ seen' = {} /\ entries' = <<>> /\ heard' = <<>> /\ pushes' = <<>>
            /\ everHeard' = everHeard /\ missed' \subseteq missed
            /\ orphans' = orphans \o entries \/ orphans' = <<>>
        BY <3>18 DEF StartAgain, StillMissed
      <4>2. ToSet(orphans \o entries) = ToSet(orphans) \cup ToSet(entries)
        BY <2>1, Joined
      <4> QED
        BY <3>2, <4>1, <4>2 DEF Concerned, Taken
    <3> QED
      BY <3>5, <3>6, <3>7, <3>8, <3>10, <3>11, <3>12, <3>13, <3>14, <3>15, <3>16, <3>17, <3>18, Zenon
         DEF MochatNext
  <2>8. Concerned' \subseteq 1..posts'
    <3>1. 1..posts \subseteq 1..posts'
      BY <2>1, <2>4
    <3> QED
      BY <2>1, <2>7, <3>1
  <2>10. base' <= posts'
    BY <2>1, <2>4, <2>a
  <2> QED
    BY <2>4, <2>5, <2>6, <2>8, <2>9, <2>10
<1> QED
  BY <1>1, <1>2, <1>3, MochatStart, MochatInvariance, PTL DEF MochatSpec

\* While one component moves the others stay, so that each of them behaves as it is
\* specified.
LEMMA ServicesApart ==
  ServicesSpec => /\ ChannelsSpec /\ LifecycleSpec /\ ClawSocialSpec /\ LettersSpec
                  /\ MochatSpec /\ TelegramSpec /\ MailboxSpec /\ InboxSpec /\ OutboxSpec
                  /\ BodySpec /\ ConsoleSpec /\ FileToolsSpec /\ PromptFilesSpec /\ TypingSpec
<1>1. ServicesInit => /\ ChannelsInit /\ LifecycleInit /\ ClawSocialInit /\ LettersInit
                      /\ MochatInit /\ TelegramInit /\ MailboxInit /\ InboxInit /\ OutboxInit
                      /\ BodyInit /\ ConsoleInit /\ FileToolsInit /\ PromptFilesInit /\ TypingInit
  BY Zenon DEF ServicesInit
<1>2. [ServicesNext]_servicesVars => [TelegramNext]_telegramVars
  BY Zenon DEF ServicesNext, servicesVars, otherVars, adapterVars, MoveChannels, MoveLifecycle, MoveClawSocial,
               MoveLetters, MoveMochat, MoveTelegram, MoveMailbox, MoveInbox, MoveOutbox, MoveTyping, MoveBody,
               MoveConsole, MoveFiles, MovePromptFiles, TelegramNext
<1>3. [ServicesNext]_servicesVars =>
        /\ [ChannelsNext]_channelVars /\ [LifecycleNext]_lifecycleVars
        /\ [ClawSocialNext]_clawSocialVars /\ [LettersNext]_letterVars
  BY Zenon DEF ServicesNext, servicesVars, otherVars, hostVars, agentVars, MoveChannels, MoveLifecycle,
               MoveClawSocial, MoveLetters, MoveMochat, MoveTelegram, MoveMailbox, MoveInbox, MoveOutbox,
               MoveTyping, MoveBody, MoveConsole, MoveFiles, MovePromptFiles
<1>4. [ServicesNext]_servicesVars =>
        /\ [MochatNext]_mochatVars /\ [MailboxNext]_mailboxVars /\ [InboxNext]_postVars
        /\ [OutboxNext]_outboxVars /\ [TypingNext]_typingVars
  BY Zenon DEF ServicesNext, servicesVars, adapterVars, MoveChannels, MoveLifecycle,
               MoveClawSocial, MoveLetters, MoveMochat, MoveTelegram, MoveMailbox, MoveInbox, MoveOutbox,
               MoveTyping, MoveBody, MoveConsole, MoveFiles, MovePromptFiles
<1>5. [ServicesNext]_servicesVars =>
        /\ [BodyNext]_bodyVars /\ [ConsoleNext]_consoleVars
        /\ [FileToolsNext]_fileVars /\ [PromptFilesNext]_promptFileVars
  BY Zenon DEF ServicesNext, servicesVars, otherVars, editVars, MoveChannels, MoveLifecycle,
               MoveClawSocial, MoveLetters, MoveMochat, MoveTelegram, MoveMailbox, MoveInbox, MoveOutbox,
               MoveTyping, MoveBody, MoveConsole, MoveFiles, MovePromptFiles
<1> QED
  BY <1>1, <1>2, <1>3, <1>4, <1>5, PTL
  DEF ServicesSpec, ChannelsSpec, LifecycleSpec, ClawSocialSpec, LettersSpec, MochatSpec, TelegramSpec,
      MailboxSpec, InboxSpec, OutboxSpec, BodySpec, ConsoleSpec, FileToolsSpec, PromptFilesSpec, TypingSpec

\* Whatever the services do, every variable of theirs keeps its type and its bounds.
THEOREM ServicesStayTyped == ServicesSpec => []ServicesTypeOK
<1>1. /\ ChannelsTypeOK /\ LifecycleTypeOK /\ ClawSocialTypeOK /\ LettersTypeOK /\ MochatTypeOK
      /\ TelegramTypeOK /\ MailboxTypeOK /\ InboxTypeOK /\ OutboxTypeOK /\ TypingTypeOK
      /\ BodyTypeOK /\ ConsoleTypeOK /\ FileToolsTypeOK /\ PromptFilesTypeOK
      => ServicesTypeOK
  BY Zenon DEF ServicesTypeOK
<1> QED
  BY <1>1, ServicesApart, ChannelsStayTyped, LifecycleStaysTyped, ClawSocialStaysTyped, LettersStayTyped,
     MochatStaysTyped, TelegramStaysTyped, MailboxStaysTyped, InboxStaysTyped, OutboxStaysTyped,
     TypingStaysTyped, BodyStaysTyped, ConsoleStaysTyped, EditsStayTyped, PromptFilesStayTyped, PTL

===============================================================================
