------------------------------ MODULE ClawSocial ------------------------------
(***************************************************************************)
(* The websocket of an agent to ClawSocial                                 *)
(* (crabclaw/skills/clawsocial/scripts): WebSocketManager starts and stops *)
(* WebSocketClients one after the other; each client has a receive task,   *)
(* heartbeat tasks and, after a lost connection, a task that reconnects    *)
(* with a growing delay.  disconnect() awaits three times, and the other   *)
(* tasks of the client run in between.                                     *)
(***************************************************************************)
EXTENDS Integers, FiniteSets

CONSTANTS
  MaxClients,   \* bound on the clients ever made
  MaxLosses     \* bound on the connections lost

ASSUME ClawSocialAssumption == MaxClients \in Nat \ {0} /\ MaxLosses \in Nat

Clients == 1..MaxClients
NoClient == 0

VARIABLES
  client,      \* the manager's client
  made,        \* number of clients made so far
  managerUp,   \* the manager's is_connected
  managerOp,   \* what the manager awaits: "idle", "connect", "stop" or "restart"
  leaving,     \* how far disconnect() of its client is: 0, or awaiting 1, 2 or 3
  link,        \* each client's connection: "none", "open" or "lost"
  isUp,        \* its is_connected
  again,       \* its should_reconnect
  receiver,    \* its receive loop runs
  beats,       \* its heartbeat loops that run
  reconnect,   \* its reconnect task: "none", "sleeping" or "connecting"
  unsettled,   \* clients that were reconnecting when they were told to disconnect
  losses

clawSocialVars == <<client, made, managerUp, managerOp, leaving, link, isUp, again, receiver,
                    beats, reconnect, unsettled, losses>>
managerVars == <<client, made, managerUp, managerOp, leaving>>

ClawSocialInit ==
  /\ client = NoClient /\ made = 0 /\ managerUp = FALSE /\ managerOp = "idle" /\ leaving = 0
  /\ link = [c \in Clients |-> "none"]
  /\ isUp = [c \in Clients |-> FALSE]
  /\ again = [c \in Clients |-> TRUE]
  /\ receiver = [c \in Clients |-> FALSE]
  /\ beats = [c \in Clients |-> 0]
  /\ reconnect = [c \in Clients |-> "none"]
  /\ unsettled = {} /\ losses = 0

-----------------------------------------------------------------------------
(* WebSocketClient *)

\* connect() succeeds: a new receive loop and a new heartbeat loop.
Linked(c) ==
  /\ link' = [link EXCEPT ![c] = "open"]
  /\ isUp' = [isUp EXCEPT ![c] = TRUE]
  /\ receiver' = [receiver EXCEPT ![c] = TRUE]
  /\ beats' = [beats EXCEPT ![c] = @ + 1]

NotLinked == UNCHANGED <<link, isUp, receiver, beats>>

\* The connection breaks.
Lose(c) ==
  /\ losses < MaxLosses /\ losses' = losses + 1
  /\ link[c] = "open" /\ link' = [link EXCEPT ![c] = "lost"]
  /\ UNCHANGED <<managerVars, isUp, again, receiver, beats, reconnect, unsettled>>

\* The receive loop ends, and its finally clause starts the reconnect task.
ReceiverEnded(c) ==
  /\ receiver' = [receiver EXCEPT ![c] = FALSE]
  /\ isUp' = [isUp EXCEPT ![c] = FALSE]
  /\ reconnect' = IF again[c] THEN [reconnect EXCEPT ![c] = "sleeping"] ELSE reconnect

ReceiverEnds(c) ==
  /\ receiver[c] /\ link[c] # "open"
  /\ ReceiverEnded(c)
  /\ UNCHANGED <<managerVars, link, again, beats, unsettled, losses>>

\* A heartbeat loop wakes and finds the client disconnected, or cannot send.
HeartbeatEnds(c) ==
  /\ beats[c] > 0 /\ (~isUp[c] \/ link[c] # "open")
  /\ beats' = [beats EXCEPT ![c] = @ - 1]
  /\ UNCHANGED <<managerVars, link, isUp, again, receiver, reconnect, unsettled, losses>>

\* The delay is over: connect() is called, whatever has happened meanwhile.
ReconnectWakes(c) ==
  /\ reconnect[c] = "sleeping"
  /\ reconnect' = [reconnect EXCEPT ![c] = "connecting"]
  /\ UNCHANGED <<managerVars, link, isUp, again, receiver, beats, unsettled, losses>>

Reconnected(c) ==
  /\ reconnect[c] = "connecting"
  /\ Linked(c)
  /\ reconnect' = [reconnect EXCEPT ![c] = "none"]
  /\ UNCHANGED <<managerVars, again, unsettled, losses>>

ReconnectFails(c) ==
  /\ reconnect[c] = "connecting"
  /\ reconnect' = [reconnect EXCEPT ![c] = IF again[c] /\ ~isUp[c] THEN "sleeping" ELSE "none"]
  /\ UNCHANGED <<managerVars, link, isUp, again, receiver, beats, unsettled, losses>>

\* The client is not to reconnect.
Leaving(c) == again' = [again EXCEPT ![c] = FALSE]

\* disconnect() up to the first await; the receive task is cancelled.
LeaveBegun(c) ==
  /\ leaving' = 1
  /\ Leaving(c)
  /\ isUp' = [isUp EXCEPT ![c] = FALSE]
  /\ unsettled' = IF reconnect[c] # "none" THEN unsettled \cup {c} ELSE unsettled

\* The cancelled receive task has ended; the newest heartbeat loop is cancelled.
LeaveReceiver(c) ==
  /\ leaving = 1 /\ leaving' = 2
  /\ IF receiver[c]
     THEN ReceiverEnded(c)
     ELSE UNCHANGED <<receiver, isUp, reconnect>>
  /\ UNCHANGED <<link, beats, again, unsettled, losses>>

\* Fault seed: the task of a heartbeat is cancelled that has ended already.
LeaveHeartbeatTwice(c) ==
  /\ leaving = 2 /\ leaving' = 3
  /\ beats' = [beats EXCEPT ![c] = @ - 1]
  /\ UNCHANGED <<link, isUp, receiver, reconnect, again, unsettled, losses>>

LeaveHeartbeat(c) ==
  /\ leaving = 2 /\ leaving' = 3
  /\ beats' = [beats EXCEPT ![c] = IF @ > 0 THEN @ - 1 ELSE 0]
  /\ UNCHANGED <<link, isUp, receiver, reconnect, again, unsettled, losses>>

\* The websocket is closed and dropped; on_disconnect is called.
LeaveSocket(c) ==
  /\ leaving = 3 /\ leaving' = 0
  /\ link' = [link EXCEPT ![c] = "none"]
  /\ UNCHANGED <<isUp, receiver, beats, reconnect, again, unsettled, losses>>

-----------------------------------------------------------------------------
(* WebSocketManager *)

NewClient ==
  /\ made < MaxClients /\ made' = made + 1
  /\ client' = made + 1
  /\ managerOp' = "connect"

StartFresh ==
  /\ managerOp = "idle" /\ client = NoClient
  /\ NewClient
  /\ UNCHANGED <<managerUp, leaving, link, isUp, again, receiver, beats, reconnect, unsettled, losses>>

\* stop(), or start() with a client, which stops it first.
StopClient(op) ==
  /\ managerOp = "idle" /\ client # NoClient
  /\ managerOp' = op
  /\ LeaveBegun(client)
  /\ UNCHANGED <<client, made, managerUp, link, receiver, beats, reconnect, losses>>

StartConnected ==
  /\ managerOp = "connect" /\ managerOp' = "idle"
  /\ Linked(client)
  /\ managerUp' = TRUE
  /\ UNCHANGED <<client, made, leaving, again, reconnect, unsettled, losses>>

\* connect() fails: start() returns, nothing tries again.
StartFails ==
  /\ managerOp = "connect" /\ managerOp' = "idle"
  /\ NotLinked
  /\ UNCHANGED <<client, made, managerUp, leaving, again, reconnect, unsettled, losses>>

LeaveStep ==
  /\ \/ LeaveReceiver(client)
     \/ LeaveHeartbeat(client)
  /\ UNCHANGED <<client, made, managerUp, managerOp>>

LeaveEnds ==
  /\ LeaveSocket(client)
  /\ managerUp' = FALSE
  /\ IF managerOp = "restart"
     THEN NewClient
     ELSE client' = NoClient /\ managerOp' = "idle" /\ UNCHANGED made

ClawSocialNext ==
  \/ StartFresh
  \/ \E op \in {"stop", "restart"} : (op = "restart" => made < MaxClients) /\ StopClient(op)
  \/ StartConnected
  \/ StartFails
  \/ LeaveStep
  \/ LeaveEnds
  \/ \E c \in Clients :
       \/ Lose(c)
       \/ ReceiverEnds(c)
       \/ HeartbeatEnds(c)
       \/ ReconnectWakes(c)
       \/ Reconnected(c)
       \/ ReconnectFails(c)

ClawSocialSpec == ClawSocialInit /\ [][ClawSocialNext]_clawSocialVars

-----------------------------------------------------------------------------
(* Properties *)

\* Every variable keeps its type.
ClawSocialTypeOK ==
  /\ client \in Clients \cup {NoClient} /\ made \in 0..MaxClients
  /\ managerUp \in BOOLEAN /\ managerOp \in {"idle", "connect", "stop", "restart"}
  /\ leaving \in 0..3 /\ unsettled \subseteq Clients /\ losses \in 0..MaxLosses
  /\ link \in [Clients -> {"none", "open", "lost"}]
  /\ {isUp, again, receiver} \subseteq [Clients -> BOOLEAN]
  /\ beats \in [Clients -> Nat]
  /\ reconnect \in [Clients -> {"none", "sleeping", "connecting"}]

OpenLinks == {c \in Clients : link[c] = "open"}

\* However connections are lost and clients started and stopped, the agent has
\* one connection at most, that of the manager's client, whose receive loop it
\* is that runs; a client that was stopped stays disconnected.  (Not so one that
\* was reconnecting when it was stopped: the reconnect task is not cancelled and
\* connects once more, websocket_client.py:624.)
SoleConnection ==
  /\ OpenLinks \subseteq {client} \cup unsettled
  /\ \A c \in Clients \ unsettled : receiver[c] => c = client
=============================================================================
