-------------------------------- MODULE Bus ---------------------------------
(***************************************************************************)
(* MessageBus (crabclaw/bus/queue.py), BroadcastManager                    *)
(* (crabclaw/bus/broadcaster.py), and the two callbacks that the scheduler *)
(* subscribes to the bus (crabclaw/agent/scheduler.py).                    *)
(*                                                                         *)
(* The queues are unbounded, so a `put' never waits and publishing is one  *)
(* step.  A callback is started as a task: it runs later, in the order of  *)
(* publication, and has no await that waits.  The callbacks for the        *)
(* targets of one reply run back to back with the same scope and content,  *)
(* and add_message skips a message equal to the last one: they are one     *)
(* entry of `callbacks'.                                                   *)
(***************************************************************************)
EXTENDS Messages

VARIABLES
  inbound,     \* MessageBus.inbound
  outbound,    \* MessageBus.outbound, the order kept for each chat
  waiters,     \* MessageBus._response_waiters: chat -> queue, named by its creator
  queues,      \* contents of these queues
  callbacks,   \* scheduler callbacks that have been started as tasks
  userFeed,    \* user_message events in the IOProcessor's global queue
  subscribed,  \* gateway requests in BroadcastManager._scoped_subscribers
  feeds,       \* the replies in the queue of such a request
  history      \* the scheduler's dashboard session of each scope

busVars == <<inbound, outbound, waiters, queues, callbacks, userFeed,
             subscribed, feeds, history>>

NoWaiter == NoChat      \* no entry in _response_waiters

BusInit ==
  /\ inbound = <<>> /\ callbacks = <<>> /\ userFeed = <<>>
  /\ outbound = [c \in Chats |-> <<>>]
  /\ waiters = [c \in Chats |-> NoWaiter]
  /\ queues = [r \in Requests |-> <<>>] /\ feeds = [r \in Requests |-> <<>>]
  /\ subscribed = {}
  /\ history = [s \in Scopes |-> <<>>]

\* What a callback is started with; `reply' for an outbound message.
Event(scope, text, reply) == [scope |-> scope, text |-> text, reply |-> reply]

(* publish_inbound *)
PublishInbound(item) ==
  /\ inbound' = Append(inbound, item)
  /\ callbacks' = Append(callbacks, Event(item.scope, item.text, FALSE))

(* publish_outbound for every target: the queue of the dispatcher, the     *)
(* callback, and whoever waits for a response in that very chat            *)
PublishOutbound(scope, targets, text) ==
  /\ outbound' = [c \in Chats |-> IF c \in targets THEN Append(outbound[c], text)
                                                   ELSE outbound[c]]
  /\ callbacks' = Append(callbacks, Event(scope, text, TRUE))
  /\ queues' = [r \in Requests |-> IF \E c \in targets : waiters[c] = r
                                   THEN Append(queues[r], text) ELSE queues[r]]

(* BroadcastManager.publish of a user_message: the IOProcessor is a global *)
(* subscriber.                                                             *)
PublishUserMessage(item) == userFeed' = Append(userFeed, item)

\* Fault seed: callbacks are started in threads and overtake each other.
CallbackInAnyOrder ==
  /\ \E i \in DOMAIN callbacks :
       LET e == callbacks[i] IN
       /\ callbacks' = RemoveAt(callbacks, i)
       /\ history' = [history EXCEPT ![e.scope] = Append(@, e.text)]
       /\ feeds' = [r \in Requests |->
                      IF e.reply /\ r \in subscribed /\ UserOf[r] = e.scope
                      THEN Append(feeds[r], e.text) ELSE feeds[r]]
  /\ UNCHANGED <<inbound, outbound, waiters, queues, userFeed, subscribed>>

\* Fault seed: a reply is published to the subscribers of every scope.
CallbackToAllScopes ==
  /\ callbacks # <<>>
  /\ LET e == Head(callbacks) IN
     /\ history' = [history EXCEPT ![e.scope] = Append(@, e.text)]
     /\ feeds' = [r \in Requests |->
                    IF e.reply /\ r \in subscribed
                    THEN Append(feeds[r], e.text) ELSE feeds[r]]
  /\ callbacks' = Tail(callbacks)
  /\ UNCHANGED <<inbound, outbound, waiters, queues, userFeed, subscribed>>

(* _on_bus_inbound and _on_bus_outbound: save the text to the session of   *)
(* the scope, and publish it to the scope's subscribers.  A gateway request *)
(* skips inbound_message events, which are therefore not in its feed, also  *)
(* when such a message is an echo of a reply.                              *)
Callback ==
  /\ callbacks # <<>>
  /\ LET e == Head(callbacks) IN
     /\ history' = [history EXCEPT ![e.scope] = Append(@, e.text)]
     /\ feeds' = [r \in Requests |->
                    IF e.reply /\ r \in subscribed /\ UserOf[r] = e.scope
                    THEN Append(feeds[r], e.text) ELSE feeds[r]]
  /\ callbacks' = Tail(callbacks)
  /\ UNCHANGED <<inbound, outbound, waiters, queues, userFeed, subscribed>>

=============================================================================
