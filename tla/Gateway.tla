------------------------------ MODULE Gateway -------------------------------
(***************************************************************************)
(* The gateway's POST /message (crabclaw/gateway/server.py): every request *)
(* runs publish_and_respond in the event loop, which publishes the message *)
(* and waits at most 25 seconds for a reply.  A request of a known user    *)
(* subscribes to the user's scope; an anonymous one waits on the queue that *)
(* MessageBus keeps for its (channel, chat_id), and shares it with every   *)
(* other request that waits there.                                         *)
(*                                                                         *)
(* Replies carry no request_id (Mind!Answer does not pass it on), so the   *)
(* comparison of request_ids accepts all of them.                          *)
(***************************************************************************)
EXTENDS Bus

VARIABLES
  phase,    \* of each request
  holds,    \* legacy_queue, named by the request that created it
  answer    \* the content that was sent back to the client

gatewayVars == <<phase, holds, answer>>

NoText == NoChat

GatewayInit ==
  /\ phase = [r \in Requests |-> "new"]
  /\ holds = [r \in Requests |-> NoWaiter]
  /\ answer = [r \in Requests |-> NoText]

HasUser(r) == UserOf[r] \in Users

(* subscribe, publish_inbound and create_response_waiter: no await between *)
(* them waits, so no reply can slip in                                     *)
Ask(r) ==
  /\ phase[r] = "new"
  /\ phase' = [phase EXCEPT ![r] = "waiting"]
  /\ PublishInbound(Wrote(r))
  /\ IF HasUser(r)
     THEN subscribed' = subscribed \cup {r} /\ UNCHANGED <<waiters, holds>>
     ELSE LET c == ChatOf[r]
              q == IF waiters[c] = NoWaiter THEN r ELSE waiters[c]
          IN  /\ waiters' = [waiters EXCEPT ![c] = q]
              /\ holds' = [holds EXCEPT ![r] = q]
              /\ UNCHANGED subscribed
  /\ UNCHANGED <<answer, outbound, queues, userFeed, feeds, history>>

\* Fault seed: remove_response_waiter is forgotten.
FinishSubscriptionOnly(r) == subscribed' = subscribed \ {r} /\ UNCHANGED waiters

\* Fault seed: unsubscribing drops all subscribers of the user.
FinishForUser(r) ==
  /\ subscribed' = {s \in subscribed : UserOf[s] # UserOf[r]}
  /\ waiters' = [waiters EXCEPT ![ChatOf[r]] = NoWaiter]

(* the finally block: the waiter of the chat is removed, whoever waits on it *)
Finish(r) ==
  /\ subscribed' = subscribed \ {r}
  /\ waiters' = [waiters EXCEPT ![ChatOf[r]] = NoWaiter]

Pending(r) ==
  IF HasUser(r) THEN feeds[r] ELSE IF holds[r] = NoWaiter THEN <<>> ELSE queues[holds[r]]

(* a reply is taken from the queue the request waits on *)
TakeReply(r) ==
  /\ phase[r] = "waiting" /\ Pending(r) # <<>>
  /\ answer' = [answer EXCEPT ![r] = Head(Pending(r))]
  /\ phase' = [phase EXCEPT ![r] = "answered"]
  /\ IF HasUser(r)
     THEN feeds' = [feeds EXCEPT ![r] = Tail(@)] /\ UNCHANGED queues
     ELSE queues' = [queues EXCEPT ![holds[r]] = Tail(@)] /\ UNCHANGED feeds
  /\ Finish(r)
  /\ UNCHANGED <<holds, inbound, outbound, callbacks, userFeed, history>>

(* the deadline, which may fall on the moment in which a reply arrives:    *)
(* wait_for then cancels `get', and the reply stays in the queue           *)
TimeOut(r) ==
  /\ phase[r] = "waiting"
  /\ phase' = [phase EXCEPT ![r] = "timed out"]
  /\ Finish(r)
  /\ UNCHANGED <<answer, holds, inbound, outbound, queues, callbacks, userFeed, feeds, history>>

=============================================================================
