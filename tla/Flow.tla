-------------------------------- MODULE Flow --------------------------------
(***************************************************************************)
(* The whole way of a message: a channel, the gateway or the dashboard's   *)
(* websocket hands it to the bus, IOProcessor turns it into a stimulus, the *)
(* mind answers it or lets it go, IOProcessor fans the reply out, and the  *)
(* dispatcher of ChannelManager (crabclaw/channels/manager.py) calls       *)
(* channel.send for one target after the other.  A chat platform may hand  *)
(* a message that the bot has sent back to the channel (an echo).          *)
(***************************************************************************)
EXTENDS IOProcessor, Gateway

CONSTANTS
  EchoChats,    \* chats whose platform echoes the bot's own messages
  MaxEchoes     \* bound on the echoes

ASSUME FlowAssumption == EchoChats \subseteq Chats /\ MaxEchoes \in Nat

VARIABLES
  written,     \* history: the messages in the order in which they came in
  sent,        \* history: what channel.send was called with, per chat
  echoable,    \* sent texts that the platform may still echo
  echoes       \* echoes so far

worldVars == <<written, sent, echoable, echoes>>
vars == <<busVars, mindVars, ioVars, gatewayVars, worldVars>>

Init ==
  /\ BusInit /\ MindInit /\ IOInit /\ GatewayInit
  /\ written = <<>> /\ sent = [c \in Chats |-> <<>>] /\ echoable = {} /\ echoes = 0

-----------------------------------------------------------------------------
(* What comes in *)

IsNew(m) == m \notin Range(written) /\ written' = Append(written, m)

(* BaseChannel._handle_message of a sender that allow_from accepts *)
ChannelMessage(m) ==
  /\ Via[m] = "channel" /\ IsNew(m)
  /\ PublishInbound(Wrote(m))
  /\ UNCHANGED <<outbound, waiters, queues, userFeed, subscribed, feeds, history,
                 mindVars, ioVars, gatewayVars, sent, echoable, echoes>>

GatewayMessage(m) ==
  /\ Via[m] = "gateway" /\ IsNew(m)
  /\ Ask(m)
  /\ UNCHANGED <<mindVars, ioVars, sent, echoable, echoes>>

(* the chat_message branch of the dashboard's websocket handler *)
WebsocketMessage(m) ==
  /\ Via[m] = "websocket" /\ IsNew(m)
  /\ PublishUserMessage(Wrote(m))
  /\ UNCHANGED <<inbound, outbound, waiters, queues, callbacks, subscribed, feeds, history,
                 mindVars, ioVars, gatewayVars, sent, echoable, echoes>>

Echoed(c, t) == [chat |-> c, scope |-> MappedScope(c), text |-> t, channel |-> c]

(* The platform hands the bot's own message to the channel, once it was    *)
(* sent and however long after.                                            *)
Echo(c, t) ==
  /\ echoes < MaxEchoes /\ echoes' = echoes + 1
  /\ <<c, t>> \in echoable
  /\ PublishInbound(Echoed(c, t))
  /\ UNCHANGED <<outbound, waiters, queues, userFeed, subscribed, feeds, history,
                 mindVars, ioVars, gatewayVars, written, sent, echoable>>

-----------------------------------------------------------------------------
(* What goes out *)

(* _dispatch_outbound; an exception of channel.send is logged and has no   *)
(* other effect, and so has a target without a channel                     *)
Dispatch(c) ==
  /\ outbound[c] # <<>>
  /\ sent' = [sent EXCEPT ![c] = Append(@, Head(outbound[c]))]
  /\ outbound' = [outbound EXCEPT ![c] = Tail(@)]
  /\ echoable' = IF c \in EchoChats THEN echoable \cup {<<c, Head(outbound[c])>>}
                                    ELSE echoable
  /\ UNCHANGED <<inbound, waiters, queues, callbacks, userFeed, subscribed, feeds, history,
                 mindVars, ioVars, gatewayVars, written, echoes>>

-----------------------------------------------------------------------------
(* The steps of the components, in this composition *)
CallbackStep == Callback /\ UNCHANGED <<mindVars, ioVars, gatewayVars, worldVars>>
InboundStep == HearInbound /\ UNCHANGED <<gatewayVars, worldVars>>
UserMessageStep == HearUserMessage /\ UNCHANGED <<gatewayVars, worldVars>>
TickStep == Tick /\ UNCHANGED <<busVars, ioVars, gatewayVars, worldVars>>
AnswerStep == Answer /\ UNCHANGED <<busVars, ioVars, gatewayVars, worldVars>>
ActStep == Act /\ UNCHANGED <<gatewayVars, worldVars>>
RequestStep(r) ==
  (TakeReply(r) \/ TimeOut(r)) /\ UNCHANGED <<mindVars, ioVars, worldVars>>
ReplyStep(r) == TakeReply(r) /\ UNCHANGED <<mindVars, ioVars, worldVars>>

Next ==
  \/ \E m \in Msgs : ChannelMessage(m) \/ GatewayMessage(m) \/ WebsocketMessage(m)
  \/ \E c \in Chats : \E t \in Range(sent[c]) : Echo(c, t)
  \/ \E c \in Chats : Dispatch(c)
  \/ CallbackStep
  \/ InboundStep
  \/ UserMessageStep
  \/ TickStep
  \/ AnswerStep
  \/ ActStep
  \/ \E r \in Requests : RequestStep(r)

Spec == Init /\ [][Next]_vars

(* The event loop runs every task that has something to take, the life     *)
(* loop ticks every second, and a call of the provider ends.  Nothing is   *)
(* promised of the deadline of a request.                                  *)
Fairness ==
  /\ WF_vars(InboundStep) /\ WF_vars(UserMessageStep) /\ WF_vars(CallbackStep)
  /\ WF_vars(TickStep) /\ WF_vars(AnswerStep) /\ WF_vars(ActStep)
  /\ \A c \in Chats : WF_vars(Dispatch(c))
  /\ \A r \in Requests : WF_vars(ReplyStep(r))

FairSpec == Spec /\ Fairness

-----------------------------------------------------------------------------
(* Properties *)

TypeOK ==
  /\ inbound \in Seq(Item) /\ userFeed \in Seq(Item) /\ stimuli \in Seq(Item)
  /\ outbound \in [Chats -> Seq(Text)] /\ sent \in [Chats -> Seq(Text)]
  /\ waiters \in [Chats -> Requests \cup {NoWaiter}]
  /\ queues \in [Requests -> Seq(Text)] /\ feeds \in [Requests -> Seq(Text)]
  /\ callbacks \in Seq([scope : Scopes, text : Text, reply : BOOLEAN])
  /\ subscribed \in SUBSET Requests
  /\ history \in [Scopes -> Seq(Text)]
  /\ thinking \in Item \cup {Nothing} /\ actions \in Seq(Action)
  /\ origin \in [Scopes -> Chats \cup {NoChat}]
  /\ {recent, tooLate, echoable} \subseteq SUBSET (Chats \X Text)
  /\ phase \in [Requests -> {"new", "waiting", "answered", "timed out"}]
  /\ holds \in [Requests -> Requests \cup {NoWaiter}]
  /\ answer \in [Requests -> Text \cup {NoText}]
  /\ written \in Seq(Msgs) /\ echoes \in Nat

\* The chats that somebody in this scope has written from.
ChatsOf(scope) == {ChatOf[m] : m \in {n \in Range(written) : ScopeOf(n) = scope}}

\* User isolation: a reply to somebody's message is only ever sent to the
\* chats linked to that user, to chats which that user wrote from, and to the
\* dashboard, although IOProcessor keeps one origin per scope and looks it up
\* after the mind has taken its time.
RepliesStayInScope ==
  \A c \in Chats : \A t \in Range(sent[c]) :
    LET s == ScopeOf(t.of) IN
    t.depth = 1 => c = Dashboard \/ c \in MappedTo(s) \/ c \in ChatsOf(s)

\* Loop protection: whichever of the targets of a reply echoes it, the agent
\* does not think about its own words unless they came back after the 20
\* seconds; also when it does so, and its answer to them is echoed again.
NeverAnswersItself ==
  \A item \in Range(stimuli) \cup ({thinking} \ {Nothing}) :
    item.text.depth > 0 => Fingerprint(item) \in tooLate

Position(m) == CHOOSE i \in DOMAIN written : written[i] = m

\* In every chat, replies to messages that came in the same way (by the bus or
\* by the websocket) appear once each and in the order of the messages,
\* through the five queues and two threads between them, whatever the agent
\* answers to echoes in between.
RepliesInOrder ==
  \A c \in Chats : \A i, j \in DOMAIN sent[c] :
    LET m == sent[c][i].of
        n == sent[c][j].of
    IN /\ i < j /\ sent[c][i].depth = 1 /\ sent[c][j].depth = 1
       /\ Via[m] = "websocket" <=> Via[n] = "websocket"
       => Position(m) < Position(n)

\* The saved conversation is readable: no reply stands before the message it
\* answers.  (Messages of the websocket are saved by the dashboard itself.)
HistoryInOrder ==
  \A s \in Scopes : \A i \in DOMAIN history[s] :
    LET t == history[s][i] IN
    t.depth > 0 /\ Via[t.of] # "websocket" =>
      \E j \in 1..(i - 1) : history[s][j] = Own(t.of)

\* A gateway client that is a known user is never handed a reply to another
\* user's message, however its request overlaps with others or times out.
AnswersStayWithUser ==
  \A r \in Requests :
    HasUser(r) /\ answer[r] # NoText /\ answer[r].depth = 1 => UserOf[answer[r].of] = UserOf[r]

\* No waiter or subscription outlives the requests that wait on it, also when
\* requests share a waiter and end in any order.
NoStaleWaiters ==
  /\ \A c \in Chats : waiters[c] # NoWaiter =>
       \E r \in Requests : phase[r] = "waiting" /\ ChatOf[r] = c /\ holds[r] = waiters[c]
  /\ \A r \in subscribed : phase[r] = "waiting"

\* No reply is lost to a request that waits for it, whatever else waits in the
\* same chat or for the same user: once a reply to its user has been queued, the
\* request of a known user ends, and not only because of its deadline.
RepliesEndRequests ==
  \A r \in Requests :
    /\ HasUser(r) /\ phase[r] = "waiting"
    /\ \E i \in DOMAIN actions : actions[i].scope = UserOf[r] /\ ~actions[i].blank
    ~> phase[r] # "waiting"

ReplyIsQueued(m) == \E i \in DOMAIN actions :
                      actions[i].text = Reply(Own(m)) /\ ~actions[i].blank
IsSent(m, c) == Reply(Own(m)) \in Range(sent[c])

\* A reply that the mind has queued reaches the dashboard and, in multi mode,
\* every chat that is linked to the user.
QueuedReplyIsSent ==
  \A m \in Msgs : \A c \in {Dashboard} \cup (IF Multi THEN MappedTo(ScopeOf(m)) ELSE {}) :
    ReplyIsQueued(m) ~> IsSent(m, c)

-----------------------------------------------------------------------------
(* What the documents, comments and tests of the repository say beyond that *)

\* "request correlation by request_id" (docs/en/architecture.md): the client
\* of a request gets the reply to its own message.
AnswersAreCorrelated ==
  \A r \in Requests : HasUser(r) /\ answer[r] # NoText => answer[r].of = r

=============================================================================
