----------------------------- MODULE FlowProofs -----------------------------
(***************************************************************************)
(* Proofs about the way of a message through bus, mind and gateway, for    *)
(* any messages, users, chats, links and bounds.                           *)
(***************************************************************************)
EXTENDS Flow, QueueFacts

-----------------------------------------------------------------------------
(* Facts about messages, items and replies *)

\* A scope is one of the scopes, also that of a chat which nobody has linked.
LEMMA ScopeTypes ==
  /\ \A m \in Msgs : ScopeOf(m) \in Scopes /\ ChatOf[m] \in Chats
  /\ \A c \in Chats : MappedScope(c) \in Scopes
  /\ \A s \in Scopes : MappedTo(s) \subseteq Chats
<1>1. ASSUME NEW c \in Chats PROVE MappedScope(c) \in Scopes
  BY DEF MappedScope, Scopes
<1> QED
  BY <1>1, MessagesAssumption DEF ScopeOf, Scopes, MappedTo

\* What comes in is an item, and the answer to an item is an action.
LEMMA ItemTypes ==
  /\ \A m \in Msgs : Wrote(m) \in Item
  /\ \A c \in Chats, t \in Text : Echoed(c, t) \in Item
  /\ \A item \in Item, blank \in BOOLEAN : Response(item, blank) \in Action
<1>1. \A t \in Text : Reply(t) \in Text
  BY DEF Text, Reply
<1>2. \A m \in Msgs : Own(m) \in Text
  BY DEF Text, Own
<1> QED
  BY <1>1, <1>2, ScopeTypes DEF Wrote, Echoed, Response, Item, Action

\* The focus of a tick is a beginning of the stimuli, or empty.
LEMMA FocusFacts ==
  ASSUME stimuli \in Seq(Item), NEW signals \in 0..Capacity, NEW hungry \in BOOLEAN
  PROVE  LET x == Chosen(MessagesInFocus(signals), hungry) IN
         x = Nothing \/ x \in Range(stimuli)
<1> DEFINE n == Min({Len(stimuli), Capacity - signals})
           focus == SubSeq(stimuli, 1, n)
<1>1. Len(stimuli) \in Nat /\ Capacity - signals \in Nat
  BY MindAssumption, QueueShape
<1>2. n \in Nat /\ n <= Len(stimuli)
  <2>1. \E x \in {Len(stimuli), Capacity - signals} :
           \A y \in {Len(stimuli), Capacity - signals} : x <= y
    BY <1>1
  <2> QED
    BY <1>1, <2>1 DEF Min
<1> HIDE DEF n
<1>3. \A i \in 1..n : stimuli[i] \in Item
  BY <1>1, <1>2, QueueShape
<1>4. focus \in Seq(Item) /\ \A i \in 1..n : focus[i] = stimuli[i]
  BY <1>2, <1>3, SubSeqProperties
<1>5. Len(focus) = n
  BY <1>2, <1>3, SubSeqProperties
<1>6. ASSUME focus # <<>> PROVE Head(focus) \in Range(stimuli)
  BY <1>1, <1>2, <1>4, <1>6, QueueShape DEF Range
<1> QED
  BY <1>6 DEF Chosen, MessagesInFocus, n

\* IOProcessor sends to chats only.
LEMMA TargetTypes ==
  ASSUME origin \in [Scopes -> Chats \cup {NoChat}], NEW s \in Scopes,
         NEW source \in Chats \cup {NoChat}
  PROVE  Targets(s, source) \subseteq Chats
BY MessagesAssumption, ScopeTypes DEF Targets, Origin

-----------------------------------------------------------------------------
(* Type correctness *)

LEMMA TypeInit == Init => TypeOK
<1> SUFFICES ASSUME Init PROVE TypeOK
  OBVIOUS
<1>1. \A S : <<>> \in Seq(S)
  BY EmptySeq
<1> QED
  BY <1>1, MessagesAssumption
     DEF Init, BusInit, MindInit, IOInit, GatewayInit, TypeOK

\* A published message leaves two queues of the right type.
LEMMA PublishTypes ==
  ASSUME TypeOK, NEW item \in Item, PublishInbound(item)
  PROVE  /\ inbound' \in Seq(Item)
         /\ callbacks' \in Seq([scope : Scopes, text : Text, reply : BOOLEAN])
<1>1. inbound \in Seq(Item) /\ callbacks \in Seq([scope : Scopes, text : Text, reply : BOOLEAN])
  BY DEF TypeOK
<1>2. Event(item.scope, item.text, FALSE) \in [scope : Scopes, text : Text, reply : BOOLEAN]
  BY DEF Event, Item
<1> QED
  BY <1>1, <1>2, AppendProperties DEF PublishInbound

LEMMA TypeNext == TypeOK /\ [Next]_vars => TypeOK'
<1> SUFFICES ASSUME TypeOK, [Next]_vars PROVE TypeOK'
  OBVIOUS
<1> USE DEF busVars, mindVars, ioVars, gatewayVars, worldVars
<1>0. Requests \subseteq Msgs
  BY DEF Requests
<1>1. ASSUME NEW m \in Msgs, ChannelMessage(m) PROVE TypeOK'
  <2>1. /\ inbound' \in Seq(Item) /\ written' \in Seq(Msgs)
        /\ callbacks' \in Seq([scope : Scopes, text : Text, reply : BOOLEAN])
    BY <1>1, ItemTypes, PublishTypes, AppendProperties DEF ChannelMessage, IsNew, TypeOK
  <2> QED
    BY <1>1, <2>1 DEF ChannelMessage, TypeOK
<1>2. ASSUME NEW m \in Msgs, GatewayMessage(m) PROVE TypeOK'
  <2>1. m \in Requests
    BY <1>2 DEF GatewayMessage, Requests
  <2>2. /\ inbound' \in Seq(Item) /\ written' \in Seq(Msgs)
        /\ callbacks' \in Seq([scope : Scopes, text : Text, reply : BOOLEAN])
    BY <1>2, ItemTypes, PublishTypes, AppendProperties DEF GatewayMessage, Ask, IsNew, TypeOK
  <2>3. /\ waiters' \in [Chats -> Requests \cup {NoWaiter}] /\ subscribed' \in SUBSET Requests
        /\ phase' \in [Requests -> {"new", "waiting", "answered", "timed out"}]
        /\ holds' \in [Requests -> Requests \cup {NoWaiter}]
    <3>1. phase' = [phase EXCEPT ![m] = "waiting"]
      BY <1>2 DEF GatewayMessage, Ask
    <3>2. CASE HasUser(m)
      <4>1. UNCHANGED <<waiters, holds>> /\ subscribed' = subscribed \cup {m}
        BY <1>2, <3>2 DEF GatewayMessage, Ask
      <4> QED
        BY <2>1, <3>1, <4>1 DEF TypeOK
    <3>3. CASE ~HasUser(m)
      <4> DEFINE q == IF waiters[ChatOf[m]] = NoWaiter THEN m ELSE waiters[ChatOf[m]]
      <4>1. q \in Requests /\ ChatOf[m] \in Chats
        BY <2>1, ScopeTypes DEF TypeOK
      <4>2. /\ waiters' = [waiters EXCEPT ![ChatOf[m]] = q]
            /\ holds' = [holds EXCEPT ![m] = q] /\ subscribed' = subscribed
        BY <1>2, <3>3 DEF GatewayMessage, Ask
      <4> HIDE DEF q
      <4> QED
        BY <3>1, <4>1, <4>2 DEF TypeOK
    <3> QED
      BY <3>2, <3>3
  <2> QED
    BY <1>2, <2>2, <2>3 DEF GatewayMessage, Ask, TypeOK
<1>3. ASSUME NEW m \in Msgs, WebsocketMessage(m) PROVE TypeOK'
  BY <1>3, ItemTypes, QueueShape
     DEF WebsocketMessage, IsNew, PublishUserMessage, TypeOK
<1>4. ASSUME NEW c \in Chats, NEW t \in Range(sent[c]), Echo(c, t) PROVE TypeOK'
  <2>1. Echoed(c, t) \in Item
    BY <1>4, ItemTypes, RangeOfSeq DEF TypeOK
  <2> QED
    <3>1. PublishInbound(Echoed(c, t)) /\ echoes' = echoes + 1
      BY <1>4 DEF Echo
    <3>2. /\ inbound' \in Seq(Item)
          /\ callbacks' \in Seq([scope : Scopes, text : Text, reply : BOOLEAN])
      BY <2>1, <3>1, PublishTypes
    <3>3. echoes \in Nat
      BY DEF TypeOK
    <3>4. echoes' \in Nat
      BY <3>1, <3>3
    <3> QED
      BY <1>4, <3>2, <3>4 DEF Echo, TypeOK
<1>6. ASSUME NEW c \in Chats, Dispatch(c) PROVE TypeOK'
  <2>1. outbound[c] \in Seq(Text) /\ outbound[c] # <<>> /\ sent[c] \in Seq(Text)
    BY <1>6 DEF Dispatch, TypeOK
  <2>2. Head(outbound[c]) \in Text /\ Tail(outbound[c]) \in Seq(Text)
        /\ Append(sent[c], Head(outbound[c])) \in Seq(Text)
    BY <2>1, QueueShape
  <2>3. sent' \in [Chats -> Seq(Text)] /\ outbound' \in [Chats -> Seq(Text)]
    BY <1>6, <2>2 DEF Dispatch, TypeOK
  <2>4. <<c, Head(outbound[c])>> \in Chats \X Text
    BY <2>2
  <2>5. echoable' \in SUBSET (Chats \X Text)
    BY <1>6, <2>4 DEF Dispatch, TypeOK
  <2> QED
    BY <1>6, <2>3, <2>5 DEF Dispatch, TypeOK
<1>7. CASE CallbackStep
  <2> DEFINE e == Head(callbacks)
  <2>1. callbacks # <<>>
    BY <1>7 DEF CallbackStep, Callback
  <2>2. e.scope \in Scopes /\ e.text \in Text
        /\ Tail(callbacks) \in Seq([scope : Scopes, text : Text, reply : BOOLEAN])
    <3>1. callbacks \in Seq([scope : Scopes, text : Text, reply : BOOLEAN])
      BY DEF TypeOK
    <3>2. e \in [scope : Scopes, text : Text, reply : BOOLEAN]
          /\ Tail(callbacks) \in Seq([scope : Scopes, text : Text, reply : BOOLEAN])
      BY <2>1, <3>1, QueueShape
    <3> QED
      BY <3>2
  <2>3. \A q \in Seq(Text) : Append(q, e.text) \in Seq(Text)
    BY <2>2, AppendProperties
  <2> HIDE DEF e
  <2>4. /\ callbacks' = Tail(callbacks)
        /\ history' = [history EXCEPT ![e.scope] = Append(@, e.text)]
        /\ feeds' = [r \in Requests |->
                       IF e.reply /\ r \in subscribed /\ UserOf[r] = e.scope
                       THEN Append(feeds[r], e.text) ELSE feeds[r]]
    BY <1>7 DEF CallbackStep, Callback, e
  <2>5. history' \in [Scopes -> Seq(Text)]
    BY <2>2, <2>3, <2>4 DEF TypeOK
  <2>6. feeds' \in [Requests -> Seq(Text)]
    BY <2>3, <2>4 DEF TypeOK
  <2> QED
    BY <1>7, <2>2, <2>4, <2>5, <2>6 DEF CallbackStep, Callback, TypeOK
<1>8. CASE InboundStep
  <2>1. inbound \in Seq(Item) /\ inbound # <<>>
    BY <1>8 DEF InboundStep, HearInbound, TypeOK
  <2>2. Head(inbound) \in Item /\ Tail(inbound) \in Seq(Item)
    BY <2>1, QueueShape
  <2>3. Append(stimuli, Head(inbound)) \in Seq(Item)
    BY <2>2, AppendProperties DEF TypeOK
  <2>4. Head(inbound).chat \in Chats
    BY <2>2 DEF Item
  <2>5. stimuli' \in Seq(Item) /\ origin' \in [Scopes -> Chats \cup {NoChat}]
    BY <1>8, <2>3, <2>4 DEF InboundStep, HearInbound, Perceive, TypeOK
  <2>6. recent' \subseteq recent /\ tooLate' \subseteq tooLate \cup recent
    BY <1>8 DEF InboundStep, HearInbound
  <2>7. {recent', tooLate'} \subseteq SUBSET (Chats \X Text)
    BY <2>6 DEF TypeOK
  <2> QED
    BY <1>8, <2>2, <2>5, <2>7 DEF InboundStep, HearInbound, TypeOK
<1>9. CASE UserMessageStep
  <2>1. userFeed \in Seq(Item) /\ userFeed # <<>>
    BY <1>9 DEF UserMessageStep, HearUserMessage, TypeOK
  <2>2. Head(userFeed) \in Item /\ Tail(userFeed) \in Seq(Item)
    BY <2>1, QueueShape
  <2>3. Append(stimuli, Head(userFeed)) \in Seq(Item)
    BY <2>2, AppendProperties DEF TypeOK
  <2>4. /\ stimuli' \in Seq(Item) /\ origin' \in [Scopes -> Chats \cup {NoChat}]
        /\ userFeed' \in Seq(Item)
    BY <1>9, <2>2, <2>3 DEF UserMessageStep, HearUserMessage, Perceive, Item, TypeOK
  <2> QED
    BY <1>9, <2>4 DEF UserMessageStep, HearUserMessage, TypeOK
<1>10. CASE TickStep
  <2>1. Range(stimuli) \subseteq Item
    BY RangeOfSeq DEF TypeOK
  <2>2. thinking' \in Item \cup {Nothing}
    BY <1>10, <2>1, FocusFacts DEF TickStep, Tick, TypeOK
  <2>3. stimuli' \in Seq(Item)
    BY <1>10, EmptySeq DEF TickStep, Tick
  <2> QED
    BY <1>10, <2>2, <2>3 DEF TickStep, Tick, TypeOK
<1>11. CASE AnswerStep
  <2>1. \A blank \in BOOLEAN : Append(actions, Response(thinking, blank)) \in Seq(Action)
    BY <1>11, ItemTypes, AppendProperties DEF AnswerStep, Answer, TypeOK
  <2> QED
    BY <1>11, <2>1 DEF AnswerStep, Answer, TypeOK
<1>12. CASE ActStep
  <2> DEFINE a == Head(actions)
             targets == Targets(a.scope, a.source)
  <2>1. a \in Action /\ Tail(actions) \in Seq(Action)
    BY <1>12, QueueShape DEF ActStep, Act, TypeOK
  <2>2. targets \subseteq Chats /\ a.scope \in Scopes /\ a.text \in Text
    BY <2>1, TargetTypes DEF Action, TypeOK
  <2>3. \A q \in Seq(Text) : Append(q, a.text) \in Seq(Text)
    BY <2>2, AppendProperties
  <2>4. Event(a.scope, a.text, TRUE) \in [scope : Scopes, text : Text, reply : BOOLEAN]
    BY <2>2 DEF Event
  <2> HIDE DEF a, targets
  <2>5. CASE UNCHANGED <<recent, outbound, callbacks, queues>>
    BY <1>12, <2>1, <2>5 DEF ActStep, Act, TypeOK, a
  <2>6. CASE Remember(targets, a.scope, a.text) /\ PublishOutbound(a.scope, targets, a.text)
    <3>1. outbound' \in [Chats -> Seq(Text)] /\ queues' \in [Requests -> Seq(Text)]
      BY <2>3, <2>6 DEF PublishOutbound, TypeOK
    <3>2. callbacks' \in Seq([scope : Scopes, text : Text, reply : BOOLEAN])
      BY <2>4, <2>6, AppendProperties DEF PublishOutbound, TypeOK
    <3>3. recent' = recent \cup {<<c, a.text>> : c \in targets}
      BY <2>6 DEF Remember
    <3>4. {<<c, a.text>> : c \in targets} \subseteq Chats \X Text
      BY <2>2
    <3>5. recent' \in SUBSET (Chats \X Text)
      BY <3>3, <3>4 DEF TypeOK
    <3> QED
      BY <1>12, <2>1, <3>1, <3>2, <3>5 DEF ActStep, Act, TypeOK, a
  <2> QED
    BY <1>12, <2>5, <2>6 DEF ActStep, Act, a, targets
<1>13. ASSUME NEW r \in Requests, RequestStep(r) PROVE TypeOK'
  <2>1. /\ waiters' \in [Chats -> Requests \cup {NoWaiter}] /\ subscribed' \in SUBSET Requests
        /\ phase' \in [Requests -> {"new", "waiting", "answered", "timed out"}]
    BY <1>13 DEF RequestStep, TakeReply, TimeOut, Finish, TypeOK
  <2>2. CASE TimeOut(r)
    BY <1>13, <2>1, <2>2 DEF RequestStep, TimeOut, TypeOK
  <2>3. CASE TakeReply(r)
    <3>1. Pending(r) \in Seq(Text) /\ Pending(r) # <<>>
      BY <2>3, EmptySeq DEF TakeReply, Pending, TypeOK
    <3>2. Head(Pending(r)) \in Text /\ Tail(Pending(r)) \in Seq(Text)
      BY <3>1, QueueShape
    <3>3. answer' \in [Requests -> Text \cup {NoText}]
      BY <2>3, <3>2 DEF TakeReply, TypeOK
    <3>4. feeds' \in [Requests -> Seq(Text)] /\ queues' \in [Requests -> Seq(Text)]
      BY <2>3, <3>1, <3>2 DEF TakeReply, Pending, TypeOK
    <3> QED
      BY <1>13, <2>1, <2>3, <3>3, <3>4 DEF RequestStep, TakeReply, TypeOK
  <2> QED
    BY <1>13, <2>2, <2>3 DEF RequestStep
<1>14. CASE UNCHANGED vars
  BY <1>14 DEF vars, TypeOK
<1> QED
  BY <1>1, <1>2, <1>3, <1>4, <1>6, <1>7, <1>8, <1>9, <1>10, <1>11, <1>12, <1>13, <1>14
     DEF Next

\* Everything that is on its way has the type that the next step expects of it.
THEOREM TypeCorrect == Spec => []TypeOK
BY TypeInit, TypeNext, PTL DEF Spec

-----------------------------------------------------------------------------
(* The inductive invariant: what may be where, and in which order *)

Known == Range(written)

\* Somebody's own messages, as items; those of the websocket go through the
\* broadcast manager and all others through the bus.
OwnItems == {Wrote(m) : m \in Known}
BusItems == {Wrote(m) : m \in {n \in Known : Via[n] # "websocket"}}
WebItems == {Wrote(m) : m \in {n \in Known : Via[n] = "websocket"}}

Responses == {Response(Wrote(m), blank) : m \in Known, blank \in BOOLEAN}

\* The chats of a scope: those that are linked to it, that somebody in it wrote
\* from, and itself, if it stands for a chat.
Reach(s) == MappedTo(s) \cup ChatsOf(s) \cup ({s} \cap Chats)

\* The replies to messages that may be sent to the chat c.
RepliesFor(c) ==
  {Reply(Own(m)) : m \in {n \in Known : c \in {Dashboard} \cup Reach(ScopeOf(n))}}

\* The agent's own words, with which it got past the listener.
IsLate(item) == item.text.depth > 0 /\ Fingerprint(item) \in tooLate

\* What is not about somebody's message is about an echo that came too late; an
\* echo is remembered until it is heard, and an origin is a chat of its scope.
Traffic ==
  /\ \A x \in Range(inbound) :
       \/ x \in BusItems
       \/ /\ x.text.depth > 0 /\ Fingerprint(x) \in recent \cup tooLate
          /\ x.chat \in Reach(x.scope)
  /\ Range(userFeed) \subseteq WebItems
  /\ \A x \in Range(stimuli) : x \in OwnItems \/ IsLate(x)
  /\ thinking = Nothing \/ thinking \in OwnItems \/ IsLate(thinking)
  /\ \A a \in Range(actions) : a \in Responses \/ a.text.depth > 1
  /\ \A s \in Scopes : origin[s] \in Reach(s) \cup {NoChat}
  /\ \A c \in Chats :
       /\ \A t \in Range(outbound[c]) : /\ t \in RepliesFor(c) \/ t.depth > 1
                                        /\ <<c, t>> \in recent \cup tooLate
       /\ \A t \in Range(sent[c]) : t \in RepliesFor(c) \/ t.depth > 1
  /\ \A p \in echoable :
       p \in recent \cup tooLate /\ p[1] \in EchoChats /\ p[2] \in Range(sent[p[1]])

\* The messages that came in the same way, in their order.
SameWay(m, n) == Via[m] = "websocket" <=> Via[n] = "websocket"
Order == {p \in Known \X Known : SameWay(p[1], p[2]) => Position(p[1]) < Position(p[2])}

TextOrder   == {p \in Text \X Text : p[1].depth = 1 /\ p[2].depth = 1 =>
                                       <<p[1].of, p[2].of>> \in Order}
ActionOrder == {p \in Action \X Action : p[1].text.depth = 1 /\ p[2].text.depth = 1 =>
                                           <<p[1].text.of, p[2].text.of>> \in Order}
ItemOrder   == {p \in Item \X Item : p[1].text.depth = 0 /\ p[2].text.depth = 0 =>
                                       <<p[1].text.of, p[2].text.of>> \in Order}

\* The messages that are on their way to the chat c, from what has been sent to
\* what has not been heard, whatever the agent answers to echoes in between.
TextsOf(q)   == {t.of : t \in {u \in Range(q) : u.depth = 1}}
ActionsOf(q) == {a.text.of : a \in {b \in Range(q) : b.text.depth = 1}}
ItemsOf(q)   == {x.text.of : x \in {y \in Range(q) : y.text.depth = 0}}
Thought      == IF thinking # Nothing /\ thinking.text.depth = 0 THEN {thinking.text.of} ELSE {}
Line(c) ==
  << TextsOf(sent[c]), TextsOf(outbound[c]), ActionsOf(actions), Thought, ItemsOf(stimuli),
     ItemsOf(userFeed) \cup ItemsOf(inbound) >>

\* Each part of the line stands before the next ones.
Apart(L, R) == \A i, j \in 1..6 : i < j => \A a \in L[i], b \in L[j] : <<a, b>> \in R

InLine ==
  /\ Sorted(inbound, ItemOrder) /\ Sorted(userFeed, ItemOrder) /\ Sorted(stimuli, ItemOrder)
  /\ Sorted(actions, ActionOrder)
  /\ \A c \in Chats : /\ Sorted(outbound[c], TextOrder) /\ Sorted(sent[c], TextOrder)
                      /\ Apart(Line(c), Order)

WrittenOnce == \A i, j \in DOMAIN written : written[i] = written[j] => i = j

IInv == TypeOK /\ WrittenOnce /\ Traffic /\ InLine

\* Who is told what: an outbound event has the scope of the message that it
\* answers, and so has what is in the feed of a request.
Private ==
  /\ \A e \in Range(callbacks) : e.reply /\ e.text.depth = 1 => e.scope = ScopeOf(e.text.of)
  /\ \A r \in Requests : HasUser(r) =>
       \A t \in Range(feeds[r]) : t.depth = 1 => ScopeOf(t.of) = UserOf[r]
  /\ AnswersStayWithUser

\* A waiter belongs to the request that has created it, which still waits.
WaitersHeld ==
  /\ \A c \in Chats : waiters[c] # NoWaiter =>
       /\ phase[waiters[c]] = "waiting" /\ ChatOf[waiters[c]] = c
       /\ holds[waiters[c]] = waiters[c]
  /\ \A r \in subscribed : phase[r] = "waiting"

-----------------------------------------------------------------------------
(* How the sets of the invariant grow *)

\* A message that has been written has a position, which nothing changes.
LEMMA PositionOf ==
  ASSUME NEW m \in Known
  PROVE  Position(m) \in DOMAIN written /\ written[Position(m)] = m
<1>1. \E i \in DOMAIN written : written[i] = m
  BY DEF Known, Range
<1> QED
  BY <1>1 DEF Position

LEMMA NewIsLast ==
  ASSUME written \in Seq(Msgs), WrittenOnce, NEW m \in Msgs, IsNew(m)
  PROVE  /\ WrittenOnce' /\ Known' = Known \cup {m} /\ Order \subseteq Order'
         /\ \A n \in Known : <<n, m>> \in Order'
<1>1. /\ Len(written) \in Nat /\ DOMAIN written = 1..Len(written)
      /\ DOMAIN written' = 1..(Len(written) + 1)
      /\ \A i \in 1..Len(written) : written'[i] = written[i]
      /\ written'[Len(written) + 1] = m
  BY QueueShape DEF IsNew
<1>2. Known' = Known \cup {m} /\ m \notin Known
  BY QueueRange DEF Known, IsNew
<1>3. \A i \in 1..Len(written) : written[i] \in Known
  BY <1>1 DEF Known, Range
<1>4. WrittenOnce'
  BY <1>1, <1>2, <1>3 DEF WrittenOnce
<1>5. \A n \in Known : Position(n)' = Position(n) /\ Position(n) \in 1..Len(written)
  <2> SUFFICES ASSUME NEW n \in Known
               PROVE  Position(n)' = Position(n) /\ Position(n) \in 1..Len(written)
    OBVIOUS
  <2>1. Position(n) \in 1..Len(written) /\ written'[Position(n)] = n
    BY <1>1, PositionOf
  <2>2. \A i \in DOMAIN written' : written'[i] = n => i = Position(n)
    BY <1>1, <1>4, <2>1 DEF WrittenOnce
  <2> QED
    BY <1>1, <2>1, <2>2 DEF Position
<1>6. Position(m)' = Len(written) + 1
  <2>1. \A i \in DOMAIN written' : written'[i] = m <=> i = Len(written) + 1
    BY <1>1, <1>2, <1>3
  <2> QED
    BY <1>1, <2>1 DEF Position
<1>7. Order \subseteq Order'
  BY <1>2, <1>5 DEF Order, SameWay
<1>8. \A n \in Known : <<n, m>> \in Order'
  BY <1>1, <1>2, <1>5, <1>6 DEF Order, SameWay
<1> QED
  BY <1>2, <1>4, <1>7, <1>8

\* No message stands before itself.
LEMMA OrderIsStrict ==
  ASSUME NEW m, written \in Seq(Msgs)
  PROVE  <<m, m>> \notin Order
<1> SUFFICES ASSUME m \in Known PROVE ~(Position(m) < Position(m))
  BY DEF Order, SameWay
<1> QED
  BY PositionOf, QueueShape

\* With a new message, more is known and nothing less.
LEMMA KnownGrows ==
  ASSUME Known \subseteq Known'
  PROVE  /\ OwnItems \subseteq OwnItems' /\ BusItems \subseteq BusItems'
         /\ WebItems \subseteq WebItems' /\ Responses \subseteq Responses'
         /\ \A s : Reach(s) \subseteq Reach(s)'
         /\ \A c \in Chats : RepliesFor(c) \subseteq RepliesFor(c)'
<1>1. \A s : Reach(s) \subseteq Reach(s)'
  BY DEF Reach, ChatsOf, Known
<1>2. \A c \in Chats : RepliesFor(c) \subseteq RepliesFor(c)'
  BY <1>1 DEF RepliesFor
<1> QED
  BY <1>1, <1>2 DEF OwnItems, BusItems, WebItems, Responses

-----------------------------------------------------------------------------
(* What may be where *)

\* What somebody has written is one of the known items from now on.
LEMMA OwnFacts ==
  ASSUME NEW m \in Known, TypeOK
  PROVE  /\ m \in Msgs /\ Wrote(m) \in OwnItems
         /\ Wrote(m).text = Own(m) /\ Own(m).of = m /\ Own(m).depth = 0
         /\ Wrote(m).scope = ScopeOf(m) /\ ChatOf[m] \in ChatsOf(ScopeOf(m))
         /\ Wrote(m).chat = ChatOf[m] /\ Wrote(m).channel \in {ChatOf[m], NoChat}
<1>1. m \in Msgs
  BY QueueRange DEF Known, TypeOK
<1>2. ChatOf[m] \in ChatsOf(ScopeOf(m))
  BY DEF ChatsOf, Known
<1> QED
  BY <1>1, <1>2 DEF OwnItems, Wrote, Own

\* The answer to an own message is a reply of depth 1; to anything else it is deeper.
LEMMA AnswerFacts ==
  ASSUME TypeOK
  PROVE  /\ \A m \in Known : Reply(Own(m)).of = m /\ Reply(Own(m)).depth = 1
         /\ \A t \in Text : Reply(t).of = t.of /\ Reply(t).depth = t.depth + 1
         /\ \A x \in OwnItems : x.text.depth = 0 /\ x.text.of \in Known /\ x.chat \in Reach(x.scope)
         /\ \A a \in Responses : a.text.depth = 1 /\ a.text.of \in Known
         /\ \A m \in Known : Response(Wrote(m), TRUE).scope = ScopeOf(m)
<1>1. \A m \in Known : Reply(Own(m)).of = m /\ Reply(Own(m)).depth = 1
  BY DEF Reply, Own
<1>2. \A t \in Text : Reply(t).of = t.of /\ Reply(t).depth = t.depth + 1
  BY DEF Text, Reply
<1>3. \A x \in OwnItems : x.text.depth = 0 /\ x.text.of \in Known /\ x.chat \in Reach(x.scope)
  BY OwnFacts DEF OwnItems, Reach
<1>4. \A m \in Known, blank \in BOOLEAN : Response(Wrote(m), blank).text = Reply(Own(m))
  BY OwnFacts DEF Response
<1>5. \A m \in Known : Response(Wrote(m), TRUE).scope = ScopeOf(m)
  BY OwnFacts DEF Response
<1>6. ASSUME NEW a \in Responses PROVE a.text.depth = 1 /\ a.text.of \in Known
  <2>1. PICK m \in Known, blank \in BOOLEAN : a = Response(Wrote(m), blank)
    BY <1>6 DEF Responses
  <2> QED
    BY <1>1, <1>4, <2>1
<1> QED
  BY <1>1, <1>2, <1>3, <1>5, <1>6

\* What is sent for a scope is sent to the dashboard and to chats of the scope.
LEMMA TargetsAllowed ==
  ASSUME IInv, NEW s \in Scopes, NEW source \in (Reach(s) \cap Chats) \cup {NoChat},
         NEW c \in Targets(s, source)
  PROVE  c \in Chats /\ c \in {Dashboard} \cup Reach(s)
<1>1. c \in Chats
  BY TargetTypes DEF IInv, TypeOK
<1>2. Origin(s) \subseteq Reach(s)
  BY DEF Origin, IInv, Traffic
<1>3. MappedTo(s) \subseteq Reach(s)
  BY DEF Reach
<1> QED
  BY <1>1, <1>2, <1>3 DEF Targets

\* What is put into a queue is in it, beside what was there.
LEMMA QueuesGrow ==
  ASSUME TypeOK
  PROVE  /\ \A x \in Item : /\ Range(Append(inbound, x)) = Range(inbound) \cup {x}
                            /\ Range(Append(userFeed, x)) = Range(userFeed) \cup {x}
                            /\ Range(Append(stimuli, x)) = Range(stimuli) \cup {x}
         /\ \A x \in Action : Range(Append(actions, x)) = Range(actions) \cup {x}
         /\ \A x \in Text : \A c \in Chats :
              /\ Range(Append(outbound[c], x)) = Range(outbound[c]) \cup {x}
              /\ Range(Append(sent[c], x)) = Range(sent[c]) \cup {x}
<1>1. inbound \in Seq(Item) /\ userFeed \in Seq(Item) /\ stimuli \in Seq(Item)
  BY DEF TypeOK
<1>2. actions \in Seq(Action)
  BY DEF TypeOK
<1>3. \A c \in Chats : outbound[c] \in Seq(Text) /\ sent[c] \in Seq(Text)
  BY DEF TypeOK
<1> QED
  BY <1>1, <1>2, <1>3, QueueRange

LEMMA TrafficNext == IInv /\ [Next]_vars => Traffic'
<1> SUFFICES ASSUME IInv, [Next]_vars PROVE Traffic'
  OBVIOUS
<1> USE DEF busVars, mindVars, ioVars, gatewayVars, worldVars
<1>0. TypeOK /\ TypeOK' /\ Traffic
  BY TypeNext DEF IInv
<1>a. ASSUME UNCHANGED written
      PROVE  Known' = Known /\ Known \subseteq Known'
  BY <1>a DEF Known
<1>b. ASSUME NEW m \in Msgs, IsNew(m)
      PROVE  /\ Known \subseteq Known' /\ m \in Known'
             /\ Via[m] # "websocket" => Wrote(m) \in BusItems'
             /\ Via[m] = "websocket" => Wrote(m) \in WebItems'
  <2>1. Known' = Known \cup {m}
    BY <1>b, NewIsLast DEF IInv, TypeOK
  <2> QED
    BY <2>1 DEF BusItems, WebItems
\* What each queue may hold stays so when more is known and more came too late.
<1>c. ASSUME Known \subseteq Known', tooLate \subseteq tooLate',
             recent \cup tooLate \subseteq recent' \cup tooLate'
      PROVE  /\ inbound' = inbound => \A x \in Range(inbound') :
                  \/ x \in BusItems'
                  \/ /\ x.text.depth > 0 /\ Fingerprint(x) \in recent' \cup tooLate'
                     /\ x.chat \in Reach(x.scope)'
             /\ userFeed' = userFeed => Range(userFeed') \subseteq WebItems'
             /\ stimuli' = stimuli => \A x \in Range(stimuli') : x \in OwnItems' \/ IsLate(x)'
             /\ thinking' = thinking =>
                  thinking' = Nothing \/ thinking' \in OwnItems' \/ IsLate(thinking)'
             /\ actions' = actions =>
                  \A a \in Range(actions') : a \in Responses' \/ a.text.depth > 1
             /\ origin' = origin => \A s \in Scopes : origin'[s] \in Reach(s)' \cup {NoChat}
             /\ outbound' = outbound => \A c \in Chats : \A t \in Range(outbound'[c]) :
                  /\ t \in RepliesFor(c)' \/ t.depth > 1
                  /\ <<c, t>> \in recent' \cup tooLate'
             /\ sent' = sent => \A c \in Chats : \A t \in Range(sent'[c]) :
                  t \in RepliesFor(c)' \/ t.depth > 1
             /\ echoable' = echoable /\ sent' = sent => \A p \in echoable' :
                  /\ p \in recent' \cup tooLate' /\ p[1] \in EchoChats
                  /\ p[2] \in Range(sent'[p[1]])
  <2>1. /\ OwnItems \subseteq OwnItems' /\ BusItems \subseteq BusItems'
        /\ WebItems \subseteq WebItems' /\ Responses \subseteq Responses'
        /\ \A s : Reach(s) \subseteq Reach(s)'
        /\ \A c \in Chats : RepliesFor(c) \subseteq RepliesFor(c)'
    BY <1>c, KnownGrows
  <2>2. \A x : IsLate(x) => IsLate(x)'
    BY <1>c DEF IsLate, Fingerprint
  <2>3. inbound' = inbound => \A x \in Range(inbound') :
          \/ x \in BusItems'
          \/ /\ x.text.depth > 0 /\ Fingerprint(x) \in recent' \cup tooLate'
             /\ x.chat \in Reach(x.scope)'
    BY <1>0, <1>c, <2>1 DEF Traffic
  <2>4. thinking' = thinking =>
          thinking' = Nothing \/ thinking' \in OwnItems' \/ IsLate(thinking)'
    BY <1>0, <1>c, <2>1 DEF Traffic, IsLate, Fingerprint
  <2>5. stimuli' = stimuli => \A x \in Range(stimuli') : x \in OwnItems' \/ IsLate(x)'
    BY <1>0, <2>1, <2>2 DEF Traffic
  <2>6. outbound' = outbound => \A c \in Chats : \A t \in Range(outbound'[c]) :
          /\ t \in RepliesFor(c)' \/ t.depth > 1
          /\ <<c, t>> \in recent' \cup tooLate'
    BY <1>0, <1>c, <2>1 DEF Traffic
  <2>7. /\ userFeed' = userFeed => Range(userFeed') \subseteq WebItems'
        /\ actions' = actions =>
             \A a \in Range(actions') : a \in Responses' \/ a.text.depth > 1
        /\ origin' = origin => \A s \in Scopes : origin'[s] \in Reach(s)' \cup {NoChat}
        /\ sent' = sent => \A c \in Chats : \A t \in Range(sent'[c]) :
             t \in RepliesFor(c)' \/ t.depth > 1
    BY <1>0, <2>1 DEF Traffic
  <2>8. echoable' = echoable /\ sent' = sent => \A p \in echoable' :
          /\ p \in recent' \cup tooLate' /\ p[1] \in EchoChats
          /\ p[2] \in Range(sent'[p[1]])
    BY <1>0, <1>c DEF Traffic
  <2> QED
    BY <2>3, <2>4, <2>5, <2>6, <2>7, <2>8
\* A message that is new on the bus.
<1>d. ASSUME NEW m \in Msgs, IsNew(m), Via[m] # "websocket", PublishInbound(Wrote(m)),
             UNCHANGED <<userFeed, outbound, mindVars, ioVars, sent, echoable>>
      PROVE  Traffic'
  <2>1. Known \subseteq Known' /\ Wrote(m) \in BusItems'
    BY <1>b, <1>d
  <2>2. Range(inbound') = Range(inbound) \cup {Wrote(m)}
    BY <1>0, <1>d, ItemTypes, QueuesGrow DEF PublishInbound
  <2>3. BusItems \subseteq BusItems' /\ \A s : Reach(s) \subseteq Reach(s)'
    BY <2>1, KnownGrows
  <2>4. \A x \in Range(inbound') :
          \/ x \in BusItems'
          \/ /\ x.text.depth > 0 /\ Fingerprint(x) \in recent' \cup tooLate'
             /\ x.chat \in Reach(x.scope)'
    BY <1>0, <1>d, <2>1, <2>2, <2>3 DEF Traffic
  <2> QED
    BY <1>c, <1>d, <2>1, <2>4 DEF Traffic
<1>1. ASSUME NEW m \in Msgs, ChannelMessage(m) PROVE Traffic'
  BY <1>1, <1>d DEF ChannelMessage
<1>2. ASSUME NEW m \in Msgs, GatewayMessage(m) PROVE Traffic'
  BY <1>2, <1>d DEF GatewayMessage, Ask
<1>3. ASSUME NEW m \in Msgs, WebsocketMessage(m) PROVE Traffic'
  <2>1. Known \subseteq Known' /\ Wrote(m) \in WebItems' /\ WebItems \subseteq WebItems'
    BY <1>3, <1>b, KnownGrows DEF WebsocketMessage
  <2>2. Range(userFeed') = Range(userFeed) \cup {Wrote(m)}
    BY <1>0, <1>3, ItemTypes, QueuesGrow DEF WebsocketMessage, PublishUserMessage
  <2>3. Range(userFeed') \subseteq WebItems'
    BY <1>0, <2>1, <2>2 DEF Traffic
  <2>4. UNCHANGED <<inbound, outbound, mindVars, ioVars, sent, echoable>>
    BY <1>3 DEF WebsocketMessage
  <2> QED
    BY <1>c, <2>1, <2>3, <2>4 DEF Traffic
<1>4. ASSUME NEW c \in Chats, NEW t \in Range(sent[c]), Echo(c, t) PROVE Traffic'
  <2>1. t.depth > 0 /\ t \in Text
    <3>1. t \in Text
      BY <1>0, QueueRange DEF TypeOK
    <3>2. CASE t \in RepliesFor(c)
      <4>1. t.depth = 1
        BY <1>0, <3>2, AnswerFacts DEF RepliesFor
      <4> QED
        BY <3>1, <4>1
    <3>3. CASE t.depth > 1
      <4>1. t.depth \in Nat
        BY <3>1 DEF Text
      <4> QED
        BY <3>1, <3>3, <4>1
    <3> QED
      BY <1>0, <3>2, <3>3 DEF Traffic
  <2>2. <<c, t>> \in recent \cup tooLate
    BY <1>0, <1>4 DEF Echo, Traffic
  <2>3. Range(inbound') = Range(inbound) \cup {Echoed(c, t)}
    BY <1>0, <1>4, <2>1, ItemTypes, QueuesGrow DEF Echo, PublishInbound
  <2>4. Echoed(c, t).text = t /\ Echoed(c, t).chat = c /\ Echoed(c, t).scope = MappedScope(c)
    BY DEF Echoed
  <2>5. c \in Reach(MappedScope(c))
    BY DEF MappedScope, Reach, MappedTo
  <2>6. Known' = Known /\ Known \subseteq Known'
        /\ UNCHANGED <<userFeed, outbound, mindVars, ioVars, sent, echoable>>
    BY <1>4, <1>a DEF Echo
  <2>7. BusItems \subseteq BusItems' /\ \A s : Reach(s) \subseteq Reach(s)'
    BY <2>6, KnownGrows
  <2>8. \A x \in Range(inbound') :
          \/ x \in BusItems'
          \/ /\ x.text.depth > 0 /\ Fingerprint(x) \in recent' \cup tooLate'
             /\ x.chat \in Reach(x.scope)'
    <3>1. ASSUME NEW x \in Range(inbound)
          PROVE  \/ x \in BusItems'
                 \/ /\ x.text.depth > 0 /\ Fingerprint(x) \in recent' \cup tooLate'
                    /\ x.chat \in Reach(x.scope)'
      BY <1>0, <2>6, <2>7 DEF Traffic
    <3>2. PICK x : x = Echoed(c, t)
      OBVIOUS
    <3>3. x.text.depth > 0 /\ Fingerprint(x) = <<c, t>> /\ x.chat \in Reach(x.scope)
      BY <2>1, <2>4, <2>5, <3>2 DEF Fingerprint
    <3>4. x.text.depth > 0 /\ Fingerprint(x) \in recent' \cup tooLate' /\ x.chat \in Reach(x.scope)'
      BY <2>2, <2>6, <2>7, <3>3
    <3> QED
      BY <2>3, <3>1, <3>2, <3>4
  <2> QED
    BY <1>c, <2>6, <2>8 DEF Traffic
<1>6. ASSUME NEW c \in Chats, Dispatch(c) PROVE Traffic'
  <2> DEFINE t == Head(outbound[c])
  <2>1. outbound[c] \in Seq(Text) /\ sent[c] \in Seq(Text) /\ outbound[c] # <<>>
    BY <1>0, <1>6 DEF Dispatch, TypeOK
  <2>2. /\ t \in Range(outbound[c]) /\ Range(Tail(outbound[c])) \subseteq Range(outbound[c])
        /\ Range(Append(sent[c], t)) = Range(sent[c]) \cup {t}
    BY <2>1, QueueRange, QueueShape
  <2> HIDE DEF t
  <2>3. /\ sent' = [sent EXCEPT ![c] = Append(sent[c], t)]
        /\ outbound' = [outbound EXCEPT ![c] = Tail(outbound[c])]
        /\ echoable' \subseteq echoable \cup IF c \in EchoChats THEN {<<c, t>>} ELSE {}
        /\ UNCHANGED <<inbound, userFeed, mindVars, ioVars, written>>
    BY <1>6 DEF Dispatch, t
  <2>4. \A d \in Chats : /\ Range(outbound'[d]) \subseteq Range(outbound[d])
                         /\ Range(sent[d]) \subseteq Range(sent'[d])
                         /\ Range(sent'[d]) \subseteq Range(sent[d]) \cup Range(outbound[d])
    BY <1>0, <2>2, <2>3 DEF TypeOK
  <2>5. t \in Range(sent'[c]) /\ <<c, t>> \in recent \cup tooLate
    BY <1>0, <2>2, <2>3 DEF TypeOK, Traffic
  <2>6. \A p \in echoable' :
          p \in recent \cup tooLate /\ p[1] \in EchoChats /\ p[2] \in Range(sent'[p[1]])
    <3>1. \A p \in echoable : p[1] \in Chats
      BY <1>0 DEF TypeOK
    <3>2. ASSUME NEW p \in echoable
          PROVE  p \in recent \cup tooLate /\ p[1] \in EchoChats /\ p[2] \in Range(sent'[p[1]])
      BY <1>0, <2>4, <3>1, <3>2 DEF Traffic
    <3>3. ASSUME NEW p \in echoable', p \notin echoable
          PROVE  p \in recent \cup tooLate /\ p[1] \in EchoChats /\ p[2] \in Range(sent'[p[1]])
      <4>1. c \in EchoChats /\ p = <<c, t>>
        BY <2>3, <3>3
      <4> QED
        BY <2>5, <4>1
    <3> QED
      BY <3>2, <3>3
  <2>7. Known' = Known /\ Known \subseteq Known'
    BY <1>a, <2>3
  <2>8. \A d \in Chats : RepliesFor(d) \subseteq RepliesFor(d)'
    BY <2>7, KnownGrows
  <2>9. \A d \in Chats :
          /\ \A u \in Range(outbound'[d]) : /\ u \in RepliesFor(d)' \/ u.depth > 1
                                            /\ <<d, u>> \in recent' \cup tooLate'
          /\ \A u \in Range(sent'[d]) : u \in RepliesFor(d)' \/ u.depth > 1
    BY <1>0, <2>3, <2>4, <2>8 DEF Traffic
  <2> QED
    BY <1>c, <2>3, <2>6, <2>7, <2>9 DEF Traffic
<1>7. CASE CallbackStep
  BY <1>7, <1>a, <1>c DEF CallbackStep, Callback, Traffic
<1>8. CASE InboundStep
  <2>0. PICK x : x = Head(inbound)
    OBVIOUS
  <2>1. x \in Range(inbound) /\ Range(Tail(inbound)) \subseteq Range(inbound) /\ x \in Item
    BY <1>0, <1>8, <2>0, QueueRange, QueueShape DEF InboundStep, HearInbound, TypeOK
  <2>2. Known' = Known /\ Known \subseteq Known'
        /\ inbound' = Tail(inbound) /\ UNCHANGED <<userFeed, outbound, thinking, actions, sent, echoable>>
    BY <1>8, <1>a DEF InboundStep, HearInbound
  <2>3. BusItems \subseteq BusItems' /\ (\A s : Reach(s) \subseteq Reach(s)')
        /\ OwnItems \subseteq OwnItems'
    BY <2>2, KnownGrows
  <2>4. tooLate \subseteq tooLate' /\ recent \cup tooLate \subseteq recent' \cup tooLate'
    BY <1>8 DEF InboundStep, HearInbound
  <2>5. \A y \in Range(inbound') :
          \/ y \in BusItems'
          \/ /\ y.text.depth > 0 /\ Fingerprint(y) \in recent' \cup tooLate'
             /\ y.chat \in Reach(y.scope)'
    BY <1>0, <2>1, <2>2, <2>3, <2>4 DEF Traffic
  <2>6. CASE UNCHANGED <<ioVars, stimuli>>
    BY <1>c, <2>2, <2>4, <2>5, <2>6 DEF Traffic
  <2>7. CASE /\ recent' = recent \ {Fingerprint(x)}
             /\ tooLate' = tooLate \cup ({Fingerprint(x)} \cap recent)
             /\ origin' = [origin EXCEPT ![x.scope] = x.chat] /\ Perceive(x)
    <3>1. x \in OwnItems \/ IsLate(x)'
      <4>1. CASE x \in BusItems
        BY <4>1 DEF BusItems, OwnItems
      <4>2. CASE x.text.depth > 0 /\ Fingerprint(x) \in recent \cup tooLate
        BY <2>7, <4>2 DEF IsLate, Fingerprint
      <4> QED
        BY <1>0, <2>1, <4>1, <4>2 DEF Traffic
    <3>2. x.chat \in Reach(x.scope)
      <4>1. x \in BusItems => x \in OwnItems
        BY DEF BusItems, OwnItems
      <4> QED
        BY <1>0, <2>1, <4>1, AnswerFacts DEF Traffic
    <3>3. Range(stimuli') = Range(stimuli) \cup {x}
      BY <1>0, <2>1, <2>7, QueueRange DEF Perceive, TypeOK
    <3>4. \A s \in Scopes : origin'[s] \in Reach(s)' \cup {NoChat}
      BY <1>0, <2>3, <2>7, <3>2 DEF TypeOK, Traffic
    <3>5. \A y : IsLate(y) => IsLate(y)'
      BY <2>4 DEF IsLate, Fingerprint
    <3>6. \A y \in Range(stimuli') : y \in OwnItems' \/ IsLate(y)'
      BY <1>0, <2>3, <3>1, <3>3, <3>5 DEF Traffic
    <3> QED
      BY <1>c, <2>2, <2>4, <2>5, <3>4, <3>6 DEF Traffic
  <2> QED
    BY <1>8, <2>0, <2>6, <2>7 DEF InboundStep, HearInbound
<1>9. CASE UserMessageStep
  <2> DEFINE x == Head(userFeed)
  <2>1. x \in Range(userFeed) /\ Range(Tail(userFeed)) \subseteq Range(userFeed) /\ x \in Item
    BY <1>0, <1>9, QueueRange, QueueShape DEF UserMessageStep, HearUserMessage, TypeOK
  <2>2. Known' = Known /\ Known \subseteq Known'
    BY <1>9, <1>a DEF UserMessageStep
  <2> HIDE DEF x
  <2>3. /\ origin' = [origin EXCEPT ![x.scope] = x.chat] /\ Perceive(x)
        /\ userFeed' = Tail(userFeed)
        /\ UNCHANGED <<recent, tooLate, inbound, outbound, thinking, actions, sent, echoable>>
    BY <1>9 DEF UserMessageStep, HearUserMessage, x
  <2>4. x \in OwnItems
    BY <1>0, <2>1 DEF Traffic, WebItems, OwnItems
  <2>5. x.chat \in Reach(x.scope)
    BY <1>0, <2>4, AnswerFacts
  <2>6. Range(stimuli') = Range(stimuli) \cup {x}
    BY <1>0, <2>1, <2>3, QueueRange DEF Perceive, TypeOK
  <2>7. OwnItems \subseteq OwnItems' /\ WebItems \subseteq WebItems'
        /\ \A s : Reach(s) \subseteq Reach(s)'
    BY <2>2, KnownGrows
  <2>8. \A s \in Scopes : origin'[s] \in Reach(s)' \cup {NoChat}
    BY <1>0, <2>3, <2>5, <2>7 DEF TypeOK, Traffic
  <2>9. \A y \in Range(stimuli') : y \in OwnItems' \/ IsLate(y)'
    BY <1>0, <2>3, <2>4, <2>6, <2>7 DEF Traffic, IsLate
  <2>10. Range(userFeed') \subseteq WebItems'
    BY <1>0, <2>1, <2>3, <2>7 DEF Traffic
  <2> QED
    BY <1>c, <2>2, <2>3, <2>8, <2>9, <2>10 DEF Traffic
<1>10. CASE TickStep
  <2>1. Known' = Known /\ Known \subseteq Known'
        /\ UNCHANGED <<busVars, ioVars, actions, sent, echoable>>
    BY <1>10, <1>a DEF TickStep, Tick
  <2>2. thinking' = Nothing \/ thinking' \in Range(stimuli)
    BY <1>0, <1>10, FocusFacts DEF TickStep, Tick, TypeOK
  <2>3. Range(stimuli') = {}
    BY <1>10 DEF TickStep, Tick, Range
  <2>4. thinking' = Nothing \/ thinking' \in OwnItems' \/ IsLate(thinking)'
    BY <1>0, <2>1, <2>2, KnownGrows DEF Traffic, IsLate
  <2> QED
    BY <1>c, <2>1, <2>3, <2>4 DEF Traffic
<1>11. CASE AnswerStep
  <2>1. Known' = Known /\ Known \subseteq Known'
        /\ UNCHANGED <<busVars, ioVars, stimuli, sent, echoable>> /\ thinking' = Nothing
    BY <1>11, <1>a DEF AnswerStep, Answer
  <2>2. PICK blank \in BOOLEAN : actions' = Append(actions, Response(thinking, blank))
    BY <1>11 DEF AnswerStep, Answer
  <2>3. thinking \in Item /\ (thinking \in OwnItems \/ IsLate(thinking))
    BY <1>0, <1>11 DEF AnswerStep, Answer, TypeOK, Traffic
  <2>4. Range(actions') = Range(actions) \cup {Response(thinking, blank)}
    BY <1>0, <2>2, <2>3, ItemTypes, QueuesGrow
  <2>5. Response(thinking, blank) \in Responses \/ Response(thinking, blank).text.depth > 1
    <3>1. CASE thinking \in OwnItems
      BY <3>1 DEF OwnItems, Responses
    <3>2. CASE IsLate(thinking)
      <4>1. thinking.text \in Text /\ thinking.text.depth \in Nat /\ thinking.text.depth > 0
        BY <2>3, <3>2 DEF Item, Text, IsLate
      <4>2. Response(thinking, blank).text.depth = thinking.text.depth + 1
        BY <1>0, <4>1, AnswerFacts DEF Response
      <4> QED
        BY <4>1, <4>2
    <3> QED
      BY <2>3, <3>1, <3>2
  <2>6. Responses \subseteq Responses'
    BY <2>1, KnownGrows
  <2>7. \A a \in Range(actions') : a \in Responses' \/ a.text.depth > 1
    BY <1>0, <2>4, <2>5, <2>6 DEF Traffic
  <2> QED
    BY <1>c, <2>1, <2>7 DEF Traffic
<1>12. CASE ActStep
  <2> DEFINE a == Head(actions)
             targets == Targets(a.scope, a.source)
  <2>1. a \in Range(actions) /\ Range(Tail(actions)) \subseteq Range(actions) /\ a \in Action
    BY <1>0, <1>12, QueueRange, QueueShape DEF ActStep, Act, TypeOK
  <2>2. Known' = Known /\ Known \subseteq Known' /\ actions' = Tail(actions)
        /\ UNCHANGED <<origin, tooLate, inbound, userFeed, stimuli, thinking, sent, echoable>>
    BY <1>12, <1>a DEF ActStep, Act
  <2>3. \A c \in targets : c \in Chats /\ (a.text \in RepliesFor(c) \/ a.text.depth > 1)
    <3>1. CASE a \in Responses
      <4>1. PICK m \in Known, blank \in BOOLEAN : a = Response(Wrote(m), blank)
        BY <3>1 DEF Responses
      <4>2. a.scope = ScopeOf(m) /\ a.text = Reply(Own(m)) /\ a.source = Wrote(m).channel
        BY <1>0, <4>1, OwnFacts DEF Response
      <4>3. a.scope \in Scopes /\ a.source \in (Reach(a.scope) \cap Chats) \cup {NoChat}
        BY <1>0, <4>2, OwnFacts, ScopeTypes DEF Reach
      <4>4. \A c \in targets : c \in Chats /\ c \in {Dashboard} \cup Reach(ScopeOf(m))
        BY <4>2, <4>3, TargetsAllowed
      <4> QED
        BY <4>2, <4>4 DEF RepliesFor
    <3>2. CASE a.text.depth > 1
      <4>1. targets \subseteq Chats
        BY <1>0, <2>1, TargetTypes DEF Action, TypeOK
      <4> QED
        BY <3>2, <4>1
    <3> QED
      BY <1>0, <2>1, <3>1, <3>2 DEF Traffic
  <2>4. a.text \in Text
    BY <2>1 DEF Action
  <2>5. Responses \subseteq Responses' /\ \A c \in Chats : RepliesFor(c) \subseteq RepliesFor(c)'
    BY <2>2, KnownGrows
  <2> HIDE DEF a, targets
  <2>6. \A b \in Range(actions') : b \in Responses' \/ b.text.depth > 1
    BY <1>0, <2>1, <2>2, <2>5 DEF Traffic
  <2>7. CASE UNCHANGED <<recent, outbound, callbacks, queues>>
    BY <1>c, <2>2, <2>6, <2>7 DEF Traffic
  <2>8. CASE Remember(targets, a.scope, a.text) /\ PublishOutbound(a.scope, targets, a.text)
    <3>1. recent \subseteq recent' /\ \A c \in targets : <<c, a.text>> \in recent'
      BY <2>8 DEF Remember
    <3>2. recent \cup tooLate \subseteq recent' \cup tooLate' /\ tooLate \subseteq tooLate'
      BY <2>2, <3>1
    <3>3. \A c \in Chats : Range(outbound'[c]) =
                             Range(outbound[c]) \cup IF c \in targets THEN {a.text} ELSE {}
      <4>1. \A c \in Chats : Range(Append(outbound[c], a.text)) = Range(outbound[c]) \cup {a.text}
        BY <1>0, <2>4, QueuesGrow
      <4> QED
        BY <2>8, <4>1 DEF PublishOutbound
    <3>4. \A c \in Chats : \A t \in Range(outbound'[c]) :
            (t \in RepliesFor(c)' \/ t.depth > 1) /\ <<c, t>> \in recent' \cup tooLate'
      BY <1>0, <2>3, <2>5, <3>1, <3>2, <3>3 DEF Traffic
    <3> QED
      BY <1>c, <2>2, <2>6, <3>2, <3>4 DEF Traffic
  <2> QED
    BY <1>12, <2>7, <2>8 DEF ActStep, Act, a, targets
<1>13. ASSUME NEW r \in Requests, RequestStep(r) PROVE Traffic'
  BY <1>13, <1>a, <1>c DEF RequestStep, TakeReply, TimeOut, Traffic
<1>14. CASE UNCHANGED vars
  BY <1>14, <1>a, <1>c DEF vars, Traffic
<1> QED
  BY <1>1, <1>2, <1>3, <1>4, <1>6, <1>7, <1>8, <1>9, <1>10, <1>11, <1>12, <1>13, <1>14
     DEF Next

-----------------------------------------------------------------------------
(* In which order it is *)

\* The line keeps apart when something leaves it, when its next part takes
\* over the first message of a part, and when a last message comes in.
LEMMA ApartKept ==
  ASSUME NEW L, NEW M, NEW R, NEW S, Apart(L, R), R \subseteq S
  PROVE  /\ (\A i \in 1..6 : M[i] \subseteq L[i]) => Apart(M, S)
         /\ \A k \in 1..5 : \A m \in L[k + 1] :
              /\ M[k] \subseteq L[k] \cup {m} /\ \A i \in (1..6) \ {k} : M[i] \subseteq L[i]
              /\ \A n \in M[k + 1] : <<m, n>> \in S
              => Apart(M, S)
         /\ \A m :
              /\ M[6] \subseteq L[6] \cup {m} /\ \A i \in 1..5 : M[i] \subseteq L[i]
              /\ \A i \in 1..5 : \A n \in L[i] : <<n, m>> \in S
              => Apart(M, S)
<1>1. ASSUME \A i \in 1..6 : M[i] \subseteq L[i] PROVE Apart(M, S)
  BY <1>1 DEF Apart
<1>2. ASSUME NEW k \in 1..5, NEW m \in L[k + 1], M[k] \subseteq L[k] \cup {m},
             \A i \in (1..6) \ {k} : M[i] \subseteq L[i], \A n \in M[k + 1] : <<m, n>> \in S
      PROVE  Apart(M, S)
  <2> SUFFICES ASSUME NEW i \in 1..6, NEW j \in 1..6, i < j, NEW a \in M[i], NEW b \in M[j]
               PROVE  <<a, b>> \in S
    BY DEF Apart
  <2>1. CASE i # k /\ j # k
    BY <1>2, <2>1 DEF Apart
  <2>2. CASE j = k
    <3>1. a \in L[i] /\ i < k + 1 /\ k + 1 \in 1..6
      BY <1>2, <2>2
    <3> QED
      BY <1>2, <2>2, <3>1 DEF Apart
  <2>3. CASE i = k
    <3>1. CASE j = k + 1
      BY <1>2, <2>3, <3>1 DEF Apart
    <3>2. CASE j # k + 1
      <4>1. b \in L[j] /\ k + 1 < j /\ k + 1 \in 1..6
        BY <1>2, <2>3, <3>2
      <4> QED
        BY <1>2, <2>3, <4>1 DEF Apart
    <3> QED
      BY <3>1, <3>2
  <2> QED
    BY <2>1, <2>2, <2>3
<1>3. ASSUME NEW m, M[6] \subseteq L[6] \cup {m}, \A i \in 1..5 : M[i] \subseteq L[i],
             \A i \in 1..5 : \A n \in L[i] : <<n, m>> \in S
      PROVE  Apart(M, S)
  <2> SUFFICES ASSUME NEW i \in 1..6, NEW j \in 1..6, i < j, NEW a \in M[i], NEW b \in M[j]
               PROVE  <<a, b>> \in S
    BY DEF Apart
  <2>1. i \in 1..5 /\ a \in L[i]
    BY <1>3
  <2>2. CASE j # 6
    BY <1>3, <2>1, <2>2 DEF Apart
  <2>3. CASE j = 6
    BY <1>3, <2>1, <2>3 DEF Apart
  <2> QED
    BY <2>2, <2>3
<1> QED
  BY <1>1, <1>2, <1>3

LEMMA OrdersGrow ==
  ASSUME Order \subseteq Order'
  PROVE  /\ TextOrder \subseteq TextOrder' /\ ActionOrder \subseteq ActionOrder'
         /\ ItemOrder \subseteq ItemOrder'
BY DEF TextOrder, ActionOrder, ItemOrder

LEMMA SortedGrows ==
  ASSUME NEW q, NEW R, NEW S, Sorted(q, R), R \subseteq S
  PROVE  Sorted(q, S)
BY DEF Sorted

\* What the parts of the line hold, when a queue has at most one element more.
LEMMA TextsGrow ==
  ASSUME NEW q, NEW p, NEW t, Range(p) \subseteq Range(q) \cup {t}
  PROVE  TextsOf(p) \subseteq TextsOf(q) \cup IF t.depth = 1 THEN {t.of} ELSE {}
BY DEF TextsOf

LEMMA PartsOf ==
  ASSUME NEW q, NEW p, NEW x, Range(p) \subseteq Range(q) \cup {x}
  PROVE  /\ ActionsOf(p) \subseteq ActionsOf(q) \cup IF x.text.depth = 1 THEN {x.text.of} ELSE {}
         /\ ItemsOf(p) \subseteq ItemsOf(q) \cup IF x.text.depth = 0 THEN {x.text.of} ELSE {}
BY DEF ActionsOf, ItemsOf

LEMMA FewerParts ==
  ASSUME NEW q, NEW p, Range(p) \subseteq Range(q)
  PROVE  /\ TextsOf(p) \subseteq TextsOf(q) /\ ActionsOf(p) \subseteq ActionsOf(q)
         /\ ItemsOf(p) \subseteq ItemsOf(q)
BY DEF TextsOf, ActionsOf, ItemsOf

\* The parts of the line by name, and that all of them are known.
LEMMA LineParts ==
  ASSUME TypeOK, Traffic, NEW c \in Chats
  PROVE  \A i \in 1..6 : Line(c)[i] \subseteq Known
<1>1. TextsOf(sent[c]) \subseteq Known /\ TextsOf(outbound[c]) \subseteq Known
  <2>1. \A t : t \in RepliesFor(c) => t.of \in Known
    BY AnswerFacts DEF RepliesFor
  <2>2. \A t : t.depth = 1 => ~(t.depth > 1)
    OBVIOUS
  <2> QED
    BY <2>1, <2>2 DEF Traffic, TextsOf
<1>2. ActionsOf(actions) \subseteq Known
  <2>1. \A a : a.text.depth = 1 => ~(a.text.depth > 1)
    OBVIOUS
  <2> QED
    BY <2>1, AnswerFacts DEF Traffic, ActionsOf
<1>3. Thought \subseteq Known /\ ItemsOf(stimuli) \subseteq Known
  <2>1. \A x : x.text.depth = 0 => ~IsLate(x)
    BY DEF IsLate
  <2> QED
    BY <2>1, AnswerFacts DEF Traffic, Thought, ItemsOf
<1>4. ItemsOf(userFeed) \subseteq Known /\ ItemsOf(inbound) \subseteq Known
  <2>1. WebItems \subseteq OwnItems /\ BusItems \subseteq OwnItems
    BY DEF BusItems, WebItems, OwnItems
  <2>2. \A x : x.text.depth = 0 => ~(x.text.depth > 0)
    OBVIOUS
  <2> QED
    BY <2>1, <2>2, AnswerFacts DEF Traffic, ItemsOf
<1>5. \A i \in 1..6 : i = 1 \/ i = 2 \/ i = 3 \/ i = 4 \/ i = 5 \/ i = 6
  OBVIOUS
<1> QED
  BY <1>1, <1>2, <1>3, <1>4, <1>5 DEF Line

\* What a step leaves alone stays in order.
LEMMA UntouchedInLine ==
  ASSUME InLine, Order \subseteq Order'
  PROVE  /\ inbound' = inbound => Sorted(inbound, ItemOrder)'
         /\ userFeed' = userFeed => Sorted(userFeed, ItemOrder)'
         /\ stimuli' = stimuli => Sorted(stimuli, ItemOrder)'
         /\ actions' = actions => Sorted(actions, ActionOrder)'
         /\ \A c \in Chats : /\ outbound'[c] = outbound[c] => Sorted(outbound[c], TextOrder)'
                             /\ sent'[c] = sent[c] => Sorted(sent[c], TextOrder)'
<1>1. /\ TextOrder \subseteq TextOrder' /\ ActionOrder \subseteq ActionOrder'
      /\ ItemOrder \subseteq ItemOrder'
  BY OrdersGrow
<1> QED
  BY <1>1 DEF InLine, Sorted

LEMMA LineNext == IInv /\ [Next]_vars => InLine'
<1> SUFFICES ASSUME IInv, [Next]_vars PROVE InLine'
  OBVIOUS
<1> USE DEF busVars, mindVars, ioVars, gatewayVars, worldVars
<1>0. /\ TypeOK /\ TypeOK' /\ Traffic /\ InLine /\ WrittenOnce /\ written \in Seq(Msgs)
      /\ \A c \in Chats : Apart(Line(c), Order)
  BY TypeNext DEF IInv, TypeOK, InLine
<1>a. ASSUME UNCHANGED written
      PROVE  /\ Order' = Order /\ Order \subseteq Order' /\ ItemOrder' = ItemOrder
             /\ ActionOrder' = ActionOrder /\ TextOrder' = TextOrder
  <2>1. Order' = Order
    BY <1>a DEF Order, Known, Position
  <2> QED
    BY <2>1 DEF ItemOrder, ActionOrder, TextOrder
<1>b. \A i \in 1..6 : i = 1 \/ i = 2 \/ i = 3 \/ i = 4 \/ i = 5 \/ i = 6
  OBVIOUS
<1>c. ASSUME NEW m \in Msgs, IsNew(m)
      PROVE  Order \subseteq Order' /\ \A n \in Known : <<n, m>> \in Order'
  BY <1>0, <1>c, NewIsLast
\* What is in the line, and in which queue it stands.
<1>q. /\ Range(inbound) \subseteq Item /\ Range(userFeed) \subseteq Item
      /\ Range(stimuli) \subseteq Item /\ Range(actions) \subseteq Action
      /\ inbound \in Seq(Item) /\ userFeed \in Seq(Item) /\ stimuli \in Seq(Item)
      /\ actions \in Seq(Action)
      /\ \A c \in Chats : /\ Range(outbound[c]) \subseteq Text /\ Range(sent[c]) \subseteq Text
                          /\ outbound[c] \in Seq(Text) /\ sent[c] \in Seq(Text)
  <2>1. /\ inbound \in Seq(Item) /\ userFeed \in Seq(Item) /\ stimuli \in Seq(Item)
        /\ actions \in Seq(Action)
        /\ \A c \in Chats : outbound[c] \in Seq(Text) /\ sent[c] \in Seq(Text)
    BY <1>0 DEF TypeOK
  <2> QED
    BY <2>1, QueueRange
\* A new message goes to the end of the line.
<1>d. ASSUME NEW m \in Msgs, IsNew(m), UNCHANGED <<sent, outbound, actions, thinking, stimuli>>,
             \/ Range(inbound') = Range(inbound) \cup {Wrote(m)} /\ UNCHANGED userFeed
             \/ Range(userFeed') = Range(userFeed) \cup {Wrote(m)} /\ UNCHANGED inbound
      PROVE  \A c \in Chats : Apart(Line(c)', Order')
  <2> SUFFICES ASSUME NEW c \in Chats PROVE Apart(Line(c)', Order')
    OBVIOUS
  <2>1. \A i \in 1..5 : Line(c)'[i] = Line(c)[i]
    <3>1. /\ Line(c)'[1] = Line(c)[1] /\ Line(c)'[2] = Line(c)[2] /\ Line(c)'[3] = Line(c)[3]
          /\ Line(c)'[4] = Line(c)[4] /\ Line(c)'[5] = Line(c)[5]
      BY <1>d DEF Line, Thought
    <3>2. \A i \in 1..5 : i = 1 \/ i = 2 \/ i = 3 \/ i = 4 \/ i = 5
      OBVIOUS
    <3> QED
      BY <3>1, <3>2
  <2>2. Wrote(m).text.of = m
    BY DEF Wrote, Own
  <2>3. Line(c)'[6] \subseteq Line(c)[6] \cup {m}
    <3>1. ItemsOf(userFeed') \cup ItemsOf(inbound')
            \subseteq ItemsOf(userFeed) \cup ItemsOf(inbound) \cup {m}
      <4>1. CASE Range(inbound') = Range(inbound) \cup {Wrote(m)} /\ UNCHANGED userFeed
        <5>1. ItemsOf(inbound') \subseteq ItemsOf(inbound) \cup {m}
          BY <2>2, <4>1, PartsOf
        <5> QED
          BY <4>1, <5>1
      <4>2. CASE Range(userFeed') = Range(userFeed) \cup {Wrote(m)} /\ UNCHANGED inbound
        <5>1. ItemsOf(userFeed') \subseteq ItemsOf(userFeed) \cup {m}
          BY <2>2, <4>2, PartsOf
        <5> QED
          BY <4>2, <5>1
      <4> QED
        BY <1>d, <4>1, <4>2
    <3> QED
      BY <3>1 DEF Line
  <2>4. \A i \in 1..5 : \A n \in Line(c)[i] : <<n, m>> \in Order'
    BY <1>0, <1>c, <1>d, LineParts
  <2> QED
    BY <1>0, <1>c, <1>d, <2>1, <2>3, <2>4, ApartKept
\* What is new in the queue of an own message comes last.
<1>e. ASSUME NEW m \in Msgs, IsNew(m)
      PROVE  /\ \A x \in Range(inbound) : <<x, Wrote(m)>> \in ItemOrder'
             /\ \A x \in Range(userFeed) : <<x, Wrote(m)>> \in ItemOrder'
  <2>1. Wrote(m) \in Item /\ Wrote(m).text.of = m
    BY ItemTypes DEF Wrote, Own
  <2>2. PICK c \in Chats : TRUE
    BY MessagesAssumption
  <2>3. ItemsOf(userFeed) \subseteq Known /\ ItemsOf(inbound) \subseteq Known
    <3>1. Line(c)[6] \subseteq Known
      BY <1>0, LineParts
    <3> QED
      BY <3>1 DEF Line
  <2>4. \A x \in Range(userFeed) \cup Range(inbound) : x.text.depth = 0 => x.text.of \in Known
    BY <2>3 DEF ItemsOf
  <2> QED
    BY <1>c, <1>e, <1>q, <2>1, <2>4 DEF ItemOrder
<1>f. ASSUME NEW m \in Msgs, IsNew(m)
      PROVE  /\ Sorted(Append(inbound, Wrote(m)), ItemOrder')
             /\ Sorted(Append(userFeed, Wrote(m)), ItemOrder')
  <2>1. inbound \in Seq(Item) /\ userFeed \in Seq(Item) /\ Wrote(m) \in Item
    BY <1>0, ItemTypes DEF TypeOK
  <2>2. ItemOrder \subseteq ItemOrder'
    BY <1>c, <1>f, OrdersGrow
  <2>3. Sorted(inbound, ItemOrder') /\ Sorted(userFeed, ItemOrder')
    BY <1>0, <2>2, SortedGrows DEF InLine
  <2> QED
    BY <1>e, <1>f, <2>1, <2>3, SortedQueue
<1>1. ASSUME NEW m \in Msgs, ChannelMessage(m) PROVE InLine'
  <2>1. IsNew(m) /\ inbound' = Append(inbound, Wrote(m))
        /\ UNCHANGED <<sent, outbound, actions, thinking, stimuli, userFeed>>
    BY <1>1 DEF ChannelMessage, PublishInbound
  <2>2. Range(inbound') = Range(inbound) \cup {Wrote(m)}
    BY <1>0, <2>1, ItemTypes, QueuesGrow
  <2>3. Sorted(inbound, ItemOrder)'
    BY <1>f, <2>1
  <2>4. \A c \in Chats : Apart(Line(c)', Order')
    BY <1>d, <2>1, <2>2
  <2> QED
    BY <1>0, <1>c, <2>1, <2>3, <2>4, UntouchedInLine DEF InLine
<1>2. ASSUME NEW m \in Msgs, GatewayMessage(m) PROVE InLine'
  <2>1. IsNew(m) /\ inbound' = Append(inbound, Wrote(m))
        /\ UNCHANGED <<sent, outbound, actions, thinking, stimuli, userFeed>>
    BY <1>2 DEF GatewayMessage, Ask, PublishInbound
  <2>2. Range(inbound') = Range(inbound) \cup {Wrote(m)}
    BY <1>0, <2>1, ItemTypes, QueuesGrow
  <2>3. Sorted(inbound, ItemOrder)'
    BY <1>f, <2>1
  <2>4. \A c \in Chats : Apart(Line(c)', Order')
    BY <1>d, <2>1, <2>2
  <2> QED
    BY <1>0, <1>c, <2>1, <2>3, <2>4, UntouchedInLine DEF InLine
<1>3. ASSUME NEW m \in Msgs, WebsocketMessage(m) PROVE InLine'
  <2>1. IsNew(m) /\ userFeed' = Append(userFeed, Wrote(m))
        /\ UNCHANGED <<sent, outbound, actions, thinking, stimuli, inbound>>
    BY <1>3 DEF WebsocketMessage, PublishUserMessage
  <2>2. Range(userFeed') = Range(userFeed) \cup {Wrote(m)}
    BY <1>0, <2>1, ItemTypes, QueuesGrow
  <2>3. Sorted(userFeed, ItemOrder)'
    BY <1>f, <2>1
  <2>4. \A c \in Chats : Apart(Line(c)', Order')
    BY <1>d, <2>1, <2>2
  <2> QED
    BY <1>0, <1>c, <2>1, <2>3, <2>4, UntouchedInLine DEF InLine
\* A step that changes none of the parts of the line.
<1>g. ASSUME UNCHANGED <<written, sent, outbound, actions, thinking, stimuli, userFeed, inbound>>
      PROVE  InLine'
  <2>1. Order \subseteq Order'
    BY <1>a, <1>g
  <2>2. \A c \in Chats : Line(c)' = Line(c)
    BY <1>g DEF Line, Thought
  <2>3. \A c \in Chats : Apart(Line(c)', Order')
    BY <1>0, <2>1, <2>2 DEF Apart
  <2> QED
    BY <1>0, <1>g, <2>1, <2>3, UntouchedInLine DEF InLine
<1>4. ASSUME NEW c \in Chats, NEW t \in Range(sent[c]), Echo(c, t) PROVE InLine'
  <2>1. inbound' = Append(inbound, Echoed(c, t))
        /\ UNCHANGED <<written, sent, outbound, actions, thinking, stimuli, userFeed>>
    BY <1>4 DEF Echo, PublishInbound
  <2>2. t \in Text /\ t.depth # 0
    <3>1. t \in Text
      BY <1>q
    <3>2. t \in RepliesFor(c) => t.depth = 1
      BY <1>0, AnswerFacts DEF RepliesFor
    <3>3. t.depth = 1 \/ t.depth > 1
      BY <1>0, <3>2 DEF Traffic
    <3> QED
      BY <3>1, <3>3
  <2>3. Echoed(c, t).text = t /\ Echoed(c, t) \in Item
    BY <2>2, ItemTypes DEF Echoed
  <2>4. Range(inbound') = Range(inbound) \cup {Echoed(c, t)}
    BY <1>0, <2>1, <2>3, QueuesGrow
  <2>5. Order' = Order /\ Order \subseteq Order' /\ ItemOrder' = ItemOrder
    BY <1>a, <2>1
  <2>6. Sorted(inbound, ItemOrder)'
    <3>1. inbound \in Seq(Item) /\ Sorted(inbound, ItemOrder)
      BY <1>0 DEF TypeOK, InLine
    <3>2. \A x \in Range(inbound) : <<x, Echoed(c, t)>> \in ItemOrder
      BY <2>2, <2>3, <3>1, QueueRange DEF ItemOrder
    <3>3. Sorted(Append(inbound, Echoed(c, t)), ItemOrder)
      BY <2>3, <3>1, <3>2, SortedQueue
    <3> QED
      BY <2>1, <2>5, <3>3
  <2>7. \A d \in Chats : Apart(Line(d)', Order')
    <3> SUFFICES ASSUME NEW d \in Chats PROVE Apart(Line(d)', Order')
      OBVIOUS
    <3>1. ItemsOf(inbound') \subseteq ItemsOf(inbound)
      BY <2>2, <2>3, <2>4, PartsOf
    <3>2. /\ Line(d)'[1] = Line(d)[1] /\ Line(d)'[2] = Line(d)[2] /\ Line(d)'[3] = Line(d)[3]
          /\ Line(d)'[4] = Line(d)[4] /\ Line(d)'[5] = Line(d)[5]
          /\ Line(d)'[6] \subseteq Line(d)[6]
      BY <2>1, <3>1 DEF Line, Thought
    <3>3. \A i \in 1..6 : Line(d)'[i] \subseteq Line(d)[i]
      BY <1>b, <3>2
    <3> QED
      BY <1>0, <2>5, <3>3, ApartKept
  <2> QED
    BY <1>0, <2>1, <2>5, <2>6, <2>7, UntouchedInLine DEF InLine
<1>6. ASSUME NEW c \in Chats, Dispatch(c) PROVE InLine'
  <2>0. PICK t : t = Head(outbound[c])
    OBVIOUS
  <2>1. /\ outbound[c] \in Seq(Text) /\ sent[c] \in Seq(Text) /\ outbound[c] # <<>>
        /\ Sorted(outbound[c], TextOrder) /\ Sorted(sent[c], TextOrder)
    BY <1>0, <1>6 DEF Dispatch, TypeOK, InLine
  <2>2. /\ t \in Range(outbound[c]) /\ t \in Text
        /\ Range(Tail(outbound[c])) \subseteq Range(outbound[c])
        /\ Range(Append(sent[c], t)) = Range(sent[c]) \cup {t}
    BY <2>0, <2>1, QueueRange, QueueShape
  <2>3. Sorted(Tail(outbound[c]), TextOrder)
        /\ \A u \in Range(Tail(outbound[c])) : <<t, u>> \in TextOrder
    BY <2>0, <2>1, SortedQueue
  <2>4. /\ sent'[c] = Append(sent[c], t) /\ outbound'[c] = Tail(outbound[c])
        /\ \A d \in Chats \ {c} : sent'[d] = sent[d] /\ outbound'[d] = outbound[d]
        /\ UNCHANGED <<written, inbound, userFeed, stimuli, thinking, actions>>
    BY <1>0, <1>6, <2>0 DEF Dispatch, TypeOK
  <2>5. Order' = Order /\ TextOrder' = TextOrder /\ Order \subseteq Order'
    BY <1>a, <2>4
  <2>6. t.depth = 1 => t.of \in Line(c)[2]
    BY <2>2 DEF Line, TextsOf
  <2>7. \A u \in Range(sent[c]) : <<u, t>> \in TextOrder
    <3>1. \A u \in Range(sent[c]) : u \in Text /\ (u.depth = 1 => u.of \in Line(c)[1])
      BY <1>q DEF Line, TextsOf
    <3>2. \A u \in Range(sent[c]) : u.depth = 1 /\ t.depth = 1 => <<u.of, t.of>> \in Order
      BY <1>0, <2>6, <3>1 DEF Apart
    <3> QED
      BY <2>2, <3>1, <3>2 DEF TextOrder
  <2>8. Sorted(Append(sent[c], t), TextOrder)
    BY <2>1, <2>2, <2>7, SortedQueue
  <2>9. \A d \in Chats : Sorted(outbound[d], TextOrder)' /\ Sorted(sent[d], TextOrder)'
    BY <1>0, <2>3, <2>4, <2>5, <2>8 DEF InLine
  <2>10. Apart(Line(c)', Order')
    <3>1. /\ Line(c)'[3] = Line(c)[3] /\ Line(c)'[4] = Line(c)[4] /\ Line(c)'[5] = Line(c)[5]
          /\ Line(c)'[6] = Line(c)[6]
      BY <2>4 DEF Line, Thought
    <3>2. /\ Line(c)'[1] = TextsOf(sent'[c]) /\ Line(c)[1] = TextsOf(sent[c])
          /\ Line(c)'[2] = TextsOf(outbound'[c]) /\ Line(c)[2] = TextsOf(outbound[c])
      BY DEF Line
    <3>3. Line(c)'[1] \subseteq Line(c)[1] \cup IF t.depth = 1 THEN {t.of} ELSE {}
      <4>1. Range(sent'[c]) \subseteq Range(sent[c]) \cup {t}
        BY <2>2, <2>4
      <4>2. TextsOf(sent'[c]) \subseteq TextsOf(sent[c]) \cup IF t.depth = 1 THEN {t.of} ELSE {}
        BY <4>1, TextsGrow
      <4> QED
        BY <3>2, <4>2
    <3>4. Line(c)'[2] \subseteq Line(c)[2]
      BY <2>2, <2>4, <3>2, FewerParts
    <3>5. CASE t.depth = 1
      <4>1. \A n \in Line(c)'[2] : <<t.of, n>> \in Order
        <5>1. \A u \in Range(Tail(outbound[c])) : u.depth = 1 => <<t.of, u.of>> \in Order
          BY <2>3, <3>5 DEF TextOrder
        <5> QED
          BY <2>4, <3>2, <5>1 DEF TextsOf
      <4>2. \A i \in (1..6) \ {1} : Line(c)'[i] \subseteq Line(c)[i]
        BY <1>b, <3>1, <3>4
      <4> QED
        BY <1>0, <2>5, <2>6, <3>3, <3>5, <4>1, <4>2, ApartKept
    <3>6. CASE t.depth # 1
      <4>1. \A i \in 1..6 : Line(c)'[i] \subseteq Line(c)[i]
        BY <1>b, <3>1, <3>3, <3>4, <3>6
      <4> QED
        BY <1>0, <2>5, <4>1, ApartKept
    <3> QED
      BY <3>5, <3>6
  <2>11. \A d \in Chats \ {c} : Apart(Line(d)', Order')
    <3>1. \A d \in Chats \ {c} : Line(d)' = Line(d)
      BY <2>4 DEF Line, Thought
    <3> QED
      BY <1>0, <2>5, <3>1
  <2> QED
    BY <1>0, <2>4, <2>5, <2>9, <2>10, <2>11, UntouchedInLine DEF InLine
<1>7. CASE CallbackStep
  BY <1>7, <1>g DEF CallbackStep, Callback
\* A message that the mind perceives goes from the end of the line to the stimuli.
<1>h. ASSUME NEW x \in Item, stimuli' = Append(stimuli, x),
             UNCHANGED <<written, sent, outbound, actions, thinking>>,
             x.text.depth = 0 =>
               /\ x.text.of \in ItemsOf(userFeed) \cup ItemsOf(inbound)
               /\ \A n \in ItemsOf(userFeed') \cup ItemsOf(inbound') : <<x.text.of, n>> \in Order,
             ItemsOf(userFeed') \subseteq ItemsOf(userFeed),
             ItemsOf(inbound') \subseteq ItemsOf(inbound)
      PROVE  /\ Sorted(stimuli', ItemOrder)
             /\ \A c \in Chats : Apart(Line(c)', Order')
  <2> DEFINE m == x.text.of
  <2>1. Order' = Order /\ Order \subseteq Order'
    BY <1>a, <1>h
  <2>2. ItemsOf(stimuli') \subseteq ItemsOf(stimuli) \cup IF x.text.depth = 0 THEN {m} ELSE {}
    <3>1. Range(stimuli') = Range(stimuli) \cup {x}
      BY <1>0, <1>h, QueuesGrow
    <3> QED
      BY <3>1, PartsOf
  <2>3. \A c \in Chats :
          /\ Line(c)'[1] = Line(c)[1] /\ Line(c)'[2] = Line(c)[2] /\ Line(c)'[3] = Line(c)[3]
          /\ Line(c)'[4] = Line(c)[4] /\ Line(c)'[6] \subseteq Line(c)[6]
    BY <1>h DEF Line, Thought
  <2>4. \A c \in Chats : /\ Line(c)[5] = ItemsOf(stimuli) /\ Line(c)'[5] = ItemsOf(stimuli')
                         /\ Line(c)[6] = ItemsOf(userFeed) \cup ItemsOf(inbound)
                         /\ Line(c)'[6] = ItemsOf(userFeed') \cup ItemsOf(inbound')
    BY DEF Line
  <2>5. Sorted(stimuli', ItemOrder)
    <3>1. Dashboard \in Chats /\ Apart(Line(Dashboard), Order)
      BY <1>0, MessagesAssumption
    <3>2. \A y \in Range(stimuli) : y.text.depth = 0 => y.text.of \in Line(Dashboard)[5]
      BY <2>4, <3>1 DEF ItemsOf
    <3>3. x.text.depth = 0 => x.text.of \in Line(Dashboard)[6]
      BY <1>h, <2>4, <3>1
    <3>4. \A y \in Range(stimuli) :
            y.text.depth = 0 /\ x.text.depth = 0 => <<y.text.of, x.text.of>> \in Order
      BY <3>1, <3>2, <3>3 DEF Apart
    <3>5. \A y \in Range(stimuli) : <<y, x>> \in ItemOrder
      BY <1>h, <1>q, <3>4 DEF ItemOrder
    <3> QED
      BY <1>0, <1>h, <1>q, <3>5, SortedQueue DEF InLine
  <2>6. ASSUME NEW c \in Chats PROVE Apart(Line(c)', Order')
    <3>1. CASE x.text.depth = 0
      <4>1. m \in Line(c)[6] /\ Line(c)'[5] \subseteq Line(c)[5] \cup {m}
            /\ \A n \in Line(c)'[6] : <<m, n>> \in Order
        BY <1>h, <2>2, <2>4, <2>6, <3>1
      <4>2. \A i \in (1..6) \ {5} : Line(c)'[i] \subseteq Line(c)[i]
        BY <1>b, <2>3
      <4> HIDE DEF m
      <4> QED
        BY <1>0, <2>1, <4>1, <4>2, ApartKept
    <3>2. CASE x.text.depth # 0
      <4>1. \A i \in 1..6 : Line(c)'[i] \subseteq Line(c)[i]
        BY <1>b, <2>2, <2>3, <2>4, <3>2
      <4> QED
        BY <1>0, <2>1, <4>1, ApartKept
    <3> QED
      BY <3>1, <3>2
  <2> QED
    BY <2>5, <2>6
\* Messages of the bus and of the websocket do not overtake their like.
<1>i. /\ \A x \in Range(inbound), y \in Range(userFeed) :
           x.text.depth = 0 /\ y.text.depth = 0 =>
             <<x.text.of, y.text.of>> \in Order /\ <<y.text.of, x.text.of>> \in Order
      /\ \A y \in Range(userFeed) : y.text.depth = 0
  <2>1. ASSUME NEW x \in Range(inbound), x.text.depth = 0
        PROVE  x.text.of \in Known /\ Via[x.text.of] # "websocket"
    <3>1. ~(x.text.depth > 0)
      BY <2>1
    <3>2. PICK m \in Known : Via[m] # "websocket" /\ x = Wrote(m)
      BY <1>0, <3>1 DEF Traffic, BusItems
    <3> QED
      BY <1>0, <3>2, OwnFacts
  <2>2. ASSUME NEW y \in Range(userFeed)
        PROVE  y.text.of \in Known /\ Via[y.text.of] = "websocket" /\ y.text.depth = 0
    <3>1. PICK m \in Known : Via[m] = "websocket" /\ y = Wrote(m)
      BY <1>0 DEF Traffic, WebItems
    <3> QED
      BY <1>0, <3>1, OwnFacts
  <2> QED
    BY <2>1, <2>2 DEF Order, SameWay
<1>8. CASE InboundStep
  <2>0. PICK x : x = Head(inbound)
    OBVIOUS
  <2>1. /\ inbound' = Tail(inbound) /\ inbound # <<>> /\ Sorted(inbound, ItemOrder)
        /\ UNCHANGED <<written, sent, outbound, actions, thinking, userFeed>>
    BY <1>0, <1>8 DEF InboundStep, HearInbound, InLine
  <2>2. /\ x \in Range(inbound) /\ x \in Item /\ Range(inbound') \subseteq Range(inbound)
    BY <1>q, <2>0, <2>1, QueueRange, QueueShape
  <2>3. Sorted(inbound', ItemOrder) /\ \A y \in Range(inbound') : <<x, y>> \in ItemOrder
    BY <1>q, <2>0, <2>1, SortedQueue
  <2>4. Order' = Order /\ Order \subseteq Order' /\ ItemOrder' = ItemOrder
    BY <1>a, <2>1
  <2>5. ItemsOf(inbound') \subseteq ItemsOf(inbound) /\ ItemsOf(userFeed') = ItemsOf(userFeed)
    BY <2>1, <2>2, FewerParts
  <2>6. CASE stimuli' = stimuli
    <3>1. \A c \in Chats : Apart(Line(c)', Order')
      <4> SUFFICES ASSUME NEW c \in Chats PROVE Apart(Line(c)', Order')
        OBVIOUS
      <4>1. /\ Line(c)'[1] = Line(c)[1] /\ Line(c)'[2] = Line(c)[2] /\ Line(c)'[3] = Line(c)[3]
            /\ Line(c)'[4] = Line(c)[4] /\ Line(c)'[5] = Line(c)[5]
            /\ Line(c)'[6] \subseteq Line(c)[6]
        BY <2>1, <2>5, <2>6 DEF Line, Thought
      <4>2. \A i \in 1..6 : Line(c)'[i] \subseteq Line(c)[i]
        BY <1>b, <4>1
      <4> QED
        BY <1>0, <2>4, <4>2, ApartKept
    <3> QED
      BY <1>0, <2>1, <2>3, <2>4, <2>6, <3>1, UntouchedInLine DEF InLine
  <2>7. CASE stimuli' = Append(stimuli, x)
    <3>1. ASSUME x.text.depth = 0
          PROVE  /\ x.text.of \in ItemsOf(inbound)
                 /\ \A n \in ItemsOf(userFeed') \cup ItemsOf(inbound') : <<x.text.of, n>> \in Order
      <4>1. \A n \in ItemsOf(inbound') : <<x.text.of, n>> \in Order
        BY <2>3, <3>1 DEF ItemsOf, ItemOrder
      <4>2. \A n \in ItemsOf(userFeed') : <<x.text.of, n>> \in Order
        BY <1>i, <2>2, <2>5, <3>1 DEF ItemsOf
      <4>3. x.text.of \in ItemsOf(inbound)
        BY <2>2, <3>1 DEF ItemsOf
      <4> QED
        BY <4>1, <4>2, <4>3
    <3>2. Sorted(stimuli', ItemOrder) /\ \A c \in Chats : Apart(Line(c)', Order')
      BY <1>h, <2>1, <2>2, <2>5, <2>7, <3>1
    <3> QED
      BY <1>0, <2>1, <2>3, <2>4, <3>2, UntouchedInLine DEF InLine
  <2> QED
    BY <1>8, <2>0, <2>6, <2>7 DEF InboundStep, HearInbound, Perceive
<1>9. CASE UserMessageStep
  <2>0. PICK x : x = Head(userFeed)
    OBVIOUS
  <2>1. /\ userFeed' = Tail(userFeed) /\ userFeed # <<>> /\ Sorted(userFeed, ItemOrder)
        /\ UNCHANGED <<written, sent, outbound, actions, thinking, inbound>>
        /\ stimuli' = Append(stimuli, x)
    BY <1>0, <1>9, <2>0 DEF UserMessageStep, HearUserMessage, Perceive, InLine
  <2>2. /\ x \in Range(userFeed) /\ x \in Item /\ Range(userFeed') \subseteq Range(userFeed)
    BY <1>q, <2>0, <2>1, QueueRange, QueueShape
  <2>3. Sorted(userFeed', ItemOrder) /\ \A y \in Range(userFeed') : <<x, y>> \in ItemOrder
    BY <1>q, <2>0, <2>1, SortedQueue
  <2>4. Order' = Order /\ Order \subseteq Order' /\ ItemOrder' = ItemOrder
    BY <1>a, <2>1
  <2>5. ItemsOf(userFeed') \subseteq ItemsOf(userFeed) /\ ItemsOf(inbound') = ItemsOf(inbound)
    BY <2>1, <2>2, FewerParts
  <2>6. ASSUME x.text.depth = 0
        PROVE  /\ x.text.of \in ItemsOf(userFeed)
               /\ \A n \in ItemsOf(userFeed') \cup ItemsOf(inbound') : <<x.text.of, n>> \in Order
    <3>1. \A n \in ItemsOf(userFeed') : <<x.text.of, n>> \in Order
      BY <2>3, <2>6 DEF ItemsOf, ItemOrder
    <3>2. \A n \in ItemsOf(inbound') : <<x.text.of, n>> \in Order
      BY <1>i, <2>2, <2>5, <2>6 DEF ItemsOf
    <3>3. x.text.of \in ItemsOf(userFeed)
      BY <2>2, <2>6 DEF ItemsOf
    <3> QED
      BY <3>1, <3>2, <3>3
  <2>7. Sorted(stimuli', ItemOrder) /\ \A c \in Chats : Apart(Line(c)', Order')
    BY <1>h, <2>1, <2>2, <2>5, <2>6
  <2> QED
    BY <1>0, <2>1, <2>3, <2>4, <2>7, UntouchedInLine DEF InLine
<1>10. CASE TickStep
  <2>1. /\ UNCHANGED <<written, sent, outbound, actions, userFeed, inbound>>
        /\ stimuli' = <<>> /\ thinking = Nothing
        /\ (thinking' = Nothing \/ thinking' \in Range(stimuli))
    BY <1>0, <1>10, FocusFacts DEF TickStep, Tick, TypeOK
  <2>2. Order \subseteq Order'
    BY <1>a, <2>1
  <2>3. Sorted(stimuli, ItemOrder)' /\ ItemsOf(stimuli') = {}
    BY <2>1 DEF Sorted, ItemsOf, Range
  <2>4. \A c \in Chats : Apart(Line(c)', Order')
    <3> SUFFICES ASSUME NEW c \in Chats PROVE Apart(Line(c)', Order')
      OBVIOUS
    <3>1. /\ Line(c)'[1] = Line(c)[1] /\ Line(c)'[2] = Line(c)[2] /\ Line(c)'[3] = Line(c)[3]
          /\ Line(c)'[6] = Line(c)[6]
      BY <2>1 DEF Line
    <3>2. Line(c)'[5] = {} /\ Line(c)[5] = ItemsOf(stimuli) /\ Line(c)'[4] = Thought'
      BY <2>3 DEF Line
    <3>3. CASE thinking' = Nothing \/ thinking'.text.depth # 0
      <4>1. Line(c)'[4] = {}
        BY <3>2, <3>3 DEF Thought
      <4>2. \A i \in 1..6 : Line(c)'[i] \subseteq Line(c)[i]
        BY <1>b, <3>1, <3>2, <4>1
      <4> QED
        BY <1>0, <2>2, <4>2, ApartKept
    <3>4. CASE thinking' # Nothing /\ thinking'.text.depth = 0
      <4>1. PICK m : m = thinking'.text.of
        OBVIOUS
      <4>2. m \in Line(c)[5] /\ Line(c)'[4] = {m}
        BY <2>1, <3>2, <3>4, <4>1 DEF ItemsOf, Thought
      <4>3. \A i \in (1..6) \ {4} : Line(c)'[i] \subseteq Line(c)[i]
        BY <1>b, <3>1, <3>2
      <4>4. \A n \in Line(c)'[5] : <<m, n>> \in Order'
        BY <3>2
      <4> QED
        BY <1>0, <2>2, <4>2, <4>3, <4>4, ApartKept
    <3> QED
      BY <3>3, <3>4
  <2> QED
    BY <1>0, <2>1, <2>2, <2>3, <2>4, UntouchedInLine DEF InLine
<1>11. CASE AnswerStep
  <2>1. /\ UNCHANGED <<written, sent, outbound, stimuli, userFeed, inbound>>
        /\ thinking' = Nothing /\ thinking # Nothing /\ thinking \in Item
        /\ Sorted(actions, ActionOrder)
    BY <1>0, <1>11 DEF AnswerStep, Answer, TypeOK, InLine
  <2>2. PICK blank \in BOOLEAN : actions' = Append(actions, Response(thinking, blank))
    BY <1>11 DEF AnswerStep, Answer
  <2>3. PICK m, a : m = thinking.text.of /\ a = Response(thinking, blank)
    OBVIOUS
  <2>4. a \in Action /\ a.text.of = m /\ (a.text.depth = 1 <=> thinking.text.depth = 0)
    <3>1. thinking.text \in Text /\ thinking.text.depth \in Nat
      BY <2>1 DEF Item, Text
    <3>2. a.text.depth = thinking.text.depth + 1 /\ a.text.of = m
      BY <1>0, <2>3, <3>1, AnswerFacts DEF Response
    <3> QED
      BY <2>1, <2>3, <3>1, <3>2, ItemTypes
  <2>5. Range(actions') = Range(actions) \cup {a}
    BY <1>0, <2>2, <2>3, <2>4, QueuesGrow
  <2>6. Order' = Order /\ Order \subseteq Order' /\ ActionOrder' = ActionOrder
    BY <1>a, <2>1
  <2>7. \A c \in Chats : /\ Line(c)[4] = Thought /\ Line(c)[3] = ActionsOf(actions)
                         /\ Line(c)'[3] = ActionsOf(actions')
    BY DEF Line
  <2>8. a.text.depth = 1 => Thought = {m}
    BY <2>1, <2>3, <2>4 DEF Thought
  <2>9. Sorted(actions', ActionOrder)
    <3>1. Dashboard \in Chats /\ Apart(Line(Dashboard), Order)
      BY <1>0, MessagesAssumption
    <3>2. \A b \in Range(actions) : b.text.depth = 1 => b.text.of \in Line(Dashboard)[3]
      BY <2>7, <3>1 DEF ActionsOf
    <3>3. \A b \in Range(actions) :
            b.text.depth = 1 /\ a.text.depth = 1 => <<b.text.of, m>> \in Order
      BY <2>7, <2>8, <3>1, <3>2 DEF Apart
    <3>4. \A b \in Range(actions) : <<b, a>> \in ActionOrder
      BY <1>q, <2>4, <3>3 DEF ActionOrder
    <3> QED
      BY <1>q, <2>1, <2>2, <2>3, <2>4, <3>4, SortedQueue
  <2>10. \A c \in Chats : Apart(Line(c)', Order')
    <3> SUFFICES ASSUME NEW c \in Chats PROVE Apart(Line(c)', Order')
      OBVIOUS
    <3>1. /\ Line(c)'[1] = Line(c)[1] /\ Line(c)'[2] = Line(c)[2]
          /\ Line(c)'[5] = Line(c)[5] /\ Line(c)'[6] = Line(c)[6]
      BY <2>1 DEF Line
    <3>2. Line(c)'[4] = {}
      BY <2>1 DEF Line, Thought
    <3>3. Line(c)'[3] \subseteq Line(c)[3] \cup IF a.text.depth = 1 THEN {m} ELSE {}
      BY <2>4, <2>5, <2>7, PartsOf
    <3>4. \A i \in (1..6) \ {3} : Line(c)'[i] \subseteq Line(c)[i]
      BY <1>b, <3>1, <3>2
    <3>5. CASE a.text.depth = 1
      <4>1. m \in Line(c)[4] /\ Line(c)'[3] \subseteq Line(c)[3] \cup {m}
        BY <2>7, <2>8, <3>3, <3>5
      <4>2. \A n \in Line(c)'[4] : <<m, n>> \in Order'
        BY <3>2
      <4> QED
        BY <1>0, <2>6, <3>4, <4>1, <4>2, ApartKept
    <3>6. CASE a.text.depth # 1
      <4>1. Line(c)'[3] \subseteq Line(c)[3]
        BY <3>3, <3>6
      <4>2. \A i \in 1..6 : Line(c)'[i] \subseteq Line(c)[i]
        BY <3>4, <4>1
      <4> QED
        BY <1>0, <2>6, <4>2, ApartKept
    <3> QED
      BY <3>5, <3>6
  <2> QED
    BY <1>0, <2>1, <2>6, <2>9, <2>10, UntouchedInLine DEF InLine
<1>12. CASE ActStep
  <2>0. PICK a, m : a = Head(actions) /\ m = a.text.of
    OBVIOUS
  <2>1. /\ UNCHANGED <<written, sent, stimuli, thinking, userFeed, inbound>>
        /\ actions' = Tail(actions) /\ actions # <<>> /\ Sorted(actions, ActionOrder)
    BY <1>0, <1>12 DEF ActStep, Act, InLine
  <2>2. a \in Range(actions) /\ a \in Action /\ Range(actions') \subseteq Range(actions)
    BY <1>q, <2>0, <2>1, QueueRange, QueueShape
  <2>3. Sorted(actions', ActionOrder) /\ \A b \in Range(actions') : <<a, b>> \in ActionOrder
    BY <1>q, <2>0, <2>1, SortedQueue
  <2>4. /\ Order' = Order /\ Order \subseteq Order' /\ ActionOrder' = ActionOrder
        /\ TextOrder' = TextOrder
    BY <1>a, <2>1
  <2>5. a.text \in Text
    BY <2>2 DEF Action
  <2>6. \A c \in Chats : outbound'[c] = outbound[c] \/ outbound'[c] = Append(outbound[c], a.text)
    <3>1. CASE UNCHANGED <<recent, outbound, callbacks, queues>>
      BY <3>1
    <3>2. CASE PublishOutbound(a.scope, Targets(a.scope, a.source), a.text)
      BY <3>2 DEF PublishOutbound
    <3> QED
      BY <1>12, <2>0, <3>1, <3>2 DEF ActStep, Act
  <2>7. \A c \in Chats : /\ Line(c)[2] = TextsOf(outbound[c]) /\ Line(c)'[2] = TextsOf(outbound'[c])
                         /\ Line(c)[3] = ActionsOf(actions) /\ Line(c)'[3] = ActionsOf(actions')
    BY DEF Line
  <2>8. ActionsOf(actions') \subseteq ActionsOf(actions)
    BY <2>2, FewerParts
  <2>9. ASSUME a.text.depth = 1
        PROVE  m \in ActionsOf(actions) /\ \A n \in ActionsOf(actions') : <<m, n>> \in Order
    <3>1. m \in ActionsOf(actions)
      BY <2>0, <2>2, <2>9 DEF ActionsOf
    <3>2. \A b \in Range(actions') : b.text.depth = 1 => <<m, b.text.of>> \in Order
      BY <2>0, <2>3, <2>9 DEF ActionOrder
    <3> QED
      BY <3>1, <3>2 DEF ActionsOf
  <2>10. \A c \in Chats : Sorted(outbound'[c], TextOrder)
    <3> SUFFICES ASSUME NEW c \in Chats, outbound'[c] = Append(outbound[c], a.text)
                 PROVE  Sorted(outbound'[c], TextOrder)
      BY <1>0, <2>6 DEF InLine
    <3>1. outbound[c] \in Seq(Text) /\ Sorted(outbound[c], TextOrder)
          /\ Range(outbound[c]) \subseteq Text
      BY <1>0, <1>q DEF InLine
    <3>2. \A t \in Range(outbound[c]) : t.depth = 1 => t.of \in Line(c)[2]
      BY <2>7 DEF TextsOf
    <3>3. \A t \in Range(outbound[c]) :
            t.depth = 1 /\ a.text.depth = 1 => <<t.of, m>> \in Order
      BY <1>0, <2>7, <2>9, <3>2 DEF Apart
    <3>4. \A t \in Range(outbound[c]) : <<t, a.text>> \in TextOrder
      BY <2>0, <2>5, <3>1, <3>3 DEF TextOrder
    <3> QED
      BY <2>5, <3>1, <3>4, SortedQueue
  <2>11. \A c \in Chats : Apart(Line(c)', Order')
    <3> SUFFICES ASSUME NEW c \in Chats PROVE Apart(Line(c)', Order')
      OBVIOUS
    <3>1. /\ Line(c)'[1] = Line(c)[1] /\ Line(c)'[4] = Line(c)[4]
          /\ Line(c)'[5] = Line(c)[5] /\ Line(c)'[6] = Line(c)[6]
      BY <2>1 DEF Line, Thought
    <3>2. Line(c)'[2] \subseteq Line(c)[2] \cup IF a.text.depth = 1 THEN {m} ELSE {}
      <4>1. Range(outbound'[c]) \subseteq Range(outbound[c]) \cup {a.text}
        <5>1. Range(Append(outbound[c], a.text)) = Range(outbound[c]) \cup {a.text}
          BY <1>0, <2>5, QueuesGrow
        <5> QED
          BY <2>6, <5>1
      <4> QED
        BY <2>0, <2>7, <4>1, TextsGrow
    <3>3. \A i \in (1..6) \ {2} : Line(c)'[i] \subseteq Line(c)[i]
      BY <1>b, <2>7, <2>8, <3>1
    <3>4. CASE a.text.depth = 1
      <4>1. \A n \in Line(c)'[3] : <<m, n>> \in Order'
        BY <2>4, <2>7, <2>9, <3>4
      <4>2. m \in Line(c)[3] /\ Line(c)'[2] \subseteq Line(c)[2] \cup {m}
        BY <2>7, <2>9, <3>2, <3>4
      <4> QED
        BY <1>0, <2>4, <3>3, <4>1, <4>2, ApartKept
    <3>5. CASE a.text.depth # 1
      <4>1. Line(c)'[2] \subseteq Line(c)[2]
        BY <3>2, <3>5
      <4>2. \A i \in 1..6 : Line(c)'[i] \subseteq Line(c)[i]
        BY <3>3, <4>1
      <4> QED
        BY <1>0, <2>4, <4>2, ApartKept
    <3> QED
      BY <3>4, <3>5
  <2> QED
    BY <1>0, <2>1, <2>3, <2>4, <2>10, <2>11, UntouchedInLine DEF InLine
<1>13. ASSUME NEW r \in Requests, RequestStep(r) PROVE InLine'
  BY <1>13, <1>g DEF RequestStep, TakeReply, TimeOut
<1>14. CASE UNCHANGED vars
  BY <1>14, <1>g DEF vars
<1> QED
  BY <1>1, <1>2, <1>3, <1>4, <1>6, <1>7, <1>8, <1>9, <1>10, <1>11, <1>12, <1>13, <1>14
     DEF Next

LEMMA OnceNext == IInv /\ [Next]_vars => WrittenOnce'
<1> SUFFICES ASSUME IInv, [Next]_vars PROVE WrittenOnce'
  OBVIOUS
<1>1. CASE UNCHANGED written
  BY <1>1 DEF IInv, WrittenOnce
<1>2. ASSUME NEW m \in Msgs, IsNew(m) PROVE WrittenOnce'
  BY <1>2, NewIsLast DEF IInv, TypeOK
<1>3. UNCHANGED written \/ \E m \in Msgs : IsNew(m)
  BY DEF Next, vars, worldVars, ChannelMessage, GatewayMessage, WebsocketMessage, Echo,
         Dispatch, CallbackStep, InboundStep, UserMessageStep, TickStep,
         AnswerStep, ActStep, RequestStep
<1> QED
  BY <1>1, <1>2, <1>3

LEMMA IInvInit == Init => IInv
<1> SUFFICES ASSUME Init PROVE IInv
  OBVIOUS
<1> USE DEF Init, BusInit, MindInit, IOInit, GatewayInit
<1>1. TypeOK
  BY TypeInit
<1>2. Range(<<>>) = {} /\ \A R : Sorted(<<>>, R)
  BY DEF Range, Sorted
<1>3. WrittenOnce
  BY DEF WrittenOnce
<1>4. Traffic
  BY <1>2 DEF Traffic
<1>5. \A c \in Chats : Apart(Line(c), Order)
  <2> SUFFICES ASSUME NEW c \in Chats PROVE Apart(Line(c), Order)
    OBVIOUS
  <2>1. Line(c) = <<{}, {}, {}, {}, {}, {}>>
    BY <1>2 DEF Line, Thought, TextsOf, ActionsOf, ItemsOf
  <2>2. \A i \in 1..6 : Line(c)[i] = {}
    BY <2>1
  <2> QED
    BY <2>2 DEF Apart
<1>6. InLine
  BY <1>2, <1>5 DEF InLine
<1> QED
  BY <1>1, <1>3, <1>4, <1>6 DEF IInv

\* The invariant behind the theorems about replies.
THEOREM Invariance == Spec => []IInv
<1>1. IInv /\ [Next]_vars => IInv'
  BY TypeNext, OnceNext, TrafficNext, LineNext DEF IInv
<1> QED
  BY <1>1, IInvInit, PTL DEF Spec

-----------------------------------------------------------------------------
(* Where replies are sent, and in which order *)

\* Nobody's scope is a chat that nobody in it wrote from.
LEMMA ReachOf ==
  ASSUME TypeOK, NEW m \in Known
  PROVE  Reach(ScopeOf(m)) \subseteq MappedTo(ScopeOf(m)) \cup ChatsOf(ScopeOf(m))
<1>1. m \in Msgs /\ ChatOf[m] \in ChatsOf(ScopeOf(m))
  BY OwnFacts
<1>2. ScopeOf(m) \in Chats => ScopeOf(m) = ChatOf[m]
  BY <1>1, MessagesAssumption DEF ScopeOf
<1> QED
  BY <1>1, <1>2 DEF Reach

\* A reply to a message is only sent to chats that are linked to the user of this
\* message, or that this user wrote from, and to the dashboard.
THEOREM ScopeIsolation == Spec => []RepliesStayInScope
<1>1. IInv => RepliesStayInScope
  <2> SUFFICES ASSUME IInv, NEW c \in Chats, NEW t \in Range(sent[c]), t.depth = 1
               PROVE  LET s == ScopeOf(t.of) IN
                      c = Dashboard \/ c \in MappedTo(s) \/ c \in ChatsOf(s)
    BY DEF RepliesStayInScope
  <2>0. TypeOK /\ ~(t.depth > 1)
    BY DEF IInv
  <2>1. PICK m \in Known : t = Reply(Own(m)) /\ c \in {Dashboard} \cup Reach(ScopeOf(m))
    BY <2>0 DEF IInv, Traffic, RepliesFor
  <2>2. t.of = m
    BY <2>1 DEF Reply, Own
  <2> QED
    BY <2>0, <2>1, <2>2, ReachOf
<1> QED
  BY <1>1, Invariance, PTL

\* Of the agent's own words only those reach the mind that an echo has brought
\* back when the 20 seconds were over.
THEOREM LoopProtection == Spec => []NeverAnswersItself
<1>1. IInv => NeverAnswersItself
  <2> SUFFICES ASSUME IInv, NEW x \in Range(stimuli) \cup ({thinking} \ {Nothing}),
                      x.text.depth > 0
               PROVE  Fingerprint(x) \in tooLate
    BY DEF NeverAnswersItself
  <2>1. x \notin OwnItems
    <3>1. ASSUME x \in OwnItems PROVE FALSE
      <4>1. x.text.depth = 0
        BY <3>1, AnswerFacts DEF IInv
      <4>2. 0 > 0
        BY <4>1
      <4> QED
        BY <4>2
    <3> QED
      BY <3>1
  <2>2. x \in OwnItems \/ IsLate(x)
    BY DEF IInv, Traffic
  <2> QED
    BY <2>1, <2>2 DEF IsLate
<1> QED
  BY <1>1, Invariance, PTL

\* In every chat the replies appear once each, in the order of the messages.
THEOREM ReplyOrder == Spec => []RepliesInOrder
<1>1. IInv => RepliesInOrder
  <2> SUFFICES ASSUME IInv, NEW c \in Chats, NEW i \in DOMAIN sent[c], NEW j \in DOMAIN sent[c],
                      i < j, sent[c][i].depth = 1, sent[c][j].depth = 1,
                      Via[sent[c][i].of] = "websocket" <=> Via[sent[c][j].of] = "websocket"
               PROVE  Position(sent[c][i].of) < Position(sent[c][j].of)
    BY DEF RepliesInOrder
  <2>1. <<sent[c][i], sent[c][j]>> \in TextOrder
    BY DEF IInv, InLine, Sorted
  <2> QED
    BY <2>1 DEF TextOrder, Order, SameWay
<1> QED
  BY <1>1, Invariance, PTL

-----------------------------------------------------------------------------
(* What the clients of the gateway get *)

\* A stranger's message has the scope of its chat, which is no user.
LEMMA ScopeIsUser ==
  ASSUME NEW m \in Msgs, NEW u \in Users, ScopeOf(m) = u
  PROVE  UserOf[m] = u
BY MessagesAssumption DEF ScopeOf

Events == [scope : Scopes, text : Text, reply : BOOLEAN]

LEMMA PrivateNext == IInv /\ Private /\ [Next]_vars => Private'
<1> SUFFICES ASSUME IInv, Private, [Next]_vars PROVE Private'
  OBVIOUS
<1> USE DEF busVars, mindVars, ioVars, gatewayVars, worldVars
<1>0. /\ TypeOK /\ callbacks \in Seq(Events)
      /\ \A r \in Requests : feeds[r] \in Seq(Text)
  BY DEF IInv, TypeOK, Events
<1>a. ASSUME UNCHANGED <<feeds, answer>>,
             \A e \in Range(callbacks') :
               e \in Range(callbacks) \/ (e.reply /\ e.text.depth = 1 => e.scope = ScopeOf(e.text.of))
      PROVE  Private'
  BY <1>a DEF Private, AnswersStayWithUser
<1>b. ASSUME NEW item \in Item, PublishInbound(item), UNCHANGED <<feeds, answer>>
      PROVE  Private'
  <2> DEFINE e == Event(item.scope, item.text, FALSE)
  <2>1. e \in Events /\ e.reply = FALSE
    BY DEF Event, Item, Events
  <2>2. callbacks' = Append(callbacks, e)
    BY <1>b DEF PublishInbound
  <2> HIDE DEF e
  <2>3. Range(callbacks') = Range(callbacks) \cup {e}
    BY <1>0, <2>1, <2>2, QueueRange
  <2> QED
    BY <1>a, <1>b, <2>1, <2>3
<1>1. ASSUME NEW m \in Msgs, ChannelMessage(m) PROVE Private'
  BY <1>1, <1>b, ItemTypes DEF ChannelMessage
<1>2. ASSUME NEW m \in Msgs, GatewayMessage(m) PROVE Private'
  BY <1>2, <1>b, ItemTypes DEF GatewayMessage, Ask
<1>3. ASSUME NEW m \in Msgs, WebsocketMessage(m) PROVE Private'
  BY <1>3, <1>a DEF WebsocketMessage
<1>4. ASSUME NEW c \in Chats, NEW t \in Range(sent[c]), Echo(c, t) PROVE Private'
  <2>1. Echoed(c, t) \in Item
    BY <1>0, ItemTypes, QueueRange DEF TypeOK
  <2> QED
    BY <1>4, <1>b, <2>1 DEF Echo
<1>6. ASSUME NEW c \in Chats, Dispatch(c) PROVE Private'
  BY <1>6, <1>a DEF Dispatch
<1>7. CASE CallbackStep
  <2> DEFINE e == Head(callbacks)
  <2>1. /\ callbacks # <<>> /\ callbacks' = Tail(callbacks) /\ UNCHANGED answer
        /\ feeds' = [r \in Requests |->
                       IF e.reply /\ r \in subscribed /\ UserOf[r] = e.scope
                       THEN Append(feeds[r], e.text) ELSE feeds[r]]
    BY <1>7 DEF CallbackStep, Callback
  <2>2. /\ e \in Range(callbacks) /\ Range(callbacks') \subseteq Range(callbacks)
        /\ e \in Events
    BY <1>0, <2>1, QueueRange, QueueShape
  <2> HIDE DEF e
  <2>3. e.reply /\ e.text.depth = 1 => e.scope = ScopeOf(e.text.of)
    BY <2>2 DEF Private
  <2>4. ASSUME NEW r \in Requests, HasUser(r), NEW t \in Range(feeds'[r]), t.depth = 1
        PROVE  ScopeOf(t.of) = UserOf[r]
    <3>1. CASE feeds'[r] = feeds[r]
      BY <2>4, <3>1 DEF Private
    <3>2. CASE feeds'[r] = Append(feeds[r], e.text) /\ e.reply /\ UserOf[r] = e.scope
      <4>1. Range(feeds'[r]) = Range(feeds[r]) \cup {e.text}
        <5>1. feeds[r] \in Seq(Text) /\ e.text \in Text
          BY <1>0, <2>2 DEF Events
        <5> QED
          BY <3>2, <5>1, QueueRange
      <4> QED
        BY <2>3, <2>4, <3>2, <4>1 DEF Private
    <3> QED
      BY <2>1, <3>1, <3>2
  <2> QED
    BY <2>1, <2>2, <2>4 DEF Private, AnswersStayWithUser, HasUser
<1>8. CASE InboundStep
  BY <1>8, <1>a DEF InboundStep, HearInbound
<1>9. CASE UserMessageStep
  BY <1>9, <1>a DEF UserMessageStep, HearUserMessage
<1>10. CASE TickStep
  BY <1>10, <1>a DEF TickStep
<1>11. CASE AnswerStep
  BY <1>11, <1>a DEF AnswerStep
<1>12. CASE ActStep
  <2> DEFINE a == Head(actions)
             e == Event(a.scope, a.text, TRUE)
  <2>1. /\ UNCHANGED <<feeds, answer>> /\ actions # <<>> /\ actions \in Seq(Action)
        /\ (callbacks' = callbacks \/ callbacks' = Append(callbacks, e))
    BY <1>0, <1>12 DEF ActStep, Act, PublishOutbound, TypeOK
  <2>2. a \in Action /\ a \in Range(actions)
    BY <2>1, QueueRange, QueueShape
  <2>3. ASSUME a.text.depth = 1 PROVE a.scope = ScopeOf(a.text.of)
    <3>1. ~(a.text.depth > 1)
      BY <2>3
    <3>2. PICK m \in Known, blank \in BOOLEAN : a = Response(Wrote(m), blank)
      BY <2>2, <3>1 DEF IInv, Traffic, Responses
    <3>3. a.scope = Wrote(m).scope /\ a.text = Reply(Wrote(m).text)
      BY <3>2 DEF Response
    <3>4. Wrote(m).scope = ScopeOf(m) /\ Wrote(m).text = Own(m)
      BY <1>0, OwnFacts
    <3>5. Reply(Own(m)).of = m
      BY DEF Reply, Own
    <3> QED
      BY <3>3, <3>4, <3>5
  <2>4. e.scope = a.scope /\ e.text = a.text
    BY DEF Event
  <2>5. e \in Events /\ (e.text.depth = 1 => e.scope = ScopeOf(e.text.of))
    BY <2>2, <2>3, <2>4 DEF Event, Events, Action
  <2> HIDE DEF e
  <2>6. Range(callbacks') \subseteq Range(callbacks) \cup {e}
    <3>1. Range(Append(callbacks, e)) = Range(callbacks) \cup {e}
      BY <1>0, <2>5, QueueRange
    <3> QED
      BY <2>1, <3>1
  <2> QED
    BY <1>a, <2>1, <2>5, <2>6
<1>13. ASSUME NEW r \in Requests, RequestStep(r) PROVE Private'
  <2>1. CASE TimeOut(r)
    BY <1>13, <1>a, <2>1 DEF RequestStep, TimeOut
  <2>2. CASE TakeReply(r)
    <3>1. /\ answer' = [answer EXCEPT ![r] = Head(Pending(r))] /\ Pending(r) # <<>>
          /\ callbacks' = callbacks
          /\ feeds' = feeds \/ (HasUser(r) /\ feeds' = [feeds EXCEPT ![r] = Tail(@)])
      BY <2>2 DEF TakeReply
    <3>2. \A s \in Requests : HasUser(s) => Range(feeds'[s]) \subseteq Range(feeds[s])
      <4> SUFFICES ASSUME NEW s \in Requests, feeds'[s] # feeds[s], HasUser(s)
                   PROVE  Range(feeds'[s]) \subseteq Range(feeds[s])
        OBVIOUS
      <4>1. s = r /\ feeds'[s] = Tail(feeds[s]) /\ feeds[s] # <<>>
        BY <1>0, <3>1 DEF TypeOK, Pending
      <4> QED
        BY <1>0, <4>1, QueueRange
    <3>3. ASSUME NEW s \in Requests, HasUser(s), answer'[s] # NoText, answer'[s].depth = 1
          PROVE  UserOf[answer'[s].of] = UserOf[s]
      <4>1. CASE answer'[s] = answer[s]
        BY <3>3, <4>1 DEF Private, AnswersStayWithUser
      <4>2. CASE answer'[s] # answer[s]
        <5>1. s = r /\ answer'[s] = Head(feeds[s]) /\ feeds[s] # <<>>
          BY <1>0, <3>1, <3>3, <4>2 DEF TypeOK, Pending
        <5>2. Head(feeds[s]) \in Text /\ Head(feeds[s]) \in Range(feeds[s])
          BY <1>0, <5>1, QueueRange, QueueShape
        <5>3. ScopeOf(answer'[s].of) = UserOf[s] /\ answer'[s].of \in Msgs
          BY <3>3, <5>1, <5>2 DEF Private, Text
        <5> QED
          BY <3>3, <5>3, ScopeIsUser DEF HasUser
      <4> QED
        BY <4>1, <4>2
    <3> QED
      BY <3>1, <3>2, <3>3 DEF Private, AnswersStayWithUser, HasUser
  <2> QED
    BY <1>13, <2>1, <2>2 DEF RequestStep
<1>14. CASE UNCHANGED vars
  BY <1>14, <1>a DEF vars
<1> QED
  BY <1>1, <1>2, <1>3, <1>4, <1>6, <1>7, <1>8, <1>9, <1>10, <1>11, <1>12, <1>13, <1>14
     DEF Next

\* A client that is a known user is never handed a reply to somebody else.
THEOREM AnswersArePrivate == Spec => []AnswersStayWithUser
<1>1. Init => Private
  <2> SUFFICES ASSUME Init PROVE Private
    OBVIOUS
  <2>1. Range(<<>>) = {}
    BY DEF Range
  <2> QED
    BY <2>1 DEF Init, BusInit, GatewayInit, Private, AnswersStayWithUser
<1>2. Private => AnswersStayWithUser
  BY DEF Private
<1> QED
  BY <1>1, <1>2, PrivateNext, Invariance, PTL DEF Spec

LEMMA WaitersNext == TypeOK /\ WaitersHeld /\ [Next]_vars => WaitersHeld'
<1> SUFFICES ASSUME TypeOK, WaitersHeld, [Next]_vars PROVE WaitersHeld'
  OBVIOUS
<1> USE DEF busVars, mindVars, ioVars, gatewayVars, worldVars
<1>0. /\ waiters \in [Chats -> Requests \cup {NoWaiter}] /\ subscribed \in SUBSET Requests
      /\ phase \in [Requests -> {"new", "waiting", "answered", "timed out"}]
      /\ holds \in [Requests -> Requests \cup {NoWaiter}]
      /\ NoWaiter \notin Requests
  BY MessagesAssumption DEF TypeOK, NoWaiter, Requests
<1>a. /\ \A c \in Chats : waiters[c] # NoWaiter =>
           /\ waiters[c] \in Requests /\ phase[waiters[c]] = "waiting"
           /\ ChatOf[waiters[c]] = c /\ holds[waiters[c]] = waiters[c]
      /\ \A r \in subscribed : r \in Requests /\ phase[r] = "waiting"
  <2>1. \A c \in Chats : waiters[c] # NoWaiter => waiters[c] \in Requests
    BY <1>0
  <2>2. \A r \in subscribed : r \in Requests
    BY <1>0
  <2> QED
    BY <2>1, <2>2 DEF WaitersHeld
<1>1. CASE UNCHANGED <<waiters, subscribed, phase, holds>>
  BY <1>1 DEF WaitersHeld
<1>2. ASSUME NEW m \in Msgs, GatewayMessage(m) PROVE WaitersHeld'
  <2>1. m \in Requests /\ phase[m] = "new" /\ phase' = [phase EXCEPT ![m] = "waiting"]
        /\ ChatOf[m] \in Chats
    BY <1>2, ScopeTypes DEF GatewayMessage, Ask, Requests
  <2>2. CASE HasUser(m)
    <3>1. subscribed' = subscribed \cup {m} /\ UNCHANGED <<waiters, holds>>
      BY <1>2, <2>2 DEF GatewayMessage, Ask
    <3>2. /\ \A r \in Requests : phase[r] = "waiting" => phase'[r] = "waiting"
          /\ phase'[m] = "waiting"
      BY <1>0, <2>1
    <3>3. \A c \in Chats : waiters'[c] # NoWaiter =>
            /\ phase'[waiters'[c]] = "waiting" /\ ChatOf[waiters'[c]] = c
            /\ holds'[waiters'[c]] = waiters'[c]
      BY <1>a, <3>1, <3>2
    <3>4. \A r \in subscribed' : phase'[r] = "waiting"
      BY <1>a, <3>1, <3>2
    <3> QED
      BY <3>3, <3>4 DEF WaitersHeld
  <2>3. CASE ~HasUser(m)
    <3> DEFINE c == ChatOf[m]
               q == IF waiters[c] = NoWaiter THEN m ELSE waiters[c]
    <3>1. /\ waiters' = [waiters EXCEPT ![c] = q] /\ holds' = [holds EXCEPT ![m] = q]
          /\ subscribed' = subscribed
      BY <1>2, <2>3 DEF GatewayMessage, Ask
    <3>2. \A r \in Requests : phase[r] = "waiting" => r # m /\ phase'[r] = "waiting"
      BY <1>0, <2>1
    <3>3. \A d \in Chats : waiters'[d] # NoWaiter =>
            /\ phase'[waiters'[d]] = "waiting" /\ ChatOf[waiters'[d]] = d
            /\ holds'[waiters'[d]] = waiters'[d]
      <4> SUFFICES ASSUME NEW d \in Chats, waiters'[d] # NoWaiter
                   PROVE  /\ phase'[waiters'[d]] = "waiting" /\ ChatOf[waiters'[d]] = d
                          /\ holds'[waiters'[d]] = waiters'[d]
        OBVIOUS
      <4>a. /\ waiters'[d] = IF d = c THEN q ELSE waiters[d]
            /\ \A r \in Requests : holds'[r] = IF r = m THEN q ELSE holds[r]
        BY <1>0, <3>1
      <4>1. CASE waiters'[d] = waiters[d]
        <5>1. PICK w : w = waiters[d]
          OBVIOUS
        <5>2. w \in Requests /\ phase[w] = "waiting" /\ ChatOf[w] = d /\ holds[w] = w
          BY <1>a, <4>1, <5>1
        <5>3. phase'[w] = "waiting" /\ holds'[w] = w
          BY <3>2, <4>a, <5>2
        <5> QED
          BY <4>1, <5>1, <5>2, <5>3
      <4>2. CASE waiters'[d] # waiters[d]
        <5>1. d = c /\ q = m /\ waiters'[d] = m
          BY <4>2, <4>a
        <5>2. phase'[m] = "waiting" /\ holds'[m] = m
          BY <1>0, <2>1, <4>a, <5>1
        <5> QED
          BY <5>1, <5>2
      <4> QED
        BY <4>1, <4>2
    <3> QED
      BY <1>a, <3>1, <3>2, <3>3 DEF WaitersHeld
  <2> QED
    BY <2>2, <2>3
<1>3. ASSUME NEW r \in Requests, RequestStep(r) PROVE WaitersHeld'
  <2>1. /\ \E p \in {"answered", "timed out"} : phase' = [phase EXCEPT ![r] = p]
        /\ Finish(r) /\ holds' = holds
    BY <1>3 DEF RequestStep, TakeReply, TimeOut
  <2>2. /\ waiters' = [waiters EXCEPT ![ChatOf[r]] = NoWaiter] /\ subscribed' = subscribed \ {r}
        /\ \A s \in Requests \ {r} : phase'[s] = phase[s]
        /\ \A s \in Requests : holds'[s] = holds[s]
    BY <1>0, <2>1 DEF Finish
  <2>3. ASSUME NEW c \in Chats, waiters'[c] # NoWaiter
        PROVE  waiters'[c] = waiters[c] /\ waiters[c] # r /\ waiters[c] \in Requests
    BY <1>0, <1>a, <2>2, <2>3
  <2>4. \A c \in Chats : waiters'[c] # NoWaiter =>
          /\ phase'[waiters'[c]] = "waiting" /\ ChatOf[waiters'[c]] = c
          /\ holds'[waiters'[c]] = waiters'[c]
    BY <1>a, <2>2, <2>3
  <2>5. \A s \in subscribed' : phase'[s] = "waiting"
    BY <1>a, <2>2
  <2> QED
    BY <2>4, <2>5 DEF WaitersHeld
<1> QED
  BY <1>1, <1>2, <1>3
     DEF Next, vars, ChannelMessage, WebsocketMessage, Echo, Dispatch,
         CallbackStep, Callback, InboundStep, HearInbound, UserMessageStep, HearUserMessage,
         TickStep, AnswerStep, ActStep, Act

\* No waiter and no subscription outlives the requests that wait on it.
THEOREM WaitersEnd == Spec => []NoStaleWaiters
<1>1. Init => WaitersHeld
  BY DEF Init, BusInit, WaitersHeld
<1>2. TypeOK /\ WaitersHeld => NoStaleWaiters
  <2> SUFFICES ASSUME TypeOK, WaitersHeld PROVE NoStaleWaiters
    OBVIOUS
  <2>1. \A c \in Chats : waiters[c] # NoWaiter => waiters[c] \in Requests
    BY DEF TypeOK
  <2> QED
    BY <2>1 DEF WaitersHeld, NoStaleWaiters
<1> QED
  BY <1>1, <1>2, WaitersNext, TypeCorrect, PTL DEF Spec

-----------------------------------------------------------------------------
(* The saved conversation *)

\* The chats that echo are chats of channels, and whoever writes in one of
\* them is resolved by the identity mapping of that chat: an echo, which has
\* no other way to be resolved, is then saved in the same conversation.
EchoesAreMapped ==
  \A c \in EchoChats :
    c # Dashboard /\ \A m \in Msgs : ChatOf[m] = c => ScopeOf(m) = MappedScope(c)

\* The event e has been preceded by that of the message it answers.
OnBus(m) == Via[m] # "websocket"
Saved(e) == Own(e.text.of) \in Range(history[e.scope])

\* Every message of the bus is saved, or its callback has been started; and
\* whatever the callbacks are yet to save of an answer comes after it.
Told ==
  /\ \A m \in Known : OnBus(m) =>
       \/ Own(m) \in Range(history[ScopeOf(m)])
       \/ \E i \in DOMAIN callbacks : callbacks[i].scope = ScopeOf(m) /\ callbacks[i].text = Own(m)
  /\ \A i \in DOMAIN callbacks :
       LET e == callbacks[i] IN
       e.text.depth > 0 /\ OnBus(e.text.of) =>
         \/ Saved(e)
         \/ \E j \in 1..(i - 1) : callbacks[j].scope = e.scope /\ callbacks[j].text = Own(e.text.of)
  /\ HistoryInOrder

\* A callback that is started: for an own message, or for an answer to one
\* that is known.
LEMMA ToldPublish ==
  ASSUME TypeOK, Told, NEW e \in Events, callbacks' = Append(callbacks, e), history' = history,
         \A m \in Known' : OnBus(m) => m \in Known \/ (e.scope = ScopeOf(m) /\ e.text = Own(m)),
         e.text.depth > 0 => e.text.of \in Known /\ e.scope = ScopeOf(e.text.of)
  PROVE  Told'
<1> DEFINE n == Len(callbacks)
<1>0. callbacks \in Seq(Events)
  BY DEF TypeOK, Events
<1>1. /\ n \in Nat /\ DOMAIN callbacks = 1..n /\ DOMAIN callbacks' = 1..(n + 1)
      /\ callbacks'[n + 1] = e /\ \A i \in 1..n : callbacks'[i] = callbacks[i]
  BY <1>0, QueueShape
<1> HIDE DEF n
<1>2. ASSUME NEW m \in Known', OnBus(m)
      PROVE  \/ Own(m) \in Range(history'[ScopeOf(m)])
             \/ \E i \in DOMAIN callbacks' :
                  callbacks'[i].scope = ScopeOf(m) /\ callbacks'[i].text = Own(m)
  <2>1. CASE m \in Known
    BY <1>1, <1>2, <2>1 DEF Told
  <2>2. CASE e.scope = ScopeOf(m) /\ e.text = Own(m)
    <3>1. n + 1 \in DOMAIN callbacks'
      BY <1>1
    <3> QED
      BY <1>1, <2>2, <3>1
  <2> QED
    BY <1>2, <2>1, <2>2
<1>3. ASSUME NEW i \in DOMAIN callbacks', callbacks'[i].text.depth > 0,
             OnBus(callbacks'[i].text.of)
      PROVE  \/ Own(callbacks'[i].text.of) \in Range(history'[callbacks'[i].scope])
             \/ \E j \in 1..(i - 1) : /\ callbacks'[j].scope = callbacks'[i].scope
                                      /\ callbacks'[j].text = Own(callbacks'[i].text.of)
  <2>1. CASE i \in 1..n
    <3>1. callbacks'[i] = callbacks[i] /\ \A j \in 1..(i - 1) : callbacks'[j] = callbacks[j]
      BY <1>1, <2>1
    <3> QED
      BY <1>1, <1>3, <2>1, <3>1 DEF Told, Saved
  <2>2. CASE i = n + 1
    <3>1. callbacks'[i] = e /\ 1..(i - 1) = DOMAIN callbacks
      BY <1>1, <2>2
    <3>2. \A j \in 1..(i - 1) : callbacks'[j] = callbacks[j]
      BY <1>1, <2>2
    <3> QED
      BY <1>3, <3>1, <3>2 DEF Told
  <2> QED
    BY <1>1, <2>1, <2>2
<1>4. HistoryInOrder'
  BY DEF Told, HistoryInOrder
<1> QED
  BY <1>2, <1>3, <1>4 DEF Told, Saved

\* A callback that runs.
LEMMA ToldCallback ==
  ASSUME TypeOK, Told, Callback, Known' = Known
  PROVE  Told'
<1> DEFINE n == Len(callbacks)
           e == callbacks[1]
<1>0. callbacks \in Seq(Events) /\ callbacks # <<>> /\ callbacks' = Tail(callbacks)
      /\ Head(callbacks) = callbacks[1]
  BY QueueShape DEF TypeOK, Events, Callback
<1>1. /\ n \in Nat /\ n > 0 /\ DOMAIN callbacks = 1..n /\ DOMAIN callbacks' = 1..(n - 1)
      /\ \A i \in 1..(n - 1) : callbacks'[i] = callbacks[i + 1]
      /\ e \in Events
  BY <1>0, QueueShape
<1>2. history' = [history EXCEPT ![e.scope] = Append(@, e.text)]
  BY <1>0 DEF Callback
<1> HIDE DEF n, e
<1>3. /\ e.scope \in Scopes /\ e.text \in Text
      /\ history \in [Scopes -> Seq(Text)] /\ history[e.scope] \in Seq(Text)
  BY <1>1 DEF Events, TypeOK
<1>4. /\ \A s \in Scopes : Range(history[s]) \subseteq Range(history'[s])
      /\ e.text \in Range(history'[e.scope])
  <2>1. Range(Append(history[e.scope], e.text)) = Range(history[e.scope]) \cup {e.text}
    BY <1>3, QueueRange
  <2> QED
    BY <1>2, <1>3, <2>1
<1>5. ASSUME NEW m \in Known, OnBus(m)
      PROVE  \/ Own(m) \in Range(history'[ScopeOf(m)])
             \/ \E i \in DOMAIN callbacks' :
                  callbacks'[i].scope = ScopeOf(m) /\ callbacks'[i].text = Own(m)
  <2>1. ScopeOf(m) \in Scopes
    BY OwnFacts, ScopeTypes
  <2>2. CASE Own(m) \in Range(history[ScopeOf(m)])
    BY <1>4, <2>1, <2>2
  <2>3. ASSUME NEW i \in 1..n, callbacks[i].scope = ScopeOf(m) /\ callbacks[i].text = Own(m)
        PROVE  \/ Own(m) \in Range(history'[ScopeOf(m)])
               \/ \E k \in DOMAIN callbacks' :
                    callbacks'[k].scope = ScopeOf(m) /\ callbacks'[k].text = Own(m)
    <3>1. CASE i = 1
      BY <1>4, <2>3, <3>1 DEF e
    <3>2. CASE i # 1
      <4>1. i - 1 \in 1..(n - 1) /\ callbacks'[i - 1] = callbacks[i]
        BY <1>1, <3>2
      <4> QED
        BY <1>1, <2>3, <4>1
    <3> QED
      BY <3>1, <3>2
  <2> QED
    BY <1>1, <1>5, <2>2, <2>3 DEF Told
<1>6. ASSUME NEW i \in DOMAIN callbacks', callbacks'[i].text.depth > 0,
             OnBus(callbacks'[i].text.of)
      PROVE  \/ Own(callbacks'[i].text.of) \in Range(history'[callbacks'[i].scope])
             \/ \E j \in 1..(i - 1) : /\ callbacks'[j].scope = callbacks'[i].scope
                                      /\ callbacks'[j].text = Own(callbacks'[i].text.of)
  <2> DEFINE f == callbacks[i + 1]
  <2>1. i \in 1..(n - 1) /\ i + 1 \in 1..n /\ callbacks'[i] = f /\ f \in Events
    BY <1>0, <1>1, <1>6, QueueShape
  <2>2. f.scope \in Scopes
    BY <2>1 DEF Events
  <2>3. \/ Own(f.text.of) \in Range(history[f.scope])
        \/ \E j \in 1..i : callbacks[j].scope = f.scope /\ callbacks[j].text = Own(f.text.of)
    <3>1. (i + 1) - 1 = i
      BY <1>1, <2>1
    <3> QED
      BY <1>1, <1>6, <2>1, <3>1 DEF Told, Saved
  <2> HIDE DEF f
  <2>4. CASE Own(f.text.of) \in Range(history[f.scope])
    BY <1>4, <2>1, <2>2, <2>4
  <2>5. ASSUME NEW j \in 1..i, callbacks[j].scope = f.scope /\ callbacks[j].text = Own(f.text.of)
        PROVE  \/ Own(f.text.of) \in Range(history'[f.scope])
               \/ \E k \in 1..(i - 1) : /\ callbacks'[k].scope = f.scope
                                        /\ callbacks'[k].text = Own(f.text.of)
    <3>1. CASE j = 1
      BY <1>4, <2>5, <3>1 DEF e
    <3>2. CASE j # 1
      <4>1. j - 1 \in 1..(i - 1) /\ callbacks'[j - 1] = callbacks[j]
        BY <1>1, <2>1, <3>2
      <4> QED
        BY <2>5, <4>1
    <3> QED
      BY <3>1, <3>2
  <2> QED
    BY <2>1, <2>3, <2>4, <2>5
<1>7. HistoryInOrder'
  <2> SUFFICES ASSUME NEW s \in Scopes, NEW i \in DOMAIN history'[s],
                      history'[s][i].depth > 0, Via[history'[s][i].of] # "websocket"
               PROVE  \E j \in 1..(i - 1) : history'[s][j] = Own(history'[s][i].of)
    BY DEF HistoryInOrder
  <2>1. CASE history'[s] = history[s]
    BY <2>1 DEF Told, HistoryInOrder
  <2>2. CASE history'[s] # history[s]
    <3> DEFINE L == Len(history[s])
    <3>1. s = e.scope /\ history'[s] = Append(history[s], e.text)
      BY <1>2, <1>3, <2>2
    <3>2. /\ L \in Nat /\ DOMAIN history[s] = 1..L /\ DOMAIN history'[s] = 1..(L + 1)
          /\ \A k \in 1..L : history'[s][k] = history[s][k]
          /\ history'[s][L + 1] = e.text
      BY <1>3, <3>1, QueueShape
    <3> HIDE DEF L
    <3>3. CASE i \in 1..L
      <4>1. PICK j \in 1..(i - 1) : history[s][j] = Own(history[s][i].of)
        BY <3>2, <3>3 DEF Told, HistoryInOrder
      <4>2. j \in 1..L
        BY <3>2, <3>3
      <4> QED
        BY <3>2, <3>3, <4>1, <4>2
    <3>4. CASE i = L + 1
      <4>1. history'[s][i] = e.text
        BY <3>2, <3>4
      <4>2. 1 \in DOMAIN callbacks /\ ~\E j \in 1..(1 - 1) : TRUE
        BY <1>1
      <4>3. Saved(e)
        BY <4>1, <4>2 DEF Told, OnBus, e
      <4>4. PICK j \in 1..L : history[s][j] = Own(e.text.of)
        BY <3>1, <3>2, <4>3 DEF Saved, Range
      <4>5. j \in 1..(i - 1)
        BY <3>2, <3>4
      <4> QED
        BY <3>2, <4>1, <4>4, <4>5
    <3> QED
      BY <3>2, <3>3, <3>4
  <2> QED
    BY <2>1, <2>2
<1> QED
  BY <1>5, <1>6, <1>7 DEF Told, Saved

\* Whatever is about a message has its scope and goes to the chats of that, also
\* the answers to echoes: the text, its scope and a chat that belong together.
Loyal(t, s, c) ==
  t.of \in Known /\ s = ScopeOf(t.of) /\ c \in {Dashboard, NoChat} \cup Reach(ScopeOf(t.of))

Loyalty ==
  /\ \A x \in Range(inbound) \cup Range(stimuli) \cup ({thinking} \ {Nothing}) :
       Loyal(x.text, x.scope, x.channel)
  /\ \A a \in Range(actions) : Loyal(a.text, a.scope, a.source)
  /\ \A c \in Chats : \A t \in Range(outbound[c]) \cup Range(sent[c]) :
       Loyal(t, ScopeOf(t.of), c)

\* What belongs together does so when more is known, and in an answer.
LEMMA LoyalGrows ==
  ASSUME Known \subseteq Known', NEW t, NEW s, NEW c, Loyal(t, s, c)
  PROVE  t.of \in Known' /\ s = ScopeOf(t.of) /\ c \in {Dashboard, NoChat} \cup Reach(ScopeOf(t.of))'
<1>1. \A u : Reach(u) \subseteq Reach(u)'
  BY KnownGrows
<1> QED
  BY <1>1 DEF Loyal

LEMMA LoyalOwn ==
  ASSUME TypeOK, NEW m \in Known
  PROVE  Loyal(Wrote(m).text, Wrote(m).scope, Wrote(m).channel)
BY OwnFacts DEF Loyal, Reach

\* Somebody's own message is in the scope of its user.
OwnLoyal == \A x \in OwnItems : Loyal(x.text, x.scope, x.channel)

LEMMA LoyalItems == TypeOK => OwnLoyal
BY LoyalOwn DEF OwnItems, OwnLoyal

\* An echo comes back in a chat of the scope of its message.
LEMMA EchoScope ==
  ASSUME EchoesAreMapped, TypeOK, Traffic, Loyalty,
         NEW c \in Chats, NEW t \in Range(sent[c]), <<c, t>> \in echoable
  PROVE  t.of \in Known /\ MappedScope(c) = ScopeOf(t.of) /\ c \in Reach(ScopeOf(t.of))
<1>1. c \in EchoChats /\ c # Dashboard /\ c # NoChat
  BY MessagesAssumption DEF Traffic, EchoesAreMapped
<1>2. t.of \in Known /\ c \in Reach(ScopeOf(t.of))
  BY <1>1 DEF Loyalty, Loyal
<1>3. c \in MappedTo(ScopeOf(t.of)) \cup ChatsOf(ScopeOf(t.of))
  BY <1>2, ReachOf
<1>4. CASE c \in MappedTo(ScopeOf(t.of))
  <2>1. PICK u \in Users : ScopeOf(t.of) = u /\ c \in Linked[u]
    BY <1>4 DEF MappedTo
  <2>2. \A v \in Users : c \in Linked[v] => v = u
    BY <2>1, MessagesAssumption
  <2> QED
    BY <1>2, <2>1, <2>2 DEF MappedScope
<1>5. CASE c \in ChatsOf(ScopeOf(t.of))
  <2>1. PICK n \in Known : ChatOf[n] = c /\ ScopeOf(n) = ScopeOf(t.of)
    BY <1>5 DEF ChatsOf, Known
  <2> QED
    BY <1>1, <1>2, <2>1, OwnFacts DEF EchoesAreMapped
<1> QED
  BY <1>3, <1>4, <1>5

LEMMA LoyaltyNext ==
  ASSUME EchoesAreMapped, IInv, Loyalty, [Next]_vars
  PROVE  Loyalty'
<1> USE DEF busVars, mindVars, ioVars, gatewayVars, worldVars
<1>0. TypeOK /\ Traffic
  BY DEF IInv
<1>a. ASSUME UNCHANGED written
      PROVE  Known' = Known /\ Known \subseteq Known'
  BY <1>a DEF Known
<1>b. ASSUME NEW m \in Msgs, IsNew(m)
      PROVE  Known \subseteq Known' /\ m \in Known'
  BY <1>b, <1>0, NewIsLast DEF IInv, TypeOK
\* All that was there stays as it is, and what comes in belongs together.
<1>c. ASSUME Known \subseteq Known',
             \A x \in Range(inbound') \cup Range(stimuli') \cup ({thinking'} \ {Nothing}) :
               \/ x \in Range(inbound) \cup Range(stimuli) \cup ({thinking} \ {Nothing})
               \/ Loyal(x.text, x.scope, x.channel) \/ x \in OwnItems',
             \A a \in Range(actions') : a \in Range(actions) \/ Loyal(a.text, a.scope, a.source),
             \A c \in Chats : \A t \in Range(outbound'[c]) \cup Range(sent'[c]) :
               t \in Range(outbound[c]) \cup Range(sent[c]) \/ Loyal(t, ScopeOf(t.of), c)
      PROVE  Loyalty'
  <2>1. TypeOK'
    BY TypeNext DEF IInv
  <2>2. \A x : x \in OwnItems' => Loyal(x.text, x.scope, x.channel)'
    <3>1. OwnLoyal'
      BY <2>1, LoyalItems, PTL
    <3> QED
      BY <3>1 DEF OwnLoyal
  <2>3. \A t, s, c : Loyal(t, s, c) => Loyal(t, s, c)'
    BY <1>c, LoyalGrows DEF Loyal
  <2>4. \A x \in Range(inbound') \cup Range(stimuli') \cup ({thinking'} \ {Nothing}) :
          Loyal(x.text, x.scope, x.channel)'
    BY <1>c, <2>2, <2>3 DEF Loyalty
  <2>5. \A a \in Range(actions') : Loyal(a.text, a.scope, a.source)'
    BY <1>c, <2>3 DEF Loyalty
  <2>6. \A c \in Chats : \A t \in Range(outbound'[c]) \cup Range(sent'[c]) :
          Loyal(t, ScopeOf(t.of), c)'
    BY <1>c, <2>3 DEF Loyalty
  <2> QED
    BY <2>4, <2>5, <2>6 DEF Loyalty
<1>d. ASSUME NEW m \in Msgs, IsNew(m), PublishInbound(Wrote(m)),
             UNCHANGED <<outbound, mindVars, sent>>
      PROVE  Loyalty'
  <2>1. Range(inbound') = Range(inbound) \cup {Wrote(m)}
    BY <1>0, <1>d, ItemTypes, QueuesGrow DEF PublishInbound
  <2>2. Wrote(m) \in OwnItems' /\ Known \subseteq Known'
    BY <1>b, <1>d DEF OwnItems
  <2> QED
    BY <1>c, <1>d, <2>1, <2>2
<1>1. ASSUME NEW m \in Msgs, ChannelMessage(m) PROVE Loyalty'
  BY <1>1, <1>d DEF ChannelMessage
<1>2. ASSUME NEW m \in Msgs, GatewayMessage(m) PROVE Loyalty'
  BY <1>2, <1>d DEF GatewayMessage, Ask
<1>3. ASSUME NEW m \in Msgs, WebsocketMessage(m) PROVE Loyalty'
  BY <1>3, <1>b, <1>c DEF WebsocketMessage
<1>4. ASSUME NEW c \in Chats, NEW t \in Range(sent[c]), Echo(c, t) PROVE Loyalty'
  <2>1. t.of \in Known /\ MappedScope(c) = ScopeOf(t.of) /\ c \in Reach(ScopeOf(t.of))
    BY <1>0, <1>4, EchoScope DEF Echo
  <2>2. t \in Text
    BY <1>0, QueueRange DEF TypeOK
  <2>3. PICK x : x = Echoed(c, t)
    OBVIOUS
  <2>4. Loyal(x.text, x.scope, x.channel)
    BY <2>1, <2>3 DEF Echoed, Loyal
  <2>5. Range(inbound') = Range(inbound) \cup {x}
    BY <1>0, <1>4, <2>2, <2>3, ItemTypes, QueuesGrow DEF Echo, PublishInbound
  <2>6. Known \subseteq Known' /\ UNCHANGED <<outbound, stimuli, thinking, actions, sent>>
    BY <1>4, <1>a DEF Echo
  <2> QED
    BY <1>c, <2>4, <2>5, <2>6
<1>6. ASSUME NEW c \in Chats, Dispatch(c) PROVE Loyalty'
  <2>1. outbound[c] \in Seq(Text) /\ sent[c] \in Seq(Text) /\ outbound[c] # <<>>
    BY <1>0, <1>6 DEF Dispatch, TypeOK
  <2>2. PICK t : t = Head(outbound[c])
    OBVIOUS
  <2>3. /\ t \in Range(outbound[c]) /\ Range(Tail(outbound[c])) \subseteq Range(outbound[c])
        /\ Range(Append(sent[c], t)) = Range(sent[c]) \cup {t}
    BY <2>1, <2>2, QueueRange, QueueShape
  <2>4. /\ sent' = [sent EXCEPT ![c] = Append(sent[c], t)]
        /\ outbound' = [outbound EXCEPT ![c] = Tail(outbound[c])]
        /\ Known \subseteq Known' /\ UNCHANGED <<inbound, stimuli, thinking, actions>>
    BY <1>6, <1>a, <2>2 DEF Dispatch
  <2>5. \A d \in Chats : Range(outbound'[d]) \cup Range(sent'[d])
                           \subseteq Range(outbound[d]) \cup Range(sent[d])
    BY <1>0, <2>3, <2>4 DEF TypeOK
  <2> QED
    BY <1>c, <2>4, <2>5
<1>7. CASE CallbackStep
  BY <1>7, <1>a, <1>c DEF CallbackStep, Callback
<1>8. CASE InboundStep
  <2>0. PICK x : x = Head(inbound)
    OBVIOUS
  <2>1. x \in Range(inbound) /\ Range(Tail(inbound)) \subseteq Range(inbound) /\ x \in Item
    BY <1>0, <1>8, <2>0, QueueRange, QueueShape DEF InboundStep, HearInbound, TypeOK
  <2>2. Known \subseteq Known' /\ inbound' = Tail(inbound)
        /\ UNCHANGED <<outbound, thinking, actions, sent>>
    BY <1>8, <1>a DEF InboundStep, HearInbound
  <2>3. Range(stimuli') \subseteq Range(stimuli) \cup {x}
    <3>1. stimuli' = stimuli \/ stimuli' = Append(stimuli, x)
      BY <1>8, <2>0 DEF InboundStep, HearInbound, Perceive
    <3>2. Range(Append(stimuli, x)) = Range(stimuli) \cup {x}
      BY <1>0, <2>1, QueuesGrow
    <3> QED
      BY <3>1, <3>2
  <2> QED
    BY <1>c, <2>1, <2>2, <2>3
<1>9. CASE UserMessageStep
  <2>0. PICK x : x = Head(userFeed)
    OBVIOUS
  <2>1. x \in Range(userFeed) /\ x \in Item
    BY <1>0, <1>9, <2>0, QueueRange, QueueShape DEF UserMessageStep, HearUserMessage, TypeOK
  <2>2. Known \subseteq Known' /\ stimuli' = Append(stimuli, x)
        /\ UNCHANGED <<inbound, outbound, thinking, actions, sent>>
    BY <1>9, <1>a, <2>0 DEF UserMessageStep, HearUserMessage, Perceive
  <2>3. Range(stimuli') = Range(stimuli) \cup {x}
    BY <1>0, <2>1, <2>2, QueuesGrow
  <2>4. Loyal(x.text, x.scope, x.channel)
    BY <1>0, <2>1, LoyalItems DEF Traffic, WebItems, OwnItems, OwnLoyal
  <2> QED
    BY <1>c, <2>2, <2>3, <2>4
<1>10. CASE TickStep
  <2>1. Known \subseteq Known' /\ UNCHANGED <<inbound, outbound, actions, sent>>
    BY <1>10, <1>a DEF TickStep, Tick
  <2>2. thinking' = Nothing \/ thinking' \in Range(stimuli)
    BY <1>0, <1>10, FocusFacts DEF TickStep, Tick, TypeOK
  <2>3. Range(stimuli') = {}
    BY <1>10 DEF TickStep, Tick, Range
  <2> QED
    BY <1>c, <2>1, <2>2, <2>3
<1>11. CASE AnswerStep
  <2>1. Known \subseteq Known' /\ UNCHANGED <<inbound, outbound, stimuli, sent>>
        /\ thinking' = Nothing /\ thinking # Nothing
    BY <1>11, <1>a DEF AnswerStep, Answer
  <2>2. PICK blank \in BOOLEAN : actions' = Append(actions, Response(thinking, blank))
    BY <1>11 DEF AnswerStep, Answer
  <2>3. PICK a : a = Response(thinking, blank)
    OBVIOUS
  <2>4. thinking \in Item /\ thinking.text \in Text
    BY <1>0, <2>1 DEF TypeOK, Item
  <2>5. Range(actions') = Range(actions) \cup {a}
    BY <1>0, <2>2, <2>3, <2>4, ItemTypes, QueuesGrow
  <2>6. a.scope = thinking.scope /\ a.source = thinking.channel /\ a.text.of = thinking.text.of
    BY <1>0, <2>3, <2>4, AnswerFacts DEF Response
  <2>7. Loyal(a.text, a.scope, a.source)
    BY <2>1, <2>6 DEF Loyalty, Loyal
  <2> QED
    BY <1>c, <2>1, <2>5, <2>7
<1>12. CASE ActStep
  <2>0. PICK a : a = Head(actions)
    OBVIOUS
  <2>1. a \in Range(actions) /\ Range(Tail(actions)) \subseteq Range(actions) /\ a \in Action
    BY <1>0, <1>12, <2>0, QueueRange, QueueShape DEF ActStep, Act, TypeOK
  <2>2. Known \subseteq Known' /\ actions' = Tail(actions)
        /\ UNCHANGED <<inbound, stimuli, thinking, sent>>
    BY <1>12, <1>a DEF ActStep, Act
  <2>3. PICK targets : targets = Targets(a.scope, a.source)
    OBVIOUS
  <2>4. Loyal(a.text, a.scope, a.source) /\ a.text \in Text
    BY <2>1 DEF Loyalty, Action
  <2>5. \A c \in targets : c \in Chats /\ Loyal(a.text, ScopeOf(a.text.of), c)
    <3>1. a.scope \in Scopes /\ a.source \in Chats \cup {NoChat}
      BY <2>1 DEF Action
    <3>2. Origin(a.scope) \subseteq Reach(a.scope) /\ targets \subseteq Chats
      BY <1>0, <2>3, <3>1, TargetTypes DEF Origin, Traffic, TypeOK
    <3>3. targets \subseteq {Dashboard} \cup Reach(a.scope) \cup ({a.source} \ {NoChat})
      BY <2>3, <3>2 DEF Targets, Reach
    <3> QED
      BY <2>4, <3>2, <3>3 DEF Loyal
  <2>6. \A c \in Chats : Range(outbound'[c]) \subseteq
                           Range(outbound[c]) \cup IF c \in targets THEN {a.text} ELSE {}
    <3>1. outbound' = outbound \/ PublishOutbound(a.scope, targets, a.text)
      BY <1>12, <2>0, <2>3 DEF ActStep, Act
    <3>2. \A c \in Chats : Range(Append(outbound[c], a.text)) = Range(outbound[c]) \cup {a.text}
      BY <1>0, <2>4, QueuesGrow
    <3> QED
      BY <3>1, <3>2 DEF PublishOutbound
  <2> QED
    BY <1>c, <2>1, <2>2, <2>5, <2>6
<1>13. ASSUME NEW r \in Requests, RequestStep(r) PROVE Loyalty'
  BY <1>13, <1>a, <1>c DEF RequestStep, TakeReply, TimeOut
<1>14. CASE UNCHANGED vars
  BY <1>14, <1>a, <1>c DEF vars
<1> QED
  BY <1>1, <1>2, <1>3, <1>4, <1>6, <1>7, <1>8, <1>9, <1>10, <1>11, <1>12, <1>13, <1>14
     DEF Next

LEMMA ToldNext ==
  ASSUME EchoesAreMapped, IInv, Loyalty, Told, [Next]_vars
  PROVE  Told'
<1> USE DEF busVars, mindVars, ioVars, gatewayVars, worldVars
<1>0. TypeOK /\ Traffic
  BY DEF IInv
<1>a. ASSUME UNCHANGED <<callbacks, history>>, \A m \in Known' : OnBus(m) => m \in Known
      PROVE  Told'
  BY <1>a DEF Told, Saved, HistoryInOrder
<1>b. ASSUME UNCHANGED written
      PROVE  Known' = Known
  BY <1>b DEF Known
<1>c. ASSUME NEW m \in Msgs, IsNew(m)
      PROVE  Known' = Known \cup {m}
  BY <1>0, <1>c, NewIsLast DEF IInv, TypeOK
<1>d. ASSUME NEW m \in Msgs, IsNew(m), PublishInbound(Wrote(m)), history' = history
      PROVE  Told'
  <2> DEFINE e == Event(ScopeOf(m), Own(m), FALSE)
  <2>1. callbacks' = Append(callbacks, e)
    BY <1>d DEF PublishInbound, Wrote
  <2>2. e \in Events /\ e.scope = ScopeOf(m) /\ e.text = Own(m) /\ e.text.depth = 0
    BY ScopeTypes DEF Event, Events, Own, Text
  <2>3. ASSUME e.text.depth > 0 PROVE FALSE
    <3>1. 0 > 0
      BY <2>2, <2>3
    <3> QED
      BY <3>1
  <2> HIDE DEF e
  <2> QED
    BY <1>0, <1>c, <1>d, <2>1, <2>2, <2>3, ToldPublish
<1>1. ASSUME NEW m \in Msgs, ChannelMessage(m) PROVE Told'
  BY <1>1, <1>d DEF ChannelMessage
<1>2. ASSUME NEW m \in Msgs, GatewayMessage(m) PROVE Told'
  BY <1>2, <1>d DEF GatewayMessage, Ask
<1>3. ASSUME NEW m \in Msgs, WebsocketMessage(m) PROVE Told'
  BY <1>3, <1>a, <1>c DEF WebsocketMessage, OnBus
<1>4. ASSUME NEW c \in Chats, NEW t \in Range(sent[c]), Echo(c, t) PROVE Told'
  <2>1. t.of \in Known /\ MappedScope(c) = ScopeOf(t.of)
    BY <1>0, <1>4, EchoScope DEF Echo
  <2>2. PICK e : e = Event(MappedScope(c), t, FALSE)
    OBVIOUS
  <2>3. callbacks' = Append(callbacks, e) /\ history' = history /\ Known' = Known
    BY <1>4, <1>b, <2>2 DEF Echo, PublishInbound, Echoed
  <2>4. e \in Events /\ e.scope = ScopeOf(t.of) /\ e.text = t
    <3>1. t \in Text
      BY <1>0, QueueRange DEF TypeOK
    <3> QED
      BY <2>1, <2>2, <3>1, ScopeTypes DEF Event, Events
  <2> QED
    BY <1>0, <2>1, <2>3, <2>4, ToldPublish
<1>6. ASSUME NEW c \in Chats, Dispatch(c) PROVE Told'
  BY <1>6, <1>a, <1>b DEF Dispatch
<1>7. CASE CallbackStep
  BY <1>0, <1>7, <1>b, ToldCallback DEF CallbackStep
<1>8. CASE InboundStep
  BY <1>8, <1>a, <1>b DEF InboundStep, HearInbound
<1>9. CASE UserMessageStep
  BY <1>9, <1>a, <1>b DEF UserMessageStep, HearUserMessage
<1>10. CASE TickStep
  BY <1>10, <1>a, <1>b DEF TickStep
<1>11. CASE AnswerStep
  BY <1>11, <1>a, <1>b DEF AnswerStep
<1>12. CASE ActStep
  <2> DEFINE a == Head(actions)
             e == Event(a.scope, a.text, TRUE)
  <2>1. /\ history' = history /\ Known' = Known /\ actions # <<>> /\ actions \in Seq(Action)
        /\ (callbacks' = callbacks \/ callbacks' = Append(callbacks, e))
    BY <1>0, <1>12, <1>b DEF ActStep, Act, PublishOutbound, TypeOK
  <2>2. a \in Action /\ a \in Range(actions)
    BY <2>1, QueueRange, QueueShape
  <2>3. a.text.of \in Known /\ a.scope = ScopeOf(a.text.of)
    BY <2>2 DEF Loyalty, Loyal
  <2>4. e.scope = a.scope /\ e.text = a.text
    BY DEF Event
  <2>5. e \in Events /\ e.text.of \in Known /\ e.scope = ScopeOf(e.text.of)
    BY <2>2, <2>3, <2>4 DEF Event, Events, Action
  <2> HIDE DEF e
  <2>6. CASE callbacks' = callbacks
    BY <1>a, <2>1, <2>6
  <2>7. CASE callbacks' = Append(callbacks, e)
    BY <1>0, <2>1, <2>5, <2>7, ToldPublish
  <2> QED
    BY <2>1, <2>6, <2>7
<1>13. ASSUME NEW r \in Requests, RequestStep(r) PROVE Told'
  BY <1>13, <1>a, <1>b DEF RequestStep, TakeReply, TimeOut
<1>14. CASE UNCHANGED vars
  BY <1>14, <1>a, <1>b DEF vars
<1> QED
  BY <1>1, <1>2, <1>3, <1>4, <1>6, <1>7, <1>8, <1>9, <1>10, <1>11, <1>12, <1>13, <1>14
     DEF Next

\* No reply stands in the saved conversation before the message it answers, if
\* the echoes of a chat belong to the conversation of those who write there.
THEOREM ConversationOrder ==
  ASSUME EchoesAreMapped
  PROVE  Spec => []HistoryInOrder
<1>1. Init => Told /\ Loyalty
  <2> SUFFICES ASSUME Init PROVE Told /\ Loyalty
    OBVIOUS
  <2>1. Range(<<>>) = {}
    BY DEF Range
  <2> QED
    BY <2>1 DEF Init, BusInit, MindInit, Told, HistoryInOrder, Known, Loyalty
<1>2. IInv /\ Loyalty /\ Told /\ [Next]_vars => Told' /\ Loyalty'
  BY ToldNext, LoyaltyNext
<1>3. Told => HistoryInOrder
  BY DEF Told
<1> QED
  BY <1>1, <1>2, <1>3, Invariance, PTL DEF Spec

=============================================================================
