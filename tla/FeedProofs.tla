----------------------------- MODULE FeedProofs -----------------------------
(***************************************************************************)
(* Proofs about the conversation that the dashboard shows and saves        *)
(* (module Feed), for every number of connections, texts, messages and     *)
(* kept event_ids, and about the audit log and its tailer (AuditTrail).    *)
(***************************************************************************)
EXTENDS Feed, AuditTrail, QueueFacts, FiniteSetTheorems

Queued == [msg : Message, shows : BOOLEAN]
Connection ==
  [phase : {"closed", "opening", "open", "gone"}, user : Seq(Queued), system : Nat, seen : SUBSET Numbers]

FeedTypes ==
  /\ said \in 0..MaxEvents /\ file \in Seq(Message)
  /\ DOMAIN copy \subseteq Managers /\ \A m \in DOMAIN copy : copy[m] \in Seq(Message)
  /\ socket \in [Sockets -> Connection] /\ shown \in [Sockets -> Seq(Numbers)]

\* What waits for a connection comes in order, and after all that it was shown; and what
\* it was shown is seen or forgotten.
QueueInOrder(k) ==
  LET q == socket[k].user IN
  /\ \A i, j \in DOMAIN q : i < j => q[i].msg.n <= q[j].msg.n
  /\ \A j \in DOMAIN q : q[j].msg.n <= said /\ \A i \in DOMAIN shown[k] : shown[k][i] <= q[j].msg.n

ShownBefore(k) ==
  /\ \A i \in DOMAIN shown[k] : /\ shown[k][i] <= said
                                /\ Subscribed(k) => shown[k][i] \in socket[k].seen \cup forgotten
  /\ \A i, j \in DOMAIN shown[k] : i < j =>
       shown[k][i] < shown[k][j] \/ (shown[k][i] = shown[k][j] /\ shown[k][i] \in forgotten)

OrderInv == FeedTypes /\ \A k \in Sockets : QueueInOrder(k) /\ ShownBefore(k)

-----------------------------------------------------------------------------
\* An event that is published once or twice comes at the end of a queue.
LEMMA QueuedAtEnd ==
  ASSUME NEW q \in Seq(Queued), NEW e \in Queued, NEW events, events = <<e>> \/ events = <<e, e>>
  PROVE  /\ q \o events \in Seq(Queued) /\ Len(q) \in Nat /\ Len(q \o events) \in Nat
         /\ DOMAIN (q \o events) = 1..Len(q \o events) /\ DOMAIN q = 1..Len(q)
         /\ \A i \in DOMAIN (q \o events) :
              \/ i \in DOMAIN q /\ (q \o events)[i] = q[i]
              \/ i > Len(q) /\ (q \o events)[i] = e
<1>1. events \in Seq(Queued) /\ Len(events) \in {1, 2} /\ \A i \in 1..Len(events) : events[i] = e
  <2>1. CASE events = <<e>>
    BY <2>1
  <2>2. CASE events = <<e, e>>
    BY <2>2
  <2> QED
    BY <2>1, <2>2
<1>2. /\ q \o events \in Seq(Queued) /\ Len(q \o events) = Len(q) + Len(events)
      /\ \A i \in 1..(Len(q) + Len(events)) : (q \o events)[i] = IF i <= Len(q) THEN q[i] ELSE events[i - Len(q)]
  BY <1>1, ConcatProperties
<1>3. Len(q) \in Nat /\ Len(events) \in Nat /\ DOMAIN q = 1..Len(q)
      /\ DOMAIN (q \o events) = 1..(Len(q) + Len(events))
  BY <1>1, <1>2, LenProperties
<1> QED
  BY <1>1, <1>2, <1>3

\* What a connection is, for the provers.
LEMMA ConnectionFacts ==
  ASSUME FeedTypes, NEW k \in Sockets
  PROVE  /\ socket[k] \in Connection /\ socket[k].user \in Seq(Queued) /\ shown[k] \in Seq(Numbers)
         /\ socket[k].seen \subseteq Numbers /\ socket[k].system \in Nat
         /\ \A i \in DOMAIN socket[k].user : socket[k].user[i] \in Queued /\ socket[k].user[i].msg.n \in Nat
         /\ \A i \in DOMAIN shown[k] : shown[k][i] \in Nat
<1>1. socket[k] \in Connection /\ shown[k] \in Seq(Numbers) /\ Numbers \subseteq Nat
  BY FeedAssumption DEF FeedTypes, Numbers
<1>2. socket[k].user \in Seq(Queued) /\ socket[k].seen \subseteq Numbers /\ socket[k].system \in Nat
  BY <1>1 DEF Connection
<1>3. \A i \in DOMAIN socket[k].user : socket[k].user[i] \in Queued
  BY <1>2, QueueShape
<1>4. \A e \in Queued : e.msg.n \in Nat
  BY <1>1 DEF Queued, Message
<1>5. \A i \in DOMAIN shown[k] : shown[k][i] \in Numbers
  BY <1>1, QueueShape
<1> QED
  BY <1>1, <1>2, <1>3, <1>4, <1>5

\* What publishing does to the connections.
LEMMA PublishedTo ==
  ASSUME FeedTypes, NEW e \in Queued, Published(<<e>>) \/ Published(<<e, e>>), NEW k \in Sockets
  PROVE  /\ socket' \in [Sockets -> Connection]
         /\ socket'[k].phase = socket[k].phase /\ socket'[k].seen = socket[k].seen
         /\ socket'[k].user \in Seq(Queued)
         /\ \A i \in DOMAIN socket'[k].user :
              \/ i \in DOMAIN socket[k].user /\ socket'[k].user[i] = socket[k].user[i]
              \/ i > Len(socket[k].user) /\ socket'[k].user[i] = e
<1>1. PICK events :
        /\ events = <<e>> \/ events = <<e, e>>
        /\ socket' = [j \in Sockets |->
             IF Subscribed(j) THEN [socket[j] EXCEPT !.user = @ \o events] ELSE socket[j]]
  BY DEF Published
<1>2. ASSUME NEW j \in Sockets
      PROVE  /\ socket'[j] \in Connection /\ socket'[j].phase = socket[j].phase /\ socket'[j].seen = socket[j].seen
             /\ socket'[j].user = socket[j].user \o events \/ socket'[j].user = socket[j].user
  <2>1. socket[j] \in Connection /\ socket[j].user \o events \in Seq(Queued)
    BY <1>1, ConnectionFacts, QueuedAtEnd
  <2>2. socket'[j] = [socket[j] EXCEPT !.user = @ \o events] \/ socket'[j] = socket[j]
    BY <1>1
  <2> QED
    BY <2>1, <2>2 DEF Connection
<1>3. socket' \in [Sockets -> Connection]
  BY <1>1, <1>2
<1>4. socket'[k].user \in Seq(Queued)
  BY <1>2 DEF Connection
<1>5. \A i \in DOMAIN socket'[k].user :
        \/ i \in DOMAIN socket[k].user /\ socket'[k].user[i] = socket[k].user[i]
        \/ i > Len(socket[k].user) /\ socket'[k].user[i] = e
  <2>1. PICK q \in Seq(Queued) : q = socket[k].user
    BY ConnectionFacts
  <2>4. PICK r : r = socket'[k].user
    OBVIOUS
  <2>2. CASE r = q \o events
    <3>0. events = <<e>> \/ events = <<e, e>>
      BY <1>1
    <3>1. /\ q \o events \in Seq(Queued) /\ Len(q) \in Nat /\ Len(q \o events) \in Nat
          /\ DOMAIN (q \o events) = 1..Len(q \o events) /\ DOMAIN q = 1..Len(q)
          /\ \A i \in DOMAIN (q \o events) :
               \/ i \in DOMAIN q /\ (q \o events)[i] = q[i]
               \/ i > Len(q) /\ (q \o events)[i] = e
      BY <3>0, QueuedAtEnd
    <3> QED
      BY <2>1, <2>2, <2>4, <3>1
  <2>3. CASE r = q
    BY <2>1, <2>3, <2>4
  <2> QED
    BY <1>2, <2>1, <2>2, <2>3, <2>4
<1> QED
  BY <1>2, <1>3, <1>4, <1>5

\* A new event comes after all that wait and all that was shown.
LEMMA PublishedInOrder ==
  ASSUME OrderInv, NEW e \in Queued, Published(<<e>>) \/ Published(<<e, e>>),
         e.msg.n = said + 1, said' = said + 1, UNCHANGED <<shown, forgotten>>, NEW k \in Sockets
  PROVE  QueueInOrder(k)' /\ ShownBefore(k)'
<1>1. QueueInOrder(k) /\ ShownBefore(k) /\ said \in Nat
  BY FeedAssumption DEF OrderInv, FeedTypes
<1>2. /\ socket'[k].phase = socket[k].phase /\ socket'[k].seen = socket[k].seen
      /\ socket'[k].user \in Seq(Queued) /\ socket[k].user \in Seq(Queued)
      /\ \A i \in DOMAIN socket'[k].user :
           \/ i \in DOMAIN socket[k].user /\ socket'[k].user[i] = socket[k].user[i]
           \/ i > Len(socket[k].user) /\ socket'[k].user[i] = e
  BY PublishedTo, ConnectionFacts DEF OrderInv
<1>3. /\ \A i \in DOMAIN socket[k].user : socket[k].user[i].msg.n \in Nat /\ socket[k].user[i].msg.n <= said
      /\ \A i \in DOMAIN shown[k] : shown[k][i] \in Nat /\ shown[k][i] <= said
  BY <1>1, ConnectionFacts DEF OrderInv, QueueInOrder, ShownBefore
<1>4. DOMAIN socket[k].user = 1..Len(socket[k].user) /\ Len(socket[k].user) \in Nat
      /\ DOMAIN socket'[k].user = 1..Len(socket'[k].user) /\ Len(socket'[k].user) \in Nat
  BY <1>2, QueueShape
<1>5. QueueInOrder(k)'
  <2>1. PICK q, r, s : q = socket[k].user /\ r = socket'[k].user /\ s = shown[k] /\ s = shown'[k]
    OBVIOUS
  <2>2. /\ \A i \in DOMAIN r : (i \in DOMAIN q /\ r[i] = q[i]) \/ (i > Len(q) /\ r[i] = e)
        /\ DOMAIN q = 1..Len(q) /\ Len(q) \in Nat /\ DOMAIN r = 1..Len(r)
        /\ \A i \in DOMAIN q : q[i].msg.n \in Nat /\ q[i].msg.n <= said
        /\ \A i, j \in DOMAIN q : i < j => q[i].msg.n <= q[j].msg.n
        /\ \A j \in DOMAIN q : \A i \in DOMAIN s : s[i] <= q[j].msg.n
        /\ \A i \in DOMAIN s : s[i] \in Nat /\ s[i] <= said
    BY <1>1, <1>2, <1>3, <1>4, <2>1 DEF QueueInOrder
  <2>3. \A i \in DOMAIN r : r[i].msg.n <= said + 1
    BY <1>1, <2>2
  <2>4. \A i, j \in DOMAIN r : i < j => r[i].msg.n <= r[j].msg.n
    <3> SUFFICES ASSUME NEW i \in DOMAIN r, NEW j \in DOMAIN r, i < j PROVE r[i].msg.n <= r[j].msg.n
      OBVIOUS
    <3>1. i \in Nat /\ j \in Nat
      BY <2>2
    <3>2. CASE j \in DOMAIN q /\ r[j] = q[j]
      BY <2>2, <3>1, <3>2
    <3>3. CASE r[j] = e
      BY <2>3, <3>3
    <3> QED
      BY <2>2, <3>2, <3>3
  <2>5. \A j \in DOMAIN r : \A i \in DOMAIN s : s[i] <= r[j].msg.n
    BY <1>1, <2>2
  <2> QED
    BY <2>1, <2>3, <2>4, <2>5 DEF QueueInOrder
<1>6. ShownBefore(k)'
  BY <1>1, <1>2, <1>3 DEF ShownBefore, Subscribed
<1> QED
  BY <1>5, <1>6

\* What recording a message does to the copies.
LEMMA Recorded ==
  ASSUME FeedTypes, NEW m \in Managers, NEW msg \in Message, Record(m, msg)
  PROVE  /\ file' \in Seq(Message) /\ DOMAIN copy' = DOMAIN copy \cup {m} /\ copy'[m] = file'
         /\ \A o \in DOMAIN copy \ {m} : copy'[o] = copy[o]
         /\ DOMAIN copy' \subseteq Managers /\ \A o \in DOMAIN copy' : copy'[o] \in Seq(Message)
         /\ SessionOf(m) \in Seq(Message) /\ SessionOf(m) = IF m \in DOMAIN copy THEN copy[m] ELSE file
         /\ file' = SessionOf(m) \/ file' = Append(SessionOf(m), msg)
<1>1. SessionOf(m) \in Seq(Message) /\ SessionOf(m) = IF m \in DOMAIN copy THEN copy[m] ELSE file
  BY DEF FeedTypes, SessionOf, Lookup
<1>2. file' = Added(SessionOf(m), msg) /\ copy' = WithEntry(copy, m, file')
  BY DEF Record, Cached
<1>3. file' = SessionOf(m) \/ file' = Append(SessionOf(m), msg)
  BY <1>2 DEF Added
<1>4. file' \in Seq(Message)
  BY <1>1, <1>3, QueueShape
<1>5. DOMAIN copy' = DOMAIN copy \cup {m} /\ copy'[m] = file' /\ \A o \in DOMAIN copy \ {m} : copy'[o] = copy[o]
  BY <1>2 DEF WithEntry
<1> QED
  BY <1>1, <1>3, <1>4, <1>5 DEF FeedTypes

-----------------------------------------------------------------------------
(* The order of what is shown *)

LEMMA FeedStart == FeedInit => OrderInv
<1> SUFFICES ASSUME FeedInit PROVE OrderInv
  OBVIOUS
<1>1. /\ said = 0 /\ file = <<>> /\ copy = <<>> /\ socket = [k \in Sockets |-> Closed]
      /\ shown = [k \in Sockets |-> <<>>] /\ forgotten = {} /\ DOMAIN copy = {}
  BY DEF FeedInit
<1>2. Closed \in Connection /\ Closed.user = <<>> /\ Closed.phase = "closed"
  BY DEF Closed, Connection
<1>3. FeedTypes
  BY <1>1, <1>2, FeedAssumption DEF FeedTypes
<1>4. \A k \in Sockets : DOMAIN shown[k] = {} /\ DOMAIN socket[k].user = {} /\ socket[k].phase = "closed"
  BY <1>1, <1>2
<1> QED
  BY <1>1, <1>3, <1>4 DEF OrderInv, QueueInOrder, ShownBefore

\* The step of a connection leaves the others in order.
LEMMA OneConnection ==
  ASSUME OrderInv, NEW k \in Sockets, NEW c \in Connection, socket' = [socket EXCEPT ![k] = c],
         NEW s \in Seq(Numbers), shown' = [shown EXCEPT ![k] = s],
         file' \in Seq(Message), DOMAIN copy' \subseteq Managers,
         \A m \in DOMAIN copy' : copy'[m] \in Seq(Message),
         said' = said, forgotten \subseteq forgotten', QueueInOrder(k)', ShownBefore(k)'
  PROVE  OrderInv'
<1>1. FeedTypes'
  BY DEF OrderInv, FeedTypes
<1>2. ASSUME NEW j \in Sockets \ {k} PROVE QueueInOrder(j)' /\ ShownBefore(j)'
  <2>1. socket'[j] = socket[j] /\ shown'[j] = shown[j]
    BY <1>2 DEF OrderInv, FeedTypes
  <2> QED
    BY <1>2, <2>1 DEF OrderInv, QueueInOrder, ShownBefore, Subscribed
<1> QED
  BY <1>1, <1>2 DEF OrderInv

\* A connection that keeps what it was shown, and some of its queue.
LEMMA SameShown ==
  ASSUME OrderInv, NEW k \in Sockets, NEW c \in Connection, socket' = [socket EXCEPT ![k] = c],
         c.user \in {socket[k].user, Tail(socket[k].user), <<>>},
         socket[k].user # <<>> \/ c.user # Tail(socket[k].user) \/ c.user = socket[k].user,
         c.phase = "closed" \/ (c.seen = socket[k].seen /\ Subscribed(k)),
         file' \in Seq(Message), DOMAIN copy' \subseteq Managers,
         \A m \in DOMAIN copy' : copy'[m] \in Seq(Message), UNCHANGED <<said, shown, forgotten>>
  PROVE  OrderInv'
<1>1. socket'[k] = c /\ shown' = [shown EXCEPT ![k] = shown[k]] /\ shown[k] \in Seq(Numbers)
      /\ QueueInOrder(k) /\ ShownBefore(k)
  BY DEF OrderInv, FeedTypes
<1>2. ShownBefore(k)'
  BY <1>1 DEF ShownBefore, Subscribed
<1>3. QueueInOrder(k)'
  <2>1. CASE c.user = socket[k].user
    BY <1>1, <2>1 DEF QueueInOrder
  <2>2. CASE c.user = <<>>
    BY <1>1, <2>2 DEF QueueInOrder
  <2>3. CASE c.user = Tail(socket[k].user) /\ socket[k].user # <<>>
    <3>1. PICK q \in Seq(Queued) : q = socket[k].user
      BY ConnectionFacts DEF OrderInv
    <3>2. DOMAIN Tail(q) = 1..(Len(q) - 1) /\ DOMAIN q = 1..Len(q) /\ Len(q) \in Nat
          /\ \A i \in 1..(Len(q) - 1) : Tail(q)[i] = q[i + 1] /\ i + 1 \in DOMAIN q
      BY <2>3, <3>1, QueueShape
    <3>3. ASSUME NEW i \in DOMAIN Tail(q), NEW j \in DOMAIN Tail(q), i < j
          PROVE  Tail(q)[i].msg.n <= Tail(q)[j].msg.n
      <4>1. i + 1 \in DOMAIN q /\ j + 1 \in DOMAIN q /\ i + 1 < j + 1
            /\ Tail(q)[i] = q[i + 1] /\ Tail(q)[j] = q[j + 1]
        BY <3>2, <3>3
      <4>2. \A x, y \in DOMAIN q : x < y => q[x].msg.n <= q[y].msg.n
        BY <1>1, <3>1 DEF QueueInOrder
      <4> QED
        BY <4>1, <4>2
    <3>4. \A j \in DOMAIN Tail(q) : Tail(q)[j].msg.n <= said /\ \A i \in DOMAIN shown[k] : shown[k][i] <= Tail(q)[j].msg.n
      BY <1>1, <3>1, <3>2 DEF QueueInOrder
    <3> QED
      BY <1>1, <2>3, <3>1, <3>3, <3>4 DEF QueueInOrder
  <2> QED
    BY <2>1, <2>2, <2>3
<1> QED
  BY <1>1, <1>2, <1>3, OneConnection

\* What is said is a message with the next number.
LEMMA SaidNext ==
  ASSUME FeedTypes, Say, NEW role \in {"user", "assistant"}, NEW words \in Texts, NEW shows \in BOOLEAN
  PROVE  /\ Says(role, words) \in Message /\ Event(Says(role, words), shows) \in Queued
         /\ Event(Says(role, words), shows).msg = Says(role, words)
         /\ Event(Says(role, words), shows).msg.n = said + 1
         /\ Event(Says(role, words), shows).shows = shows /\ Says(role, words).n = said + 1
         /\ said' = said + 1 /\ said' \in 0..MaxEvents /\ said + 1 \in Numbers /\ said \in Nat
<1>1. said \in Nat /\ said' = said + 1 /\ said' \in 0..MaxEvents /\ said + 1 \in Numbers
  BY FeedAssumption DEF FeedTypes, Say, Numbers
<1>2. Says(role, words) \in Message /\ Says(role, words).n = said + 1
  BY <1>1 DEF Says, Message
<1> QED
  BY <1>1, <1>2 DEF Event, Queued

\* The steps that say something, and what they record with whom.
LEMMA PublishKeepsOrder ==
  ASSUME OrderInv, NEW e \in Queued, Published(<<e>>) \/ Published(<<e, e>>),
         e.msg.n = said + 1, said' = said + 1, said' \in 0..MaxEvents, UNCHANGED <<shown, forgotten>>,
         file' \in Seq(Message), DOMAIN copy' \subseteq Managers,
         \A m \in DOMAIN copy' : copy'[m] \in Seq(Message)
  PROVE  OrderInv'
<1>1. \A k \in Sockets : QueueInOrder(k)' /\ ShownBefore(k)'
  BY PublishedInOrder
<1>2. socket' \in [Sockets -> Connection]
  <2>1. CASE Sockets = {}
    <3>1. PICK f : socket' = [k \in Sockets |-> f[k]]
      BY DEF Published
    <3> QED
      BY <2>1, <3>1
  <2>2. CASE Sockets # {}
    BY <2>2, PublishedTo DEF OrderInv
  <2> QED
    BY <2>1, <2>2
<1> QED
  BY <1>1, <1>2 DEF OrderInv, FeedTypes

\* What each step that says something records and publishes.
LEMMA SayingSteps ==
  ASSUME FeedTypes,
         \/ \E t \in Texts : InboundOfUser(t) \/ InboundOfStranger(t) \/ Reply(t)
         \/ \E k \in Sockets, t \in Texts : Chat(k, t)
  PROVE  \E e \in Queued :
           /\ Published(<<e>>) \/ Published(<<e, e>>)
           /\ e.msg.n = said + 1 /\ said' = said + 1 /\ said' \in 0..MaxEvents /\ said \in Nat
           /\ UNCHANGED <<shown, forgotten>>
           /\ \/ UNCHANGED <<file, copy>>
              \/ Record("scheduler", e.msg)
              \/ Record("dashboard", e.msg) /\ ~e.shows /\ \E k \in Sockets : socket[k].phase = "open"
<1>1. ASSUME NEW t \in Texts, InboundOfUser(t) \/ InboundOfStranger(t)
      PROVE  \E e \in Queued :
               /\ Published(<<e>>) /\ e.msg.n = said + 1 /\ said' = said + 1 /\ said' \in 0..MaxEvents /\ said \in Nat
               /\ UNCHANGED <<shown, forgotten>>
               /\ UNCHANGED <<file, copy>> \/ Record("scheduler", e.msg)
  <2>1. Say
    BY <1>1 DEF InboundOfUser, InboundOfStranger
  <2>2. PICK e \in Queued : e = Event(Says("user", t), TRUE)
    BY <2>1, SaidNext
  <2> QED
    BY <1>1, <2>1, <2>2, SaidNext DEF InboundOfUser, InboundOfStranger
<1>2. ASSUME NEW t \in Texts, Reply(t)
      PROVE  \E e \in Queued :
               /\ Published(<<e, e>>) /\ e.msg.n = said + 1 /\ said' = said + 1 /\ said' \in 0..MaxEvents /\ said \in Nat
               /\ UNCHANGED <<shown, forgotten>> /\ Record("scheduler", e.msg)
  <2>1. Say
    BY <1>2 DEF Reply
  <2>2. PICK e \in Queued : e = Event(Says("assistant", t), TRUE)
    BY <2>1, SaidNext
  <2> QED
    BY <1>2, <2>1, <2>2, SaidNext DEF Reply
<1>3. ASSUME NEW k \in Sockets, NEW t \in Texts, Chat(k, t)
      PROVE  \E e \in Queued :
               /\ Published(<<e>>) /\ e.msg.n = said + 1 /\ said' = said + 1 /\ said' \in 0..MaxEvents /\ said \in Nat
               /\ UNCHANGED <<shown, forgotten>> /\ Record("dashboard", e.msg) /\ ~e.shows
  <2>1. Say
    BY <1>3 DEF Chat
  <2>2. PICK e \in Queued : e = Event(Says("user", t), FALSE)
    BY <2>1, SaidNext
  <2> QED
    BY <1>3, <2>1, <2>2, SaidNext DEF Chat
<1>4. \A k \in Sockets, t \in Texts : Chat(k, t) => socket[k].phase = "open"
  BY DEF Chat
<1> QED
  BY <1>1, <1>2, <1>3, <1>4

LEMMA SayingKeepsOrder ==
  ASSUME OrderInv,
         \/ \E t \in Texts : InboundOfUser(t) \/ InboundOfStranger(t) \/ Reply(t)
         \/ \E k \in Sockets, t \in Texts : Chat(k, t)
  PROVE  OrderInv'
<1>1. FeedTypes
  BY DEF OrderInv
<1>2. PICK e \in Queued :
        /\ Published(<<e>>) \/ Published(<<e, e>>)
        /\ e.msg.n = said + 1 /\ said' = said + 1 /\ said' \in 0..MaxEvents
        /\ UNCHANGED <<shown, forgotten>>
        /\ UNCHANGED <<file, copy>> \/ Record("scheduler", e.msg) \/ Record("dashboard", e.msg)
  BY <1>1, SayingSteps
<1>3. file' \in Seq(Message) /\ DOMAIN copy' \subseteq Managers /\ \A m \in DOMAIN copy' : copy'[m] \in Seq(Message)
  <2>1. e.msg \in Message
    BY DEF Queued
  <2>2. CASE UNCHANGED <<file, copy>>
    BY <1>1, <2>2 DEF FeedTypes
  <2>3. ASSUME NEW m \in Managers, Record(m, e.msg)
        PROVE  file' \in Seq(Message) /\ DOMAIN copy' \subseteq Managers /\ \A o \in DOMAIN copy' : copy'[o] \in Seq(Message)
    BY <1>1, <2>1, <2>3, Recorded
  <2> QED
    BY <1>2, <2>2, <2>3 DEF Managers
<1> QED
  BY <1>2, <1>3, PublishKeepsOrder

\* What the broadcast loop does with an event of the user.
LEMMA Forwards ==
  ASSUME FeedTypes, NEW k \in Sockets, ForwardUserEvent(k)
  PROVE  /\ socket[k].user # <<>> /\ Head(socket[k].user) \in Queued /\ socket[k].phase = "open"
         /\ UNCHANGED said
         /\ \E c \in Connection :
              /\ socket' = [socket EXCEPT ![k] = c] /\ c.phase = "open" /\ c.user = Tail(socket[k].user)
              /\ \/ /\ c.seen = socket[k].seen /\ UNCHANGED <<file, copy, shown, forgotten>>
                    /\ ~Head(socket[k].user).shows \/ Head(socket[k].user).msg.n \in socket[k].seen
                 \/ /\ Head(socket[k].user).shows /\ Head(socket[k].user).msg.n \notin socket[k].seen
                    /\ forgotten' = forgotten \cup ((socket[k].seen \cup {Head(socket[k].user).msg.n}) \ c.seen)
                    /\ Record("dashboard", Head(socket[k].user).msg)
                    /\ shown' = [shown EXCEPT ![k] = Append(@, Head(socket[k].user).msg.n)]
<1>1. PICK q \in Seq(Queued) : q = socket[k].user
  BY ConnectionFacts
<1>2. q # <<>> /\ socket[k].phase = "open" /\ UNCHANGED said
  BY <1>1 DEF ForwardUserEvent
<1>3. PICK e \in Queued : e = Head(q)
  BY <1>1, <1>2, QueueShape
<1>4. Tail(q) \in Seq(Queued)
  BY <1>1, <1>2, QueueShape
<1>5. PICK t \in {0, 1} : /\ t <= socket[k].system
                          /\ Forward(k, e, [socket[k] EXCEPT !.user = Tail(@), !.system = @ - t])
  BY <1>1, <1>3 DEF ForwardUserEvent
<1>6. PICK left : left = [socket[k] EXCEPT !.user = Tail(@), !.system = @ - t]
  OBVIOUS
<1>7. left \in Connection /\ left.phase = "open" /\ left.user = Tail(q) /\ left.seen = socket[k].seen
  <2>1. socket[k] \in Connection /\ socket[k].system \in Nat /\ socket[k].system - t \in Nat
    BY <1>5, ConnectionFacts
  <2> QED
    BY <1>1, <1>2, <1>4, <1>6, <2>1 DEF Connection
<1>8. Forward(k, e, left)
  BY <1>5, <1>6
<1>9. CASE ~e.shows \/ AlreadySeen(left.seen, e)
  <2>1. socket' = [socket EXCEPT ![k] = left] /\ UNCHANGED <<file, copy, shown, forgotten>>
    BY <1>8, <1>9 DEF Forward
  <2> QED
    BY <1>1, <1>2, <1>3, <1>7, <1>9, <2>1 DEF AlreadySeen
<1>10. CASE e.shows /\ ~AlreadySeen(left.seen, e)
  <2>1. PICK s \in SeenWith(left.seen, e.msg.n) :
          /\ socket' = [socket EXCEPT ![k] = [left EXCEPT !.seen = s]]
          /\ forgotten' = forgotten \cup ((left.seen \cup {e.msg.n}) \ s)
    BY <1>8, <1>10 DEF Forward
  <2>2. Record("dashboard", e.msg) /\ shown' = [shown EXCEPT ![k] = Append(@, e.msg.n)]
    BY <1>8, <1>10 DEF Forward
  <2>3. PICK c : c = [left EXCEPT !.seen = s]
    OBVIOUS
  <2>4. s \subseteq left.seen \cup {e.msg.n}
    BY DEF SeenWith
  <2>5. left.seen \cup {e.msg.n} \subseteq Numbers
    BY <1>7, ConnectionFacts DEF Queued, Message
  <2>6. c \in Connection /\ c.phase = "open" /\ c.user = Tail(q) /\ c.seen = s
    BY <1>7, <2>3, <2>4, <2>5 DEF Connection
  <2>7. socket' = [socket EXCEPT ![k] = c]
    BY <2>1, <2>3
  <2> QED
    BY <1>1, <1>2, <1>3, <1>7, <1>10, <2>1, <2>2, <2>6, <2>7 DEF AlreadySeen
<1> QED
  BY <1>9, <1>10

LEMMA ForwardKeepsOrder ==
  ASSUME OrderInv, NEW k \in Sockets, ForwardUserEvent(k)
  PROVE  OrderInv'
<1>0. FeedTypes /\ QueueInOrder(k) /\ ShownBefore(k)
  BY DEF OrderInv
<1>1. PICK q \in Seq(Queued), sh \in Seq(Numbers) : q = socket[k].user /\ sh = shown[k]
  BY <1>0, ConnectionFacts
<1>2. PICK e \in Queued : e = Head(q) /\ q # <<>> /\ socket[k].phase = "open" /\ UNCHANGED said
  BY <1>0, <1>1, Forwards
<1>3. PICK c \in Connection :
        /\ socket' = [socket EXCEPT ![k] = c] /\ c.phase = "open" /\ c.user = Tail(q)
        /\ \/ c.seen = socket[k].seen /\ UNCHANGED <<file, copy, shown, forgotten>>
           \/ /\ e.msg.n \notin socket[k].seen
              /\ forgotten' = forgotten \cup ((socket[k].seen \cup {e.msg.n}) \ c.seen)
              /\ Record("dashboard", e.msg) /\ shown' = [shown EXCEPT ![k] = Append(@, e.msg.n)]
  BY <1>0, <1>1, <1>2, Forwards
<1>4. CASE c.seen = socket[k].seen /\ UNCHANGED <<file, copy, shown, forgotten>>
  <2>1. file' \in Seq(Message) /\ DOMAIN copy' \subseteq Managers /\ \A m \in DOMAIN copy' : copy'[m] \in Seq(Message)
    BY <1>0, <1>4 DEF FeedTypes
  <2> QED
    BY <1>1, <1>2, <1>3, <1>4, <2>1, SameShown DEF Subscribed
<1>5. CASE /\ e.msg.n \notin socket[k].seen
           /\ forgotten' = forgotten \cup ((socket[k].seen \cup {e.msg.n}) \ c.seen)
           /\ Record("dashboard", e.msg) /\ shown' = [shown EXCEPT ![k] = Append(@, e.msg.n)]
  <2>1. e.msg \in Message /\ e.msg.n \in Numbers /\ e.msg.n \in Nat
    BY FeedAssumption DEF Queued, Message, Numbers
  <2>2. file' \in Seq(Message) /\ DOMAIN copy' \subseteq Managers /\ \A m \in DOMAIN copy' : copy'[m] \in Seq(Message)
    BY <1>0, <1>5, <2>1, Recorded DEF Managers
  <2>3. PICK new \in Seq(Numbers) : new = Append(sh, e.msg.n)
    BY <2>1, QueueShape
  <2>4. /\ DOMAIN sh = 1..Len(sh) /\ DOMAIN new = 1..(Len(sh) + 1) /\ Len(sh) \in Nat
        /\ \A i \in DOMAIN sh : new[i] = sh[i] /\ sh[i] \in Nat
        /\ new[Len(sh) + 1] = e.msg.n
    BY <1>0, <1>1, <2>1, <2>3, QueueShape, ConnectionFacts
  <2>5. /\ DOMAIN q = 1..Len(q) /\ Len(q) \in Nat /\ 1 \in DOMAIN q /\ e = q[1]
        /\ DOMAIN Tail(q) = 1..(Len(q) - 1) /\ \A i \in 1..(Len(q) - 1) : Tail(q)[i] = q[i + 1]
    BY <1>2, QueueShape
  <2>6. /\ \A i, j \in DOMAIN q : i < j => q[i].msg.n <= q[j].msg.n
        /\ \A j \in DOMAIN q : q[j].msg.n <= said /\ \A i \in DOMAIN sh : sh[i] <= q[j].msg.n
    BY <1>0, <1>1 DEF QueueInOrder
  <2>7. \A i \in DOMAIN new : (i \in DOMAIN sh /\ new[i] = sh[i]) \/ (i = Len(sh) + 1 /\ new[i] = e.msg.n)
    BY <2>4
  <2>8. socket'[k] = c /\ shown'[k] = new /\ shown' = [shown EXCEPT ![k] = new] /\ said' = said
    BY <1>0, <1>1, <1>2, <1>3, <1>5, <2>3 DEF FeedTypes
  <2>9. QueueInOrder(k)'
    <3>1. ASSUME NEW i \in DOMAIN Tail(q), NEW j \in DOMAIN Tail(q), i < j
          PROVE  Tail(q)[i].msg.n <= Tail(q)[j].msg.n
      <4>1. i + 1 \in DOMAIN q /\ j + 1 \in DOMAIN q /\ i + 1 < j + 1
            /\ Tail(q)[i] = q[i + 1] /\ Tail(q)[j] = q[j + 1]
        BY <2>5, <3>1
      <4> QED
        BY <2>6, <4>1
    <3>2. ASSUME NEW j \in DOMAIN Tail(q)
          PROVE  Tail(q)[j].msg.n <= said /\ \A i \in DOMAIN new : new[i] <= Tail(q)[j].msg.n
      <4>1. j + 1 \in DOMAIN q /\ 1 < j + 1 /\ Tail(q)[j] = q[j + 1]
        BY <2>5, <3>2
      <4>2. e.msg.n <= Tail(q)[j].msg.n
        BY <2>5, <2>6, <4>1
      <4> QED
        BY <2>6, <2>7, <4>1, <4>2
    <3> QED
      BY <1>3, <2>8, <3>1, <3>2 DEF QueueInOrder
  <2>10. e.msg.n <= said /\ \A i \in DOMAIN sh : sh[i] <= e.msg.n
    BY <2>5, <2>6
  <2>11. \A i \in DOMAIN sh : sh[i] <= said /\ sh[i] \in socket[k].seen \cup forgotten
    BY <1>0, <1>1, <1>2 DEF ShownBefore, Subscribed
  <2>12. \A i, j \in DOMAIN sh : i < j => sh[i] < sh[j] \/ (sh[i] = sh[j] /\ sh[i] \in forgotten)
    BY <1>0, <1>1 DEF ShownBefore
  <2>13. \A i \in DOMAIN new : new[i] <= said /\ new[i] \in c.seen \cup forgotten'
    BY <1>5, <2>7, <2>10, <2>11
  <2>14. ASSUME NEW i \in DOMAIN new, NEW j \in DOMAIN new, i < j
         PROVE  new[i] < new[j] \/ (new[i] = new[j] /\ new[i] \in forgotten')
    <3>1. i \in DOMAIN sh /\ new[i] = sh[i] /\ sh[i] \in Nat
      BY <2>4, <2>7, <2>14
    <3>2. CASE j \in DOMAIN sh /\ new[j] = sh[j]
      BY <1>5, <2>12, <2>14, <3>1, <3>2
    <3>3. CASE new[j] = e.msg.n
      <4>1. sh[i] = e.msg.n => sh[i] \in forgotten
        BY <1>5, <2>11, <3>1
      <4> QED
        BY <1>5, <2>1, <2>10, <3>1, <3>3, <4>1
    <3> QED
      BY <2>7, <3>2, <3>3
  <2>15. ShownBefore(k)'
    BY <2>8, <2>13, <2>14 DEF ShownBefore
  <2> QED
    BY <1>3, <1>5, <2>2, <2>8, <2>9, <2>15, OneConnection
<1> QED
  BY <1>3, <1>4, <1>5

\* The copies keep their types when they stay, or when the dashboard caches what it has.
LEMMA CopiesStay ==
  ASSUME FeedTypes, file' = file, copy' = copy \/ Cached("dashboard", SessionOf("dashboard")) \/ copy' = <<>>
  PROVE  file' \in Seq(Message) /\ DOMAIN copy' \subseteq Managers /\ \A m \in DOMAIN copy' : copy'[m] \in Seq(Message)
<1>1. CASE copy' = copy
  BY <1>1 DEF FeedTypes
<1>2. CASE Cached("dashboard", SessionOf("dashboard"))
  <2>1. SessionOf("dashboard") \in Seq(Message)
    BY DEF FeedTypes, SessionOf, Lookup
  <2>2. copy' = WithEntry(copy, "dashboard", SessionOf("dashboard"))
    BY <1>2 DEF Cached
  <2>3. DOMAIN copy' = DOMAIN copy \cup {"dashboard"} /\ copy'["dashboard"] = SessionOf("dashboard")
        /\ \A m \in DOMAIN copy \ {"dashboard"} : copy'[m] = copy[m]
    BY <2>2 DEF WithEntry
  <2> QED
    BY <2>1, <2>3 DEF FeedTypes, Managers
<1>3. CASE copy' = <<>>
  <2>1. DOMAIN copy' = {}
    BY <1>3
  <2> QED
    BY <2>1 DEF FeedTypes
<1> QED
  BY <1>1, <1>2, <1>3

\* The queue of the user after a state update was taken.
LEMMA StateTaken ==
  ASSUME FeedTypes, NEW k \in Sockets, ForwardState(k)
  PROVE  \E c \in Connection :
           /\ socket' = [socket EXCEPT ![k] = c] /\ c.phase = "open" /\ c.seen = socket[k].seen
           /\ c.user = socket[k].user \/ (c.user = Tail(socket[k].user) /\ socket[k].user # <<>>)
<1>1. PICK q \in Seq(Queued) : q = socket[k].user
  BY ConnectionFacts
<1>2. PICK u \in {0, 1} :
        /\ u <= Len(q)
        /\ socket' = [socket EXCEPT ![k].system = @ - 1, ![k].user = SubSeq(@, u + 1, Len(@))]
  BY <1>1 DEF ForwardState
<1>3. PICK c : c = [socket[k] EXCEPT !.system = @ - 1, !.user = SubSeq(@, u + 1, Len(@))]
  OBVIOUS
<1>4. socket' = [socket EXCEPT ![k] = c]
  BY <1>2, <1>3 DEF FeedTypes, Connection
<1>5. Len(q) \in Nat /\ \A i \in 1..Len(q) : q[i] \in Queued
  BY QueueShape
<1>6. SubSeq(q, u + 1, Len(q)) = q \/ (SubSeq(q, u + 1, Len(q)) = Tail(q) /\ q # <<>>)
  <2>1. CASE u = 0
    BY <2>1, SubSeqFull
  <2>2. CASE u = 1
    <3>1. q # <<>>
      BY <1>2, <2>2, <1>5
    <3> QED
      BY <2>2, <3>1, TailIsSubSeq
  <2> QED
    BY <2>1, <2>2
<1>7. SubSeq(q, u + 1, Len(q)) \in Seq(Queued)
  BY <1>6, QueueShape
<1>8. socket[k] \in Connection /\ socket[k].system \in Nat /\ socket[k].system - 1 \in Nat /\ socket[k].phase = "open"
  BY ConnectionFacts DEF ForwardState
<1>9. c \in Connection /\ c.phase = "open" /\ c.seen = socket[k].seen /\ c.user = SubSeq(q, u + 1, Len(q))
  BY <1>1, <1>3, <1>7, <1>8 DEF Connection
<1> QED
  BY <1>1, <1>4, <1>6, <1>9

LEMMA ConnectKeepsOrder ==
  ASSUME OrderInv, NEW k \in Sockets, Connect(k)
  PROVE  OrderInv'
<1>0. PICK c : c = [Closed EXCEPT !.phase = "opening"]
  OBVIOUS
<1>1. c \in Connection /\ c = [Closed EXCEPT !.phase = "opening"] /\ c.user = <<>>
  <2>1. c = [phase |-> "opening", user |-> <<>>, system |-> 0, seen |-> {}]
    BY <1>0 DEF Closed
  <2>2. c \in Connection /\ c.user = <<>>
    BY <2>1 DEF Connection
  <2> QED
    BY <1>0, <2>2
<1>2. /\ socket' = [socket EXCEPT ![k] = c] /\ shown' = [shown EXCEPT ![k] = <<>>]
      /\ UNCHANGED <<said, file, copy, forgotten>>
  BY <1>1 DEF Connect
<1>3. socket'[k] = c /\ shown'[k] = <<>> /\ <<>> \in Seq(Numbers)
  BY <1>2 DEF OrderInv, FeedTypes
<1>4. QueueInOrder(k)' /\ ShownBefore(k)'
  BY <1>1, <1>3 DEF QueueInOrder, ShownBefore
<1>5. file' \in Seq(Message) /\ DOMAIN copy' \subseteq Managers /\ \A m \in DOMAIN copy' : copy'[m] \in Seq(Message)
  BY <1>2, CopiesStay DEF OrderInv
<1> QED
  BY <1>1, <1>2, <1>3, <1>4, <1>5, OneConnection

\* The steps that change the phase of a connection, or what it has queued.
LEMMA SocketKeepsOrder ==
  ASSUME OrderInv, NEW k \in Sockets, SendHistory(k) \/ Disconnect(k) \/ Unsubscribe(k) \/ ForwardState(k)
  PROVE  OrderInv'
<1>0. FeedTypes /\ socket[k] \in Connection
  BY ConnectionFacts DEF OrderInv
<1>1. /\ UNCHANGED <<said, file, shown, forgotten>>
      /\ copy' = copy \/ Cached("dashboard", SessionOf("dashboard"))
  BY DEF SendHistory, Disconnect, Unsubscribe, ForwardState
<1>2. file' \in Seq(Message) /\ DOMAIN copy' \subseteq Managers /\ \A m \in DOMAIN copy' : copy'[m] \in Seq(Message)
  BY <1>0, <1>1, CopiesStay
<1>3. \E c \in Connection :
        /\ socket' = [socket EXCEPT ![k] = c]
        /\ c.user \in {socket[k].user, Tail(socket[k].user), <<>>}
        /\ socket[k].user # <<>> \/ c.user # Tail(socket[k].user) \/ c.user = socket[k].user
        /\ c.phase = "closed" \/ (c.seen = socket[k].seen /\ Subscribed(k))
  <2>1. CASE SendHistory(k)
    <3>0. PICK c : c = [socket[k] EXCEPT !.phase = "open"]
      OBVIOUS
    <3>1. c \in Connection /\ c = [socket[k] EXCEPT !.phase = "open"] /\ c.user = socket[k].user /\ c.seen = socket[k].seen
      BY <1>0, <3>0 DEF Connection
    <3> QED
      BY <1>0, <2>1, <3>1 DEF SendHistory, FeedTypes, Subscribed, Connection
  <2>2. CASE Disconnect(k)
    <3>0. PICK c : c = [socket[k] EXCEPT !.phase = "gone"]
      OBVIOUS
    <3>1. c \in Connection /\ c = [socket[k] EXCEPT !.phase = "gone"] /\ c.user = socket[k].user /\ c.seen = socket[k].seen
      BY <1>0, <3>0 DEF Connection
    <3> QED
      BY <1>0, <2>2, <3>1 DEF Disconnect, FeedTypes, Subscribed, Connection
  <2>3. CASE Unsubscribe(k)
    <3>1. Closed \in Connection /\ Closed.user = <<>> /\ Closed.phase = "closed"
      BY DEF Closed, Connection
    <3>2. socket' = [socket EXCEPT ![k] = Closed]
      BY <2>3 DEF Unsubscribe
    <3> QED
      BY <3>1, <3>2
  <2>4. CASE ForwardState(k)
    <3>1. Subscribed(k)
      BY <2>4 DEF ForwardState, Subscribed
    <3> QED
      BY <1>0, <2>4, <3>1, StateTaken
  <2> QED
    BY <2>1, <2>2, <2>3, <2>4
<1> QED
  BY <1>1, <1>2, <1>3, SameShown

LEMMA TickKeepsOrder ==
  ASSUME OrderInv, StateTick
  PROVE  /\ OrderInv'
         /\ \A k \in Sockets : /\ socket'[k].phase = socket[k].phase /\ socket'[k].seen = socket[k].seen
                               /\ socket'[k].user = socket[k].user
<1>1. ASSUME NEW k \in Sockets
      PROVE  socket'[k] \in Connection /\ socket'[k].user = socket[k].user
             /\ socket'[k].phase = socket[k].phase /\ socket'[k].seen = socket[k].seen
  <2>1. socket'[k] = [socket[k] EXCEPT !.system = @ + 1] \/ socket'[k] = socket[k]
    BY DEF StateTick
  <2>2. socket[k] \in Connection /\ socket[k].system + 1 \in Nat
    BY ConnectionFacts DEF OrderInv
  <2> QED
    BY <2>1, <2>2 DEF Connection
<1>2. socket' \in [Sockets -> Connection] /\ UNCHANGED <<said, file, copy, shown, forgotten>>
  BY <1>1 DEF StateTick
<1>3. \A k \in Sockets : QueueInOrder(k)' /\ ShownBefore(k)'
  BY <1>1, <1>2 DEF OrderInv, QueueInOrder, ShownBefore, Subscribed
<1>4. FeedTypes'
  BY <1>2 DEF OrderInv, FeedTypes
<1> QED
  BY <1>1, <1>3, <1>4 DEF OrderInv

LEMMA RestartKeepsOrder ==
  ASSUME OrderInv, RestartFeed
  PROVE  OrderInv'
<1>1. Closed \in Connection /\ Closed.user = <<>>
  BY DEF Closed, Connection
<1>2. /\ socket' = [k \in Sockets |-> Closed] /\ shown' = [k \in Sockets |-> <<>>] /\ copy' = <<>>
      /\ UNCHANGED <<said, file, forgotten>>
  BY DEF RestartFeed
<1>3. file' \in Seq(Message) /\ DOMAIN copy' \subseteq Managers /\ \A m \in DOMAIN copy' : copy'[m] \in Seq(Message)
  BY <1>2, CopiesStay DEF OrderInv
<1>4. FeedTypes'
  BY <1>1, <1>2, <1>3 DEF OrderInv, FeedTypes
<1> QED
  BY <1>1, <1>2, <1>4 DEF OrderInv, QueueInOrder, ShownBefore

LEMMA OrderStep == OrderInv /\ [FeedNext]_feedVars => OrderInv'
<1> SUFFICES ASSUME OrderInv, [FeedNext]_feedVars PROVE OrderInv'
  OBVIOUS
<1>1. CASE UNCHANGED feedVars
  BY <1>1 DEF feedVars, OrderInv, FeedTypes, QueueInOrder, ShownBefore, Subscribed
<1> QED
  BY <1>1, SayingKeepsOrder, TickKeepsOrder, ConnectKeepsOrder, SocketKeepsOrder, ForwardKeepsOrder,
     RestartKeepsOrder DEF FeedNext

\* However the queues of the broadcast loop (crabclaw/dashboard/server.py) race, and
\* although a reply is published twice, a connection shows each event once and in
\* order, but for those whose event_id was cut from seen_event_ids.
THEOREM EventsShownInOrder == FeedSpec => []ShownInOrderOnce
<1>1. OrderInv => ShownInOrderOnce
  BY DEF OrderInv, ShownBefore, ShownInOrderOnce
<1> QED
  BY <1>1, FeedStart, OrderStep, PTL DEF FeedSpec

-----------------------------------------------------------------------------
\* A connection keeps few event_ids, and few state updates wait for it.
Few(c) == c.system \in 0..MaxTicks /\ Cardinality(c.seen) <= SeenLimit

FeedBounds == \A k \in Sockets : Few(socket[k])

LEMMA ClosedIsFew == Few(Closed)
<1>1. Closed.system = 0 /\ Closed.seen = {}
  BY DEF Closed
<1> QED
  BY <1>1, FS_EmptySet, FeedAssumption DEF Few

\* Where the others stay as they are, only the one that changes counts.
LEMMA OneBounded ==
  ASSUME FeedTypes, FeedBounds, NEW k \in Sockets, NEW c, Few(c),
         socket' = [socket EXCEPT ![k] = c]
  PROVE  FeedBounds'
<1>1. \A j \in Sockets : socket'[j] = IF j = k THEN c ELSE socket[j]
  BY DEF FeedTypes
<1>2. \A j \in Sockets : Few(socket'[j])
  BY <1>1 DEF FeedBounds
<1>3. (\A j \in Sockets : Few(socket[j]))'
  BY <1>2 DEF Few
<1> QED
  BY <1>3 DEF FeedBounds

LEMMA FeedBoundsStep == FeedTypes /\ FeedBounds /\ FeedNext => FeedBounds'
<1> SUFFICES ASSUME FeedTypes, FeedBounds, FeedNext PROVE FeedBounds'
  OBVIOUS
<1>1. ASSUME NEW events, Published(events) PROVE FeedBounds'
  <2>1. ASSUME NEW j \in Sockets PROVE Few(socket'[j])
    <3>1. socket'[j] = [socket[j] EXCEPT !.user = @ \o events] \/ socket'[j] = socket[j]
      BY <1>1 DEF Published
    <3>2. socket'[j].system = socket[j].system /\ socket'[j].seen = socket[j].seen
      BY <3>1, ConnectionFacts DEF Connection
    <3> QED
      BY <3>2 DEF FeedBounds, Few
  <2>2. (\A j \in Sockets : Few(socket[j]))'
    BY <2>1 DEF Few
  <2> QED
    BY <1>1, <2>2 DEF FeedBounds
<1>2. ASSUME NEW t \in Texts, InboundOfUser(t) \/ InboundOfStranger(t) \/ Reply(t) PROVE FeedBounds'
  BY <1>1, <1>2 DEF InboundOfUser, InboundOfStranger, Reply
<1>3. ASSUME NEW k \in Sockets, NEW t \in Texts, Chat(k, t) PROVE FeedBounds'
  BY <1>1, <1>3 DEF Chat
<1>4. ASSUME StateTick PROVE FeedBounds'
  <2>1. ASSUME NEW j \in Sockets PROVE Few(socket'[j])
    <3>1. \/ socket'[j] = socket[j]
          \/ socket'[j] = [socket[j] EXCEPT !.system = @ + 1] /\ socket[j].system < MaxTicks
      BY <1>4 DEF StateTick
    <3>2. \/ socket'[j] = socket[j]
          \/ /\ socket'[j].system = socket[j].system + 1 /\ socket'[j].seen = socket[j].seen
             /\ socket[j].system < MaxTicks
      BY <3>1, ConnectionFacts DEF Connection
    <3> QED
      BY <3>2, FeedAssumption DEF FeedBounds, Few
  <2>2. (\A j \in Sockets : Few(socket[j]))'
    BY <2>1 DEF Few
  <2> QED
    BY <1>4, <2>2 DEF FeedBounds, StateTick
<1>5. ASSUME NEW k \in Sockets, Connect(k) PROVE FeedBounds'
  <2>1. PICK c : c = [Closed EXCEPT !.phase = "opening"]
    OBVIOUS
  <2>2. c.system = Closed.system /\ c.seen = Closed.seen
    BY <2>1 DEF Closed
  <2>3. Few(c)
    BY <2>2, ClosedIsFew DEF Few
  <2> QED
    BY <1>5, <2>1, <2>3, OneBounded DEF Connect, FeedBounds
<1>6. ASSUME NEW k \in Sockets, SendHistory(k) PROVE FeedBounds'
  <2>2. PICK c : c = [socket[k] EXCEPT !.phase = "open"]
    OBVIOUS
  <2>3. c.system = socket[k].system /\ c.seen = socket[k].seen
    BY <2>2, ConnectionFacts DEF Connection
  <2>4. Few(c)
    BY <2>3 DEF FeedBounds, Few
  <2>5. socket' = [socket EXCEPT ![k] = c]
    BY <1>6, <2>2 DEF SendHistory
  <2> QED
    BY <2>4, <2>5, OneBounded
<1>7. ASSUME NEW k \in Sockets, Disconnect(k) PROVE FeedBounds'
  <2>2. PICK c : c = [socket[k] EXCEPT !.phase = "gone"]
    OBVIOUS
  <2>3. c.system = socket[k].system /\ c.seen = socket[k].seen
    BY <2>2, ConnectionFacts DEF Connection
  <2>4. Few(c)
    BY <2>3 DEF FeedBounds, Few
  <2>5. socket' = [socket EXCEPT ![k] = c]
    BY <1>7, <2>2 DEF Disconnect, FeedBounds
  <2> QED
    BY <2>4, <2>5, OneBounded
<1>8. ASSUME NEW k \in Sockets, Unsubscribe(k) PROVE FeedBounds'
  BY <1>8, ClosedIsFew, OneBounded DEF Unsubscribe, FeedBounds
<1>9. ASSUME NEW k \in Sockets, ForwardUserEvent(k) PROVE FeedBounds'
  <2>1. PICK t \in {0, 1} : t <= socket[k].system /\
          Forward(k, Head(socket[k].user), [socket[k] EXCEPT !.user = Tail(@), !.system = @ - t])
    BY <1>9 DEF ForwardUserEvent
  <2>2. PICK e, left : e = Head(socket[k].user) /\ left = [socket[k] EXCEPT !.user = Tail(@), !.system = @ - t]
    OBVIOUS
  <2>3. Forward(k, e, left)
    BY <2>1, <2>2
  <2>4. left.system = socket[k].system - t /\ left.seen = socket[k].seen
    BY <2>2, ConnectionFacts DEF Connection
  <2>5. left.system \in 0..MaxTicks
    BY <2>1, <2>4, FeedAssumption DEF FeedBounds, Few
  <2>6. Few(left)
    BY <2>4, <2>5 DEF FeedBounds, Few
  <2>8. CASE socket' = [socket EXCEPT ![k] = left]
    BY <2>6, <2>8, OneBounded
  <2>9. ASSUME NEW s \in SeenWith(left.seen, e.msg.n), socket' = [socket EXCEPT ![k] = [left EXCEPT !.seen = s]]
        PROVE  FeedBounds'
    <3>1. Cardinality(s) <= SeenLimit
      BY FeedAssumption DEF SeenWith
    <3>2. PICK c : c = [left EXCEPT !.seen = s]
      OBVIOUS
    <3>3. c.system = left.system /\ c.seen = s
      BY <2>2, <3>2, ConnectionFacts DEF Connection
    <3>4. Few(c)
      BY <2>5, <3>1, <3>3 DEF Few
    <3> QED
      BY <2>9, <3>2, <3>4, OneBounded
  <2> QED
    BY <2>3, <2>8, <2>9 DEF Forward
<1>10. ASSUME NEW k \in Sockets, ForwardState(k) PROVE FeedBounds'
  <2>1. PICK u \in {0, 1} :
          socket' = [socket EXCEPT ![k].system = @ - 1, ![k].user = SubSeq(@, u + 1, Len(@))]
    BY <1>10 DEF ForwardState
  <2>2. PICK c : c = [socket[k] EXCEPT !.system = @ - 1, !.user = SubSeq(@, u + 1, Len(@))]
    OBVIOUS
  <2>3. socket' = [socket EXCEPT ![k] = c]
    BY <2>1, <2>2 DEF FeedTypes, Connection
  <2>4. c.system = socket[k].system - 1 /\ c.seen = socket[k].seen
    BY <2>2, ConnectionFacts DEF Connection
  <2>5. Few(c)
    BY <1>10, <2>4, FeedAssumption DEF FeedBounds, Few, ForwardState
  <2> QED
    BY <1>10, <2>3, <2>5, OneBounded DEF FeedBounds, ForwardState
<1>11. ASSUME RestartFeed PROVE FeedBounds'
  <2>1. \A j \in Sockets : Few(socket'[j])
    BY <1>11, ClosedIsFew DEF RestartFeed
  <2>2. (\A j \in Sockets : Few(socket[j]))'
    BY <2>1 DEF Few
  <2> QED
    BY <1>11, <2>2 DEF FeedBounds, RestartFeed
<1> QED
  BY <1>2, <1>3, <1>4, <1>5, <1>6, <1>7, <1>8, <1>9, <1>10, <1>11 DEF FeedNext

\* The dashboard's connections, and the copies of the conversation, keep their types.
THEOREM FeedStaysTyped == FeedSpec => []FeedTypeOK
<1>1. FeedTypes /\ FeedBounds => FeedTypeOK
  <2> SUFFICES ASSUME FeedTypes, FeedBounds PROVE FeedTypeOK
    OBVIOUS
  <2>1. ASSUME NEW k \in Sockets
        PROVE  /\ socket[k].phase \in {"closed", "opening", "open", "gone"}
               /\ \A i \in DOMAIN socket[k].user : socket[k].user[i].msg \in Message
               /\ socket[k].system \in 0..MaxTicks
               /\ socket[k].seen \subseteq Numbers /\ Cardinality(socket[k].seen) <= SeenLimit
               /\ \A i \in DOMAIN shown[k] : shown[k][i] \in Numbers
    <3>1. socket[k] \in Connection
      BY ConnectionFacts
    <3>2. \A i \in DOMAIN socket[k].user : socket[k].user[i] \in Queued
      BY ConnectionFacts
    <3>3. \A i \in DOMAIN shown[k] : shown[k][i] \in Numbers
      BY ConnectionFacts, QueueShape
    <3> QED
      BY <3>1, <3>2, <3>3 DEF Connection, Queued, FeedBounds, Few
  <2> QED
    BY <2>1 DEF FeedTypes, FeedBounds, FeedTypeOK
<1>2. FeedInit => OrderInv /\ FeedBounds
  <2> SUFFICES ASSUME FeedInit PROVE OrderInv /\ FeedBounds
    OBVIOUS
  <2>1. \A k \in Sockets : Few(socket[k])
    BY ClosedIsFew DEF FeedInit
  <2> QED
    BY <2>1, FeedStart DEF FeedBounds, FeedInit
<1>3. OrderInv /\ FeedBounds /\ [FeedNext]_feedVars => (OrderInv /\ FeedBounds)'
  <2>1. ASSUME FeedBounds, UNCHANGED feedVars PROVE FeedBounds'
    BY <2>1 DEF feedVars, FeedBounds, Few
  <2> QED
    BY <2>1, OrderStep, FeedBoundsStep DEF OrderInv
<1>4. OrderInv => FeedTypes
  BY DEF OrderInv
<1> QED
  BY <1>1, <1>2, <1>3, <1>4, PTL DEF FeedSpec

-----------------------------------------------------------------------------
(* The audit log and its reader (module AuditTrail).                       *)

\* A file is lines of two parts, the last one perhaps cut.
Alternates(log) == \A i \in DOMAIN log : log[i] = IF i % 2 = 1 THEN "first" ELSE "last"

AuditTypes ==
  /\ files \in Seq(Seq(Parts)) /\ \A f \in DOMAIN files : Alternates(files[f])
  /\ current \in Nat /\ writing \in BOOLEAN /\ tailed \in 0..Len(files) /\ pos \in Nat
  /\ published \in Seq(Nat \X Nat)

\* Only the newest file is written, and an append that is under way has begun a line.
WritesNewest ==
  /\ current # 0 => current = Len(files)
  /\ writing = TRUE => current # 0 /\ Len(files[current]) % 2 = 1
  /\ writing = FALSE /\ current # 0 => ~(Len(files[current]) % 2 = 1)

\* The tailer stands between two lines, after the last one it published.
Ended == IF published # <<>> /\ published[Len(published)][1] = tailed
         THEN published[Len(published)][2] ELSE 0
StandsAfterPublished ==
  /\ pos = 2 * Ended
  /\ published # <<>> => published[Len(published)][1] \in 1..tailed
  /\ tailed = 0 => pos = 0
  /\ tailed # 0 => pos <= Len(files[tailed])

AuditInv == AuditTypes /\ WritesNewest /\ StandsAfterPublished

LEMMA OddThenEven == \A n \in Nat : n % 2 = 1 => ~((n + 1) % 2 = 1)
OBVIOUS

LEMMA EvenThenOdd == \A n \in Nat : ~(n % 2 = 1) => (n + 1) % 2 = 1
<1> SUFFICES ASSUME NEW n \in Nat, ~(n % 2 = 1) PROVE (n + 1) % 2 = 1
  OBVIOUS
<1>1. n % 2 = 0
  OBVIOUS
<1>2. PICK k \in Nat : n = 2 * k
  BY <1>1
<1> QED
  BY <1>2

LEMMA Halves ==
  ASSUME NEW log \in Seq(Parts), Alternates(log), NEW n \in 0..Len(log)
  PROVE  WholeLines(log, n) = n \div 2
<1>1. Len(log) \in Nat /\ DOMAIN log = 1..Len(log)
  BY LenProperties
<1>2. PICK m \in Nat : m = n \div 2 /\ (n = 2 * m \/ n = 2 * m + 1)
  BY <1>1
<1>3. PICK E : E = {i \in 1..n : log[i] = "last"}
  OBVIOUS
<1>4. \A i \in 1..n : i \in E <=> i % 2 = 0
  BY <1>1, <1>3 DEF Alternates
<1>5. PICK twice : twice = [k \in 1..m |-> 2 * k]
  OBVIOUS
<1>6. twice \in Bijection(1..m, E)
  <2>1. \A k \in 1..m : twice[k] \in E
    BY <1>2, <1>4, <1>5
  <2>2. \A e \in E : \E k \in 1..m : twice[k] = e
    <3> SUFFICES ASSUME NEW e \in E PROVE \E k \in 1..m : twice[k] = e
      OBVIOUS
    <3>1. e \in 1..n /\ e % 2 = 0
      BY <1>3, <1>4
    <3>2. PICK k \in Int : e = 2 * k
      BY <3>1
    <3>3. k \in 1..m
      BY <1>2, <3>1, <3>2
    <3> QED
      BY <1>5, <3>2, <3>3
  <2>3. \A j, k \in 1..m : twice[j] = twice[k] => j = k
    BY <1>5
  <2> QED
    <3>1. twice \in [1..m -> E]
      BY <1>5, <2>1
    <3> QED
      BY <2>2, <2>3, <3>1 DEF Bijection, Injection, Surjection, IsInjective
<1>7. Cardinality(1..m) = m /\ IsFiniteSet(1..m)
  BY FS_Interval
<1>8. Cardinality(E) = m
  BY <1>6, <1>7, FS_Bijection DEF ExistsBijection
<1> QED
  BY <1>2, <1>3, <1>8 DEF WholeLines

LEMMA Consecutive ==
  ASSUME NEW a \in Nat, NEW b \in Nat, a <= b
  PROVE  InOrder((a + 1)..b) = [k \in 1..(b - a) |-> a + k]
<1> DEFINE ns == (a + 1)..b
           Upto(n) == Cardinality({m \in ns : m <= n})
<1>1. Cardinality(ns) = b - a
  <2>1. a + 1 \in Int /\ b \in Int
    OBVIOUS
  <2>2. Cardinality((a + 1)..b) = IF a + 1 > b THEN 0 ELSE b - (a + 1) + 1
    BY <2>1, FS_Interval
  <2> QED
    BY <2>2
<1>2. \A n \in ns : Upto(n) = n - a
  <2> SUFFICES ASSUME NEW n \in ns PROVE Upto(n) = n - a
    OBVIOUS
  <2>1. {m \in ns : m <= n} = (a + 1)..n
    OBVIOUS
  <2>2. a + 1 \in Int /\ n \in Int /\ n >= a + 1
    OBVIOUS
  <2>3. Cardinality((a + 1)..n) = IF a + 1 > n THEN 0 ELSE n - (a + 1) + 1
    BY <2>2, FS_Interval
  <2>4. Upto(n) = Cardinality((a + 1)..n)
    BY <2>1, Zenon
  <2> QED
    BY <2>2, <2>3, <2>4
<1>3. \A k \in 1..(b - a) : (CHOOSE n \in ns : Upto(n) = k) = a + k
  <2> SUFFICES ASSUME NEW k \in 1..(b - a) PROVE (CHOOSE n \in ns : Upto(n) = k) = a + k
    OBVIOUS
  <2>1. a + k \in ns /\ Upto(a + k) = k
    BY <1>2
  <2>2. \A n \in ns : Upto(n) = k => n = a + k
    BY <1>2
  <2> HIDE DEF ns, Upto
  <2> QED
    BY <2>1, <2>2
<1> QED
  BY <1>1, <1>3 DEF InOrder

\* Reading from between two lines yields the lines after it, and ends between two.
LEMMA ReadsOn ==
  ASSUME NEW log \in Seq(Parts), Alternates(log), NEW a \in Nat, 2 * a <= Len(log)
  PROVE  LET b == Len(log) \div 2 IN
         /\ b \in Nat /\ a <= b
         /\ WholeLines(log, Len(log)) = b
         /\ LinesFrom(log, 2 * a) = (a + 1)..b
         /\ PosAfter(log) = 2 * b
         /\ Len(log) = 2 * a => a = b
<1>1. Len(log) \in Nat /\ DOMAIN log = 1..Len(log)
  BY LenProperties
<1>2. PICK b \in Nat : b = Len(log) \div 2 /\ (Len(log) = 2 * b \/ Len(log) = 2 * b + 1)
  <2>1. \A m \in Nat : \E b \in Nat : b = m \div 2 /\ (m = 2 * b \/ m = 2 * b + 1)
    OBVIOUS
  <2> QED
    BY <1>1, <2>1
<1>3. \A n \in 0..Len(log) : WholeLines(log, n) = n \div 2
  BY Halves
<1>4. WholeLines(log, Len(log)) = b
  <2>1. Len(log) \in 0..Len(log)
    BY <1>1
  <2> QED
    BY <1>2, <1>3, <2>1
<1>5. LinesFrom(log, 2 * a) = (a + 1)..b
  <2>1. ASSUME NEW n \in LinesFrom(log, 2 * a) PROVE n \in (a + 1)..b
    <3>1. n \in 1..b
      BY <1>4, <2>1 DEF LinesFrom
    <3>2. PICK i \in (2 * a + 1)..(Len(log) - 1) : WholeLines(log, i) = n - 1 /\ log[i] = "first"
      BY <2>1 DEF LinesFrom
    <3>3. i \in 1..Len(log) /\ i \in 0..Len(log)
      BY <1>1
    <3>4. i % 2 = 1
      BY <1>1, <3>2, <3>3 DEF Alternates
    <3>5. i \div 2 = n - 1
      BY <1>3, <3>2, <3>3
    <3> QED
      BY <3>1, <3>2, <3>3, <3>4, <3>5
  <2>2. ASSUME NEW n \in (a + 1)..b PROVE n \in LinesFrom(log, 2 * a)
    <3>1. PICK i \in Nat : i = 2 * n - 1
      BY <2>2
    <3>2. i \in (2 * a + 1)..(Len(log) - 1) /\ i \in 1..Len(log) /\ i + 1 \in 1..Len(log)
      BY <1>2, <2>2, <3>1
    <3>3. i % 2 = 1 /\ (i + 1) % 2 = 0 /\ i \div 2 = n - 1
      BY <2>2, <3>1
    <3>4. log[i] = "first" /\ log[i + 1] = "last"
      BY <1>1, <3>2, <3>3 DEF Alternates
    <3>5. WholeLines(log, i) = n - 1
      BY <1>3, <3>2, <3>3
    <3>6. n \in 1..WholeLines(log, Len(log))
      BY <1>4, <2>2
    <3> QED
      BY <3>2, <3>4, <3>5, <3>6 DEF LinesFrom
  <2> QED
    BY <2>1, <2>2
<1>6. PosAfter(log) = 2 * b
  <2>1. CASE log = <<>>
    BY <1>2, <2>1 DEF PosAfter
  <2>2. CASE log # <<>>
    <3>1. Len(log) > 0
      BY <1>1, <2>2, EmptySeq
    <3>2. log[Len(log)] = "first" <=> Len(log) % 2 = 1
      BY <1>1, <3>1 DEF Alternates
    <3>3. Len(log) % 2 = 1 <=> Len(log) = 2 * b + 1
      BY <1>2
    <3> QED
      BY <1>2, <2>2, <3>2, <3>3 DEF PosAfter, Last
  <2> QED
    BY <2>1, <2>2
<1> QED
  BY <1>2, <1>4, <1>5, <1>6

LEMMA AuditStarts == AuditInit => AuditInv /\ Stream!StreamInit
<1> SUFFICES ASSUME AuditInit PROVE AuditInv /\ Stream!StreamInit
  OBVIOUS
<1> USE DEF AuditInit
<1>1. Len(files) = 0 /\ Ended = 0
  BY DEF Ended
<1>2. AuditTypes
  <2>1. files \in Seq(Seq(Parts)) /\ published \in Seq(Nat \X Nat)
    OBVIOUS
  <2>2. DOMAIN files = {} /\ tailed \in 0..Len(files) /\ pos \in Nat /\ current \in Nat
    BY <1>1
  <2> QED
    BY <2>1, <2>2 DEF AuditTypes
<1>3. WritesNewest /\ StandsAfterPublished
  BY <1>1 DEF WritesNewest, StandsAfterPublished
<1>4. DOMAIN files = {} /\ DOMAIN files = 1..0
  OBVIOUS
<1>5. [f \in DOMAIN files |-> WholeLines(files[f], Len(files[f]))] \in Seq(Nat)
  BY <1>4, IsASeq
<1> QED
  BY <1>2, <1>3, <1>5 DEF AuditInv, Stream!StreamInit

\* An append leaves whole what was whole, and moves nothing that the tailer knows.
LEMMA AddingPart ==
  ASSUME AuditInv, NEW f \in DOMAIN files, NEW part \in Parts,
         part = IF Len(files[f]) % 2 = 1 THEN "last" ELSE "first",
         files' = [files EXCEPT ![f] = Append(@, part)],
         UNCHANGED <<tailed, pos, published>>
  PROVE  /\ files' \in Seq(Seq(Parts)) /\ \A g \in DOMAIN files' : Alternates(files'[g])
         /\ Len(files') = Len(files) /\ DOMAIN files' = DOMAIN files
         /\ Len(files'[f]) = Len(files[f]) + 1
         /\ StandsAfterPublished' /\ Stream!Written
<1>1. files \in Seq(Seq(Parts)) /\ Len(files) \in Nat /\ DOMAIN files = 1..Len(files)
      /\ \A g \in DOMAIN files : files[g] \in Seq(Parts) /\ Alternates(files[g])
  BY QueueShape DEF AuditInv, AuditTypes
<1>2. PICK more \in Seq(Parts) :
        /\ more = Append(files[f], part) /\ Len(more) = Len(files[f]) + 1
        /\ \A i \in 1..Len(files[f]) : more[i] = files[f][i]
        /\ more[Len(files[f]) + 1] = part
  <2>1. files[f] \in Seq(Parts)
    BY <1>1
  <2> HIDE DEF Parts
  <2>2. /\ Append(files[f], part) \in Seq(Parts)
        /\ Len(Append(files[f], part)) = Len(files[f]) + 1
        /\ \A i \in 1..Len(files[f]) : Append(files[f], part)[i] = files[f][i]
        /\ Append(files[f], part)[Len(files[f]) + 1] = part
    BY <2>1, AppendProperties
  <2> QED
    BY <2>2
<1>3. Len(files[f]) \in Nat /\ DOMAIN files[f] = 1..Len(files[f]) /\ DOMAIN more = 1..(Len(files[f]) + 1)
  BY <1>1, <1>2, LenProperties
<1>4. files' = [files EXCEPT ![f] = more]
  BY <1>2
<1>5. files' \in Seq(Seq(Parts)) /\ Len(files') = Len(files) /\ DOMAIN files' = DOMAIN files
  BY <1>1, <1>2, <1>4, ExceptSeq
<1>6. files'[f] = more /\ \A g \in DOMAIN files : g # f => files'[g] = files[g]
  BY <1>1, <1>4
<1>7. Alternates(more)
  <2> SUFFICES ASSUME NEW i \in 1..(Len(files[f]) + 1)
               PROVE  more[i] = IF i % 2 = 1 THEN "first" ELSE "last"
    BY <1>3 DEF Alternates
  <2>1. CASE i \in 1..Len(files[f])
    BY <1>1, <1>2, <1>3, <2>1 DEF Alternates
  <2>2. CASE i = Len(files[f]) + 1
    <3>1. PICK n \in Nat : n = Len(files[f])
      BY <1>3
    <3>2. n % 2 = 1 => ~((n + 1) % 2 = 1)
      BY <3>1, OddThenEven
    <3>3. ~(n % 2 = 1) => (n + 1) % 2 = 1
      BY <3>1, EvenThenOdd
    <3> QED
      BY <1>2, <2>2, <3>1, <3>2, <3>3
  <2> QED
    BY <1>3, <2>1, <2>2
<1>8. \A g \in DOMAIN files' : Alternates(files'[g])
  BY <1>1, <1>5, <1>6, <1>7
<1>9. StandsAfterPublished'
  <2>1. Ended' = Ended
    BY DEF Ended
  <2>2. \A g \in DOMAIN files : Len(files[g]) \in Nat /\ Len(files'[g]) \in Nat /\ Len(files[g]) <= Len(files'[g])
    BY <1>1, <1>2, <1>3, <1>6, LenProperties
  <2>3. tailed # 0 => tailed \in DOMAIN files
    BY <1>1 DEF AuditInv, AuditTypes
  <2>4. pos \in Nat
    BY DEF AuditInv, AuditTypes
  <2> QED
    BY <2>1, <2>2, <2>3, <2>4 DEF AuditInv, StandsAfterPublished
<1>10. Stream!Written
  <2> DEFINE whole == [g \in DOMAIN files |-> WholeLines(files[g], Len(files[g]))]
  <2>1. DOMAIN whole = DOMAIN files /\ DOMAIN whole' = DOMAIN files
    BY <1>5
  <2>2. \A g \in DOMAIN files : whole'[g] >= whole[g]
    <3> SUFFICES ASSUME NEW g \in DOMAIN files PROVE whole'[g] >= whole[g]
      OBVIOUS
    <3>1. whole[g] = WholeLines(files[g], Len(files[g])) /\ whole'[g] = WholeLines(files'[g], Len(files'[g]))
      BY <1>5
    <3>2. Len(files[g]) \in Nat /\ Len(files'[g]) \in Nat /\ Len(files[g]) <= Len(files'[g])
      BY <1>1, <1>2, <1>3, <1>6, LenProperties
    <3>3. files[g] \in Seq(Parts) /\ files'[g] \in Seq(Parts) /\ Alternates(files[g]) /\ Alternates(files'[g])
      BY <1>1, <1>2, <1>6, <1>7
    <3>4. \A m, n \in Nat : m <= n => m \div 2 \in Nat /\ n \div 2 \in Nat /\ n \div 2 >= m \div 2
      OBVIOUS
    <3>5. whole[g] = Len(files[g]) \div 2 /\ whole'[g] = Len(files'[g]) \div 2
      <4>1. Len(files[g]) \in 0..Len(files[g]) /\ Len(files'[g]) \in 0..Len(files'[g])
        BY <3>2
      <4> QED
        BY <3>1, <3>3, <4>1, Halves
    <3> QED
      BY <3>2, <3>4, <3>5
  <2> HIDE DEF whole
  <2>3. \A g \in DOMAIN whole : g \in DOMAIN whole' /\ whole'[g] >= whole[g]
    BY <2>1, <2>2
  <2> QED
    BY <2>3 DEF Stream!Written, whole
<1> QED
  BY <1>2, <1>5, <1>6, <1>8, <1>9, <1>10

\* So does a new file, which has no whole line yet.
LEMMA AddingFile ==
  ASSUME AuditInv, files' = Append(files, <<"first">>), UNCHANGED <<tailed, pos, published>>
  PROVE  /\ files' \in Seq(Seq(Parts)) /\ \A g \in DOMAIN files' : Alternates(files'[g])
         /\ Len(files') = Len(files) + 1 /\ Len(files'[Len(files) + 1]) = 1
         /\ StandsAfterPublished' /\ Stream!Written
<1>1. files \in Seq(Seq(Parts)) /\ Len(files) \in Nat /\ DOMAIN files = 1..Len(files)
      /\ \A g \in DOMAIN files : files[g] \in Seq(Parts) /\ Alternates(files[g])
  BY QueueShape DEF AuditInv, AuditTypes
<1>2. PICK one \in Seq(Parts) : one = <<"first">>
  <2>1. "first" \in Parts /\ <<>> \in Seq(Parts)
    BY DEF Parts
  <2>2. <<"first">> \in Seq(Parts)
    BY <2>1, AppendIsConcat
  <2> QED
    BY <2>2
<1>3. Len(one) = 1 /\ DOMAIN one = 1..1 /\ one[1] = "first" /\ Alternates(one)
  BY <1>2 DEF Alternates
<1>4. files' = Append(files, one)
  BY <1>2
<1>5. /\ files' \in Seq(Seq(Parts)) /\ Len(files') = Len(files) + 1
      /\ \A g \in 1..Len(files) : files'[g] = files[g]
      /\ files'[Len(files) + 1] = one
  <2> DEFINE Files == Seq(Parts)
  <2> HIDE DEF Files
  <2>1. files \in Seq(Files) /\ one \in Files
    BY <1>1, <1>2 DEF Files
  <2>2. /\ files' \in Seq(Files) /\ Len(files') = Len(files) + 1
        /\ \A g \in 1..Len(files) : files'[g] = files[g]
        /\ files'[Len(files) + 1] = one
    BY <1>4, <2>1, AppendProperties
  <2> QED
    BY <2>2 DEF Files
<1>6. DOMAIN files' = 1..(Len(files) + 1)
  BY <1>5, LenProperties
<1>7. \A g \in DOMAIN files' : Alternates(files'[g])
  BY <1>1, <1>3, <1>5, <1>6
<1>8. StandsAfterPublished'
  <2>1. Ended' = Ended
    BY DEF Ended
  <2>2. tailed # 0 => tailed \in DOMAIN files /\ files'[tailed] = files[tailed]
    BY <1>1, <1>5 DEF AuditInv, AuditTypes
  <2> QED
    BY <2>1, <2>2 DEF AuditInv, StandsAfterPublished
<1>9. Stream!Written
  <2> DEFINE whole == [g \in DOMAIN files |-> WholeLines(files[g], Len(files[g]))]
  <2>1. DOMAIN whole = DOMAIN files /\ DOMAIN whole' = 1..(Len(files) + 1)
    BY <1>6
  <2>2. \A g \in DOMAIN files : whole'[g] = whole[g] /\ whole[g] \in Nat
    <3> SUFFICES ASSUME NEW g \in DOMAIN files PROVE whole'[g] = whole[g] /\ whole[g] \in Nat
      OBVIOUS
    <3>1. whole[g] = WholeLines(files[g], Len(files[g])) /\ whole'[g] = WholeLines(files'[g], Len(files'[g]))
      BY <1>1, <1>6
    <3>2. files'[g] = files[g]
      BY <1>1, <1>5
    <3>3. Len(files[g]) \in Nat /\ Len(files[g]) \in 0..Len(files[g])
      BY <1>1, LenProperties
    <3>4. whole[g] = Len(files[g]) \div 2
      BY <1>1, <3>1, <3>3, Halves
    <3>5. \A n \in Nat : n \div 2 \in Nat
      OBVIOUS
    <3> QED
      BY <3>1, <3>2, <3>3, <3>4, <3>5
  <2> HIDE DEF whole
  <2>3. \A g \in DOMAIN whole : g \in DOMAIN whole' /\ whole'[g] >= whole[g]
    BY <1>1, <2>1, <2>2
  <2> QED
    BY <2>3 DEF Stream!Written, whole
<1> QED
  BY <1>3, <1>5, <1>7, <1>8, <1>9

LEMMA AppendIsWritten ==
  ASSUME AuditInv, NEW rotate \in BOOLEAN, AppendFirst(rotate)
  PROVE  AuditInv' /\ Stream!Written
<1>1. /\ writing' = TRUE /\ UNCHANGED <<tailed, pos, published>>
      /\ current' = IF rotate THEN Len(files) + 1 ELSE current
      /\ files' = IF rotate THEN Append(files, <<"first">>)
                  ELSE [files EXCEPT ![current] = Append(@, "first")]
      /\ ~rotate => current # 0
  BY DEF AppendFirst, Rotates
<1>5. writing = FALSE
  BY Zenon DEF AppendFirst, AuditInv, AuditTypes
<1>2. Len(files) \in Nat /\ DOMAIN files = 1..Len(files) /\ current \in Nat
  BY QueueShape DEF AuditInv, AuditTypes
<1>3. CASE rotate
  <2>1. files' = Append(files, <<"first">>) /\ current' = Len(files) + 1
    BY <1>1, <1>3
  <2>2. /\ files' \in Seq(Seq(Parts)) /\ \A g \in DOMAIN files' : Alternates(files'[g])
        /\ Len(files') = Len(files) + 1 /\ Len(files'[Len(files) + 1]) = 1
        /\ StandsAfterPublished' /\ Stream!Written
    BY <1>1, <2>1, AddingFile
  <2>3. AuditTypes'
    <3>1. tailed' \in 0..Len(files')
      BY <1>1, <1>2, <2>2 DEF AuditInv, AuditTypes
    <3>2. current' \in Nat
      BY <1>2, <2>1
    <3>3. pos' \in Nat /\ published' \in Seq(Nat \X Nat) /\ writing' \in BOOLEAN
      BY <1>1, Zenon DEF AuditInv, AuditTypes
    <3> QED
      BY <2>2, <3>1, <3>2, <3>3 DEF AuditTypes
  <2>4. WritesNewest'
    <3>1. current' # 0 /\ current' = Len(files')
      BY <1>2, <2>1, <2>2
    <3>2. Len(files'[current']) % 2 = 1
      <4>1. Len(files'[current']) = 1
        BY <2>1, <2>2, Zenon
      <4> QED
        BY <4>1
    <3>3. ~(writing' = FALSE)
      BY <1>1, Zenon
    <3> QED
      BY <3>1, <3>2, <3>3, Zenon DEF WritesNewest
  <2> QED
    BY <2>2, <2>3, <2>4 DEF AuditInv
<1>4. CASE ~rotate
  <2>1. files' = [files EXCEPT ![current] = Append(@, "first")] /\ current' = current /\ current # 0
    BY <1>1, <1>4
  <2>2. current = Len(files) /\ ~(Len(files[current]) % 2 = 1) /\ current \in DOMAIN files
    <3>1. current = Len(files) /\ ~(Len(files[current]) % 2 = 1)
      BY <1>5, <2>1, Zenon DEF AuditInv, WritesNewest
    <3>2. current \in DOMAIN files
      <4>1. current = Len(files)
        BY <3>1
      <4> QED
        BY <1>2, <2>1, <4>1
    <3> QED
      BY <3>1, <3>2, Zenon
  <2>3. /\ files' \in Seq(Seq(Parts)) /\ \A g \in DOMAIN files' : Alternates(files'[g])
        /\ Len(files') = Len(files) /\ Len(files'[current]) = Len(files[current]) + 1
        /\ StandsAfterPublished' /\ Stream!Written
    <3>1. "first" \in Parts /\ "first" = IF Len(files[current]) % 2 = 1 THEN "last" ELSE "first"
      BY <2>2 DEF Parts
    <3> QED
      BY <1>1, <2>1, <2>2, <3>1, AddingPart
  <2>4. AuditTypes'
    <3>1. tailed' \in 0..Len(files')
      BY <1>1, <1>2, <2>3 DEF AuditInv, AuditTypes
    <3>2. current' \in Nat /\ pos' \in Nat /\ published' \in Seq(Nat \X Nat)
      BY <1>1, <1>2, <2>1 DEF AuditInv, AuditTypes
    <3>3. writing' \in BOOLEAN
      BY <1>1, Zenon
    <3> QED
      BY <2>3, <3>1, <3>2, <3>3 DEF AuditTypes
  <2>5. WritesNewest'
    <3>1. Len(files[current]) \in Nat
      BY <2>2, LenProperties DEF AuditInv, AuditTypes
    <3>2. \A n \in Nat : ~(n % 2 = 1) => (n + 1) % 2 = 1
      BY EvenThenOdd
    <3>3. Len(files'[current']) % 2 = 1
      BY <2>1, <2>2, <2>3, <3>1, <3>2
    <3> QED
      BY <1>1, <2>1, <2>2, <2>3, <3>3 DEF WritesNewest
  <2> QED
    BY <2>3, <2>4, <2>5 DEF AuditInv
<1> QED
  BY <1>3, <1>4

LEMMA EndIsWritten ==
  ASSUME AuditInv, AppendLast
  PROVE  AuditInv' /\ Stream!Written
<1>1. /\ writing' = FALSE /\ UNCHANGED <<current, tailed, pos, published>>
      /\ files' = [files EXCEPT ![current] = Append(@, "last")]
  BY DEF AppendLast
<1>7. writing = TRUE
  BY Zenon DEF AppendLast, AuditInv, AuditTypes
<1>2. Len(files) \in Nat /\ DOMAIN files = 1..Len(files) /\ current \in Nat
  BY QueueShape DEF AuditInv, AuditTypes
<1>3. current = Len(files) /\ Len(files[current]) % 2 = 1 /\ current \in DOMAIN files
  <2>1. current # 0 /\ current = Len(files) /\ Len(files[current]) % 2 = 1
    BY <1>7, Zenon DEF AuditInv, WritesNewest
  <2>2. current \in DOMAIN files
    <3>1. current # 0 /\ current = Len(files)
      BY <2>1
    <3> QED
      BY <1>2, <3>1
  <2> QED
    BY <2>1, <2>2, Zenon
<1>4. /\ files' \in Seq(Seq(Parts)) /\ \A g \in DOMAIN files' : Alternates(files'[g])
      /\ Len(files') = Len(files) /\ Len(files'[current]) = Len(files[current]) + 1
      /\ StandsAfterPublished' /\ Stream!Written
  <2>1. "last" \in Parts /\ "last" = IF Len(files[current]) % 2 = 1 THEN "last" ELSE "first"
    BY <1>3 DEF Parts
  <2> QED
    BY <1>1, <1>3, <2>1, AddingPart
<1>5. AuditTypes'
  <2>1. tailed' \in 0..Len(files')
    BY <1>1, <1>2, <1>4 DEF AuditInv, AuditTypes
  <2>2. current' \in Nat /\ writing' \in BOOLEAN /\ pos' \in Nat /\ published' \in Seq(Nat \X Nat)
    BY <1>1, <1>2 DEF AuditInv, AuditTypes
  <2> QED
    BY <1>4, <2>1, <2>2 DEF AuditTypes
<1>6. WritesNewest'
  <2>1. Len(files[current]) \in Nat
    BY <1>3, LenProperties DEF AuditInv, AuditTypes
  <2>2. \A n \in Nat : n % 2 = 1 => ~((n + 1) % 2 = 1)
    BY OddThenEven
  <2>3. ~(Len(files'[current']) % 2 = 1)
    BY <1>1, <1>3, <1>4, <2>1, <2>2
  <2> QED
    BY <1>1, <1>3, <1>4, <2>3 DEF WritesNewest
<1> QED
  BY <1>4, <1>5, <1>6 DEF AuditInv

\* A poll publishes all of the newest file that was not published yet.
LEMMA PollIsDelivered ==
  ASSUME AuditInv, Poll
  PROVE  AuditInv' /\ Stream!Delivered
<1>1. /\ Len(files) \in Nat /\ DOMAIN files = 1..Len(files)
      /\ \A g \in DOMAIN files : files[g] \in Seq(Parts) /\ Alternates(files[g])
      /\ published \in Seq(Nat \X Nat) /\ tailed \in 0..Len(files) /\ pos \in Nat
  BY QueueShape DEF AuditInv, AuditTypes
<1>2. PICK f : f = ActiveLogFile
  OBVIOUS
<1>3. f = Len(files) /\ f \in DOMAIN files
  <2>1. f # 0
    BY <1>2 DEF Poll
  <2>2. files # <<>>
    BY <1>2, <2>1 DEF ActiveLogFile
  <2>3. f = Len(files)
    BY <1>2, <2>2 DEF ActiveLogFile
  <2> QED
    BY <1>1, <2>1, <2>3
<1>4. PICK start : start = StartOf(f)
  OBVIOUS
<1>5. PICK new : new = InOrder(LinesFrom(files[f], start))
  OBVIOUS
<1>6. /\ tailed' = f /\ pos' = IF Len(files[f]) = start THEN start ELSE PosAfter(files[f])
      /\ published' = published \o [i \in DOMAIN new |-> <<f, new[i]>>]
      /\ UNCHANGED <<files, current, writing>>
  BY <1>2, <1>4, <1>5 DEF Poll
<1>7. PICK log \in Seq(Parts) : log = files[f] /\ Alternates(log) /\ Len(log) \in Nat
  BY <1>1, <1>3, LenProperties
\* Where the abstract reader stands in f.
<1>8. PICK a : a = IF published # <<>> /\ published[Len(published)][1] = f
                   THEN published[Len(published)][2] ELSE 0
  OBVIOUS
<1>9. published # <<>> => /\ published[Len(published)][1] \in 1..tailed
                          /\ published[Len(published)][2] \in Nat
  <2> SUFFICES ASSUME published # <<>>
               PROVE  published[Len(published)][1] \in 1..tailed /\ published[Len(published)][2] \in Nat
    OBVIOUS
  <2>1. Len(published) \in 1..Len(published)
    BY <1>1, LenProperties, EmptySeq
  <2>2. published[Len(published)] \in Nat \X Nat
    BY <1>1, <2>1, LenProperties
  <2> QED
    BY <2>2 DEF AuditInv, StandsAfterPublished
<1>10. a \in Nat /\ start = 2 * a /\ 2 * a <= Len(log)
  <2>1. a \in Nat
    BY <1>8, <1>9
  <2>2. CASE f # tailed
    <3>1. start = 0
      BY <1>4, <2>2 DEF StartOf
    <3>2. published # <<>> => published[Len(published)][1] # f
      <4>1. tailed < f
        <5>1. f \in Nat /\ tailed \in 0..f
          BY <1>1, <1>3
        <5> QED
          BY <2>2, <5>1
      <4> QED
        BY <1>1, <1>3, <1>9, <4>1
    <3>3. a = 0
      BY <1>8, <3>2
    <3> QED
      BY <1>7, <3>1, <3>3
  <2>3. CASE f = tailed
    <3>1. a = Ended /\ pos = 2 * a /\ pos <= Len(log)
      BY <1>1, <1>3, <1>7, <1>8, <2>3 DEF AuditInv, StandsAfterPublished, Ended
    <3>2. start = pos
      BY <1>1, <1>4, <1>7, <2>3, <3>1 DEF StartOf
    <3> QED
      BY <2>1, <3>1, <3>2
  <2> QED
    BY <2>2, <2>3
<1>11. PICK b \in Nat : /\ b = Len(log) \div 2 /\ a <= b /\ WholeLines(log, Len(log)) = b
                        /\ LinesFrom(log, 2 * a) = (a + 1)..b
                        /\ PosAfter(log) = 2 * b
                        /\ Len(log) = 2 * a => a = b
  BY <1>7, <1>10, ReadsOn
<1>12. new = [k \in 1..(b - a) |-> a + k]
  BY <1>5, <1>7, <1>10, <1>11, Consecutive
<1>13. PICK told \in Seq(Nat \X Nat) :
         /\ told = [k \in 1..(b - a) |-> <<f, a + k>>]
         /\ Len(told) = b - a
  <2>1. \A k \in 1..(b - a) : <<f, a + k>> \in Nat \X Nat
    BY <1>1, <1>3, <1>10, <1>11
  <2>2. b - a \in Nat
    BY <1>10, <1>11
  <2>3. [k \in 1..(b - a) |-> <<f, a + k>>] \in Seq(Nat \X Nat)
    BY <2>1, <2>2, IsASeq
  <2>4. Len([k \in 1..(b - a) |-> <<f, a + k>>]) = b - a
    BY <2>2, <2>3, LenProperties
  <2> QED
    BY <2>3, <2>4
<1>14. published' = published \o told
  <2>1. DOMAIN new = 1..(b - a) /\ \A i \in 1..(b - a) : new[i] = a + i
    BY <1>12
  <2>2. [i \in DOMAIN new |-> <<f, new[i]>>] = told
    BY <1>13, <2>1
  <2> QED
    BY <1>6, <2>2
<1>15. pos' = 2 * b
  BY <1>6, <1>7, <1>10, <1>11
<1>16. /\ published' \in Seq(Nat \X Nat) /\ Len(published') = Len(published) + (b - a)
       /\ \A i \in 1..(b - a) : published'[Len(published) + i] = told[i]
       /\ b = a => published' = published
  <2>1. Len(published) \in Nat /\ b - a \in Nat
    BY <1>1, <1>10, <1>11, LenProperties
  <2>2. /\ published \o told \in Seq(Nat \X Nat) /\ Len(published \o told) = Len(published) + Len(told)
        /\ \A i \in 1..(Len(published) + Len(told)) :
             (published \o told)[i] = IF i <= Len(published) THEN published[i] ELSE told[i - Len(published)]
    BY <1>1, ConcatProperties
  <2>3. \A i \in 1..(b - a) : (published \o told)[Len(published) + i] = told[i]
    <3> SUFFICES ASSUME NEW i \in 1..(b - a) PROVE (published \o told)[Len(published) + i] = told[i]
      OBVIOUS
    <3>1. /\ Len(published) + i \in 1..(Len(published) + Len(told)) /\ ~(Len(published) + i <= Len(published))
          /\ Len(published) + i - Len(published) = i
      BY <1>13, <2>1
    <3> QED
      BY <2>2, <3>1
  <2>4. b = a => published \o told = published
    <3> SUFFICES ASSUME b = a PROVE published \o told = published
      OBVIOUS
    <3>1. Len(told) = 0
      BY <1>13, <1>10
    <3>2. told = <<>>
      BY <3>1, EmptySeq
    <3> QED
      BY <1>1, <3>2, ConcatEmptySeq
  <2> QED
    BY <1>13, <1>14, <2>2, <2>3, <2>4
<1>17. StandsAfterPublished'
  <2>1. tailed' = f /\ f \in 1..f /\ f # 0 /\ files' = files
    BY <1>1, <1>3, <1>6
  <2>2. 2 * b <= Len(log)
    <3>1. \A n \in Nat : 2 * (n \div 2) <= n
      OBVIOUS
    <3> QED
      BY <1>7, <1>11, <3>1
  <2>3. CASE a = b
    <3>1. published' = published
      BY <1>16, <2>3
    <3>2. Ended' = a
      BY <1>8, <2>1, <3>1 DEF Ended
    <3>3. published' # <<>> => published'[Len(published')][1] \in 1..tailed'
      BY <1>1, <1>3, <1>9, <2>1, <3>1
    <3> QED
      BY <1>7, <1>15, <2>1, <2>2, <2>3, <3>2, <3>3 DEF StandsAfterPublished
  <2>4. CASE a # b
    <3>1. b - a \in 1..(b - a) /\ Len(published') # 0
      <4>1. Len(published) \in Nat
        BY <1>1, LenProperties
      <4>2. b - a > 0 /\ b - a \in Nat
        BY <1>10, <1>11, <2>4
      <4>3. Len(published') = Len(published) + (b - a)
        BY <1>16
      <4> QED
        BY <4>1, <4>2, <4>3
    <3>2. published'[Len(published')] = <<f, b>>
      <4>1. published'[Len(published')] = told[b - a]
        BY <1>16, <3>1
      <4>2. told[b - a] = <<f, a + (b - a)>>
        BY <1>13, <3>1
      <4>3. a + (b - a) = b
        BY <1>10, <1>11
      <4> QED
        BY <4>1, <4>2, <4>3
    <3>3. published' # <<>>
      BY <3>1
    <3>4. Ended' = b
      BY <2>1, <3>2, <3>3 DEF Ended
    <3> QED
      BY <1>7, <1>15, <2>1, <2>2, <3>2, <3>3, <3>4 DEF StandsAfterPublished
  <2> QED
    BY <2>3, <2>4
<1>18. AuditTypes'
  <2>1. pos' \in Nat /\ tailed' \in 0..Len(files')
    BY <1>1, <1>3, <1>6, <1>11, <1>15
  <2> QED
    BY <1>6, <1>16, <2>1 DEF AuditInv, AuditTypes
<1>19. WritesNewest'
  BY <1>6, Zenon DEF AuditInv, WritesNewest
<1>20. Stream!Delivered
  <2> DEFINE whole == [g \in DOMAIN files |-> WholeLines(files[g], Len(files[g]))]
  <2>1. Len(whole) = f /\ whole[f] = b
    <3>1. DOMAIN whole = 1..f
      BY <1>1, <1>3
    <3>2. Len(whole) = f
      BY <1>1, <1>3, <3>1
    <3>3. whole[f] = WholeLines(files[f], Len(files[f]))
      BY <1>3
    <3> QED
      BY <1>7, <1>11, <3>2, <3>3
  <2>2. whole' = whole
    BY <1>6
  <2>3. Stream!NextOf(f, b) = told
    BY <1>8, <1>13 DEF Stream!NextOf
  <2>4. f > 0 /\ Stream!Began(f)
    BY <1>1, <1>3, <1>9 DEF Stream!Began
  <2> HIDE DEF whole
  <2>5. /\ Len(whole) > 0 /\ Stream!Began(Len(whole))
        /\ published' = published \o Stream!NextOf(Len(whole), whole[Len(whole)])
    BY <1>14, <2>1, <2>3, <2>4
  <2> QED
    BY <2>2, <2>5 DEF Stream!Delivered, whole
<1> QED
  BY <1>17, <1>18, <1>19, <1>20 DEF AuditInv

LEMMA AuditStep ==
  ASSUME AuditInv, [AuditNext]_auditVars
  PROVE  AuditInv' /\ [Stream!StreamNext]_(Stream!streamVars)
<1>1. CASE UNCHANGED auditVars
  <2>1. AuditInv'
    BY <1>1 DEF auditVars, AuditInv, AuditTypes, WritesNewest, StandsAfterPublished, Ended
  <2>2. UNCHANGED Stream!streamVars
    BY <1>1 DEF auditVars, Stream!streamVars
  <2> QED
    BY <2>1, <2>2
<1>2. CASE \E rotate \in BOOLEAN : AppendFirst(rotate)
  BY <1>2, AppendIsWritten DEF Stream!StreamNext
<1>3. CASE AppendLast
  BY <1>3, EndIsWritten DEF Stream!StreamNext
<1>4. CASE Poll
  BY <1>4, PollIsDelivered DEF Stream!StreamNext
<1>5. CASE RestartAudit
  <2>1. /\ current' = 0 /\ writing' = FALSE /\ tailed' = ActiveLogFile /\ pos' = 0 /\ published' = <<>>
        /\ files' = files
    BY <1>5 DEF RestartAudit
  <2>2. Len(files) \in Nat /\ ActiveLogFile \in 0..Len(files)
    BY QueueShape DEF AuditInv, AuditTypes, ActiveLogFile
  <2>3. AuditTypes'
    <3>1. current' \in Nat /\ tailed' \in 0..Len(files') /\ pos' \in Nat /\ published' \in Seq(Nat \X Nat)
      BY <2>1, <2>2
    <3>2. writing' \in BOOLEAN
      BY <2>1, Zenon
    <3> QED
      BY <2>1, <3>1, <3>2, Zenon DEF AuditInv, AuditTypes
  <2>4. WritesNewest'
    BY <2>1 DEF WritesNewest
  <2>5. StandsAfterPublished'
    <3>1. Ended' = 0
      BY <2>1 DEF Ended
    <3>2. ActiveLogFile # 0 => Len(files[ActiveLogFile]) \in Nat
      BY <2>2, QueueShape, LenProperties DEF AuditInv, AuditTypes
    <3> QED
      BY <2>1, <3>1, <3>2 DEF StandsAfterPublished
  <2>6. Stream!Restarted
    BY <2>1 DEF Stream!Restarted
  <2> QED
    BY <2>3, <2>4, <2>5, <2>6 DEF AuditInv, Stream!StreamNext
<1> QED
  BY <1>1, <1>2, <1>3, <1>4, <1>5 DEF AuditNext

\* JsonlTailer (dashboard/tailer.py) implements LineStream over what SecureAuditLogger
\* (utils/audit_logger.py) writes: however its polls fall between the two parts of lines,
\* rotations and restarts, the dashboard is sent whole lines, each once, in order, and with
\* each poll all of the newest file.
THEOREM AuditImplementsStream == AuditSpec => TailerDeliversLines
<1>1. AuditInv /\ [AuditNext]_auditVars => AuditInv' /\ [Stream!StreamNext]_(Stream!streamVars)
  BY AuditStep
<1> QED
  BY <1>1, AuditStarts, PTL DEF AuditSpec, TailerDeliversLines, Stream!StreamSpec

\* The newest file is kept, and no line is published of a file that is not there.
FilesHeld ==
  /\ kept \subseteq DOMAIN files /\ (files # <<>> => Len(files) \in kept)
  /\ currentSize \in Nat
  /\ \A i \in DOMAIN published : published[i][1] \in DOMAIN files
  /\ written \in 0..MaxLines /\ restarts \in 0..MaxRestarts

\* The newest file is among the max_files that are kept.
LEMMA NewestStays ==
  ASSUME AuditTypes, FilesHeld
  PROVE  NewestKept \subseteq kept /\ (files # <<>> => Len(files) \in NewestKept)
<1>1. Len(files) \in Nat /\ DOMAIN files = 1..Len(files)
  BY QueueShape DEF AuditTypes
<1>2. {g \in kept : g > Len(files)} = {}
  <2>1. \A g \in kept : g \in 1..Len(files)
    BY <1>1 DEF FilesHeld
  <2> QED
    BY <1>1, <2>1
<1>3. Cardinality({g \in kept : g > Len(files)}) < MaxFiles
  <2>1. Cardinality({}) = 0
    BY FS_EmptySet
  <2> QED
    BY <1>2, <2>1, AuditAssumption
<1> QED
  BY <1>3 DEF NewestKept, FilesHeld

\* What a poll adds is of the newest file.
LEMMA PolledIsHeld ==
  ASSUME AuditInv, FilesHeld, AuditInv', Poll, Stream!Delivered
  PROVE  FilesHeld'
<1>1. Len(files) \in Nat /\ DOMAIN files = 1..Len(files) /\ files' = files
  BY QueueShape DEF AuditInv, AuditTypes, Poll
<1>2. PICK g : g = [h \in DOMAIN files |-> WholeLines(files[h], Len(files[h]))]
  OBVIOUS
<1>3. PICK f : f = Len(files)
  OBVIOUS
<1>4. Len(g) = f /\ f \in 1..Len(files)
  <2>1. Len(g) = f
    BY <1>1, <1>2, <1>3
  <2> QED
    BY <1>1, <1>2, <1>3, <2>1 DEF Stream!Delivered
<1>5. PICK more : more = Stream!NextOf(f, g[f])
  OBVIOUS
<1>6. published' = published \o more
  BY <1>2, <1>4, <1>5 DEF Stream!Delivered
<1>7. PICK last : last = IF published # <<>> /\ published[Len(published)][1] = f
                        THEN published[Len(published)][2] ELSE 0
  OBVIOUS
<1>8. more = [i \in 1..(g[f] - last) |-> <<f, last + i>>]
  BY <1>5, <1>7 DEF Stream!NextOf
<1>9. g[f] \in Nat /\ last \in Nat
  <2>1. g[f] \in Nat
    <3>1. files[f] \in Seq(Parts) /\ f \in DOMAIN files
      BY <1>1, <1>4, QueueShape DEF AuditInv, AuditTypes
    <3>2. IsFiniteSet(1..Len(files[f])) /\ Len(files[f]) \in Nat
      BY <3>1, FS_Interval, LenProperties
    <3>3. IsFiniteSet({i \in 1..Len(files[f]) : files[f][i] = "last"})
      BY <3>2, FS_Subset
    <3>4. WholeLines(files[f], Len(files[f])) \in Nat
      BY <3>3, FS_CardinalityType DEF WholeLines
    <3> QED
      BY <1>2, <3>1, <3>4
  <2>2. published # <<>> => published[Len(published)] \in Nat \X Nat
    BY QueueShape DEF AuditInv, AuditTypes
  <2> QED
    BY <1>7, <2>1, <2>2
<1>10. PICK k \in Nat : 1..(g[f] - last) = 1..k
  <2>1. CASE g[f] - last \in Nat
    BY <2>1
  <2>2. CASE g[f] - last < 0
    <3>1. 1..(g[f] - last) = 1..0
      BY <1>9, <2>2
    <3> QED
      BY <3>1
  <2> QED
    BY <1>9, <2>1, <2>2
<1>11. more \in Seq(Nat \X Nat) /\ \A i \in DOMAIN more : more[i][1] = f
  <2>1. \A i \in 1..k : <<f, last + i>> \in Nat \X Nat
    BY <1>4, <1>9
  <2>2. more = [i \in 1..k |-> <<f, last + i>>]
    BY <1>8, <1>10
  <2> QED
    BY <2>1, <2>2, IsASeq
<1>12. \A i \in DOMAIN published' : published'[i][1] \in DOMAIN files
  <2>1. published \in Seq(Nat \X Nat)
    BY DEF AuditInv, AuditTypes
  <2>2. /\ published \o more \in Seq(Nat \X Nat) /\ Len(published \o more) = Len(published) + Len(more)
        /\ \A i \in 1..(Len(published) + Len(more)) :
             (published \o more)[i] = IF i <= Len(published) THEN published[i] ELSE more[i - Len(published)]
    BY <1>11, <2>1, ConcatProperties
  <2>3. /\ Len(published) \in Nat /\ DOMAIN published = 1..Len(published)
        /\ Len(more) \in Nat /\ DOMAIN more = 1..Len(more)
    BY <1>11, <2>1, LenProperties
  <2>4. ASSUME NEW i \in 1..(Len(published) + Len(more))
        PROVE  (published \o more)[i][1] \in DOMAIN files
    <3>1. CASE i <= Len(published)
      <4>1. i \in DOMAIN published
        BY <2>3, <3>1
      <4> QED
        BY <2>2, <3>1, <4>1 DEF FilesHeld
    <3>2. CASE ~(i <= Len(published))
      <4>1. i - Len(published) \in DOMAIN more
        BY <2>3, <3>2
      <4> QED
        BY <1>1, <1>4, <1>11, <2>2, <3>2, <4>1
    <3> QED
      BY <3>1, <3>2
  <2>5. DOMAIN published' = 1..(Len(published) + Len(more))
    BY <1>6, <2>2, LenProperties
  <2> QED
    BY <1>6, <2>4, <2>5
<1> QED
  BY <1>1, <1>12 DEF FilesHeld, Poll

LEMMA FilesHeldStep ==
  AuditInv /\ FilesHeld /\ [AuditNext]_auditVars => FilesHeld'
<1> SUFFICES ASSUME AuditInv, FilesHeld, [AuditNext]_auditVars PROVE FilesHeld'
  OBVIOUS
<1>1. /\ AuditInv' /\ Len(files) \in Nat /\ DOMAIN files = 1..Len(files) /\ files \in Seq(Seq(Parts))
      /\ AuditTypes
  BY AuditStep, QueueShape DEF AuditInv, AuditTypes
<1>2. CASE UNCHANGED auditVars
  BY <1>2 DEF auditVars, FilesHeld
<1>3. ASSUME NEW rotate \in BOOLEAN, AppendFirst(rotate) PROVE FilesHeld'
  <2>1. /\ kept' = (IF rotate THEN NewestKept ELSE kept) \cup {IF rotate THEN Len(files) + 1 ELSE current}
        /\ currentSize' \in Nat /\ written < MaxLines /\ written' = written + 1
        /\ published' = published /\ restarts' = restarts
        /\ files' = IF rotate THEN Append(files, <<"first">>)
                    ELSE [files EXCEPT ![current] = Append(@, "first")]
    BY <1>3 DEF AppendFirst, FilesHeld
  <2>2. ~rotate => current # 0
    BY <1>3 DEF AppendFirst, Rotates
  <2>3. ~rotate => DOMAIN files' = DOMAIN files /\ Len(files') = Len(files)
    BY <1>1, <2>1, QueueShape DEF AuditInv, AuditTypes
  <2>4. rotate => DOMAIN files' = 1..(Len(files) + 1) /\ Len(files') = Len(files) + 1
    BY <1>1, <2>1
  <2>5. CASE rotate
    <3>1. kept' \subseteq DOMAIN files' /\ Len(files') \in kept'
      BY <1>1, <2>1, <2>4, <2>5, NewestStays DEF FilesHeld
    <3>2. \A i \in DOMAIN published' : published'[i][1] \in DOMAIN files'
      BY <1>1, <2>1, <2>4, <2>5 DEF FilesHeld
    <3> QED
      BY <2>1, <3>1, <3>2, AuditAssumption DEF FilesHeld
  <2>6. CASE ~rotate
    <3>1. current = Len(files) /\ current \in DOMAIN files
      BY <1>1, <2>2, <2>6 DEF AuditInv, WritesNewest, AuditTypes
    <3>2. kept' \subseteq DOMAIN files' /\ Len(files') \in kept'
      BY <1>1, <2>1, <2>3, <2>6, <3>1 DEF FilesHeld
    <3>3. \A i \in DOMAIN published' : published'[i][1] \in DOMAIN files'
      BY <1>1, <2>1, <2>3, <2>6 DEF FilesHeld
    <3> QED
      BY <2>1, <3>2, <3>3, AuditAssumption DEF FilesHeld
  <2> QED
    BY <2>5, <2>6
<1>4. ASSUME AppendLast PROVE FilesHeld'
  <2>1. DOMAIN files' = DOMAIN files /\ Len(files') = Len(files) /\ (files' # <<>> => files # <<>>)
    <3>1. files' = [files EXCEPT ![current] = Append(@, "last")]
      BY <1>4 DEF AppendLast
    <3>2. DOMAIN files' = DOMAIN files
      BY <3>1
    <3>3. files' \in Seq(Seq(Parts))
      BY <1>1 DEF AuditInv, AuditTypes
    <3>4. Len(files') = Len(files)
      <4>1. Len(files') \in Nat /\ DOMAIN files' = 1..Len(files')
        BY <3>3, LenProperties
      <4> QED
        BY <1>1, <3>2, <4>1
    <3> QED
      BY <1>1, <3>2, <3>3, <3>4, EmptySeq
  <2> QED
    BY <1>4, <2>1 DEF FilesHeld, AppendLast
<1>5. ASSUME Poll PROVE FilesHeld'
  BY <1>1, <1>5, PollIsDelivered, PolledIsHeld
<1>6. ASSUME RestartAudit PROVE FilesHeld'
  BY <1>1, <1>6, NewestStays, AuditAssumption DEF RestartAudit, FilesHeld
<1> QED
  BY <1>2, <1>3, <1>4, <1>5, <1>6 DEF AuditNext

\* The log's files and the tailer keep their types, and the newest file is never removed.
THEOREM AuditStaysTyped == AuditSpec => []AuditTypeOK
<1>1. AuditInv /\ FilesHeld => AuditTypeOK
  <2> SUFFICES ASSUME AuditInv, FilesHeld PROVE AuditTypeOK
    OBVIOUS
  <2>1. Len(files) \in Nat /\ DOMAIN files = 1..Len(files)
    BY QueueShape DEF AuditInv, AuditTypes
  <2>2. current \in 0..Len(files)
    <3>1. current \in Nat /\ (current # 0 => current = Len(files))
      BY DEF AuditInv, AuditTypes, WritesNewest
    <3>2. 0 \in 0..Len(files) /\ Len(files) \in 0..Len(files)
      BY <2>1
    <3> QED
      BY <3>1, <3>2, Zenon
  <2>3. published \in Seq((DOMAIN files) \X Nat)
    <3>1. /\ published \in Seq(Nat \X Nat) /\ Len(published) \in Nat /\ DOMAIN published = 1..Len(published)
          /\ \A i \in 1..Len(published) : published[i] \in Nat \X Nat
      BY QueueShape DEF AuditInv, AuditTypes
    <3>2. \A i \in 1..Len(published) : published[i] \in (DOMAIN files) \X Nat
      BY <3>1 DEF FilesHeld
    <3>3. published = [i \in 1..Len(published) |-> published[i]]
      BY <3>1
    <3>4. [i \in 1..Len(published) |-> published[i]] \in Seq((DOMAIN files) \X Nat)
      BY <3>1, <3>2, IsASeq
    <3> QED
      BY <3>3, <3>4
  <2> QED
    BY <2>2, <2>3 DEF AuditInv, AuditTypes, FilesHeld, AuditTypeOK
<1>2. AuditInit => AuditInv /\ FilesHeld
  BY AuditStarts, AuditAssumption DEF AuditInit, FilesHeld
<1>3. AuditInv /\ FilesHeld /\ [AuditNext]_auditVars => (AuditInv /\ FilesHeld)'
  BY AuditStep, FilesHeldStep
<1> QED
  BY <1>1, <1>2, <1>3, PTL DEF AuditSpec

=============================================================================
