--------------------------------- MODULE Feed ---------------------------------
(***************************************************************************)
(* The conversation of one user as the dashboard shows it and as it is     *)
(* saved (crabclaw/dashboard/server.py, session/manager.py and the bus     *)
(* callbacks of agent/scheduler.py).                                       *)
(*                                                                         *)
(* The scheduler and the dashboard each have a SessionManager with its own *)
(* cached copy of the session; whoever saves writes its whole copy over    *)
(* the file.  The scheduler adds what comes over the bus and publishes it  *)
(* to the websockets of the user; the broadcast loop of a websocket adds   *)
(* what it forwards, and the loop that reads the websocket adds what the   *)
(* user types.  An event is known by its number, from which the code's     *)
(* event_id is hashed; a reply is published twice under one event_id.      *)
(***************************************************************************)
EXTENDS Naturals, Sequences, SequencesExt, FiniteSets, Dicts

CONSTANTS
  Sockets,     \* websocket connections of the user
  OpenAtOnce,  \* how many of them the user keeps open at a time
  Texts,
  SeenLimit,   \* 100 in the code
  SeenKept,    \* 50 in the code
  MaxEvents,   \* bound on messages and replies
  MaxTicks     \* bound on state updates waiting in a queue

ASSUME FeedAssumption ==
  {SeenKept, SeenLimit, MaxEvents, MaxTicks} \subseteq Nat /\ SeenKept <= SeenLimit

VARIABLES
  said,      \* the number of messages and replies so far
  file,      \* the messages in sessions_by_user/<user>/dashboard.jsonl
  copy,      \* the copy of this session in the _cache of the managers that have one
  socket,    \* each connection: phase, queues and seen_event_ids
  shown,     \* the numbers forwarded on each connection, in order
  forgotten  \* events whose event_id a connection has dropped from seen_event_ids

feedVars == <<said, file, copy, socket, shown, forgotten>>

Managers == {"scheduler", "dashboard"}
Numbers == 1..MaxEvents
Message == [role : {"user", "assistant"}, text : Texts, n : Numbers]

Closed == [phase |-> "closed", user |-> <<>>, system |-> 0, seen |-> {}]

FeedInit ==
  /\ said = 0 /\ file = <<>> /\ forgotten = {}
  /\ copy = <<>>
  /\ socket = [k \in Sockets |-> Closed]
  /\ shown = [k \in Sockets |-> <<>>]

-----------------------------------------------------------------------------
(* get_or_create: the cached copy, else what the file holds now.           *)
SessionOf(m) == Lookup(copy, m, file)
Cached(m, s) == copy' = WithEntry(copy, m, s)

(* add_message: not after the same role and content.                       *)
Added(s, msg) ==
  IF s # <<>> /\ Last(s).role = msg.role /\ Last(s).text = msg.text
  THEN s ELSE Append(s, msg)

(* get_or_create, add_message and save, without an await in between.       *)
Record(m, msg) ==
  LET s == Added(SessionOf(m), msg) IN
  Cached(m, s) /\ file' = s

Subscribed(k) == socket[k].phase # "closed"

(* BroadcastManager.publish to the user's scope *)
Published(events) ==
  socket' = [k \in Sockets |->
    IF Subscribed(k) THEN [socket[k] EXCEPT !.user = @ \o events] ELSE socket[k]]

Event(msg, shows) == [msg |-> msg, shows |-> shows]
Says(role, text) == [role |-> role, text |-> text, n |-> said + 1]
Say == said < MaxEvents /\ said' = said + 1

(* _on_bus_inbound of a message whose sender is mapped to the user *)
InboundOfUser(text) ==
  /\ Say
  /\ Record("scheduler", Says("user", text))
  /\ Published(<<Event(Says("user", text), TRUE)>>)
  /\ UNCHANGED <<shown, forgotten>>

(* _on_bus_inbound of a stranger's message: saved in a session of its own  *)
(* and published to every user.                                            *)
InboundOfStranger(text) ==
  /\ Say
  /\ Published(<<Event(Says("user", text), TRUE)>>)
  /\ UNCHANGED <<file, copy, shown, forgotten>>

(* _on_bus_outbound: outbound_message, save, agent_reply. *)
Reply(text) ==
  LET e == Event(Says("assistant", text), TRUE) IN
  /\ Say
  /\ Record("scheduler", e.msg)
  /\ Published(<<e, e>>)
  /\ UNCHANGED <<shown, forgotten>>

(* The chat_message branch of handle_messages; the user_message it         *)
(* publishes comes back on the connection's own queue and is skipped.      *)
Chat(k, text) ==
  /\ Say
  /\ socket[k].phase = "open"
  /\ Record("dashboard", Says("user", text))
  /\ Published(<<Event(Says("user", text), FALSE)>>)
  /\ UNCHANGED <<shown, forgotten>>

(* The state ticker publishes to system:state. *)
StateTick ==
  /\ \E k \in Sockets : Subscribed(k) /\ socket[k].system < MaxTicks
  /\ socket' = [k \in Sockets |->
       IF Subscribed(k) /\ socket[k].system < MaxTicks
       THEN [socket[k] EXCEPT !.system = @ + 1] ELSE socket[k]]
  /\ UNCHANGED <<said, file, copy, shown, forgotten>>

-----------------------------------------------------------------------------
(* A websocket connection *)

Connect(k) ==
  /\ socket[k].phase = "closed"
  /\ Cardinality({j \in Sockets : socket[j].phase \in {"opening", "open"}}) < OpenAtOnce
  /\ socket' = [socket EXCEPT ![k] = [Closed EXCEPT !.phase = "opening"]]
  /\ shown' = [shown EXCEPT ![k] = <<>>]
  /\ UNCHANGED <<said, file, copy, forgotten>>

(* After the hello was sent, _get_chat_history loads the session and the   *)
(* two loops start.                                                        *)
SendHistory(k) ==
  /\ socket[k].phase = "opening"
  /\ Cached("dashboard", SessionOf("dashboard"))
  /\ socket' = [socket EXCEPT ![k].phase = "open"]
  /\ UNCHANGED <<said, file, shown, forgotten>>

\* Fault seed: event_ids are not compared.
NeverSeen(seen, e) == FALSE

AlreadySeen(seen, e) == e.msg.n \in seen

(* seen_event_ids with n added; past the limit an arbitrary half is kept.  *)
SeenWith(seen, n) ==
  IF Cardinality(seen \cup {n}) <= SeenLimit THEN {seen \cup {n}}
  ELSE {s \in SUBSET (seen \cup {n}) : Cardinality(s) = SeenKept}

(* The rest of the broadcast loop for the event e, on a connection that is *)
(* `left' with the queues that remain.                                     *)
Forward(k, e, left) ==
  IF ~e.shows \/ AlreadySeen(left.seen, e)
  THEN socket' = [socket EXCEPT ![k] = left] /\ UNCHANGED <<file, copy, shown, forgotten>>
  ELSE /\ \E s \in SeenWith(left.seen, e.msg.n) :
            /\ socket' = [socket EXCEPT ![k] = [left EXCEPT !.seen = s]]
            /\ forgotten' = forgotten \cup ((left.seen \cup {e.msg.n}) \ s)
       /\ Record("dashboard", e.msg)
       /\ shown' = [shown EXCEPT ![k] = Append(@, e.msg.n)]

(* broadcast_loop takes an event of the user. A state update that is ready *)
(* in the same round is taken as well, and lost.                           *)
ForwardUserEvent(k) ==
  /\ socket[k].phase = "open" /\ socket[k].user # <<>>
  /\ \E t \in {0, 1} :
       /\ t <= socket[k].system
       /\ Forward(k, Head(socket[k].user),
                  [socket[k] EXCEPT !.user = Tail(@), !.system = @ - t])
  /\ UNCHANGED said

(* broadcast_loop takes a state update; an event of the user that is ready *)
(* in the same round may be taken as well, and lost.                       *)
ForwardState(k) ==
  /\ socket[k].phase = "open" /\ socket[k].system > 0
  /\ \E u \in {0, 1} :
       /\ u <= Len(socket[k].user)
       /\ socket' = [socket EXCEPT ![k].system = @ - 1,
                                   ![k].user = SubSeq(@, u + 1, Len(@))]
  /\ UNCHANGED <<said, file, copy, shown, forgotten>>

(* The client goes away: handle_messages ends, broadcast_loop notices only *)
(* when it has taken the next event; then both queues are unsubscribed.    *)
Disconnect(k) ==
  /\ socket[k].phase = "open"
  /\ socket' = [socket EXCEPT ![k].phase = "gone"]
  /\ UNCHANGED <<said, file, copy, shown, forgotten>>

Unsubscribe(k) ==
  /\ socket[k].phase = "gone" /\ (socket[k].user # <<>> \/ socket[k].system > 0)
  /\ socket' = [socket EXCEPT ![k] = Closed]
  /\ UNCHANGED <<said, file, copy, shown, forgotten>>

(* The process dies and starts again. *)
RestartFeed ==
  /\ copy' = <<>>
  /\ socket' = [k \in Sockets |-> Closed]
  /\ shown' = [k \in Sockets |-> <<>>]
  /\ UNCHANGED <<said, file, forgotten>>

FeedNext ==
  \/ \E t \in Texts : InboundOfUser(t) \/ InboundOfStranger(t) \/ Reply(t)
  \/ \E k \in Sockets, t \in Texts : Chat(k, t)
  \/ StateTick
  \/ \E k \in Sockets :
       \/ Connect(k) \/ SendHistory(k) \/ Disconnect(k) \/ Unsubscribe(k)
       \/ ForwardUserEvent(k) \/ ForwardState(k)
  \/ RestartFeed

FeedSpec == FeedInit /\ [][FeedNext]_feedVars

-----------------------------------------------------------------------------
(* Properties *)

FeedTypeOK ==
  /\ said \in 0..MaxEvents
  /\ file \in Seq(Message)
  /\ DOMAIN copy \subseteq Managers /\ \A m \in DOMAIN copy : copy[m] \in Seq(Message)
  /\ \A k \in Sockets :
       /\ socket[k].phase \in {"closed", "opening", "open", "gone"}
       /\ \A i \in DOMAIN socket[k].user : socket[k].user[i].msg \in Message
       /\ socket[k].system \in 0..MaxTicks
       /\ socket[k].seen \subseteq Numbers /\ Cardinality(socket[k].seen) <= SeenLimit
       /\ \A i \in DOMAIN shown[k] : shown[k][i] \in Numbers

(* Although each reply is published twice, and although the two queues of  *)
(* the broadcast loop race, a connection is shown the events in the order  *)
(* in which they happened, and none of them twice unless its event_id was  *)
(* cut from seen_event_ids.                                                *)
ShownInOrderOnce ==
  \A k \in Sockets : \A i, j \in DOMAIN shown[k] : i < j =>
    \/ shown[k][i] < shown[k][j]
    \/ shown[k][i] = shown[k][j] /\ shown[k][i] \in forgotten

Copies(s, n) == Cardinality({i \in DOMAIN s : s[i].n = n})

(* What add_message's comment in session/manager.py promises, `avoid       *)
(* saving repeated messages': an event is in the saved conversation once,  *)
(* whichever manager wrote it. add_message compares with the last message  *)
(* of one manager's copy only.                                             *)
SavedOnce == \A n \in Numbers : Copies(file, n) <= 1
=============================================================================
