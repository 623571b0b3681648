-------------------------------- MODULE Mochat --------------------------------
(***************************************************************************)
(* Receiving from Mochat (crabclaw/channels/mochat.py).  A target is a     *)
(* session, whose messages have sequence numbers and a cursor that is      *)
(* kept over restarts, or a panel of a group, whose messages are collected *)
(* until somebody mentions the agent or a delay has passed.  Messages come *)
(* by subscription over a websocket, by polling while there is none, and   *)
(* by notifications; the server is modelled by what the channel expects of *)
(* it: an answer carries at most the events that were asked for, from the  *)
(* oldest on, and the events of a subscription come in order after it.     *)
(***************************************************************************)
EXTENDS Integers, Sequences, FiniteSets, SequencesExt

CONSTANTS
  Posts,        \* bound on the messages of the target
  Mentioned,    \* those that mention the agent
  Noticed,      \* those the server may notify of, too
  WatchLimit,   \* watch_limit: how many events an answer carries at most
  MaxCalls,     \* bound on the calls of subscribeSessions that wait at once
  MaxLives      \* bound on the times the channel is started

ASSUME MochatAssumption ==
  /\ Posts \in Nat \ {0} /\ Mentioned \subseteq 1..Posts /\ Noticed \subseteq 1..Posts
  /\ WatchLimit \in Nat \ {0} /\ MaxCalls \in Nat \ {0} /\ MaxLives \in Nat \ {0}

Absent == -1

VARIABLES
  kind,        \* of the target: "session" or "panel"
  posts,       \* messages at the server
  life,        \* the instance that is running, and
  phase,       \* whether it runs, is in stop(), or has stopped
  socketUp,    \* the websocket is connected
  subscribed,  \* the server sends the events of the target
  pushes,      \* those on their way
  ack,         \* the subscription call of this connection: none, asked, answered, or too late
  oldCalls,    \* how many of earlier connections are still waited for
  fallback,    \* _fallback_mode; a worker runs with it
  poll,        \* the worker's request: none, asked from a cursor, or answered
  cursor,      \* _session_cursor of the target
  cursorFile,  \* session_cursors.json
  saveDue,     \* _cursor_save_task
  cold,        \* the target is in _cold_sessions
  seen,        \* _seen_set of the target
  entries,     \* the DelayState of the panel: its entries
  timer,       \* and whether its timer is set
  heard,       \* what this instance has handed to the bus, in order
  everHeard,   \* what any instance has
  base,        \* posts when the session was found: its history
  missed,      \* messages no answer that was handled carried (see NothingSkipped)
  orphans      \* entries whose timer outlived their instance

mochatVars == <<kind, posts, life, phase, socketUp, subscribed, pushes, ack, oldCalls,
                fallback, poll, cursor, cursorFile, saveDue, cold, seen, entries, timer, heard,
                everHeard, base, missed, orphans>>
serverVars == <<kind, posts, base>>
socketVars == <<socketUp, subscribed, pushes, ack, oldCalls>>
workerVars == <<fallback, poll>>
cursorVars == <<cursor, cursorFile, saveDue, cold, missed>>
inboxVars  == <<seen, entries, timer, heard, everHeard>>

None == [state |-> "none"]
Asked(from) == [state |-> "asked", from |-> from]
Answered(from, to) == [state |-> "answered", from |-> from, to |-> to]

CursorOr0 == IF cursor = Absent THEN 0 ELSE cursor
Late(from) == [state |-> "late", from |-> from]
Alive == phase # "stopped"

\* The messages after one and up to another, of a session: a panel has no cursor.
After(from, to) == IF kind = "session" THEN (from + 1)..to ELSE {}

-----------------------------------------------------------------------------
(* Handling of messages; each is one step of the event loop *)

Dispatched(ms) == heard' = heard \o ms /\ everHeard' = everHeard \cup ToSet(ms)

\* Fault seed: notifications and events are not compared with what was seen.
UnseenAll(ms) == ms

\* _remember_message_id: those of ms that are new, in order.
Unseen(ms) ==
  LET kept[i \in 0..Len(ms)] ==
        IF i = 0 THEN <<>> ELSE IF ms[i] \in seen THEN kept[i - 1] ELSE Append(kept[i - 1], ms[i])
  IN kept[Len(ms)]

\* _flush_delayed_entries with the entry m, which mentions the agent.
FlushedWith(m) ==
  /\ entries' = <<>> /\ timer' = FALSE
  /\ Dispatched(Append(entries, m))

\* _enqueue_delayed_entry: the timer starts anew.
Enqueued(m) ==
  /\ entries' = Append(entries, m) /\ timer' = TRUE
  /\ UNCHANGED <<heard, everHeard>>

(* _process_inbound_event for a message of a panel *)
PanelEvent(m) ==
  IF Unseen(<<m>>) = <<>>
  THEN UNCHANGED inboxVars
  ELSE /\ seen' = seen \cup {m}
       /\ IF m \in Mentioned THEN FlushedWith(m) ELSE Enqueued(m)

(* _process_inbound_event for messages of a session, which are not delayed *)
SessionEvents(ms) ==
  /\ seen' = seen \cup ToSet(ms)
  /\ Dispatched(Unseen(ms))
  /\ UNCHANGED <<entries, timer>>

\* _mark_session_cursor
Marked(c) ==
  IF c >= CursorOr0
  THEN cursor' = c /\ saveDue' = TRUE
  ELSE UNCHANGED <<cursor, saveDue>>

\* Fault seed: a cold session is not taken out of _cold_sessions.
WatchPayloadStaysCold(from, to) ==
  /\ Marked(to)
  /\ UNCHANGED cold
  /\ IF cold
     THEN missed' = missed \cup (IF cursor = Absent THEN After(base, to) ELSE {}) /\ UNCHANGED inboxVars
     ELSE SessionEvents([i \in 1..(to - from) |-> from + i]) /\ UNCHANGED missed
  /\ UNCHANGED cursorFile

(* _handle_watch_payload: the events after from, up to the cursor to.  The *)
(* first payload of a session without a cursor is taken for its history.   *)
WatchPayload(from, to) ==
  /\ Marked(to)
  /\ cold' = FALSE
  /\ IF cold
     THEN missed' = missed \cup After(base, to) /\ UNCHANGED inboxVars
     ELSE SessionEvents([i \in 1..(to - from) |-> from + i]) /\ UNCHANGED missed
  /\ UNCHANGED cursorFile

\* Where the answer to a request for the events after from ends.
AnswerEnd(from) == IF from + WatchLimit < posts THEN from + WatchLimit ELSE posts

\* What lies beyond a cursor from which the session is fetched anew is not missed.
StillMissed(c) == {m \in missed : m <= c}

-----------------------------------------------------------------------------
(* The server and the websocket *)

Post ==
  /\ posts < Posts /\ posts' = posts + 1
  /\ pushes' = IF subscribed THEN Append(pushes, posts + 1) ELSE pushes
  /\ UNCHANGED <<kind, base, life, phase, socketUp, subscribed, ack, oldCalls, workerVars, cursorVars,
                 inboxVars, orphans>>

\* _ensure_fallback_workers
Fallback == fallback' = (fallback \/ phase = "running") /\ UNCHANGED poll

\* _stop_fallback_workers: the request of the worker is cancelled.
NoFallback == fallback' = FALSE /\ poll' = None

(* connect(): _subscribe_all; a call of an earlier connection may still be *)
(* waited for.                                                             *)
Connect ==
  /\ Alive /\ ~socketUp /\ socketUp' = TRUE
  /\ oldCalls < MaxCalls
  /\ cold' = (cold \/ (kind = "session" /\ cursor = Absent))
  /\ ack' = Asked(CursorOr0)
  /\ UNCHANGED <<serverVars, life, phase, subscribed, pushes, oldCalls, workerVars, cursor, cursorFile,
                 saveDue, missed, inboxVars, orphans>>

\* The server subscribes the client and answers, for a session with what it has after
\* the cursor; what the answer has no room for, or is not handled, it does not send again.
ServerSubscribes ==
  /\ socketUp /\ ack.state \in {"asked", "late"}
  /\ subscribed' = TRUE
  /\ IF ack.state = "asked"
     THEN /\ ack' = Answered(ack.from, AnswerEnd(ack.from))
          /\ missed' = missed \cup After(AnswerEnd(ack.from), posts)
     ELSE ack' = None /\ missed' = missed \cup After(ack.from, posts)
  /\ UNCHANGED <<serverVars, life, phase, socketUp, pushes, oldCalls, workerVars, cursor, cursorFile,
                 saveDue, cold, inboxVars, orphans>>

AckArrives ==
  /\ socketUp /\ ack.state = "answered"
  /\ ack' = None
  /\ IF kind = "session"
     THEN WatchPayload(ack.from, ack.to)
     ELSE UNCHANGED <<cursorVars, inboxVars>>
  /\ NoFallback
  /\ UNCHANGED <<serverVars, life, phase, socketUp, subscribed, pushes, oldCalls, orphans>>

\* _socket_call gives up: polling, though the server may subscribe the client, before or after.
AckTimesOut ==
  /\ ack.state \in {"asked", "answered"}
  /\ ack' \in IF ack.state = "asked" THEN {None, Late(ack.from)} ELSE {None}
  /\ missed' = IF ack.state = "answered" THEN missed \cup After(ack.from, ack.to) ELSE missed
  /\ Fallback
  /\ UNCHANGED <<serverVars, life, phase, socketUp, subscribed, pushes, oldCalls, cursor, cursorFile,
                 saveDue, cold, inboxVars, orphans>>

\* The same for a call of a connection that was lost: polling, whatever the new one has.
OldCallTimesOut ==
  /\ oldCalls > 0 /\ oldCalls' = oldCalls - 1
  /\ Fallback
  /\ UNCHANGED <<serverVars, life, phase, socketUp, subscribed, pushes, ack, cursorVars, inboxVars,
                 orphans>>

\* claw.session.events, not before the answer they follow; notify:chat.message.add.
PushArrives ==
  /\ Alive /\ pushes # <<>> /\ (kind = "session" => ack = None)
  /\ pushes' = Tail(pushes)
  /\ LET m == Head(pushes) IN
     IF kind = "session"
     THEN WatchPayload(m - 1, m)
     ELSE PanelEvent(m) /\ UNCHANGED cursorVars
  /\ UNCHANGED <<serverVars, life, phase, socketUp, subscribed, ack, oldCalls, workerVars, orphans>>

(* notify:chat.inbox.append: a message of a session by another way *)
InboxNotice(m) ==
  /\ kind = "session" /\ Alive /\ socketUp /\ m <= posts /\ m \notin seen
  /\ SessionEvents(<<m>>)
  /\ UNCHANGED <<serverVars, life, phase, socketVars, workerVars, cursorVars, orphans>>

Disconnect ==
  /\ socketUp /\ socketUp' = FALSE
  /\ subscribed' = FALSE /\ pushes' = <<>> /\ ack' = None
  /\ oldCalls' = IF ack.state \in {"asked", "answered"} THEN oldCalls + 1 ELSE oldCalls
  /\ missed' = StillMissed(CursorOr0)
  /\ Fallback
  /\ UNCHANGED <<serverVars, life, phase, cursor, cursorFile, saveDue, cold, inboxVars, orphans>>

-----------------------------------------------------------------------------
(* The fallback worker and the timers *)

PollAsked ==
  /\ fallback /\ poll.state = "none"
  /\ poll' = Asked(CursorOr0)
  /\ UNCHANGED <<serverVars, life, phase, socketVars, fallback, cursorVars, inboxVars,
                 orphans>>

\* The server answers, a session's with its oldest events and a panel's with its newest
\* messages, or the request fails.
PollAnswered ==
  /\ poll.state = "asked"
  /\ poll' \in {None, IF kind = "session" THEN Answered(poll.from, AnswerEnd(poll.from))
                      ELSE Answered(IF posts > WatchLimit THEN posts - WatchLimit ELSE 0, posts)}
  /\ UNCHANGED <<serverVars, life, phase, socketVars, fallback, cursorVars, inboxVars,
                 orphans>>

\* A panel's messages are handled from the oldest on, one event each.
PollHandled ==
  /\ poll.state = "answered"
  /\ IF kind = "session"
     THEN poll' = None /\ WatchPayload(poll.from, poll.to)
     ELSE /\ UNCHANGED cursorVars
          /\ IF poll.from < poll.to
             THEN poll' = Answered(poll.from + 1, poll.to) /\ PanelEvent(poll.from + 1)
             ELSE poll' = None /\ UNCHANGED inboxVars
  /\ UNCHANGED <<serverVars, life, phase, socketVars, fallback, orphans>>

\* _delay_flush_after
DelayOver ==
  /\ Alive /\ timer
  /\ timer' = FALSE /\ entries' = <<>>
  /\ Dispatched(entries)
  /\ UNCHANGED <<serverVars, life, phase, socketVars, workerVars, cursorVars, seen, orphans>>

OrphanDelayOver ==
  /\ orphans # <<>> /\ orphans' = <<>>
  /\ everHeard' = everHeard \cup ToSet(orphans)
  /\ UNCHANGED <<serverVars, life, phase, socketVars, workerVars, cursorVars, seen, entries, timer,
                 heard>>

\* _save_cursor_debounced
SaveCursor ==
  /\ Alive /\ saveDue /\ saveDue' = FALSE
  /\ cursorFile' = cursor
  /\ UNCHANGED <<serverVars, life, phase, socketVars, workerVars, cursor, cold, missed, inboxVars, orphans>>

-----------------------------------------------------------------------------
(* Start and stop *)

MochatInit ==
  /\ kind \in {"session", "panel"} /\ posts \in 0..1 /\ base = posts
  /\ life = 1 /\ phase = "running"
  /\ socketUp = FALSE /\ subscribed = FALSE /\ pushes = <<>> /\ ack = None /\ oldCalls = 0
  /\ fallback \in BOOLEAN /\ poll = None
  /\ cursor = Absent /\ cursorFile = Absent /\ saveDue = FALSE
  /\ cold = (kind = "session")
  /\ seen = {} /\ entries = <<>> /\ timer = FALSE /\ heard = <<>> /\ everHeard = {}
  /\ missed = {} /\ orphans = <<>>

\* stop(), up to the disconnection: the entries that wait are dropped.
StopBegins ==
  /\ phase = "running" /\ phase' = "stopping"
  /\ NoFallback
  /\ entries' = <<>> /\ timer' = FALSE
  /\ UNCHANGED <<serverVars, life, socketVars, cursorVars, seen, heard, everHeard, orphans>>

StopEnds ==
  /\ phase = "stopping" /\ phase' = "stopped"
  /\ socketUp' = FALSE /\ subscribed' = FALSE /\ pushes' = <<>> /\ ack' = None /\ oldCalls' = 0
  /\ saveDue' = FALSE /\ cursorFile' = cursor /\ missed' = StillMissed(CursorOr0)
  /\ UNCHANGED <<serverVars, life, workerVars, cursor, cold, inboxVars, orphans>>

(* A new instance, after stop() or a crash *)
StartAgain ==
  /\ life < MaxLives /\ life' = life + 1 /\ phase' = "running"
  /\ socketUp' = FALSE /\ subscribed' = FALSE /\ pushes' = <<>> /\ ack' = None /\ oldCalls' = 0
  /\ fallback' \in BOOLEAN /\ poll' = None
  /\ cursor' = cursorFile /\ saveDue' = FALSE
  /\ cold' = (kind = "session" /\ cursorFile = Absent)
  /\ missed' = StillMissed(IF cursorFile = Absent THEN 0 ELSE cursorFile)
  /\ seen' = {} /\ entries' = <<>> /\ timer' = FALSE /\ heard' = <<>>
  /\ orphans' = IF phase = "stopped" /\ timer THEN orphans \o entries ELSE <<>>
  /\ UNCHANGED <<serverVars, cursorFile, everHeard>>

MochatNext ==
  \/ Post
  \/ Connect
  \/ ServerSubscribes
  \/ AckArrives
  \/ AckTimesOut
  \/ OldCallTimesOut
  \/ PushArrives
  \/ \E m \in Noticed : InboxNotice(m)
  \/ Disconnect
  \/ PollAsked
  \/ PollAnswered
  \/ PollHandled
  \/ DelayOver
  \/ OrphanDelayOver
  \/ SaveCursor
  \/ StopBegins
  \/ StopEnds
  \/ StartAgain

MochatSpec == MochatInit /\ [][MochatNext]_mochatVars

-----------------------------------------------------------------------------
(* Properties *)

Requests == {None} \cup [state : {"asked", "late"}, from : Nat] \cup [state : {"answered"}, from : Nat, to : Nat]

\* Every variable keeps its type.
MochatTypeOK ==
  /\ kind \in {"session", "panel"} /\ phase \in {"running", "stopping", "stopped"}
  /\ posts \in 0..Posts /\ life \in 1..MaxLives
  /\ {socketUp, subscribed, fallback, saveDue, cold, timer} \subseteq BOOLEAN
  /\ ack \in Requests /\ poll \in Requests
  /\ cursor \in Nat \cup {Absent} /\ cursorFile \in Nat \cup {Absent}
  /\ base \in 0..Posts /\ oldCalls \in 0..MaxCalls
  /\ seen \cup everHeard \cup missed \subseteq 1..Posts
  /\ {pushes, entries, heard, orphans} \subseteq Seq(1..Posts)

\* The cursor, which is saved and decides what is fetched next, never overtakes
\* what was handed to the bus, by whichever of pushes, polls, answers and
\* restarts it is moved: a message at or before it was history when the session
\* was found, was heard by this instance or one before, or was in no answer that
\* was handled.  Three things make the code pass over the last, and only they:
\* all of the first payload of a session without a saved cursor is taken for
\* history; an answer to a subscription that comes too late is dropped though
\* the server pushes what follows it; and so does it after an answer of
\* watch_limit events that leaves out the newest.
NothingSkipped ==
  kind = "session" =>
    \A m \in 1..CursorOr0 : m > base => m \in everHeard \cup missed

\* Whichever ways a message of a running panel or session comes, also several
\* at once, the bus gets it once from an instance, and one that was not handed
\* over yet waits for a timer that is set.
SeenIsHeardOrWaits ==
  phase = "running" =>
    \A m \in seen :
      LET times == Cardinality({i \in DOMAIN heard : heard[i] = m})
                     + Cardinality({i \in DOMAIN entries : entries[i] = m}) IN
      times = 1 /\ (m \in ToSet(entries) => timer)
=============================================================================
