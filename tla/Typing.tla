-------------------------------- MODULE Typing --------------------------------
(***************************************************************************)
(* The typing indicators of Matrix and Discord                             *)
(* (crabclaw/channels/matrix.py and discord.py).  From the moment a message *)
(* is passed on until its reply is sent a keepalive task of the room tells *)
(* the platform, again and again, that the agent types.  The handler of a  *)
(* message, send() and stop() start and stop these tasks; with Matrix they *)
(* await the task that they cancel, and the others run meanwhile.          *)
(***************************************************************************)
EXTENDS Integers, Sequences, FiniteSets

CONSTANTS
  Rooms,
  DirectRooms,   \* those with one other member
  MaxTasks       \* bound on the keepalive tasks

ASSUME TypingAssumption == DirectRooms \subseteq Rooms /\ MaxTasks \in Nat

VARIABLES
  platform,    \* "matrix" or "discord"
  policy,      \* group_policy
  isRunning,     \* _running
  syncLoop,    \* the sync task of Matrix, the gateway loop of Discord: "on", "resting" or "over"
  roomOf,      \* the room of each task ever made
  live,        \* the tasks that have not ended
  cancelled,   \* those that are to end
  registered,  \* _typing_tasks: room -> task, 0 without
  hearing,     \* what the handler does, for which room, and the task it awaits
  replying,    \* the same of send()
  closing,     \* the same of stop(); "over" when it has returned
  toClose,     \* rooms whose task stop() has yet to stop
  quiet        \* rooms whose last message was answered

typingVars == <<platform, policy, isRunning, syncLoop, roomOf, live, cancelled, registered, hearing,
                replying, closing, toClose, quiet>>
fixedVars  == <<platform, policy>>
taskVars   == <<roomOf, live, cancelled, registered>>
stopVars   == <<isRunning, closing, toClose>>

Tasks == DOMAIN roomOf
Idle  == [at |-> "idle", room |-> "none", awaits |-> 0]
At(at, room, task) == [at |-> at, room |-> room, awaits |-> task]

TypingInit ==
  /\ platform \in {"matrix", "discord"}
  /\ policy \in {"open", "mention"} \cup (IF platform = "matrix" THEN {"allowlist"} ELSE {})
  /\ isRunning = TRUE /\ syncLoop = "on"
  /\ roomOf = <<>> /\ live = {} /\ cancelled = {} /\ registered = [r \in Rooms |-> 0]
  /\ hearing = Idle /\ replying = Idle /\ closing = Idle /\ toClose = {} /\ quiet = {}

-----------------------------------------------------------------------------
(* Keepalive tasks                                                         *)

Create(room) ==
  /\ roomOf' = Append(roomOf, room)
  /\ live' = live \cup {Len(roomOf')}
  /\ registered' = [registered EXCEPT ![room] = Len(roomOf')]

\* _stop_typing_keepalive and _stop_typing up to the await: the task is forgotten and
\* cancelled.
Cancel(room) ==
  /\ cancelled' = cancelled \cup ({registered[room]} \ {0})
  /\ registered' = [registered EXCEPT ![room] = 0]
  /\ UNCHANGED <<roomOf, live>>

\* Cancelled, or after its pause the loop sees that the channel is stopped; that of
\* Discord ends also when a call fails.
KeepaliveEnds(task) ==
  /\ task \in live
  /\ task \in cancelled \/ ~isRunning \/ platform = "discord"
  /\ live' = live \ {task}
  /\ UNCHANGED <<fixedVars, stopVars, syncLoop, roomOf, cancelled, registered, hearing, replying, quiet>>

-----------------------------------------------------------------------------
(* Messages.  The callbacks of Matrix' sync and the events of Discord's     *)
(* gateway are handled one after the other.                                *)

\* _should_process_message and _should_respond_in_group, of an allowed sender.
Heeded(room, mentioned) ==
  room \in DirectRooms \/ policy = "open" \/ (policy = "mention" /\ mentioned)

\* Fault seed: the old task is overwritten.
StartOnly(room) == Create(room) /\ UNCHANGED cancelled

\* _start_typing of Discord: nothing is awaited.
StartTyping(room) ==
  /\ Create(room)
  /\ cancelled' = cancelled \cup ({registered[room]} \ {0})

\* A message comes; its media are fetched first.
HearIn(room, mentioned) ==
  /\ syncLoop = "on" /\ hearing = Idle /\ Heeded(room, mentioned) /\ Len(roomOf) < MaxTasks
  /\ hearing' = At("fetch", room, 0) /\ quiet' = quiet \ {room}
  /\ UNCHANGED <<fixedVars, stopVars, syncLoop, taskVars, replying>>

\* Discord: typing starts, and the message is passed on.
DiscordPasses ==
  /\ platform = "discord" /\ hearing.at = "fetch"
  /\ StartTyping(hearing.room) /\ hearing' = Idle
  /\ UNCHANGED <<fixedVars, stopVars, syncLoop, replying, quiet>>

\* Matrix: the old task is stopped ...
MatrixRenews ==
  /\ platform = "matrix" /\ hearing.at = "fetch"
  /\ Cancel(hearing.room)
  /\ hearing' = At("renew", hearing.room, registered[hearing.room])
  /\ UNCHANGED <<fixedVars, stopVars, syncLoop, replying, quiet>>

\* ... the room is told when that has ended ...
MatrixNotifies ==
  /\ hearing.at = "renew" /\ hearing.awaits \notin live
  /\ hearing' = At("notify", hearing.room, 0)
  /\ UNCHANGED <<fixedVars, stopVars, syncLoop, taskVars, replying, quiet>>

\* ... and the new task starts, unless the channel was stopped meanwhile.
CreateIfRunning(room) == IF isRunning THEN Create(room) ELSE UNCHANGED <<roomOf, live, registered>>

MatrixPasses ==
  /\ hearing.at = "notify"
  /\ CreateIfRunning(hearing.room) /\ hearing' = Idle
  /\ UNCHANGED <<fixedVars, stopVars, syncLoop, cancelled, replying, quiet>>

-----------------------------------------------------------------------------
(* Replies.  Progress messages leave Matrix' indicator on.                 *)

AnsweredIn(room) == quiet' = IF hearing.room = room THEN quiet ELSE quiet \cup {room}

Reply(room) ==
  /\ replying = Idle /\ closing.at # "over"
  /\ replying' = At("posting", room, 0)
  /\ UNCHANGED <<fixedVars, stopVars, syncLoop, taskVars, hearing, quiet>>

ReplyPosted(progress) ==
  /\ replying.at = "posting"
  /\ IF progress /\ platform = "matrix"
     THEN replying' = Idle /\ UNCHANGED <<taskVars, quiet>>
     ELSE /\ Cancel(replying.room) /\ AnsweredIn(replying.room)
          /\ replying' = IF platform = "discord" THEN Idle
                         ELSE At("clear", replying.room, registered[replying.room])
  /\ UNCHANGED <<fixedVars, stopVars, syncLoop, hearing>>

\* The task has ended, and the room is told that nobody types.
Cleared ==
  /\ replying.at = "clear" /\ replying.awaits \notin live
  /\ replying' = Idle
  /\ UNCHANGED <<fixedVars, stopVars, syncLoop, taskVars, hearing, quiet>>

-----------------------------------------------------------------------------
(* The connection and stop()                                               *)

\* sync_forever or the gateway fails, between two messages, and is tried again after a pause.
Breaks ==
  /\ syncLoop = "on" /\ hearing = Idle /\ syncLoop' = "resting"
  /\ UNCHANGED <<fixedVars, stopVars, taskVars, hearing, replying, quiet>>

SyncResumes ==
  /\ syncLoop = "resting" /\ syncLoop' = IF isRunning THEN "on" ELSE "over"
  /\ UNCHANGED <<fixedVars, stopVars, taskVars, hearing, replying, quiet>>

\* Told to stop, the loop ends after the message at hand.
LoopEnds ==
  /\ syncLoop = "on" /\ hearing = Idle /\ closing.at \in {"sync", "socket", "over"}
  /\ syncLoop' = "over"
  /\ UNCHANGED <<fixedVars, stopVars, taskVars, hearing, replying, quiet>>

\* Discord's stop() cancels every task at once, then closes the socket.
StopDiscord ==
  /\ platform = "discord" /\ isRunning /\ isRunning' = FALSE
  /\ cancelled' = (cancelled \cup {registered[r] : r \in Rooms}) \ {0}
  /\ registered' = [r \in Rooms |-> 0]
  /\ closing' = At("socket", "none", 0)
  /\ UNCHANGED <<fixedVars, syncLoop, roomOf, live, hearing, replying, toClose, quiet>>

\* That of Matrix takes the rooms with a task, one by one.
StopMatrix ==
  /\ platform = "matrix" /\ isRunning /\ isRunning' = FALSE
  /\ toClose' = {r \in Rooms : registered[r] # 0}
  /\ closing' = At("rooms", "none", 0)
  /\ UNCHANGED <<fixedVars, syncLoop, taskVars, hearing, replying, quiet>>

CloseRoom(room) ==
  /\ closing.at = "rooms" /\ closing.awaits \notin live /\ room \in toClose
  /\ toClose' = toClose \ {room}
  /\ closing' = At("rooms", room, registered[room])
  /\ Cancel(room)
  /\ UNCHANGED <<fixedVars, isRunning, syncLoop, hearing, replying, quiet>>

RoomsClosed ==
  /\ closing.at = "rooms" /\ closing.awaits \notin live /\ toClose = {}
  /\ closing' = At("sync", "none", 0)
  /\ UNCHANGED <<fixedVars, isRunning, syncLoop, taskVars, hearing, replying, toClose, quiet>>

\* After the grace period the sync task is cancelled where it awaits; only the await of
\* a cancelled keepalive swallows that.
GraceEnds ==
  /\ closing.at = "sync" /\ syncLoop # "over" /\ hearing.at # "renew"
  /\ syncLoop' = "over" /\ hearing' = Idle
  /\ UNCHANGED <<fixedVars, stopVars, taskVars, replying, quiet>>

Stopped ==
  /\ closing.at = "socket" \/ (closing.at = "sync" /\ syncLoop = "over")
  /\ closing' = At("over", "none", 0)
  /\ UNCHANGED <<fixedVars, isRunning, syncLoop, taskVars, hearing, replying, toClose, quiet>>

TypingNext ==
  \/ \E room \in Rooms : (\E mentioned \in BOOLEAN : HearIn(room, mentioned)) \/ Reply(room) \/ CloseRoom(room)
  \/ DiscordPasses \/ MatrixRenews \/ MatrixNotifies \/ MatrixPasses
  \/ Cleared \/ (\E progress \in BOOLEAN : ReplyPosted(progress))
  \/ Breaks \/ SyncResumes \/ LoopEnds \/ StopDiscord \/ StopMatrix \/ RoomsClosed \/ GraceEnds \/ Stopped
  \/ \E task \in Tasks : KeepaliveEnds(task)

TypingSpec == TypingInit /\ [][TypingNext]_typingVars

-----------------------------------------------------------------------------
\* The variables keep their types.
TypingTypeOK ==
  /\ roomOf \in Seq(Rooms) /\ live \cup cancelled \subseteq Tasks /\ registered \in [Rooms -> {0} \cup Tasks]
  /\ toClose \cup quiet \subseteq Rooms /\ isRunning \in BOOLEAN /\ syncLoop \in {"on", "resting", "over"}
  /\ \A h \in {hearing, replying, closing} : h.room \in Rooms \cup {"none"} /\ h.awaits \in {0} \cup Tasks

\* A task that runs on can be found in _typing_tasks, and stopped; there is one for a
\* room at most.  (Discord's handler may start one after stop(): it ends by itself.)
KeepalivesAreKnown == \A task \in live \ cancelled : registered[roomOf[task]] = task

\* A room whose last message was answered is not told any more that the agent types.
AnsweredRoomsAreQuiet == \A task \in live \ cancelled : roomOf[task] \notin quiet

\* When Matrix' stop() has returned, every task has been cancelled, those too that the
\* handler was about to start, and nothing is heard any more.
NothingAfterStop ==
  closing.at = "over" /\ platform = "matrix" => live \subseteq cancelled /\ hearing = Idle

(* The typing indicator follows the conversation.                            *)
TypingKept == KeepalivesAreKnown /\ AnsweredRoomsAreQuiet /\ NothingAfterStop
=============================================================================
