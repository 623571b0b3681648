------------------------------- MODULE Telegram -------------------------------
(***************************************************************************)
(* The Telegram adapter (crabclaw/channels/telegram.py).  Updates are      *)
(* handled one after the other, with awaits for downloads; the parts of an *)
(* album are collected and handed over by a task of their own; the         *)
(* dispatcher sends one reply at a time, in chunks, each first as HTML and *)
(* then as plain text, three times when the call times out.  A call that   *)
(* fails for the program may have been carried out by the platform.        *)
(***************************************************************************)
EXTENDS Integers, Sequences, SequencesExt, FiniteSets, Chunks

CONSTANTS
  MaxUpdates,    \* bound on the updates
  Replies,       \* the replies sent, one after the other
  MaxChunk,      \* TELEGRAM_MAX_MESSAGE_LEN
  MaxAttempts,   \* _SEND_MAX_RETRIES
  MaxTimeouts    \* bound on the calls that time out

ASSUME TelegramAssumption ==
  /\ {MaxUpdates, MaxChunk, MaxTimeouts} \subseteq Nat /\ MaxAttempts \in Nat \ {0}
  /\ Replies \in Seq(Seq(Seq(Nat)))

VARIABLES
  bot,          \* "running", "stopping" or "stopped"
  arrived,      \* the updates that have arrived, each a record
  updateQueue,  \* numbers of those that wait
  handling,     \* the one whose media is being downloaded, or 0
  album,        \* the buffer of the album: numbers of its parts
  flushing,     \* the album's flush task is asleep
  handedOver,   \* what _handle_message was called with, each a sequence of numbers
  dropped,     \* updates that were refused or dropped by stop()
  typing,       \* the typing indicator is shown
  outgoing,     \* number of replies sent or being sent
  sending,      \* the reply being sent: [media, chunks, mode, attempt], or Nothing
  chat,         \* what the chat shows: <<reply, chunk>>
  uncertain,    \* those that were shown by a call that failed for the program
  timeouts

inboundVars  == <<arrived, updateQueue, handling, album, flushing, handedOver, dropped>>
outboundVars == <<outgoing, sending, chat, uncertain, timeouts>>
telegramVars == <<bot, typing, inboundVars, outboundVars>>

Nothing == [mode |-> "none"]

TelegramInit ==
  /\ bot = "running" /\ typing = FALSE
  /\ arrived = <<>> /\ updateQueue = <<>> /\ handling = 0
  /\ album = <<>> /\ flushing = FALSE /\ handedOver = <<>> /\ dropped = {}
  /\ outgoing = 0 /\ sending = Nothing /\ chat = <<>> /\ uncertain = {} /\ timeouts = 0

-----------------------------------------------------------------------------
(* Inbound *)

\* Somebody writes.  All parts of an album are of one sender.
Arrive(part, allowed, forBot) ==
  /\ bot = "running" /\ Len(arrived) < MaxUpdates
  /\ part => \A u \in Range(arrived) : u.part => u.allowed = allowed
  /\ arrived' = Append(arrived, [part |-> part, allowed |-> allowed, forBot |-> forBot])
  /\ updateQueue' = Append(updateQueue, Len(arrived'))
  /\ UNCHANGED <<bot, typing, handling, album, flushing, handedOver, dropped, outboundVars>>

(* _on_message up to the download; a group message that does not mention   *)
(* the bot is ignored.                                                     *)
TakeUpdate ==
  LET u == Head(updateQueue) IN
  /\ handling = 0 /\ updateQueue # <<>> /\ bot # "stopped"
  /\ updateQueue' = Tail(updateQueue)
  /\ IF arrived[u].forBot THEN handling' = u /\ UNCHANGED dropped
     ELSE dropped' = dropped \cup {u} /\ UNCHANGED handling
  /\ UNCHANGED <<bot, typing, arrived, album, flushing, handedOver, outboundVars>>

\* _handle_message hands over what an allowed sender wrote.
Handed(updates) ==
  IF arrived[updates[1]].allowed
  THEN handedOver' = Append(handedOver, updates) /\ UNCHANGED dropped
  ELSE dropped' = dropped \cup Range(updates) /\ UNCHANGED handedOver

(* The rest of _on_message: the indicator comes first, for strangers, too. *)
HandleSingle ==
  /\ handling # 0 /\ ~arrived[handling].part
  /\ typing' = TRUE
  /\ Handed(<<handling>>)
  /\ handling' = 0
  /\ UNCHANGED <<bot, arrived, updateQueue, album, flushing, outboundVars>>

\* Fault seed: a flush task that has ended stays registered.
BufferPartOldTask ==
  /\ handling # 0 /\ arrived[handling].part
  /\ typing' = (typing \/ album = <<>>)
  /\ album' = Append(album, handling)
  /\ flushing' = (flushing \/ \A t \in Range(handedOver) : ~arrived[t[1]].part)
  /\ handling' = 0
  /\ UNCHANGED <<bot, arrived, updateQueue, handedOver, dropped, outboundVars>>

BufferPart ==
  /\ handling # 0 /\ arrived[handling].part
  /\ typing' = (typing \/ album = <<>>)
  /\ album' = Append(album, handling)
  /\ flushing' = TRUE
  /\ handling' = 0
  /\ UNCHANGED <<bot, arrived, updateQueue, handedOver, dropped, outboundVars>>

(* _flush_media_group wakes up *)
FlushAlbum ==
  /\ flushing /\ flushing' = FALSE
  /\ IF album = <<>> THEN UNCHANGED <<handedOver, dropped>> ELSE Handed(album)
  /\ album' = <<>>
  /\ UNCHANGED <<bot, typing, arrived, updateQueue, handling, outboundVars>>

(* stop() drops the album that waits; the library still handles the        *)
(* updates it has, and the album they fill is flushed after that.          *)
StopTelegram ==
  /\ bot = "running" /\ bot' = "stopping"
  /\ typing' = FALSE
  /\ album' = <<>> /\ flushing' = FALSE
  /\ dropped' = dropped \cup Range(album)
  /\ UNCHANGED <<arrived, updateQueue, handling, handedOver, outboundVars>>

TelegramStopped ==
  /\ bot = "stopping" /\ updateQueue = <<>> /\ handling = 0
  /\ bot' = "stopped"
  /\ typing' = FALSE
  /\ UNCHANGED <<inboundVars, outboundVars>>

-----------------------------------------------------------------------------
(* Outbound *)

ReplyChunks == [r \in DOMAIN Replies |-> SplitMessage(MaxChunk, Replies[r])]

Try(r, k, mode) == [reply |-> r, chunk |-> k, mode |-> mode, attempt |-> 1]

\* The reply is done after its last chunk.
NextChunk ==
  sending' = IF sending.chunk < Len(ReplyChunks[sending.reply])
             THEN Try(sending.reply, sending.chunk + 1, "html")
             ELSE Nothing

Sending == sending # Nothing
This == <<sending.reply, sending.chunk>>

(* send() of the next reply, with a file or without one.                   *)
SendReply(media) ==
  /\ ~Sending /\ outgoing < Len(Replies)
  /\ outgoing' = outgoing + 1
  /\ IF bot = "stopped" THEN UNCHANGED <<typing, sending>>
     ELSE typing' = FALSE /\ sending' = Try(outgoing', 1, IF media THEN "file" ELSE "html")
  /\ UNCHANGED <<bot, inboundVars, chat, uncertain, timeouts>>

(* The file is sent, or a notice instead of it; when that cannot be sent   *)
(* either, send() fails and the text is not sent at all.                   *)
SendFile ==
  /\ Sending /\ sending.mode = "file"
  /\ sending' \in {Try(sending.reply, 1, "html"), Nothing}
  /\ UNCHANGED <<bot, typing, inboundVars, outgoing, chat, uncertain, timeouts>>

\* Fault seed: a text that was sent as HTML is sent as plain text as well.
SendTextTwice ==
  /\ Sending /\ sending.mode # "file" /\ bot # "stopped"
  /\ Fits(MaxChunk, ReplyChunks[sending.reply][sending.chunk])
  /\ chat' = Append(chat, This)
  /\ IF sending.mode = "html" THEN sending' = [sending EXCEPT !.mode = "plain"] ELSE NextChunk
  /\ UNCHANGED <<bot, typing, inboundVars, outgoing, uncertain, timeouts>>

SendText ==
  /\ Sending /\ sending.mode # "file" /\ bot # "stopped"
  /\ Fits(MaxChunk, ReplyChunks[sending.reply][sending.chunk])
  /\ chat' = Append(chat, This)
  /\ NextChunk
  /\ UNCHANGED <<bot, typing, inboundVars, outgoing, uncertain, timeouts>>

\* After HTML comes plain text, after that the next chunk.
FallBack ==
  IF sending.mode = "html" THEN sending' = Try(sending.reply, sending.chunk, "plain") ELSE NextChunk

\* A call that fails shows the text nevertheless, or does not.
ShownOrNot ==
  \/ UNCHANGED <<chat, uncertain>>
  \/ /\ bot # "stopped" /\ Fits(MaxChunk, ReplyChunks[sending.reply][sending.chunk])
     /\ chat' = Append(chat, This) /\ uncertain' = uncertain \cup {This}

\* The text is not accepted, the network fails before or after it, or the bot is shut down.
TextFails ==
  /\ Sending /\ sending.mode # "file"
  /\ ShownOrNot
  /\ FallBack
  /\ UNCHANGED <<bot, typing, inboundVars, outgoing, timeouts>>

\* No answer in time: _call_with_retry.
TextTimesOut ==
  /\ Sending /\ sending.mode # "file" /\ bot # "stopped"
  /\ timeouts < MaxTimeouts /\ timeouts' = timeouts + 1
  /\ ShownOrNot
  /\ IF sending.attempt < MaxAttempts
     THEN sending' = [sending EXCEPT !.attempt = @ + 1]
     ELSE FallBack
  /\ UNCHANGED <<bot, typing, inboundVars, outgoing>>

Hears ==
  \/ \E part, allowed, forBot \in BOOLEAN : Arrive(part, allowed, forBot)
  \/ TakeUpdate \/ HandleSingle \/ BufferPart \/ FlushAlbum

Speaks ==
  \/ \E media \in BOOLEAN : SendReply(media)
  \/ SendFile \/ SendText \/ TextFails \/ TextTimesOut

Shuts == StopTelegram \/ TelegramStopped

TelegramNext == Hears \/ Speaks \/ Shuts

TelegramSpec == TelegramInit /\ [][TelegramNext]_telegramVars

-----------------------------------------------------------------------------
(* Properties *)

TelegramTypeOK ==
  /\ bot \in {"running", "stopping", "stopped"} /\ {flushing, typing} \subseteq BOOLEAN
  /\ handling \in 0..Len(arrived)
  /\ {updateQueue, album} \subseteq Seq(DOMAIN arrived) /\ dropped \subseteq DOMAIN arrived
  /\ handedOver \in Seq(Seq(DOMAIN arrived))
  /\ outgoing \in 0..Len(Replies) /\ timeouts \in 0..MaxTimeouts
  /\ sending.mode \in {"none", "file", "html", "plain"}

\* The updates that have been handed over, and all places where an update may be.
HandedUpdates == UNION {Range(updates) : updates \in Range(handedOver)}
UpdatePlaces == <<Range(updateQueue), {handling} \ {0}, Range(album), HandedUpdates, dropped>>

(* An update is in exactly one place, once, and what waits in the album's  *)
(* buffer has a task that will hand it over: nothing is heard twice, and   *)
(* no part is forgotten that comes after a flush or a stop().              *)
UpdatesOnce ==
  /\ UNION Range(UpdatePlaces) = DOMAIN arrived
  /\ \A i, j \in DOMAIN UpdatePlaces : i # j => UpdatePlaces[i] \cap UpdatePlaces[j] = {}
  /\ \A i, j \in DOMAIN handedOver : i # j => Range(handedOver[i]) \cap Range(handedOver[j]) = {}
  /\ \A updates \in {updateQueue, album} \cup Range(handedOver) : IsInjective(updates)
  /\ album # <<>> => flushing

(* The chat shows the texts of replies, and their chunks, in order, one of *)
(* them twice only when a call that failed for the program was carried out *)
(* before; and the chunks of a reply hold all of its words, each chunk     *)
(* short enough unless it is one word that is too long, which no call can  *)
(* show.                                                                   *)
RepliesRead ==
  /\ \A i, j \in DOMAIN chat : i < j =>
       \/ chat[i][1] < chat[j][1]
       \/ chat[i][1] = chat[j][1] /\ chat[i][2] < chat[j][2]
       \/ chat[i] = chat[j] /\ chat[i] \in uncertain
  /\ \A r \in 1..outgoing :
       /\ Words(ReplyChunks[r]) = Words(Replies[r])
       /\ \A k \in DOMAIN ReplyChunks[r] :
            Size(ReplyChunks[r][k]) <= MaxChunk \/ Len(ReplyChunks[r][k]) = 1
=============================================================================
