-------------------------------- MODULE Inbox --------------------------------
(***************************************************************************)
(* How the other chat adapters receive (crabclaw/channels/: feishu, wecom, *)
(* qq, whatsapp, slack, dingtalk, discord and matrix).  A platform may     *)
(* deliver a post again.  Four adapters keep a window of the ids they have *)
(* seen.  Some handle one post after the other, others all of them at      *)
(* once, so that they overlap at the awaits for reactions, downloads and   *)
(* quoted posts.                                                           *)
(***************************************************************************)
EXTENDS Integers, Sequences, SequencesExt, FiniteSets

CONSTANTS
  MaxPosts,     \* bound on the posts
  MaxRepeats,   \* bound on the deliveries that are repeated
  WindowSize    \* ids an adapter remembers (1000 in the code)

ASSUME InboxAssumption == MaxPosts \in Nat /\ MaxRepeats \in Nat /\ WindowSize \in Nat \ {0}

VARIABLES
  adapter,      \* which of them it is; never changes
  listening,    \* FALSE after stop()
  knowsItself,  \* Slack: auth_test has told the bot's own id
  postings,        \* what was posted, by kind
  wire,         \* deliveries on their way: [post, event]
  window,       \* the ids that were seen, oldest first
  evicted,      \* ids that have left the window
  work,         \* handlers at an await: [post, todo, number]
  taken,        \* number of deliveries taken
  passedOn,     \* posts in the order _handle_message got them
  gone,         \* posts that were ignored, missed, cancelled, or lost to an exception
  repeats

postVars == <<adapter, listening, knowsItself, postings, wire, window, evicted, work, taken,
               passedOn, gone, repeats>>

Windowed   == {"feishu", "wecom", "qq", "whatsapp"}
OneByOne   == {"whatsapp", "discord", "matrix"}
AllAtOnce  == {"feishu", "wecom", "qq", "slack", "dingtalk"}

\* "other" is not meant for the bot, "quote" answers another post.
PostKinds ==
  {"text", "media", "other"} \cup (IF adapter = "feishu" THEN {"quote"} ELSE {})
    \cup (IF adapter = "slack" THEN {"mention"} ELSE {})

InboxInit ==
  /\ adapter \in Windowed \cup OneByOne \cup AllAtOnce
  /\ listening = TRUE /\ knowsItself \in (IF adapter = "slack" THEN BOOLEAN ELSE {TRUE})
  /\ postings = <<>> /\ wire = <<>> /\ window = <<>> /\ evicted = {}
  /\ work = {} /\ taken = 0 /\ passedOn = <<>> /\ gone = {} /\ repeats = 0

-----------------------------------------------------------------------------
(* The platform *)

\* Slack tells of a post that mentions the bot twice.
Deliveries(p, kind) ==
  <<[post |-> p, event |-> "message"]>>
    \o (IF kind = "mention" THEN <<[post |-> p, event |-> "app_mention"]>> ELSE <<>>)

\* feishu.py: the connection of a stopped channel stays open.
Receives == listening \/ adapter = "feishu"

Posted(kind) ==
  /\ Receives /\ Len(postings) < MaxPosts
  /\ postings' = Append(postings, kind)
  /\ wire' = wire \o Deliveries(Len(postings'), kind)
  /\ UNCHANGED <<adapter, listening, knowsItself, window, evicted, work, taken, passedOn, gone,
                 repeats>>

\* The acknowledgement is late, or the program has started again.
Repeated(p) ==
  /\ Receives /\ adapter # "discord" /\ repeats < MaxRepeats
  /\ repeats' = repeats + 1
  /\ wire' = wire \o Deliveries(p, postings[p])
  /\ UNCHANGED <<adapter, listening, knowsItself, postings, window, evicted, work, taken, passedOn,
                 gone>>

OnTheWire == {wire[i].post : i \in DOMAIN wire}

\* The connection is lost with what is on its way.
ConnectionLost ==
  /\ wire # <<>> /\ wire' = <<>>
  /\ gone' = gone \cup OnTheWire
  /\ UNCHANGED <<adapter, listening, knowsItself, postings, window, evicted, work, taken, passedOn,
                 repeats>>

-----------------------------------------------------------------------------
(* The handlers *)

Seen(id) == id \in Range(window)

\* The newest ids.
Remembered(id) ==
  LET all == Append(window, id) IN
  IF Len(all) <= WindowSize THEN all ELSE Tail(all)

\* The next delivery is taken off the wire.
Taking ==
  /\ wire # <<>> /\ wire' = Tail(wire)
  /\ taken' = taken + 1
  /\ UNCHANGED <<adapter, listening, knowsItself, postings, repeats>>

ThisPost == Head(wire).post
Kind == postings[ThisPost]

WindowStays == UNCHANGED <<window, evicted>>
Ignore == gone' = gone \cup {ThisPost} /\ UNCHANGED <<work, passedOn>>

\* The handler runs up to its first await, or to _handle_message.
Handle(awaits) ==
  IF awaits = <<>>
  THEN passedOn' = Append(passedOn, ThisPost) /\ UNCHANGED <<work, gone>>
  ELSE /\ work' = work \cup {[post |-> ThisPost, todo |-> awaits, number |-> taken']}
       /\ UNCHANGED <<passedOn, gone>>

Mark ==
  /\ window' = Remembered(ThisPost)
  /\ evicted' = evicted \cup (Range(window) \ Range(window'))

Await(kind, what) == IF Kind = kind THEN <<what>> ELSE <<>>

(* Duplicates are dropped; the id is marked before anything else happens.  *)
UnlessSeen(rest) ==
  IF Seen(ThisPost) THEN UNCHANGED <<window, evicted, work, passedOn, gone>> ELSE Mark /\ rest

FeishuTakes ==
  /\ adapter = "feishu" /\ Taking
  /\ UnlessSeen(IF Kind = "other" THEN Ignore
                ELSE Handle(<<"reaction">> \o Await("media", "download") \o Await("quote", "parent")))

WecomTakes ==
  /\ adapter = "wecom" /\ Taking
  /\ UnlessSeen(IF Kind = "other" THEN Ignore ELSE Handle(Await("media", "download")))

QQTakes ==
  /\ adapter = "qq" /\ Taking
  /\ UnlessSeen(IF Kind = "other" THEN Ignore ELSE Handle(<<>>))

WhatsAppTakes ==
  /\ adapter = "whatsapp" /\ Taking /\ work = {}
  /\ UnlessSeen(Handle(<<>>))

(* The request is acknowledged first.  A mention is taken from its         *)
(* app_mention, and from its message too when the bot's id is not known.   *)
SlackTakes ==
  /\ adapter = "slack" /\ Taking /\ WindowStays
  /\ IF \/ Kind = "other"
        \/ Kind = "mention" /\ Head(wire).event = "message" /\ knowsItself
     THEN Ignore
     ELSE Handle(<<"ack", "reaction">>)

(* _on_message runs in a task of its own, after the acknowledgement.       *)
DingTalkTakes ==
  /\ adapter = "dingtalk" /\ Taking /\ WindowStays
  /\ IF Kind = "other" THEN Ignore ELSE Handle(Append(Await("media", "download"), "task"))

DiscordTakes ==
  /\ adapter = "discord" /\ Taking /\ work = {} /\ WindowStays
  /\ IF Kind = "other" THEN Ignore ELSE Handle(Append(Await("media", "download"), "typing"))

MatrixTakes ==
  /\ adapter = "matrix" /\ Taking /\ work = {} /\ WindowStays
  /\ IF Kind = "other" THEN Ignore ELSE Handle(Append(Await("media", "download"), "typing"))

(* An await returns; after the last one comes _handle_message.             *)
Resumes(h) ==
  /\ h \in work
  /\ IF Len(h.todo) = 1
     THEN work' = work \ {h} /\ passedOn' = Append(passedOn, h.post)
     ELSE work' = (work \ {h}) \cup {[h EXCEPT !.todo = Tail(@)]} /\ UNCHANGED passedOn
  /\ UNCHANGED <<adapter, listening, knowsItself, postings, wire, window, evicted, taken, gone, repeats>>

(* The handler raises, and the post is lost; Discord connects anew then.   *)
Raises(h) ==
  /\ h \in work /\ work' = work \ {h}
  /\ IF adapter = "discord"
     THEN wire' = <<>> /\ gone' = gone \cup {h.post} \cup OnTheWire
     ELSE gone' = gone \cup {h.post} /\ UNCHANGED wire
  /\ UNCHANGED <<adapter, listening, knowsItself, postings, window, evicted, taken, passedOn, repeats>>

(* stop(): DingTalk cancels the tasks that wait to pass a post on, Matrix  *)
(* what takes longer than the grace period; the others let handlers end.   *)
StopListening(overdue) ==
  LET cancelled == {h \in work : \/ adapter = "dingtalk" /\ h.todo = <<"task">>
                                 \/ adapter = "matrix" /\ overdue}
  IN
  /\ listening /\ listening' = FALSE
  /\ work' = work \ cancelled
  /\ wire' = IF adapter = "feishu" THEN wire ELSE <<>>
  /\ gone' = gone \cup {h.post : h \in cancelled} \cup (IF adapter = "feishu" THEN {} ELSE OnTheWire)
  /\ UNCHANGED <<adapter, knowsItself, postings, window, evicted, taken, passedOn, repeats>>

InboxNext ==
  \/ \E kind \in PostKinds : Posted(kind)
  \/ \E p \in DOMAIN postings : Repeated(p)
  \/ ConnectionLost
  \/ FeishuTakes \/ WecomTakes \/ QQTakes \/ WhatsAppTakes
  \/ SlackTakes \/ DingTalkTakes \/ DiscordTakes \/ MatrixTakes
  \/ \E h \in work : Resumes(h) \/ Raises(h)
  \/ \E overdue \in BOOLEAN : StopListening(overdue)

InboxSpec == InboxInit /\ [][InboxNext]_postVars

-----------------------------------------------------------------------------
(* Properties *)

InboxTypeOK ==
  /\ {listening, knowsItself} \subseteq BOOLEAN
  /\ \A i \in DOMAIN wire : wire[i].post \in DOMAIN postings
  /\ Len(window) <= WindowSize /\ Range(window) \cup evicted \subseteq DOMAIN postings
  /\ Range(passedOn) \cup gone \subseteq DOMAIN postings
  /\ repeats \in 0..MaxRepeats

TimesPassedOn(p) == Cardinality({i \in DOMAIN passedOn : passedOn[i] = p})

(* With a window a post is passed on once, however its deliveries overlap, *)
(* unless its id has left the window; without one, once for each delivery, *)
(* of which a mention in Slack has two only while the bot does not know    *)
(* itself.  Who handles posts one by one passes them on in their order.    *)
(* And a post is passed on, on its way, or accounted for.                  *)
PostsOnce ==
  /\ \A p \in DOMAIN postings :
       /\ adapter \in Windowed => TimesPassedOn(p) <= 1 \/ p \in evicted
       /\ TimesPassedOn(p) <= (1 + repeats) * (IF knowsItself THEN 1 ELSE 2)
       /\ p \in Range(passedOn) \cup gone \cup OnTheWire \cup {h.post : h \in work}
  /\ adapter \in OneByOne /\ repeats = 0 =>
       \A i, j \in DOMAIN passedOn : i < j => passedOn[i] < passedOn[j]
=============================================================================
