-------------------------------- MODULE Outbox --------------------------------
(***************************************************************************)
(* How the other chat adapters send a reply (crabclaw/channels/: discord,  *)
(* dingtalk, feishu, matrix, slack, wecom, qq and whatsapp).  A reply has  *)
(* texts and files; each adapter has its own order, its own fallbacks, and *)
(* its own way of dealing with a call that fails.  A call that fails for   *)
(* the program may have been carried out by the platform.                  *)
(***************************************************************************)
EXTENDS Integers, Sequences, SequencesExt, FiniteSets, Cards

CONSTANTS
  MaxFiles,     \* bound on the files of a reply
  MaxTexts,     \* bound on the messages its text is split into
  SendTries,    \* attempts of a Discord call (3 in the code)
  Contents      \* the texts Feishu makes cards of

ASSUME OutboxAssumption ==
  MaxFiles \in Nat /\ {MaxTexts, SendTries} \subseteq Nat \ {0} /\ Contents \subseteq Seq(LineKinds)

VARIABLES
  sender,      \* which adapter it is; never changes
  parcel,      \* the reply: [files, texts, quotes, content]
  todo,        \* the calls that are left: [how, what, tries]
  shown,       \* what the chat shows, in order
  unsure,      \* what was shown by a call that failed for the program
  undelivered, \* files that the adapter gave up
  named,       \* files that a notice in the chat names
  refused      \* texts and notices that were not accepted

outboxVars == <<sender, parcel, todo, shown, unsure, undelivered, named, refused>>

Senders == {"discord", "dingtalk", "feishu", "matrix", "slack", "wecom", "qq", "whatsapp"}
TextOnly == {"wecom", "qq", "whatsapp"}
FileKinds == {"file", "image", "link"}   \* "link" is an image with an http address

File(i) == <<"file", i>>
Text(k) == <<"text", k>>

FirstTry(how, what) == [how |-> how, what |-> what, tries |-> 1]
Call(how, what) == <<FirstTry(how, what)>>
EachFile(how) == [i \in DOMAIN parcel.files |-> FirstTry(how[i], File(i))]
AllBy(how)    == [i \in DOMAIN parcel.files |-> FirstTry(how, File(i))]
EachText(how) == [k \in 1..parcel.texts |-> FirstTry(how, Text(k))]

Split == {"discord", "feishu"}   \* the adapters that send a text in several messages

OutboxInit ==
  /\ sender \in Senders
  /\ \E content \in (IF sender = "feishu" THEN Contents ELSE {<<>>}) :
     \E files \in SeqOf(FileKinds, IF sender \in TextOnly \/ content # <<>> THEN 0 ELSE MaxFiles),
        texts \in (IF content # <<>> THEN {Len(CardsOf(content))}
                   ELSE 0..(IF sender \in Split THEN MaxTexts ELSE 1)),
        quotes \in (IF sender = "feishu" THEN BOOLEAN ELSE {FALSE}) :
       parcel = [files |-> files, texts |-> texts, quotes |-> quotes, content |-> content]
  /\ todo = Call("send", <<"reply", 0>>)
  /\ shown = <<>> /\ unsure = {} /\ undelivered = {} /\ named = {} /\ refused = {}

-----------------------------------------------------------------------------
(* Calls *)

Step == todo[1]
Rest == Tail(todo)

Calls(who, how) == sender = who /\ todo # <<>> /\ Step.how = how

\* The head of the list is replaced.
Instead(calls) == todo' = calls \o Rest

(* A call that shows something: it works, fails, or fails though it was    *)
(* carried out.                                                            *)
Show(onSuccess, onFailure) ==
  \/ shown' = Append(shown, Step.what) /\ UNCHANGED unsure /\ onSuccess
  \/ UNCHANGED <<shown, unsure>> /\ onFailure
  \/ shown' = Append(shown, Step.what) /\ unsure' = unsure \cup {Step.what} /\ onFailure

Next1 == todo' = Rest /\ UNCHANGED <<undelivered, named, refused>>
Turn(calls) == Instead(calls) /\ UNCHANGED <<undelivered, named, refused>>
GiveUpFile == undelivered' = undelivered \cup {Step.what[2]} /\ UNCHANGED <<named, refused>>
Refuse == refused' = refused \cup {Step.what} /\ UNCHANGED <<undelivered, named>>

SameParcel == UNCHANGED <<sender, parcel>>
Quiet == UNCHANGED <<shown, unsure>> /\ SameParcel

-----------------------------------------------------------------------------
(* Discord: files, then the texts.  An empty text is one chunk, too: its   *)
(* payload is empty, and refused.  The notice for files that failed is not *)
(* modelled: it needs a text of no chunks, thousands of blanks.            *)

DiscordSend ==
  /\ Calls("discord", "send") /\ Quiet
  /\ Turn(AllBy("post") \o Call("texts", <<"texts", 0>>))

Again == Instead(<<[Step EXCEPT !.tries = @ + 1]>>) /\ UNCHANGED <<undelivered, named, refused>>

\* A file that is missing or too large is given up at once.
DiscordFile ==
  /\ Calls("discord", "post") /\ SameParcel
  /\ \/ Show(Next1, IF Step.tries < SendTries THEN Again ELSE todo' = Rest /\ GiveUpFile)
     \/ Step.tries = 1 /\ todo' = Rest /\ GiveUpFile /\ UNCHANGED <<shown, unsure>>

DiscordTexts ==
  /\ Calls("discord", "texts") /\ Quiet
  /\ Turn(IF parcel.texts = 0 THEN Call("chunk", <<"empty", 0>>) ELSE EachText("chunk"))

\* The rest is not sent when a text fails.
DiscordChunk ==
  /\ Calls("discord", "chunk") /\ SameParcel
  /\ LET failed == IF Step.tries < SendTries THEN Again ELSE todo' = <<>> /\ Refuse IN
     IF parcel.texts = 0 THEN failed /\ UNCHANGED <<shown, unsure>> ELSE Show(Next1, failed)

-----------------------------------------------------------------------------
(* DingTalk: the text, then each file by the first way that works, or a notice *)

\* Without an access token nothing is sent.
DingTalkSend ==
  /\ Calls("dingtalk", "send") /\ Quiet
  /\ \/ Turn(EachText("markdown")
              \o EachFile([i \in DOMAIN parcel.files |-> IF parcel.files[i] = "link" THEN "url" ELSE "read"]))
     \/ refused' = {<<"reply", 0>>} /\ todo' = <<>> /\ UNCHANGED <<undelivered, named>>

DingTalkText ==
  Calls("dingtalk", "markdown") /\ SameParcel /\ Show(Next1, todo' = Rest /\ Refuse)

DingTalkUrl ==
  Calls("dingtalk", "url") /\ SameParcel /\ Show(Next1, Turn(Call("read", Step.what)))

NoticeInstead == Instead(Call("notice", <<"notice", Step.what[2]>>)) /\ GiveUpFile

DingTalkRead ==
  Calls("dingtalk", "read") /\ Quiet /\ (Turn(Call("upload", Step.what)) \/ NoticeInstead)

DingTalkUpload ==
  /\ Calls("dingtalk", "upload") /\ Quiet
  /\ \/ Turn(Call(IF parcel.files[Step.what[2]] = "file" THEN "file" ELSE "image", Step.what))
     \/ NoticeInstead

DingTalkImage ==
  Calls("dingtalk", "image") /\ SameParcel /\ Show(Next1, Turn(Call("file", Step.what)))

DingTalkFile ==
  Calls("dingtalk", "file") /\ SameParcel /\ Show(Next1, NoticeInstead)

DingTalkNotice ==
  /\ Calls("dingtalk", "notice") /\ SameParcel
  /\ Show(todo' = Rest /\ named' = named \cup {Step.what[2]} /\ UNCHANGED <<undelivered, refused>>,
          todo' = Rest /\ Refuse)

-----------------------------------------------------------------------------
(* Feishu: files, then cards; the first of them quotes the user's message *)

FeishuSend ==
  /\ Calls("feishu", "send") /\ Quiet
  /\ Turn(AllBy("upload") \o EachText("do_send"))

FeishuUpload ==
  /\ Calls("feishu", "upload") /\ Quiet
  /\ Turn(Call("do_send", Step.what)) \/ (todo' = Rest /\ GiveUpFile)

\* _do_send: the first one as a reply, where replies are wanted.
FeishuDoSend ==
  /\ Calls("feishu", "do_send") /\ UNCHANGED <<sender, shown, unsure>>
  /\ Turn(Call(IF parcel.quotes THEN "reply" ELSE "create", Step.what))
  /\ parcel' = [parcel EXCEPT !.quotes = FALSE]

FeishuReply ==
  Calls("feishu", "reply") /\ SameParcel /\ Show(Next1, Turn(Call("create", Step.what)))

FeishuCreate ==
  Calls("feishu", "create") /\ SameParcel /\ Show(Next1, todo' = Rest /\ Refuse)

-----------------------------------------------------------------------------
(* Matrix: files, then the text with the names of those that failed *)

MatrixSend ==
  /\ Calls("matrix", "send") /\ Quiet
  /\ Turn(AllBy("upload") \o Call("text", Text(1)))

\* Too large, missing, not uploaded, or not sent.
MatrixFile ==
  /\ Calls("matrix", "upload") /\ SameParcel
  /\ Show(Next1, todo' = Rest /\ GiveUpFile)

MatrixText ==
  /\ Calls("matrix", "text") /\ SameParcel
  /\ IF parcel.texts > 0 \/ undelivered # {} \/ parcel.files = <<>>
     THEN Show(todo' = Rest /\ named' = undelivered /\ UNCHANGED <<undelivered, refused>>,
               todo' = Rest /\ Refuse)
     ELSE Next1 /\ UNCHANGED <<shown, unsure>>

-----------------------------------------------------------------------------
(* Slack: the text, then the files; then the reaction is changed *)

SlackSend ==
  /\ Calls("slack", "send") /\ Quiet
  /\ Turn((IF parcel.texts > 0 \/ parcel.files = <<>> THEN Call("message", Text(1)) ELSE <<>>)
            \o AllBy("upload") \o Call("reaction", <<"reaction", 0>>))

SlackText == Calls("slack", "message") /\ SameParcel /\ Show(Next1, todo' = <<>> /\ Refuse)

SlackFile == Calls("slack", "upload") /\ SameParcel /\ Show(Next1, todo' = Rest /\ GiveUpFile)

SlackReaction == Calls("slack", "reaction") /\ Next1 /\ Quiet

-----------------------------------------------------------------------------
(* One message.  WeCom answers the latest frame of the chat and needs one; *)
(* WhatsApp sends only when its bridge is connected.                       *)

OneMessage(who) ==
  /\ Calls(who, "send") /\ SameParcel
  /\ LET sent == parcel.texts > 0 \/ who # "wecom" IN
     IF sent
     THEN \/ shown' = Append(shown, Text(1)) /\ todo' = <<>>
             /\ UNCHANGED <<unsure, undelivered, named, refused>>
          \/ todo' = <<>> /\ refused' = {Text(1)} /\ UNCHANGED <<shown, unsure, undelivered, named>>
     ELSE Next1 /\ UNCHANGED <<shown, unsure>>

WecomSend == OneMessage("wecom")
QQSend == OneMessage("qq")
WhatsAppSend == OneMessage("whatsapp")

OutboxNext ==
  \/ DiscordSend \/ DiscordFile \/ DiscordTexts \/ DiscordChunk
  \/ DingTalkSend \/ DingTalkText \/ DingTalkUrl \/ DingTalkRead \/ DingTalkUpload
  \/ DingTalkImage \/ DingTalkFile \/ DingTalkNotice
  \/ FeishuSend \/ FeishuUpload \/ FeishuDoSend \/ FeishuReply \/ FeishuCreate
  \/ MatrixSend \/ MatrixFile \/ MatrixText
  \/ SlackSend \/ SlackText \/ SlackFile \/ SlackReaction
  \/ WecomSend \/ QQSend \/ WhatsAppSend

OutboxSpec == OutboxInit /\ [][OutboxNext]_outboxVars

-----------------------------------------------------------------------------
(* Properties *)

OutboxTypeOK ==
  /\ undelivered \cup named \subseteq DOMAIN parcel.files
  /\ unsure \subseteq Range(shown)
  /\ \A i \in DOMAIN todo : todo[i].tries \in 1..SendTries

\* Where a part comes; a notice takes the place of its file.
Place(what) ==
  LET textFirst == sender \in {"dingtalk", "slack"}
  IN what[2] + (IF (what[1] = "text") = textFirst THEN 0 ELSE MaxFiles + MaxTexts)

(* The chat shows the parts of a reply in order, one of them twice only    *)
(* after a call that failed though it was carried out; Discord shows no    *)
(* text without the ones before it.  When all is done, DingTalk and Matrix *)
(* have named each file that they gave up, unless the notice itself was    *)
(* not accepted; the others leave it out, and that is not a claim here.    *)
(* The cards of Feishu hold the whole text.                                *)
PartsShown ==
  /\ \A i, j \in DOMAIN shown : i < j =>
       \/ Place(shown[i]) < Place(shown[j])
       \/ Place(shown[i]) = Place(shown[j]) /\ shown[i] \in unsure
  /\ sender = "discord" => \A k \in 2..parcel.texts :
       Text(k) \in Range(shown) => Text(k - 1) \in Range(shown)
  /\ todo = <<>> /\ refused = {} /\ sender \in {"dingtalk", "matrix"} => undelivered \subseteq named
  /\ CardsHold(parcel.content)
=============================================================================
