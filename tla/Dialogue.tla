------------------------------- MODULE Dialogue -------------------------------
(***************************************************************************)
(* One answer of the mind: the exchange of DecisionEngine.generate_response *)
(* with a provider, which may ask for tools several times.  Three kinds of *)
(* provider: OpenAICodexProvider, which reads its answer from a stream of  *)
(* events, CustomProvider, which finds tool calls in the text of an answer *)
(* too, and LiteLLMProvider.                                               *)
(*                                                                         *)
(* A text is a sequence of tokens: numbers are the pieces it came in, and  *)
(* sections are tool calls written as text.  The arguments of a call are   *)
(* the number of pieces they came in.  The framing of the events and the   *)
(* parsing of JSON are left out.  Which provider it is and with which key, *)
(* is what Providers says.                                                 *)
(***************************************************************************)
EXTENDS Providers, SequencesExt

CONSTANTS
  MaxRounds,     \* MAX_ITERATIONS, 10
  MaxParallel,   \* bound on the calls of one answer
  MaxPieces,     \* bound on the pieces of a text, and of the arguments of a call
  MaxTokens      \* bound on the tokens of a text that comes whole

ASSUME DialogueAssumption == {MaxRounds, MaxParallel, MaxPieces, MaxTokens} \subseteq Nat \ {0}

VARIABLES
  provider,      \* "codex", "custom" or "litellm"
  withIds,       \* which events of arguments the server of Codex names the call in
  messages,      \* the conversation
  round,         \* iteration
  phase,         \* where generate_response is
  wire,          \* what the provider was last sent
  verify,        \* certificates are verified on this try
  streamed,      \* text pieces the server has sent of this answer
  meant,         \* call -> pieces of its arguments the server has sent
  stated,        \* calls whose arguments the server has sent once more as a whole
  ended,         \* the server broke the stream off
  content, buffers, toolCalls,    \* content, tool_call_buffers and tool_calls
  finish,        \* finish_reason
  toRun,         \* calls of the answer that are still to be run
  reply          \* what generate_response returns

streamVars   == <<verify, streamed, meant, stated, ended, content, buffers, toolCalls, finish>>
dialogueVars == <<provider, withIds, messages, round, phase, wire, streamVars, toRun, reply>>

NoCall == 0

\* Tokens beside the pieces: two tool calls written as text, one without arguments, and
\* the texts the program itself puts in place of another.
Malformed == -3
Sections  == {-1, -2, Malformed}
NullText  == -4
EmptyText == -5
ErrorText == -6

-----------------------------------------------------------------------------
(* What goes to the provider.                                              *)
Entry(role, text, call) == [role |-> role, text |-> text, call |-> call]

\* _sanitize_empty_content: nothing is sent with an empty text.
Sanitized(m) ==
  IF m.text # <<>> THEN m
  ELSE [m EXCEPT !.text = IF m.role = "assistant" /\ m.call # NoCall THEN <<NullText>> ELSE <<EmptyText>>]

\* _convert_messages: the system prompt goes elsewhere, and an assistant's message is
\* its text, if any, and its call.
CodexItems(m) ==
  CASE m.role = "system"    -> <<>>
    [] m.role = "assistant" -> (IF m.text = <<>> THEN <<>> ELSE <<Entry("assistant", m.text, NoCall)>>)
                               \o <<Entry("call", <<>>, m.call)>>
    [] OTHER                -> <<m>>

Wire ==
  IF provider = "codex" THEN FlattenSeq([i \in DOMAIN messages |-> CodexItems(messages[i])])
  ELSE [i \in DOMAIN messages |-> Sanitized(messages[i])]

DialogueInit ==
  /\ provider \in {"codex", "custom", "litellm"} /\ withIds \in SUBSET {"delta", "done"} /\ (provider # "codex" => withIds = {})
  /\ messages = <<Entry("system", <<1>>, NoCall), Entry("user", <<1>>, NoCall)>>
  /\ round = 0 /\ phase = "asking" /\ wire = <<>>
  /\ verify = TRUE /\ streamed = 0 /\ meant = <<>> /\ stated = {} /\ ended = FALSE
  /\ content = <<>> /\ buffers = <<>> /\ toolCalls = <<>> /\ finish = "stop"
  /\ toRun = <<>> /\ reply = "none"

Ask ==
  /\ phase = "asking" /\ round < MaxRounds
  /\ round' = round + 1 /\ wire' = Wire /\ phase' = "calling"
  /\ content' = <<>> /\ toolCalls' = <<>>
  /\ UNCHANGED <<provider, withIds, messages, verify, streamed, meant, stated, ended, buffers, finish, toRun, reply>>

\* "the task is too complex"
GiveUp ==
  /\ phase = "asking" /\ round = MaxRounds
  /\ phase' = "replied" /\ reply' = "complex"
  /\ UNCHANGED <<provider, withIds, messages, round, wire, streamVars, toRun>>

-----------------------------------------------------------------------------
(* Codex.                                                                  *)

\* A failure anywhere is an answer of its own.
Error ==
  /\ phase' = "answered" /\ finish' = "error"
  /\ content' = <<ErrorText>> /\ toolCalls' = <<>>
  /\ UNCHANGED <<provider, withIds, messages, round, wire, streamed, meant, stated, buffers, toRun, reply>>

OpenStream ==
  /\ provider = "codex" /\ phase = "calling"
  /\ phase' = "streaming"
  /\ UNCHANGED <<provider, withIds, messages, round, wire, streamVars, toRun, reply>>

\* A certificate that cannot be verified: once more, without verifying.
CertificateFails ==
  /\ provider = "codex" /\ phase = "calling" /\ verify
  /\ verify' = FALSE
  /\ UNCHANGED <<provider, withIds, messages, round, phase, wire, streamed, meant, stated, ended, content, buffers,
                 toolCalls, finish, toRun, reply>>

CodexFails ==
  /\ provider = "codex" /\ phase \in {"calling", "streaming"}
  /\ Error /\ UNCHANGED <<verify, ended>>

StreamEvent(now) ==
  /\ phase = "streaming" /\ phase' = now
  /\ UNCHANGED <<provider, withIds, messages, round, wire, verify, toRun, reply>>

TextDelta ==
  /\ StreamEvent("streaming") /\ streamed < MaxPieces
  /\ streamed' = streamed + 1 /\ content' = Append(content, streamed')
  /\ UNCHANGED <<meant, stated, ended, buffers, toolCalls, finish>>

\* The calls come in order, and their arguments in any.
CallAdded ==
  /\ StreamEvent("streaming") /\ Len(meant) < MaxParallel
  /\ meant' = Append(meant, 0) /\ buffers' = Append(buffers, 0)
  /\ UNCHANGED <<streamed, stated, ended, content, toolCalls, finish>>

DoneCalls == {toolCalls[i].id - (round - 1) * MaxParallel : i \in DOMAIN toolCalls}

ArgumentsDelta(c) ==
  /\ StreamEvent("streaming") /\ c \in DOMAIN meant \ (DoneCalls \cup stated) /\ meant[c] < MaxPieces
  /\ meant' = [meant EXCEPT ![c] = @ + 1]
  /\ buffers' = IF "delta" \in withIds THEN [buffers EXCEPT ![c] = @ + 1] ELSE buffers
  /\ UNCHANGED <<streamed, stated, ended, content, toolCalls, finish>>

\* The whole of the arguments again, in place of the pieces.
ArgumentsDone(c) ==
  /\ StreamEvent("streaming") /\ c \in DOMAIN meant \ (DoneCalls \cup stated)
  /\ stated' = stated \cup {c}
  /\ buffers' = IF "done" \in withIds THEN [buffers EXCEPT ![c] = meant[c]] ELSE buffers
  /\ UNCHANGED <<streamed, meant, ended, content, toolCalls, finish>>

Call(c, args) == [id |-> (round - 1) * MaxParallel + c, args |-> args]

\* Fault seed: only what was collected.
ItemDoneCollected(c) ==
  /\ StreamEvent("streaming") /\ c \in DOMAIN meant \ DoneCalls
  /\ toolCalls' = Append(toolCalls, Call(c, buffers[c]))
  /\ UNCHANGED <<streamed, meant, stated, ended, content, buffers, finish>>

\* What was collected, or else what the event itself has.
ItemDone(c) ==
  /\ StreamEvent("streaming") /\ c \in DOMAIN meant \ DoneCalls
  /\ toolCalls' = Append(toolCalls, Call(c, IF buffers[c] > 0 THEN buffers[c] ELSE meant[c]))
  /\ UNCHANGED <<streamed, meant, stated, ended, content, buffers, finish>>

\* An answer that is complete has its calls finished; an incomplete one need not.
Completed(status) ==
  /\ StreamEvent("answered")
  /\ status = "completed" => DoneCalls = DOMAIN meant
  /\ finish' = IF status = "completed" THEN "stop" ELSE "length"
  /\ UNCHANGED <<streamed, meant, stated, ended, content, buffers, toolCalls>>

\* A stream that just ends is taken for a complete one.
CutOff ==
  /\ StreamEvent("answered") /\ ended' = TRUE
  /\ UNCHANGED <<streamed, meant, stated, content, buffers, toolCalls, finish>>

-----------------------------------------------------------------------------
(* The providers that get their answer whole.                              *)

\* _parse_text_tool_calls: the first section is run and taken out wherever it stands.
FirstSection(text) == CHOOSE i \in DOMAIN text :
                        text[i] \in Sections /\ \A j \in 1..i - 1 : text[j] \notin Sections
Without(text, section) ==
  LET kept[i \in 0..Len(text)] ==
        IF i = 0 THEN <<>> ELSE IF text[i] = section THEN kept[i - 1] ELSE Append(kept[i - 1], text[i])
  IN kept[Len(text)]
TextCalls(text) ==
  IF \A i \in DOMAIN text : text[i] \notin Sections THEN [text |-> text, sections |-> <<>>]
  ELSE LET section == text[FirstSection(text)]
       IN [text     |-> Without(text, section),
           sections |-> IF section = Malformed THEN <<>> ELSE <<section>>]

Whole(text, number) ==
  /\ provider # "codex" /\ phase = "calling"
  /\ phase' = "answered" /\ finish' = "stop"
  /\ IF provider = "custom" /\ number = 0
     THEN LET found == TextCalls(text)
          IN /\ content' = found.text
             /\ toolCalls' = [i \in DOMAIN found.sections |-> [id |-> found.sections[i], args |-> 0]]
     ELSE /\ content' = text
          /\ toolCalls' = [i \in 1..number |-> Call(i, 0)]
  /\ UNCHANGED <<provider, withIds, messages, round, wire, verify, streamed, meant, stated, ended, buffers, toRun,
                 reply>>

WholeFails ==
  provider # "codex" /\ phase = "calling" /\ Error /\ UNCHANGED <<verify, ended>>

-----------------------------------------------------------------------------
(* The answer is the reply, or its tools are run one after the other; each *)
(* result goes into the conversation under a message of its own, which     *)
(* repeats the text of the answer.  What was read of the stream is gone.   *)
Conclude ==
  /\ phase = "answered"
  /\ IF toolCalls # <<>>
     THEN phase' = "running" /\ toRun' = toolCalls /\ UNCHANGED reply
     ELSE /\ phase' = "replied" /\ UNCHANGED toRun
          /\ reply' = IF content # <<>> THEN "text" ELSE "sorry"
  /\ verify' = TRUE /\ streamed' = 0 /\ meant' = <<>> /\ stated' = {} /\ ended' = FALSE
  /\ buffers' = <<>> /\ finish' = "stop"
  /\ UNCHANGED <<provider, withIds, messages, round, wire, content, toolCalls>>

\* A text or nothing; an unknown tool, wrong parameters and an exception give a text.
Results == {<<>>, <<1>>}

RunTool(result) ==
  /\ phase = "running"
  /\ messages' = messages \o << Entry("assistant", content, Head(toRun).id),
                                Entry("tool", result, Head(toRun).id) >>
  /\ toRun' = Tail(toRun)
  /\ phase' = IF toRun' = <<>> THEN "asking" ELSE "running"
  /\ UNCHANGED <<provider, withIds, round, wire, streamVars, reply>>

WholeTexts == UNION {[1..n -> {1} \cup Sections] : n \in 0..MaxTokens}

StreamNext ==
  \/ TextDelta \/ CallAdded \/ CutOff
  \/ \E c \in 1..MaxParallel : ArgumentsDelta(c) \/ ArgumentsDone(c) \/ ItemDone(c)
  \/ \E status \in {"completed", "incomplete"} : Completed(status)

DialogueNext ==
  \/ Ask \/ GiveUp \/ OpenStream \/ CertificateFails \/ CodexFails \/ StreamNext \/ WholeFails \/ Conclude
  \/ \E text \in WholeTexts, number \in {0, MaxParallel} :
       /\ provider = "litellm" => \A i \in DOMAIN text : text[i] = 1
       /\ Whole(text, number)
  \/ \E result \in Results : RunTool(result)

DialogueSpec == DialogueInit /\ [][DialogueNext]_dialogueVars

-----------------------------------------------------------------------------
\* The variables keep their types.
DialogueTypeOK ==
  /\ provider \in {"codex", "custom", "litellm"} /\ round \in 0..MaxRounds
  /\ {verify, ended} \subseteq BOOLEAN /\ withIds \subseteq {"delta", "done"} /\ stated \subseteq 1..MaxParallel
  /\ phase \in {"asking", "calling", "streaming", "answered", "running", "replied"}
  /\ finish \in {"stop", "length", "error"} /\ reply \in {"none", "text", "sorry", "complex"}
  /\ streamed \in 0..MaxPieces /\ {meant, buffers} \subseteq Seq(0..MaxPieces)
  /\ Len(toolCalls) <= MaxParallel /\ Len(toRun) <= Len(toolCalls)
  /\ \A i \in DOMAIN messages : messages[i].role \in {"system", "user", "assistant", "tool"}

\* Whatever was run before, the provider gets every call with its result right behind
\* it, and (Codex apart) no empty text.
RequestWellFormed ==
  /\ \A i \in DOMAIN wire :
       LET asks == wire[i].call # NoCall /\ wire[i].role # "tool"
       IN /\ asks => /\ i < Len(wire) /\ wire[i + 1].role = "tool"
                     /\ wire[i + 1].call = wire[i].call
          /\ wire[i].role = "tool" => i > 1 /\ wire[i - 1].call = wire[i].call
          /\ provider # "codex" => wire[i].text # <<>>

\* The answer read from the stream is the one that was sent: its text once although
\* the connection was tried twice, each finished call once with all of its arguments,
\* and all calls unless the server broke off.
AnswerAsStreamed ==
  provider = "codex" /\ phase = "answered" /\ finish # "error" =>
    /\ content = [i \in 1..streamed |-> i]
    /\ \A c \in DoneCalls : Call(c, meant[c]) \in ToSet(toolCalls)
    /\ IsInjective(toolCalls)
    /\ finish = "stop" /\ ~ended => DoneCalls = DOMAIN meant

\* A section of a text is run or shown, never both.
SectionRunOrShown ==
  provider = "custom" /\ phase = "answered" =>
    \A i \in DOMAIN toolCalls : toolCalls[i].id \in Sections => toolCalls[i].id \notin ToSet(content)

(* The exchange with the provider.                                           *)
DialogueKept == RequestWellFormed /\ AnswerAsStreamed /\ SectionRunOrShown

(* A call to a model goes to the provider it is for, with its key and with    *)
(* every tool call next to its result, and what comes back is read whole.     *)
ModelCallsKept == CallsOwnEndpoint /\ DialogueKept
=============================================================================
