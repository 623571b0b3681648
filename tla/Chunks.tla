-------------------------------- MODULE Chunks --------------------------------
(* How a long reply is cut into the messages a platform accepts:           *)
(* split_message (crabclaw/utils/helpers.py).  A text is a sequence of     *)
(* paragraphs, a paragraph a sequence of words, a word its length; a chunk *)
(* is the sequence of the words in it, with a separator between any two.   *)
EXTENDS Integers, Sequences, SequencesExt

\* The length of a chunk with its separators.
Size(chunk) ==
  LET upTo[k \in 0..Len(chunk)] == IF k = 0 THEN 0 ELSE upTo[k - 1] + chunk[k] + 1
  IN  IF chunk = <<>> THEN 0 ELSE upTo[Len(chunk)] - 1

IsEmpty(chunk) == Size(chunk) = 0

\* The chunks so far, and the one that is being filled.
Cut(s) == [done |-> Append(s.done, s.chunk), chunk |-> <<>>]
CutIfAny(s) == IF IsEmpty(s.chunk) THEN s ELSE Cut(s)
Filled(s, words) == [s EXCEPT !.chunk = IF IsEmpty(@) THEN words ELSE @ \o words]

(* The words of a paragraph that is too long by itself.  A word too long   *)
(* for a chunk gets one of its own, and an empty one before it when        *)
(* nothing precedes it.                                                    *)
WithWord(max, s, word) ==
  IF Size(s.chunk) + word + 1 > max THEN [Cut(s) EXCEPT !.chunk = <<word>>]
  ELSE Filled(s, <<word>>)

WordByWord(max, s, paragraph) ==
  LET upTo[k \in 0..Len(paragraph)] == IF k = 0 THEN s ELSE WithWord(max, upTo[k - 1], paragraph[k])
  IN  upTo[Len(paragraph)]

WithParagraph(max, s, paragraph) ==
  LET cut == IF Size(s.chunk) + Size(paragraph) + 1 > max THEN CutIfAny(s) ELSE s IN
  IF Size(paragraph) > max THEN WordByWord(max, CutIfAny(cut), paragraph) ELSE Filled(cut, paragraph)

Paragraphs(max, text) ==
  LET upTo[k \in 0..Len(text)] ==
        IF k = 0 THEN [done |-> <<>>, chunk |-> <<>>] ELSE WithParagraph(max, upTo[k - 1], text[k])
  IN  upTo[Len(text)]

SplitMessage(max, text) ==
  IF Size(FlattenSeq(text)) <= max THEN <<FlattenSeq(text)>> ELSE CutIfAny(Paragraphs(max, text)).done

\* The words that are not empty.
Spoken(words) ==
  LET upTo[k \in 0..Len(words)] ==
        IF k = 0 THEN <<>> ELSE IF words[k] > 0 THEN Append(upTo[k - 1], words[k]) ELSE upTo[k - 1]
  IN  upTo[Len(words)]

Words(chunks) == Spoken(FlattenSeq(chunks))

\* What a platform that takes messages of up to max characters accepts.
Fits(max, chunk) == Size(chunk) \in 1..max
=============================================================================
