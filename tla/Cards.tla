-------------------------------- MODULE Cards --------------------------------
(***************************************************************************)
(* How Feishu shows Markdown (crabclaw/channels/feishu.py): complex text   *)
(* becomes cards of elements, of which at most one is a table, as Feishu   *)
(* takes no more.  A text is a sequence of lines of which only the kind    *)
(* counts: "text", "head" (# ...), "row" (| ... |), "rule" (|---|) or      *)
(* "fence" (```).                                                          *)
(***************************************************************************)
EXTENDS Integers, Sequences, SequencesExt, FiniteSets

LineKinds == {"text", "head", "row", "rule", "fence"}

Barred == {"row", "rule"}

\* _TABLE_RE: a row, a rule and more rows start a table.
TableAt(c, i) ==
  i + 2 <= Len(c) /\ c[i] \in Barred /\ c[i + 1] = "rule" /\ c[i + 2] \in Barred

\* The lines of the tables; they end where another line comes.
InTable(c, l) == \E i \in 1..l : TableAt(c, i) /\ \A k \in i..l : c[k] \in Barred

TableStarts(c, l) == InTable(c, l) /\ ~InTable(c, l - 1)

\* The text around a line, up to the tables.
Segment(c, l) == {k \in DOMAIN c : \A j \in (k..l) \cup (l..k) : ~InTable(c, j)}

\* _CODE_BLOCK_RE: a line is code between two of the fences among some lines.
Fences(c, lines) == {k \in lines : c[k] = "fence"}
InCode(c, lines, l) ==
  /\ c[l] # "fence" /\ Cardinality({k \in Fences(c, lines) : k < l}) % 2 = 1
  /\ \E k \in Fences(c, lines) : k > l

Element(tag, lines) == [tag |-> tag, lines |-> lines]

\* _split_headings: a heading is an element, and what is between two of them.
LineTag(c, l) ==
  IF InTable(c, l) THEN "table"
  ELSE IF c[l] = "head" /\ ~InCode(c, Segment(c, l), l) THEN "head" ELSE "markdown"

WithLine(elements, tag, l) ==
  IF tag # "head" /\ elements # <<>> /\ Last(elements).tag = tag
  THEN Front(elements) \o <<Element(tag, Append(Last(elements).lines, l))>>
  ELSE Append(elements, Element(tag, <<l>>))

\* _build_card_elements: the tables, and the headings of the text around them.
CardElements(c) ==
  LET upTo[l \in 0..Len(c)] == IF l = 0 THEN <<>> ELSE WithLine(upTo[l - 1], LineTag(c, l), l)
  IN upTo[Len(c)]

HasTable(card) == \E i \in DOMAIN card : card[i].tag = "table"

WithElement(cards, e) ==
  IF cards = <<>> \/ (e.tag = "table" /\ HasTable(Last(cards))) THEN Append(cards, <<e>>)
  ELSE Front(cards) \o <<Append(Last(cards), e)>>

\* _split_elements_by_table_limit: the second table starts a card.
SplitByTable(elements) ==
  LET upTo[n \in 0..Len(elements)] == IF n = 0 THEN <<>> ELSE WithElement(upTo[n - 1], elements[n])
  IN upTo[Len(elements)]

\* _detect_msg_format: plain text needs no card.
NeedsCard(c) ==
  \/ \E i \in DOMAIN c : c[i] \in {"head", "fence"}
  \/ \E i \in 1..Len(c) - 1 : c[i] \in Barred /\ c[i + 1] = "rule"

WholeText(c) == <<Element("markdown", [l \in DOMAIN c |-> l])>>

\* The messages a text is sent as.
CardsOf(c) ==
  IF c = <<>> THEN <<>>
  ELSE IF NeedsCard(c) THEN SplitByTable(CardElements(c)) ELSE <<WholeText(c)>>

(* The cards hold every line of the text once and in order, and each card  *)
(* one table at most.  A heading is never taken out of a code block,       *)
(* unless a table within the block has torn it apart.                      *)
CardsHold(c) ==
  LET elements == FlattenSeq(CardsOf(c))
      code(l) == InCode(c, DOMAIN c, l)
  IN
  /\ FlattenSeq([i \in DOMAIN elements |-> elements[i].lines]) = [l \in DOMAIN c |-> l]
  /\ \A i \in DOMAIN CardsOf(c) :
       Cardinality({k \in DOMAIN CardsOf(c)[i] : CardsOf(c)[i][k].tag = "table"}) <= 1
  /\ (\A l \in DOMAIN c : TableStarts(c, l) => ~code(l)) =>
       \A i \in DOMAIN elements : elements[i].tag = "head" => ~code(elements[i].lines[1])
=============================================================================
