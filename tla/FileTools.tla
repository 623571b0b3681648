------------------------------ MODULE FileTools ------------------------------
(***************************************************************************)
(* The tools read_file, write_file, edit_file and list_dir                 *)
(* (crabclaw/agent/tools/filesystem.py) on one file of the workspace, while *)
(* other programs write it too.  A call has no await, so it is one step.   *)
(*                                                                         *)
(* A text is a sequence of tokens; Refused stands for the patterns that    *)
(* _check_content_safety looks for.  The restriction to a directory is     *)
(* left out: the scheduler looks for it where the configuration does not   *)
(* have it, so it is never given.                                          *)
(***************************************************************************)
EXTENDS Integers, SequencesExt

CONSTANTS
  MaxFileRead,     \* max_file_size_read
  MaxFileWrite     \* max_file_size_write

ASSUME FileToolsAssumption == MaxFileRead \in Nat /\ MaxFileWrite \in Nat /\ MaxFileWrite <= MaxFileRead

VARIABLES
  fileText,       \* the text of the file, or Missing
  before,     \* what it was before the last step
  toolCall    \* the last step

fileVars == <<fileText, before, toolCall>>

Plain   == 1
Refused == 2
Tokens  == {Plain, Refused}
Missing == <<0>>

\* What the path of a call is: of the file, of one whose extension is not allowed,
\* of one out of the way (too long, or with ".."), or of a directory.
PathKinds == {"file", "extension", "traversal", "folder"}

CallTool(tool, path, old, new, answer) ==
  toolCall' = [tool |-> tool, path |-> path, old |-> old, new |-> new, answer |-> answer]

FileToolsInit ==
  /\ fileText \in {Missing, <<>>, <<Plain>>} /\ before = fileText
  /\ toolCall = [tool |-> "none", path |-> "file", old |-> <<>>, new |-> <<>>, answer |-> "ok"]

-----------------------------------------------------------------------------
\* str.count: occurrences from the left that do not overlap; an empty text occurs
\* before and after every token.
Places(old, text) == {i \in 1..Len(text) + 1 : IsPrefix(old, SubSeq(text, i, Len(text)))}

Count(old, text) ==
  LET width == IF old = <<>> THEN 1 ELSE Len(old)
      scan[i \in 0..Len(text) + 1] ==      \* what is found up to i, and where the next may begin
        IF i = 0 THEN [found |-> 0, free |-> 1]
        ELSE IF i \in Places(old, text) /\ scan[i - 1].free <= i
             THEN [found |-> scan[i - 1].found + 1, free |-> i + width]
             ELSE scan[i - 1]
  IN scan[Len(text) + 1].found

\* str.replace(old, new, 1).
ReplacedAt(text, place, old, new) ==
  SubSeq(text, 1, place - 1) \o new \o SubSeq(text, place + Len(old), Len(text))

ReplacedFirst(text, old, new) ==
  ReplacedAt(text, CHOOSE i \in Places(old, text) : \A j \in Places(old, text) : i <= j, old, new)

Safe(text) == Refused \notin ToSet(text)

-----------------------------------------------------------------------------
\* A file that is there, of an allowed kind and not too large.
Readable(path) == path = "file" /\ fileText # Missing /\ Len(fileText) <= MaxFileRead

ReadFile(path) ==
  /\ CallTool("read_file", path, <<>>, <<>>, IF Readable(path) THEN "ok" ELSE "error")
  /\ before' = fileText /\ UNCHANGED fileText

ListDir(path) ==
  /\ CallTool("list_dir", path, <<>>, <<>>, IF path = "folder" THEN "ok" ELSE "error")
  /\ before' = fileText /\ UNCHANGED fileText

WriteFile(path, text) ==
  LET good == path = "file" /\ Len(text) <= MaxFileWrite /\ Safe(text)
  IN /\ CallTool("write_file", path, <<>>, text, IF good THEN "ok" ELSE "error")
     /\ before' = fileText /\ fileText' = IF good THEN text ELSE fileText

\* One error after the other, as the tool looks for them.
EditVerdict(path, old, new) ==
  IF ~Readable(path) \/ Count(old, fileText) = 0 THEN "error"
  ELSE IF Count(old, fileText) > 1 THEN "warning"
  ELSE IF ~Safe(new) \/ Len(ReplacedFirst(fileText, old, new)) > MaxFileWrite THEN "error"
  ELSE "ok"

EditFile(path, old, new) ==
  LET verdict == EditVerdict(path, old, new)
  IN /\ CallTool("edit_file", path, old, new, verdict)
     /\ before' = fileText
     /\ fileText' = IF verdict = "ok" THEN ReplacedFirst(fileText, old, new) ELSE fileText

\* Another program writes or removes the file, whatever its size and content.
OtherProgram(text) ==
  /\ CallTool("none", "file", <<>>, <<>>, "ok")
  /\ before' = fileText /\ fileText' = text

SmallTexts(n) == SeqOf(Tokens, n)

FileToolsNext ==
  \/ \E path \in PathKinds :
       ReadFile(path) \/ ListDir(path) \/ WriteFile(path, <<Plain>>) \/ EditFile(path, <<Plain>>, <<>>)
  \/ \E text \in SmallTexts(MaxFileWrite + 1) : WriteFile("file", text)
  \/ \E old, new \in SmallTexts(2) : EditFile("file", old, new)
  \/ \E text \in SmallTexts(MaxFileRead + 1) \cup {Missing} : OtherProgram(text)

FileToolsSpec == FileToolsInit /\ [][FileToolsNext]_fileVars

-----------------------------------------------------------------------------
\* The variables keep their types.
FileToolsTypeOK ==
  /\ {fileText, before} \subseteq Seq(Tokens) \cup {Missing}
  /\ toolCall \in [tool : {"none", "read_file", "list_dir", "write_file", "edit_file"}, path : PathKinds,
                   old : Seq(Tokens), new : Seq(Tokens), answer : {"ok", "warning", "error"}]

(* Whatever other programs did to the file since it was read, an edit that   *)
(* succeeds replaces a text that stands there once, or more than once only   *)
(* with itself overlapping, and keeps all around it; a call that does not    *)
(* succeed changes nothing; and no tool leaves a file it could not read.     *)
EditsKeepTheRest ==
  /\ toolCall.tool = "edit_file" /\ toolCall.answer = "ok" =>
       \E place \in Places(toolCall.old, before) :
         /\ fileText = ReplacedAt(before, place, toolCall.old, toolCall.new)
         /\ \A other \in Places(toolCall.old, before) :
              other # place => /\ other - place < Len(toolCall.old)
                               /\ place - other < Len(toolCall.old)
  /\ toolCall.answer # "ok" => fileText = before
  /\ toolCall.tool \in {"write_file", "edit_file"} /\ toolCall.answer = "ok" => Readable("file")
=============================================================================
