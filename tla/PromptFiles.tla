----------------------------- MODULE PromptFiles -----------------------------
(***************************************************************************)
(* One prompt file of the workspace, SOUL.md say, which may lie in several *)
(* folders, and those that read and write it: the editor of the dashboard  *)
(* and its profile page (crabclaw/dashboard/server.py), the PromptManager  *)
(* with its watcher (crabclaw/templates/manager.py) and other programs,    *)
(* the agent's tools among them.  Each writes from a thread of its own, and *)
(* write_text truncates the file before it writes.  A text is the number   *)
(* of the write it comes from.                                             *)
(***************************************************************************)
EXTENDS FileTools, FiniteSets

CONSTANT MaxWrites     \* bound on what is written

ASSUME PromptFilesAssumption == MaxWrites \in Nat \ {0}

VARIABLES
  placed,        \* folder -> text of the file
  writes,        \* texts written so far
  editor,        \* what the editor shows: the name, the folder it was read from, how many
                 \* folders had it, and since when the others left the folders alone
  savedTo,       \* the folder of the last save of the editor
  pages,         \* writer -> the text it is about to write, and where
  event,         \* the watcher has a change of the prompts folder to tell
  reading,       \* its handler reads the file
  template,      \* PromptManager.templates
  unwatched      \* the file was removed or renamed into place since it was last read

promptFileVars == <<placed, writes, editor, savedTo, pages, event, reading, template, unwatched>>

SubFolders == {"nature", "social", "memory", "prompts"}
Folders    == SubFolders \cup {"root"}
Pens       == {"editor", "profile", "other"}

NoPrompt  == -1
Emptied == 0
Packed  == 1          \* the template that comes with the package
NoPage  == [folder |-> "none", text |-> NoPrompt]
NotOpen == [name |-> "none", from |-> "none", spread |-> 0, alone |-> FALSE]

HasPrompt(folder) == placed[folder] # NoPrompt

PromptFilesInit ==
  /\ placed \in [Folders -> {NoPrompt, Packed}] /\ ~HasPrompt("memory") /\ writes = Packed
  /\ editor = NotOpen /\ savedTo = "none" /\ pages = [p \in Pens |-> NoPage]
  /\ event = FALSE /\ reading = FALSE /\ template = placed["prompts"] /\ unwatched = FALSE

-----------------------------------------------------------------------------
(* The editor asks for a file by its folder, or by its name alone when it  *)
(* is one of the root.                                                     *)
FirstOf(order) ==
  LET found == {i \in DOMAIN order : HasPrompt(order[i])}
  IN IF found = {} THEN "none" ELSE order[CHOOSE i \in found : \A j \in found : i <= j]

\* _get_file_content.
ReadFrom(name) ==
  IF name = "root" THEN FirstOf(<<"prompts", "memory", "social", "nature", "root">>)
  ELSE IF HasPrompt(name) THEN name ELSE "none"

\* Fault seed: a file is put where new ones go.
SaveToDefault(name) == IF name = "root" THEN "nature" ELSE name

\* _save_file: the first folder that has it, and never the root.
SaveTo(name) ==
  LET folder == FirstOf(<<"nature", "social", "memory", "prompts">>)
  IN IF name # "root" THEN name ELSE IF folder = "none" THEN "nature" ELSE folder

\* _get_prompt_files, and the files named by the page of the prompt evolution.
ListedFiles == {folder \in Folders \ {"memory"} : HasPrompt(folder)}

OpenFile(name) ==
  /\ name \in ListedFiles /\ pages["editor"] = NoPage
  /\ editor' = [name |-> name, from |-> ReadFrom(name), spread |-> Cardinality({f \in SubFolders : HasPrompt(f)}),
                alone |-> TRUE]
  /\ savedTo' = "none"
  /\ UNCHANGED <<placed, writes, pages, event, reading, template, unwatched>>

-----------------------------------------------------------------------------
(* Writing.  The watcher is told whenever the prompts folder changes.      *)
Put(folder, text) ==
  /\ placed' = [placed EXCEPT ![folder] = text]
  /\ event' = (event \/ folder = "prompts")
  /\ UNCHANGED <<reading, template, unwatched>>

Truncate(pen, folder) ==
  /\ pages[pen] = NoPage /\ writes < MaxWrites /\ writes' = writes + 1
  /\ pages' = [pages EXCEPT ![pen] = [folder |-> folder, text |-> writes']]
  /\ Put(folder, Emptied)

SaveEditor ==
  /\ editor # NotOpen
  /\ Truncate("editor", SaveTo(editor.name))
  /\ savedTo' = SaveTo(editor.name) /\ UNCHANGED editor

Disturbed == editor' = [editor EXCEPT !.alone = FALSE] /\ savedTo' = "none"

\* _handle_save_profile: the head of nature/SOUL.md, which comes from the package if
\* there is none.
SaveProfile == Truncate("profile", "nature") /\ Disturbed

OtherWrites(folder) == Truncate("other", folder) /\ Disturbed

PageWritten(pen) ==
  /\ pages[pen] # NoPage
  /\ Put(pages[pen].folder, pages[pen].text)
  /\ pages' = [pages EXCEPT ![pen] = NoPage]
  /\ UNCHANGED <<writes, editor, savedTo>>

\* Removed, or renamed into place: the handler has no on_deleted and no on_moved.
OtherRemoves(folder) ==
  /\ HasPrompt(folder) /\ \A p \in Pens : pages[p].folder # folder
  /\ placed' = [placed EXCEPT ![folder] = NoPrompt]
  /\ unwatched' = (unwatched \/ folder = "prompts")
  /\ Disturbed /\ UNCHANGED <<writes, pages, event, reading, template>>

OtherRenames ==
  /\ writes < MaxWrites /\ writes' = writes + 1 /\ \A p \in Pens : pages[p].folder # "prompts"
  /\ placed' = [placed EXCEPT !["prompts"] = writes']
  /\ unwatched' = TRUE
  /\ Disturbed /\ UNCHANGED <<pages, event, reading, template>>

-----------------------------------------------------------------------------
(* PromptFileHandler.                                                      *)
TakeEvent ==
  /\ event /\ ~reading
  /\ event' = FALSE /\ reading' = TRUE
  /\ UNCHANGED <<placed, writes, editor, savedTo, pages, template, unwatched>>

\* _reload_template: what cannot be read leaves the template as it is.
ReloadTemplate ==
  /\ reading /\ reading' = FALSE
  /\ template' = IF HasPrompt("prompts") THEN placed["prompts"] ELSE template
  /\ unwatched' = ~HasPrompt("prompts")
  /\ UNCHANGED <<placed, writes, editor, savedTo, pages, event>>

PromptFilesNext ==
  \/ SaveEditor \/ SaveProfile \/ OtherRenames \/ TakeEvent \/ ReloadTemplate
  \/ \E folder \in Folders : OpenFile(folder) \/ OtherWrites(folder) \/ OtherRemoves(folder)
  \/ \E pen \in Pens : PageWritten(pen)

PromptFilesSpec == PromptFilesInit /\ [][PromptFilesNext]_promptFileVars

-----------------------------------------------------------------------------
\* The variables keep their types.
PromptFilesTypeOK ==
  /\ placed \in [Folders -> NoPrompt..MaxWrites] /\ template \in NoPrompt..MaxWrites
  /\ writes \in Packed..MaxWrites /\ {event, reading, unwatched, editor.alone} \subseteq BOOLEAN
  /\ editor.name \in Folders \cup {"none"} /\ editor.spread \in 0..Cardinality(SubFolders)
  /\ savedTo \in Folders \cup {"none"}
  /\ \A p \in Pens : pages[p].folder \in Folders \cup {"none"} /\ pages[p].text \in NoPrompt..MaxWrites

\* The editor saves the file that it shows, if nobody else moves files, unless it was
\* asked for one of the root: of these it saves only what lies in one folder beside it.
SavedWhereShown ==
  savedTo # "none" /\ editor.alone =>
    savedTo = editor.from \/ (editor.name = "root" /\ editor.spread # 1)

\* When the watcher has told all and nobody writes, the template in memory is that of
\* the file, unless that was removed or renamed into place.
TemplatesFollowFiles ==
  ~event /\ ~reading /\ (\A p \in Pens : pages[p].folder # "prompts") =>
    unwatched \/ template = placed["prompts"]

(* The prompt files that several threads read and write.                     *)
PromptFilesKept == SavedWhereShown /\ TemplatesFollowFiles

(* The tools that edit a file keep what they were not asked to change, the    *)
(* editor of the prompts saves the file that it shows, and the templates in   *)
(* memory are those of the files.                                             *)
FilesKept == EditsKeepTheRest /\ PromptFilesKept
=============================================================================
