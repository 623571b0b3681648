------------------------------ MODULE AuditTrail ------------------------------
(***************************************************************************)
(* The audit log and its reader: SecureAuditLogger                         *)
(* (crabclaw/utils/audit_logger.py) appends a line for every provider      *)
(* call, from the thread of the mind; JsonlTailer                          *)
(* (crabclaw/dashboard/tailer.py) polls the newest file from the event     *)
(* loop and publishes its lines to the dashboard.  A line is written in    *)
(* two parts when it is longer than the buffer; the tailer may look in     *)
(* between, and a crash may leave the first part.                          *)
(***************************************************************************)
EXTENDS Naturals, Sequences, FiniteSets, SequencesExt

CONSTANTS
  LinesPerFile,  \* max_file_size, in lines
  MaxFiles,      \* max_files
  MaxLines,      \* bound on the lines ever written
  MaxRestarts    \* bound on crashes

ASSUME AuditAssumption ==
  LinesPerFile \in Nat \ {0} /\ MaxFiles \in Nat \ {0} /\ MaxLines \in Nat /\ MaxRestarts \in Nat

VARIABLES
  files,       \* the audit_*.log in the order of their last write, each as its parts of lines
  kept,        \* those not removed yet
  current,     \* _current_file: its index, which no file has before the first append
  currentSize, \* _current_size
  writing,     \* an append is under way
  tailed,      \* current_file of the tailer, 0 for None
  pos,         \* its read position
  published,   \* the lines it has published since it was started, as <<file, line>>
  written,     \* number of lines begun so far
  restarts

auditVars == <<files, kept, current, currentSize, writing, tailed, pos, published, written,
               restarts>>

Parts == {"first", "last"}

\* The newest file of the directory, by modification time.
ActiveLogFile == IF files = <<>> THEN 0 ELSE Len(files)

\* How many whole lines the first n parts of a file hold.
WholeLines(file, n) == Cardinality({i \in 1..n : file[i] = "last"})

-----------------------------------------------------------------------------
(* SecureAuditLogger *)

\* _rotate_if_needed: a new name without a file yet; files beyond max_files go.
Rotates == current = 0 \/ currentSize >= LinesPerFile
NewestKept == {f \in kept : Cardinality({g \in kept : g > f}) < MaxFiles}

\* After a day the log rotates whatever its size; within a second a new name is the old one.
AppendFirst(rotate) ==
  /\ ~writing /\ written < MaxLines
  /\ Rotates => rotate
  /\ LET f == IF rotate THEN Len(files) + 1 ELSE current
         before == IF rotate THEN NewestKept ELSE kept IN
     /\ current' = f
     /\ currentSize' = IF rotate THEN 0 ELSE currentSize
     /\ files' = IF rotate THEN Append(files, <<"first">>)
                 ELSE [files EXCEPT ![f] = Append(@, "first")]
     /\ kept' = before \cup {f}
  /\ writing' = TRUE /\ written' = written + 1
  /\ UNCHANGED <<tailed, pos, published, restarts>>

AppendLast ==
  /\ writing /\ writing' = FALSE
  /\ files' = [files EXCEPT ![current] = Append(@, "last")]
  /\ currentSize' = currentSize + 1
  /\ UNCHANGED <<kept, current, tailed, pos, published, written, restarts>>

-----------------------------------------------------------------------------
(* JsonlTailer._loop *)

\* Where the reading of the active file begins.
StartOf(f) == IF f # tailed \/ Len(files[f]) < pos THEN 0 ELSE pos

\* Fault seed: the part of a line at the end is not kept back.
PosAtEnd(file) == Len(file)

\* The position after reading to the end: a line without its end is kept back.
PosAfter(file) ==
  IF file # <<>> /\ Last(file) = "first" THEN Len(file) - 1 ELSE Len(file)

\* The numbers of the lines that lie whole in the parts from start on.
LinesFrom(file, start) ==
  {n \in 1..WholeLines(file, Len(file)) :
     \E i \in (start + 1)..(Len(file) - 1) :
       file[i] = "first" /\ file[i + 1] = "last" /\ WholeLines(file, i) = n - 1}

\* They are published in order: the k-th of them is that which k are not after.
InOrder(ns) == [k \in 1..Cardinality(ns) |-> CHOOSE n \in ns : Cardinality({m \in ns : m <= n}) = k]

Poll ==
  LET f == ActiveLogFile IN
  /\ f # 0
  /\ LET start == StartOf(f)
         new == InOrder(LinesFrom(files[f], start)) IN
     /\ tailed' = f
     /\ pos' = IF Len(files[f]) = start THEN start ELSE PosAfter(files[f])
     /\ published' = published \o [i \in DOMAIN new |-> <<f, new[i]>>]
  /\ UNCHANGED <<files, kept, current, currentSize, writing, written, restarts>>

-----------------------------------------------------------------------------
AuditInit ==
  /\ files = <<>> /\ kept = {}
  /\ current = 0 /\ currentSize = 0 /\ writing = FALSE
  /\ tailed = 0 /\ pos = 0 /\ published = <<>>
  /\ written = 0 /\ restarts = 0

(* The process dies, within an append or not, and starts again.  A line    *)
(* that was cut stays in its file; the new logger starts a new one.        *)
RestartAudit ==
  /\ restarts < MaxRestarts /\ restarts' = restarts + 1
  /\ current' = 0 /\ currentSize' = 0 /\ writing' = FALSE
  /\ kept' = NewestKept
  /\ tailed' = ActiveLogFile /\ pos' = 0 /\ published' = <<>>
  /\ UNCHANGED <<files, written>>

AuditNext ==
  \/ \E rotate \in BOOLEAN : AppendFirst(rotate)
  \/ AppendLast
  \/ Poll
  \/ RestartAudit

AuditSpec == AuditInit /\ [][AuditNext]_auditVars

-----------------------------------------------------------------------------
(* Properties *)

\* Every variable keeps its type, and the file that is being tailed is not removed.
AuditTypeOK ==
  /\ files \in Seq(Seq(Parts))
  /\ kept \subseteq DOMAIN files /\ (files # <<>> => Len(files) \in kept)
  /\ current \in 0..Len(files) /\ currentSize \in Nat /\ writing \in BOOLEAN
  /\ tailed \in 0..Len(files) /\ pos \in Nat
  /\ published \in Seq((DOMAIN files) \X Nat)
  /\ written \in 0..MaxLines /\ restarts \in 0..MaxRestarts

Stream == INSTANCE LineStream WITH
  lines <- [f \in DOMAIN files |-> WholeLines(files[f], Len(files[f]))],
  delivered <- published

\* The tailer implements LineStream: however its polls fall between the parts
\* of lines, rotations and restarts, the dashboard is sent whole lines, each
\* once, in order, and all of the newest file.
TailerDeliversLines == Stream!StreamSpec
=============================================================================
