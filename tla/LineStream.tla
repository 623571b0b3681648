------------------------------ MODULE LineStream ------------------------------
(***************************************************************************)
(* What a reader that follows log files promises: it delivers whole lines, *)
(* each at most once since it started, and of the file that is written now *)
(* without a gap.  It may leave the end of a file behind when a newer one  *)
(* has come.                                                               *)
(***************************************************************************)
EXTENDS Naturals, Sequences

VARIABLES
  lines,      \* for each log file, in the order they came, its number of whole lines
  delivered   \* what was delivered since the start, as pairs of file and line

streamVars == <<lines, delivered>>

\* The lines of file f after the last one delivered, up to line n.
NextOf(f, n) ==
  LET last == IF delivered # <<>> /\ delivered[Len(delivered)][1] = f
              THEN delivered[Len(delivered)][2] ELSE 0 IN
  [i \in 1..(n - last) |-> <<f, last + i>>]

Began(f) == delivered = <<>> \/ delivered[Len(delivered)][1] <= f

StreamInit == delivered = <<>> /\ lines \in Seq(Nat)

\* Lines are added to the newest file or to a new one; nothing is delivered.
Written ==
  /\ \A f \in DOMAIN lines : f \in DOMAIN lines' /\ lines'[f] >= lines[f]
  /\ UNCHANGED delivered

\* All of the newest file that was not delivered yet.
Delivered ==
  /\ LET f == Len(lines) IN
       /\ f > 0 /\ Began(f)
       /\ delivered' = delivered \o NextOf(f, lines[f])
  /\ UNCHANGED lines

\* A new reader starts from nothing.
Restarted == delivered' = <<>> /\ UNCHANGED lines

StreamNext == Written \/ Delivered \/ Restarted
StreamSpec == StreamInit /\ [][StreamNext]_streamVars
=============================================================================
