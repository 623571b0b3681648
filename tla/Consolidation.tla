----------------------------- MODULE Consolidation -----------------------------
(***************************************************************************)
(* Memory consolidation (crabclaw/agent/memory.py): the older messages of  *)
(* a session are summarised by the model provider into the user's episodic *)
(* log and into facts.  MemoryStore.consolidate slices the messages and    *)
(* reads the facts, awaits the provider, and then merges, appends and      *)
(* moves session.last_consolidated by what the session is by then.  One    *)
(* MemoryStore, with one failure counter, serves all sessions.             *)
(*                                                                         *)
(* A message is its number in its session, a fact the call that found it.  *)
(* The wording of entries and the retrieval by keyword are left out.       *)
(***************************************************************************)
EXTENDS Integers, Sequences, SequencesExt, FiniteSets

CONSTANTS
  Conversations,   \* the sessions, each of a user of its own
  Keep,            \* memory_window // 2
  MaxFailures,     \* _MAX_FAILURES_BEFORE_RAW_ARCHIVE
  MaxMessages,     \* bound on the messages of a session
  MaxClears,       \* bound on the calls of clear for a session
  MaxCalls         \* bound on the calls of consolidate

ASSUME ConsolidationAssumption ==
  /\ {Keep, MaxFailures} \subseteq Nat \ {0}
  /\ {MaxMessages, MaxClears, MaxCalls} \subseteq Nat

VARIABLES
  lists,        \* for each session, the lists that session.messages has been; the last
                \* one is what it is now
  consolidated, \* session.last_consolidated; below 0 it counts from the end
  episodic,     \* the messages that the user's episodic log tells of
  globalFacts,  \* memory/semantic.json
  userFacts,    \* portfolios/<user>/memory/semantic.json
  failures,     \* _consecutive_failures
  calls,        \* the calls of consolidate that were begun, with what they hold
  pending       \* those that await the provider

memoryVars == <<lists, consolidated, episodic, globalFacts, userFacts, failures, calls, pending>>

Calls == 1..MaxCalls

\* The messages of a list are numbered on from those of the lists before it.
Spanned(list) == (list.from + 1)..list.to
Present(s) == Last(lists[s])
Length(s) == Present(s).to - Present(s).from

\* The first `to' messages of the session but for the first `from'.
At(s, from, to) == (Present(s).from + from + 1)..(Present(s).from + to)

(* How many messages the slice messages[last_consolidated:] leaves out.    *)
Hidden(s) ==
  IF consolidated[s] >= 0 THEN consolidated[s]
  ELSE IF Length(s) + consolidated[s] > 0 THEN Length(s) + consolidated[s] ELSE 0

MemoryInit ==
  /\ lists = [s \in Conversations |-> <<[from |-> 0, to |-> 0]>>]
  /\ consolidated = [s \in Conversations |-> 0]
  /\ episodic = [s \in Conversations |-> {}] /\ userFacts = episodic
  /\ globalFacts = {}
  /\ failures = 0 /\ calls = <<>> /\ pending = {}

(* Session.add_message *)
AddMessage(s) ==
  /\ Present(s).to < MaxMessages
  /\ lists' = [lists EXCEPT ![s][Len(lists[s])].to = @ + 1]
  /\ UNCHANGED <<consolidated, episodic, globalFacts, userFacts, failures, calls, pending>>

\* Fault seed: the offset survives the clearing of the session.
ClearKeepsOffset(s) ==
  /\ Len(lists[s]) <= MaxClears
  /\ lists' = [lists EXCEPT ![s] = Append(@, [from |-> Present(s).to, to |-> Present(s).to])]
  /\ UNCHANGED <<consolidated, episodic, globalFacts, userFacts, failures, calls, pending>>

(* Session.clear: a new list; a call that awaits the provider may still    *)
(* hold the old one.                                                       *)
Clear(s) ==
  /\ Len(lists[s]) <= MaxClears
  /\ lists' = [lists EXCEPT ![s] = Append(@, [from |-> Present(s).to, to |-> Present(s).to])]
  /\ consolidated' = [consolidated EXCEPT ![s] = 0]
  /\ UNCHANGED <<episodic, globalFacts, userFacts, failures, calls, pending>>

(* consolidate up to the await; it returns at once when there is nothing   *)
(* before the part to keep.                                                *)
Begin(s, all) ==
  LET from == IF all THEN 0 ELSE Hidden(s)
      to   == IF all THEN Length(s) ELSE Length(s) - Keep
      c    == Cardinality(DOMAIN calls) + 1
  IN
  /\ c \in Calls
  /\ all \/ from < to
  /\ calls' = [i \in 1..c |-> IF i < c THEN calls[i] ELSE
       [session |-> s, all |-> all, slice |-> At(s, from, to), list |-> Len(lists[s]),
        global |-> globalFacts, user |-> userFacts[s]]]
  /\ pending' = pending \cup {c}
  /\ UNCHANGED <<lists, consolidated, episodic, globalFacts, userFacts, failures>>

\* What is written is what was read before the await, with the new fact.
Merged(c) == calls[c].global \cup {c}

(* last_consolidated, from what the session is after the await.            *)
OffsetAfter(c) == IF calls[c].all THEN 0 ELSE Length(calls[c].session) - Keep

(* The provider calls save_memory, with a summary of the slice, and with   *)
(* or without facts.                                                       *)
Succeed(c) ==
  LET s == calls[c].session IN
  /\ pending' = pending \ {c}
  /\ \E forAll, forUser \in BOOLEAN :
       /\ globalFacts' = IF forAll THEN Merged(c) ELSE globalFacts
       /\ userFacts' = IF forUser THEN [userFacts EXCEPT ![s] = calls[c].user \cup {c}]
                       ELSE userFacts
  /\ episodic' = [episodic EXCEPT ![s] = @ \cup calls[c].slice]
  /\ consolidated' = [consolidated EXCEPT ![s] = OffsetAfter(c)]
  /\ failures' = 0
  /\ UNCHANGED <<lists, calls>>

(* The provider fails or does not call the tool: _fail_or_raw_archive.     *)
(* The list that archive_all holds may have grown.                         *)
Fail(c) ==
  LET s   == calls[c].session
      raw == IF calls[c].all THEN Spanned(lists[s][calls[c].list]) ELSE calls[c].slice
  IN
  /\ pending' = pending \ {c}
  /\ IF failures + 1 < MaxFailures
     THEN failures' = failures + 1 /\ UNCHANGED episodic
     ELSE failures' = 0 /\ episodic' = [episodic EXCEPT ![s] = @ \cup raw]
  /\ UNCHANGED <<lists, consolidated, globalFacts, userFacts, calls>>

MemoryNext ==
  \/ \E s \in Conversations : AddMessage(s) \/ Clear(s)
  \/ \E s \in Conversations, all \in BOOLEAN : Begin(s, all)
  \/ \E c \in pending : Succeed(c) \/ Fail(c)

MemorySpec == MemoryInit /\ [][MemoryNext]_memoryVars

-----------------------------------------------------------------------------
(* Properties *)

MemoryTypeOK ==
  /\ \A s \in Conversations :
       /\ Len(lists[s]) \in 1..(MaxClears + 1)
       /\ \A i \in DOMAIN lists[s] : 0 <= lists[s][i].from /\ lists[s][i].from <= lists[s][i].to
       /\ Present(s).to <= MaxMessages
       /\ consolidated[s] \in (-Keep)..Length(s)
       /\ episodic[s] \subseteq 1..MaxMessages /\ userFacts[s] \subseteq Calls
  /\ globalFacts \subseteq Calls
  /\ failures \in 0..(MaxFailures - 1)
  /\ DOMAIN calls \subseteq Calls /\ pending \subseteq DOMAIN calls
=============================================================================
