-------------------------------- MODULE Mailbox --------------------------------
(***************************************************************************)
(* The e-mail adapter (crabclaw/channels/email.py): a poll runs in a       *)
(* thread, fetches the unseen mails one by one, marks them seen, and is    *)
(* repeated once when the connection went stale; the event loop hands over *)
(* what the poll returns.  A mail is kept from being handed over twice by  *)
(* the server's \Seen flag and by a bounded set of uids in memory.         *)
(***************************************************************************)
EXTENDS Integers, Sequences, Functions, FiniteSets

CONSTANTS
  MaxMails,    \* bound on the mails that come in
  MaxUids,     \* _MAX_PROCESSED_UIDS
  MaxFaults    \* bound on faults of the connection and restarts

ASSUME MailboxAssumption == {MaxMails, MaxFaults} \subseteq Nat /\ MaxUids \in Nat \ {0}

VARIABLES
  unseen,      \* mails that are on the server without the \Seen flag
  mails,       \* number of mails so far
  processed,   \* _processed_uids
  fetch,       \* the poll: [attempt, todo, fetched] or NoPoll
  batch,       \* what the last poll returned and is not handed over
  delivered,   \* mails in the order they were handed over
  forgotUid,   \* mails whose uid has left `processed'
  inFailedPoll,  \* mails that were fetched in a poll that raised
  mailFaults

mailboxVars == <<unseen, mails, processed, fetch, batch, delivered, forgotUid, inFailedPoll,
                 mailFaults>>

Mails == 1..MaxMails
NoPoll == [attempt |-> 0]
Polling == fetch # NoPoll

MailboxInit ==
  /\ unseen = {} /\ mails = 0
  /\ processed = {} /\ fetch = NoPoll /\ batch = <<>> /\ delivered = <<>>
  /\ forgotUid = {} /\ inFailedPoll = {} /\ mailFaults = 0

\* A mail comes in.
MailArrives ==
  /\ mails < MaxMails /\ mails' = mails + 1
  /\ unseen' = unseen \cup {mails'}
  /\ UNCHANGED <<processed, fetch, batch, delivered, forgotUid, inFailedPoll, mailFaults>>

\* The next poll, when all that the last one returned was handed over.
PollBegins ==
  /\ ~Polling /\ batch = <<>>
  /\ fetch' = [attempt |-> 1, todo |-> unseen, fetched |-> <<>>, storing |-> 0]
  /\ UNCHANGED <<unseen, mails, processed, batch, delivered, forgotUid, inFailedPoll, mailFaults>>

\* The set of uids with a new one; half of it goes, whichever, when it is too large.
Processed(uid) ==
  LET all == processed \cup {uid} IN
  IF Cardinality(all) <= MaxUids THEN processed' = all
  ELSE processed' \in {S \in SUBSET all : Cardinality(S) = Cardinality(all) - Cardinality(all) \div 2}

(* The next mail of _fetch_messages_once: skipped when this or an earlier poll *)
(* one has it, else taken, and marked seen in the next step.               *)
FetchMail(uid) ==
  /\ fetch.storing = 0 /\ \A other \in fetch.todo : uid <= other
  /\ IF uid \in Range(fetch.fetched) \cup processed
     THEN fetch' = [fetch EXCEPT !.todo = @ \ {uid}] /\ UNCHANGED <<processed, forgotUid>>
     ELSE /\ fetch' = [fetch EXCEPT !.todo = @ \ {uid}, !.fetched = Append(@, uid), !.storing = uid]
          /\ Processed(uid)
          /\ forgotUid' = forgotUid \cup ((processed \cup {uid}) \ processed')
  /\ UNCHANGED <<unseen, mails, batch, delivered, inFailedPoll, mailFaults>>

MarkSeen ==
  /\ Polling /\ fetch.storing # 0
  /\ unseen' = unseen \ {fetch.storing}
  /\ fetch' = [fetch EXCEPT !.storing = 0]
  /\ UNCHANGED <<mails, processed, batch, delivered, forgotUid, inFailedPoll, mailFaults>>

PollReturns ==
  /\ Polling /\ fetch.storing = 0 /\ fetch.todo = {}
  /\ batch' = fetch.fetched
  /\ fetch' = NoPoll
  /\ UNCHANGED <<unseen, mails, processed, delivered, forgotUid, inFailedPoll, mailFaults>>

\* The poll once more, with what it has fetched already.
Refetched(todo) == [fetch EXCEPT !.attempt = 2, !.todo = todo, !.storing = 0]

MailFault == mailFaults < MaxFaults /\ mailFaults' = mailFaults + 1

(* The connection goes stale, in the first attempt.                        *)
PollIsStale ==
  /\ MailFault /\ Polling /\ fetch.attempt = 1
  /\ fetch' = Refetched(unseen)
  /\ UNCHANGED <<unseen, mails, processed, batch, delivered, forgotUid, inFailedPoll>>

(* Any other exception, or the second one: the poll raises, and what it    *)
(* has fetched is gone, while its uids are kept.                           *)
PollRaises ==
  /\ MailFault /\ Polling
  /\ inFailedPoll' = inFailedPoll \cup Range(fetch.fetched)
  /\ fetch' = NoPoll
  /\ UNCHANGED <<unseen, mails, processed, batch, delivered, forgotUid>>

HandMail ==
  /\ batch # <<>>
  /\ delivered' = Append(delivered, Head(batch))
  /\ batch' = Tail(batch)
  /\ UNCHANGED <<unseen, mails, processed, fetch, forgotUid, inFailedPoll, mailFaults>>

(* The channel is replaced or the program restarted.                       *)
RestartMailbox ==
  /\ MailFault
  /\ forgotUid' = forgotUid \cup processed /\ processed' = {}
  /\ inFailedPoll' = inFailedPoll \cup Range(batch) \cup (IF Polling THEN Range(fetch.fetched) ELSE {})
  /\ fetch' = NoPoll /\ batch' = <<>>
  /\ UNCHANGED <<unseen, mails, delivered>>

MailboxNext ==
  \/ MailArrives \/ PollBegins \/ MarkSeen \/ PollReturns
  \/ PollIsStale \/ PollRaises \/ HandMail \/ RestartMailbox
  \/ Polling /\ \E uid \in fetch.todo : FetchMail(uid)

MailboxSpec == MailboxInit /\ [][MailboxNext]_mailboxVars

-----------------------------------------------------------------------------
(* Properties *)

MailboxTypeOK ==
  /\ unseen \subseteq 1..mails /\ mails \in 0..MaxMails
  /\ processed \subseteq Mails /\ Cardinality(processed) <= MaxUids
  /\ {batch, delivered} \subseteq Seq(Mails)
  /\ fetch.attempt \in 0..2

(* A mail is handed over twice only when it was still unseen after its uid *)
(* had been forgotten; and none that is seen is lost, except in a poll     *)
(* that raised or at a restart.                                            *)
MailsOnce ==
  /\ \A i, j \in DOMAIN delivered : i # j /\ delivered[i] = delivered[j] => delivered[i] \in forgotUid
  /\ (1..mails) \ unseen \subseteq
       Range(delivered) \cup Range(batch) \cup inFailedPoll \cup
       (IF Polling THEN Range(fetch.fetched) ELSE {})
=============================================================================
