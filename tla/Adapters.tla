------------------------------- MODULE Adapters -------------------------------
(***************************************************************************)
(* The chat adapters (crabclaw/channels/) but for Mochat: how Telegram,    *)
(* the mailbox and the other platforms receive, and how they send.  They   *)
(* share no variable; this module states what they have in common.         *)
(***************************************************************************)
EXTENDS Telegram, Mailbox, Inbox, Outbox

(* What a platform has for the bot is handed to the bus once: Telegram's   *)
(* updates, alone or in albums, the mails of the mailbox, and the posts of *)
(* the other platforms.                                                    *)
InboundOnce == UpdatesOnce /\ MailsOnce /\ PostsOnce

(* What a chat shows of a reply is in order and, unless a call that failed *)
(* for the program was carried out, there once; for Telegram it is cut     *)
(* without losing a word, and elsewhere it is the texts and the files.     *)
RepliesShown == RepliesRead /\ PartsShown
=============================================================================
