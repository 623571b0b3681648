----------------------------- MODULE MCServices -----------------------------
(* Services that connect, reconnect, start and stop, and the files that      *)
(* tools and pages edit, side by side for TLC: they share no variable, so it *)
(* is enough that one of them moves in each behaviour.  The two directions   *)
(* of the Telegram adapter move one at a time: they share only its state and *)
(* the typing indicator.                                                     *)
EXTENDS TLC, Channels, Lifecycle, Adapters, Mochat, ClawSocial, Metabolism, Console, PromptFiles,
        Letters, Typing

VARIABLE service   \* the component that moves

hostVars     == <<channelVars, lifecycleVars>>
editVars     == <<fileVars, promptFileVars>>
agentVars    == <<clawSocialVars, letterVars>>
adapterVars  == <<mochatVars, telegramVars, mailboxVars, postVars, outboxVars, typingVars>>
otherVars    == <<hostVars, agentVars, bodyVars, consoleVars, editVars>>   \* but the adapters'
servicesVars == <<otherVars, adapterVars, service>>

\* Two replies: one with a word that is too long, one of three paragraphs.
TwoReplies == << <<<<1>>, <<1, 4, 1>>>>, <<<<1, 1>>, <<0>>, <<1>>>> >>

\* The texts Feishu makes cards of: all of up to four lines.
ShortTexts == SeqOf(LineKinds, 4)

\* Tabs and keys are used alike.
Alike == Permutations(Tabs) \cup Permutations(Keys)

\* The components that do not move start in one state of theirs.
ServicesInit ==
  /\ service \in {"channels", "lifecycle", "mochat", "clawsocial", "hears", "speaks", "mailbox",
                 "inbox", "outbox", "body", "console", "files", "promptfiles",
                 "letters", "typing"}
  /\ ChannelsInit /\ (service # "channels" => \A k \in Keys : saved[k] = "none")
  /\ LifecycleInit /\ (service # "lifecycle" => up = {"cron"})
  /\ MochatInit /\ (service # "mochat" => kind = "session" /\ posts = 0 /\ ~fallback)
  /\ ClawSocialInit /\ TelegramInit /\ MailboxInit
  /\ BodyInit /\ (service # "body" => balance = 0)
  /\ (service = "inbox" \/ adapter = "qq") /\ InboxInit
  /\ (service = "outbox" \/ sender = "qq") /\ OutboxInit /\ (service # "outbox" => parcel.texts = 0)
  /\ (service = "console" \/ command = "agent") /\ ConsoleInit
  /\ FileToolsInit /\ (service # "files" => fileText = Missing)
  /\ PromptFilesInit /\ (service # "promptfiles" => \A f \in Folders : ~HasPrompt(f))
  /\ LettersInit /\ TypingInit /\ (service # "typing" => platform = "matrix" /\ policy = "open")

MoveChannels ==
  /\ service = "channels" /\ ChannelsNext
  /\ UNCHANGED <<consoleVars, editVars, bodyVars, lifecycleVars, adapterVars, agentVars>>
MoveLifecycle ==
  /\ service = "lifecycle" /\ LifecycleNext
  /\ UNCHANGED <<consoleVars, editVars, bodyVars, channelVars, adapterVars, agentVars>>
MoveClawSocial ==
  /\ service = "clawsocial" /\ ClawSocialNext
  /\ UNCHANGED <<letterVars, consoleVars, editVars, bodyVars, hostVars, adapterVars>>
MoveLetters ==
  /\ service = "letters" /\ LettersNext
  /\ UNCHANGED <<clawSocialVars, consoleVars, editVars, bodyVars, hostVars, adapterVars>>
MoveMochat ==
  /\ service = "mochat" /\ MochatNext
  /\ UNCHANGED <<otherVars, telegramVars, mailboxVars, postVars, outboxVars, typingVars>>
MoveTelegram ==
  /\ \/ service = "hears" /\ (Hears \/ Shuts)
     \/ service = "speaks" /\ (Speaks \/ Shuts)
  /\ UNCHANGED <<otherVars, mochatVars, mailboxVars, postVars, outboxVars, typingVars>>
MoveMailbox ==
  /\ service = "mailbox" /\ MailboxNext
  /\ UNCHANGED <<otherVars, mochatVars, telegramVars, postVars, outboxVars, typingVars>>
MoveInbox ==
  /\ service = "inbox" /\ InboxNext
  /\ UNCHANGED <<otherVars, mochatVars, telegramVars, mailboxVars, outboxVars, typingVars>>
MoveOutbox ==
  /\ service = "outbox" /\ OutboxNext
  /\ UNCHANGED <<otherVars, mochatVars, telegramVars, mailboxVars, postVars, typingVars>>
MoveTyping ==
  /\ service = "typing" /\ TypingNext
  /\ UNCHANGED <<otherVars, mochatVars, telegramVars, mailboxVars, postVars, outboxVars>>
MoveBody ==
  service = "body" /\ BodyNext /\ UNCHANGED <<consoleVars, editVars, hostVars, adapterVars, agentVars>>
MoveConsole ==
  /\ service = "console" /\ ConsoleNext
  /\ UNCHANGED <<editVars, bodyVars, hostVars, adapterVars, agentVars>>
MoveFiles ==
  /\ service = "files" /\ FileToolsNext
  /\ UNCHANGED <<consoleVars, promptFileVars, bodyVars, hostVars, adapterVars, agentVars>>
MovePromptFiles ==
  /\ service = "promptfiles" /\ PromptFilesNext
  /\ UNCHANGED <<consoleVars, fileVars, bodyVars, hostVars, adapterVars, agentVars>>

ServicesNext ==
  /\ \/ MoveChannels \/ MoveLifecycle \/ MoveClawSocial
     \/ MoveMochat \/ MoveTelegram \/ MoveMailbox \/ MoveInbox \/ MoveOutbox
     \/ MoveBody \/ MoveConsole \/ MoveFiles \/ MovePromptFiles \/ MoveLetters \/ MoveTyping
  /\ UNCHANGED service

ServicesSpec == ServicesInit /\ [][ServicesNext]_servicesVars

\* The variables of every service keep their types.
ServicesTypeOK ==
  /\ ChannelsTypeOK /\ LifecycleTypeOK /\ ClawSocialTypeOK
  /\ MochatTypeOK /\ TelegramTypeOK /\ MailboxTypeOK /\ InboxTypeOK /\ OutboxTypeOK
  /\ BodyTypeOK /\ ConsoleTypeOK
  /\ FileToolsTypeOK /\ PromptFilesTypeOK /\ LettersTypeOK /\ TypingTypeOK
=============================================================================
