# A TLA+ model of crabclaw

Crabclaw is an assistant that lives in one Python process: chat channels, an HTTP
gateway and a dashboard hand messages to a bus; an I/O processor turns them into
stimuli for a "mind" that ticks in a thread of its own; the mind's answers go back
over the bus to every chat of the user.  Beside that flow run a cron service, a
client of an agents' network, and several stores on disk that the event loop, the
dashboard's HTTP threads and other processes share.

This directory holds TLA+ modules for the parts whose correctness depends on the
order of events, configurations that check them with TLC on small instances, and
proofs for all instances, checked by TLAPS: of all safety properties of the cron
service and of the message flow, and of most of those of stores and services.
`PROJECT.json` lists the runs, maps every definition to the lines it stands for,
and names the hazards in the code with the properties that watch them.

To run: `tlc -config MCCron_calls.cfg MCCron.tla` (each `MC*.cfg` goes with the module
named before its underscore, if it has one), `tlapm CronProofs.tla` (and so for each
`*Proofs.tla` and for `QueueFacts.tla`).

## 1. Inventory

Paths are relative to `src/crabclaw`.  "Hard" names what makes the part hard to
test.

| Part | State | Operations | Hard | Correct when |
|---|---|---|---|---|
| `cron/service.py` CronService | job list in memory and in `jobs.json`, mtime, timer task, running flag | add, remove, enable, run, list, start, stop, timer tick | every call may fall into an `await on_job`; other processes edit the file; crashes | timer covers every pending job; removed or disabled jobs are not started; one-shots complete once; due jobs start |
| `bus/` | two queues, response waiters, subscribers per scope and global | publish in/out, consume, create/remove waiter, subscribe | callbacks run as tasks, waiters are shared by chat | nothing is handed to another scope; no waiter is left behind |
| `agent/loop.py` IOProcessor | last origin per scope, recent sends, recent event ids | three listeners, target collection, echo guard | origin is read long after it was written; echoes of its own messages | replies reach the user's chats only, and are never taken for messages |
| `sapiens/` mind | stimulus queue, focus, action queue, energy, credits, drives | tick: drain, select, decide, answer or act | its own thread; drops what is not selected; a ledger elsewhere whose answers get lost | answers in order, at most once each; no level below zero |
| `sapiens/components/action.py` and `providers/` | the messages of one answer, the buffers of a stream, a global address in litellm | ask, read the stream, run tools, ask again | streams that break off; connections tried twice; keys and routes changed meanwhile | calls and results paired; the answer read is the one sent; a key goes to its provider |
| `gateway/server.py` | pending requests, in-memory history | POST /message, history, health | time-out against late reply; requests share queues | a reply ends the requests it is for; replies stay with the user |
| `agent/scheduler.py` | services, tasks, stop event, saved state | run, stop, bus callbacks | stop against run and signals; callbacks against each other | history in order; nothing runs, and the state is saved, at the end |
| `channels/manager.py`, `channels/base.py` | instances, their tasks, routes | add/update, remove, activate, dispatch | instance replaced while its old task runs, or while a stop of it awaits | what runs can be stopped; routes are forgotten with the instance |
| `dashboard/server.py` | sockets, seen event ids, sessions | websocket messages, broadcast loop, pages that save | two queues in one wait; HTTP threads next to the event loop | every event shown once, in order; a save keeps what others saved |
| `dashboard/tailer.py`, `utils/audit_logger.py` | log files, position | append, rotate, poll | half-written lines, rotation, restarts | whole lines, each once, in order |
| `session/manager.py` | sessions in a cache and in JSONL files | get, add message, save, clear | two managers over one file, each comparing with its own copy | a message is saved once, which the code does not keep |
| `agent/memory.py` | semantic and episodic files, failure counter | consolidate, archive | a slice used after an await; `clear` during it | (nothing calls it) |
| `user/manager.py` | accounts, identity mappings, channel configurations, a cache | register, login, delete, map, save | many files read and written back one by one, by threads and the loop at once; caches of two instances | an endpoint leads only to those who asked for it; a deleted account stays deleted |
| `config/secure_loader.py` | `config.json`, `config.tmp`, the key file | load, save | every writer saves all it has loaded; crashes; sealing | the file can be read and holds the last value saved |
| `agent/prompt_evolution.py` | candidates, deployments, snapshots, review drafts | generate, canary, promote, roll back, apply hunks, reset | four files written one after the other; a second instance | deployments resolve; overwritten text is kept; rejected text is not served |
| `templates/manager.py` and the dashboard's editor | prompt files in five folders, templates in memory | watch, edit, save | truncation before writing; different orders of folders | what is saved is what is shown; templates are those of the files |
| `agent/tools/filesystem.py` | files of the workspace | read, write, edit, list | other programs write too | an edit keeps the rest |
| `channels/mochat.py` | cursors, seen ids, delayed entries with timers | watch, poll, delay, flush | cursors move before handling; answers that are late or cut | the cursor passes over nothing but what no answer told; nothing handled twice |
| `channels/telegram.py` | albums, typing | updates, send in chunks | album flushes; repeats after time-outs | heard once; read in order |
| `channels/email.py` | uids, flags on the server | poll, repeat | a poll that fails half-way | heard once |
| `channels/` feishu, matrix, dingtalk, discord, slack, wecom, qq, whatsapp | windows of ids, typing tasks | receive, send with fallbacks | repeated deliveries; calls that fail though carried out | passed on once; shown in order; what is given up is named |
| `skills/clawsocial/scripts` | a websocket, tasks, pending acknowledgements | connect, disconnect, reconnect, send, acknowledge | the tasks of a client meet its successor's | one connection; what is acknowledged was read |
| `cli/commands.py` | the prompt, collected replies, ports | agent, chat, gateway, wizards | Ctrl-C; two tasks on one queue | a reply stands under its prompt; ports differ |

How they interact: channels, gateway and dashboard *put* into the bus and the
broadcast manager; the bus starts callbacks of the scheduler as tasks; the I/O
processor *takes* from both and puts into the thread-safe queues of the mind; the
mind's thread puts actions into a queue that the event loop takes from; the channel
manager takes from the outbound queue and calls the channels.  The cron service
calls the scheduler back for each job.  The stores are shared by files: two session
managers, two user managers, two prompt pipelines, and any number of writers of
`config.json` each keep copies in memory of what lies on disk.

## 2. Modules

| Module | Models | Map to |
|---|---|---|
| `Cron` | the cron service with its file, its callers, crashes and other processes | `cron/` |
| `CronProofs` | theorems about `Cron` | |
| `QueueFacts` | lemmas about queues, least numbers and recursive functions, for the modules of proofs | |
| `Dicts` | Python's dictionaries | |
| `Messages` | the data of the flow: messages, chats, scopes, items, texts, actions | `bus/events.py`, `agent/loop.py` |
| `Bus` | `MessageBus`, `BroadcastManager`, and the scheduler's callbacks on the bus | `bus/`, `agent/scheduler.py` |
| `Mind` | workspace, tick and decision, as far as messages are concerned | `sapiens/` |
| `IOProcessor` | the listeners, on top of `Bus` and `Mind` | `agent/loop.py` |
| `Gateway` | POST /message, on top of `Bus` | `gateway/server.py` |
| `Flow` | composes `IOProcessor` and `Gateway` with channels, websocket, platform echo and dispatcher | |
| `FlowProofs` | theorems about `Flow` | |
| `Feed` | the conversation of a user as shown on websockets and as saved by two session managers | `dashboard/server.py`, `session/manager.py` |
| `Consolidation` | `MemoryStore.consolidate` around its await, for several sessions | `agent/memory.py` |
| `Users` | accounts, tokens, identity mappings, two caches of profiles | `user/manager.py` |
| `Settings` | the writers of `config.json` | `config/secure_loader.py` |
| `Providers` | which provider, key and address a call goes to | `config/schema.py`, `providers/litellm_provider.py` |
| `Dialogue` | one answer: requests, streams, tool calls, results; extends `Providers` | `sapiens/components/action.py`, `providers/` |
| `PromptEvolution` | candidates, canary, promotion, roll-back, hunks | `agent/prompt_evolution.py` |
| `AuditTrail` | the audit log and the tailer; implements `LineStream` | `utils/audit_logger.py`, `dashboard/tailer.py` |
| `LineStream` | abstract: a reader that follows log files | |
| `StoreProofs` | theorems about `Users`, `Consolidation`, `Settings`, and the stores of `MCStores` together | |
| `PromptProofs` | theorems about `PromptEvolution`, `Providers`, `Dialogue` | |
| `FeedProofs` | theorems about `Feed` and `AuditTrail`, which implements `LineStream` | |
| `PromptFiles` | the editor of prompts, the profile page, the template watcher; extends `FileTools` | `dashboard/server.py`, `templates/manager.py` |
| `FileTools` | read_file, write_file, edit_file, list_dir | `agent/tools/filesystem.py` |
| `Channels` | channel configurations, instances, tasks, routes | `channels/manager.py` |
| `Lifecycle` | `run` against `stop`, signals, the end of the event loop | `agent/scheduler.py` |
| `Metabolism` | energy, credits, drives and the actions of the life loop | `sapiens/` |
| `Console` | the prompts of the command line and the ports of the gateway | `cli/commands.py` |
| `Telegram`, `Chunks` | updates, albums and replies; `split_message` | `channels/telegram.py`, `utils/helpers.py` |
| `Mailbox` | the poll of a mailbox in a thread | `channels/email.py` |
| `Mochat` | cursors, subscriptions, polls and delayed entries | `channels/mochat.py` |
| `Inbox` | how eight adapters receive | `channels/feishu.py` and seven more |
| `Outbox`, `Cards` | how they send; the cards of Feishu | the same |
| `Adapters` | puts `Telegram`, `Mailbox`, `Inbox` and `Outbox` side by side and states what all adapters promise: `InboundOnce`, `RepliesShown` | |
| `Typing` | keepalives of Matrix and Discord | `channels/matrix.py`, `channels/discord.py` |
| `ClawSocial` | connecting, reconnecting, heartbeats, stopping | `skills/clawsocial/scripts` |
| `Letters` | messages and acknowledgements between agents; extends `ClawSocial` | the same |
| `HostProofs` | theorems about `Channels`, `Lifecycle`, `ClawSocial`, `Letters`, `Metabolism`, `Typing`, `Console`, `FileTools`, `PromptFiles`, and the services of `MCServices` together | |
| `AdapterProofs` | theorems about `Telegram`, `Mailbox`, `Inbox`, `Outbox`, `Mochat`, `Chunks`, `Cards` | |
| `MCCron`, `MCFlow`, `MCStores`, `MCServices` | instances for TLC | |

asyncio switches coroutines only at an `await` that waits, so in all modules a stretch
of code between two of those is one action.  Threads (HTTP handlers, the mind, the
watcher, a poll of the mailbox) switch anywhere; there an action is one access to what is
shared: one file read, one file written, one truncation.

`MCStores` and `MCServices` put components side by side that share no variable.
One of them moves in each behaviour (the variables `store` and `service` say
which), so that the number of states is the sum and not the product of theirs.

### Cron

`RunJob`/`FinishRun` are `run_job` before and
after its await; `FireTimer`, `FinishTickJob` are the two kinds of stretches of the
timer task; everything else is a synchronous method and one action.  A job's number
stands for the `CronJob` object.

* `mem`, `loaded`, `disk`, `synced`: `self._store`, whether there is one, what
  `jobs.json` parses to, and whether `_last_mtime` is the file's.  `_load_store` does
  not record the mtime it has read, so a service that has only loaded is not
  `synced`, and loads again each time; only `_save_store` makes it so.
* `timer`, `tick`: the one timer task, either asleep until `timer` or executing
  `tick.job` with `tick.queue` to follow.  `Arm` cancels it in either state, as
  `_arm_timer` does.
* `orphan`: the job object that is being executed is no longer in the store because
  it was reloaded; the code then updates an object nobody reads.
* `Crash(torn)`: the process dies at any point; when it dies inside `write_text`, the
  file is truncated and loads as no jobs.
* `ExternalEdit`: a second `CronService` (the CLI does that) changes and saves.
* `wish`, `spent`: history, not code: the last command about a job, and the
  one-shots completed since they were last switched on.

### Flow

* A *scope* is a user id, or `channel:chat_id` for a stranger.  A *text* is
  identified by the message it answers and by its depth (0 for a user's own), which is
  all the properties tell apart.
* `Bus!Callback` is one run of `_on_bus_inbound` or `_on_bus_outbound`.  These start
  as tasks in the order of publication and contain no await that waits, so they run
  in this order.
* `Mind!Tick` drains the stimulus queue.  How many internal signals are at least as
  intense as a message, and whether hunger is one of them, is a free choice, which
  covers whatever the needs, emotions and the metabolism compute.  What a tick does
  not answer is gone.
* `IOProcessor!Act` collects targets with the origin as it is *now*, remembers and
  publishes each of them.
* `Gateway!Ask`, `TakeReply`, `TimeOut` are `publish_and_respond`.  A known user's
  request listens on a subscription to the user's scope, an anonymous one on the
  response queue of its chat, shared with whoever waits for that chat, and removed by
  the first who finishes.
* `Flow!Echo`: the platform delivers the bot's own message to the channel, at any time
  and as often as the bound allows; `EchoGuardExpires`: 20 seconds have passed since the
  message was sent, whatever is still to come.  An echo after that is thought about and
  answered; `tooLate` are the messages of which the guard has forgotten.
* A request's deadline (`TimeOut`) may come at any time and need not come at all.

### Stores

* `Feed`: `copy` is the cached session of each of the two managers, `file` the saved
  one.  Whoever saves writes its whole copy.  A websocket's `user` and `system` are its
  two queues; the broadcast loop may find either or both ready.  `seen` is
  `seen_event_ids`, cut to an arbitrary part when it is full; history variables:
  `forgotten` (event ids that were cut).
* `Consolidation`: a call to `consolidate` is two actions, before and after the
  provider's answer; `calls` holds what it sliced and read.  `lists` are the lists that a
  session's messages have been: `clear` makes a new one, also while a call awaits, which
  then computes the offset from it.
* `Users`: an HTTP request is a sequence of actions of its thread, and so is what a
  handler of the websocket's loop does, next to the threads: the mappings are read one
  file after the other, regrouped, unlinked one by one, and each file written is
  truncated first (`LoadMappings`, `Regroup`, `UnlinkMappings`, `EmptyMappings`,
  `WriteMappings`).  `request` holds what a worker has read so far; `cached` is the
  profile cache of the dashboard's and of the channel manager's `UserManager`;
  `surviving` (history) are the accounts somebody held in memory as they were deleted.
* `Settings`: `writer[w].at` is where a writer is between loading and renaming
  `config.tmp`.  A value is the number of the change that made it, with the key it is
  sealed under.  `overtaken` and `spoiled` name what is lost because nothing locks
  the file: settings saved over by a writer that had loaded before, and saves that
  shared `config.tmp` or stored an invalid value.
* `PromptEvolution`: `pipeline` is the state in memory, `stateFile` the one on disk,
  `serving` what the second instance read when it was built.  The process may die
  between two of the writes of an operation.
* `AuditTrail`: a line is one or two parts of a file; the tailer may look between
  them.  `Stream` is the refinement mapping to `LineStream`: the lines of the abstract
  file are the whole ones of the concrete file, what was delivered is `published`.
* `Providers`: `held` is the provider a callpoint works with, `standing` the one made at
  the start, `apiBase` the global of litellm that the last provider with an address
  leaves behind.
* `Dialogue`: `messages` is the conversation, `wire` the request made of it, the stream
  variables what the server sends and what `consume_sse` has read of it.

### Services

* `Channels`: instances are numbered in the order of creation.  A dashboard tab that
  stops an instance awaits `stop()`, then the end of the task it has cancelled, and then
  pops the key (`StopReturned`, `TaskEnded`); the other tabs run meanwhile, and may have
  put another task there.  `popped` (history) are the instances whose task went that way.
* `Lifecycle`: `stop()` is a sequence of stages with awaits between them, `stopper` who
  runs it, `core` the tasks `run()` waits for.
* `Metabolism`: a transfer is a request to the ledger whose answer may be lost;
  `credits` is what the agent believes - at first what the code starts with, whatever the
  ledger says - and `balance` what the ledger has.  No property speaks of the two: the code
  has no way to keep them together, and no document says that it does.
* `Console`: prompt *n* and the reply to it have the same number; `printed` pairs them.
  `ports` is what `gateway` picks among `busyPorts`.
* `Telegram`: `handling` is the update whose handler awaits; `album` with `flushing` the
  buffer of an album and its task; `sending` the reply, chunk, mode and attempt the
  dispatcher is at.  Whatever fails may have been carried out, a time-out or not
  (`ShownOrNot`); `uncertain` are the chunks that were.
* `Mailbox`: `fetch` is the poll in its thread, `processed` the bounded set of uids,
  `unseen` the flags at the server.
* `Mochat`: `ack` and `poll` are requests under way - the subscription of a connection may
  still be waited for when the next one connects (`oldCalls`), and time out -; `entries`
  with `timer` what waits to be handed over; `cursor` and `cursorFile` the session's cursor
  and its saved value.  An answer carries `WatchLimit` messages at most.  `base` is where the
  history of a session ends, the messages that were there when it was found; `missed` are
  later ones that the code passed over.  `orphans` are entries whose timer outlived the
  instance.
* `Inbox`: `adapter` is one of eight; `work` the deliveries whose handlers await.
  `Outbox`: `sender` is one of eight; `todo` the calls to come for one reply, whose
  fallbacks depend on the answers so far.  Discord posts an empty payload for a reply without
  text, as the code does: `split_message("")` is `[""]`, so that its notice of failed files
  (`discord.py:119`) is never sent.  `Cards` computes the elements for a text of
  lines; that they hold the text is checked for all texts of up to four lines, and proved
  for all texts.
* `Typing`: `hearing`, `replying`, `closing` are the handler, `send()` and `stop()`, each
  possibly awaiting a task it has cancelled; `registered` is `_typing_tasks`.
* `ClawSocial`: each client has a link, a receive task, heartbeat tasks and a reconnect
  task; `leaving` is where `disconnect()` is.  `Letters`: `pending` is
  `_pending_acks`, `answer` the future of each `send_message`; the router loses,
  repeats and reorders.
* `FileTools`: `before` is the file before the last call.  `PromptFiles`: `pages` are the
  writers between truncation and the end of their writing, `event` and `reading` the
  watcher.

## 3. What the runs check

| Run | Result | Question |
|---|---|---|
| `cron_calls` | holds | Do timer, due list and file stay in step under calls, ticks, crashes and restarts; are commands honoured; do one-shots complete once; do due jobs start? |
| `cron_edits` | holds | Is a job left alone that another process disabled while nothing was executing? |
| `cron_midtick` | violated | And one that it disabled while another job was executing? |
| `cron_runsonce` | violated | Does a one-shot job run to its end once it was started? |
| `flow_channels` | holds | Isolation, loop protection, order of replies, order of the saved conversation. |
| `flow_requests` | holds | Do gateway replies stay with the user; is every waiter cleaned up? |
| `flow_live` | holds | Does a queued reply end the requests of its user, without the help of their deadlines, and reach all chats? |
| `flow_correlated` | violated | Does a client get the reply to its own message? |
| `feed_savedonce` | violated | Is each message of the dashboard saved once? |
| `users_oneowner` | violated | Does an endpoint stay with one account? |
| `stores` | holds | Do the stores survive their writers, instances and crashes; do calls of a model go where they belong and come back whole? |
| `services` | holds | Are messages heard once and shown in order, whatever is repeated, lost or stopped; can what runs be stopped; do files keep what nobody changed? |

The violated runs each state what a document, comment or test says:

* **cron_midtick**: `_on_timer` makes its list of due jobs once.  When another process
  disables the second of two due jobs while the first is executing, the tick goes on with
  its list and starts it.  `tests/test_cron_service.py:36` promises that such a change is
  picked up before a job is executed, and passes because it makes the change while no
  job is executing.
* **cron_runsonce**: any call that arms the timer cancels a job in the middle.  The
  one-shot stays due and is executed again from its beginning; `skills/cron/SKILL.md:14`
  says it runs once.  What does hold is that it *completes* once
  (`OneShotNotRepeated`).
* **flow_correlated**: the mind drops the `request_id`, and the gateway accepts a
  reply without one (`docs/en/architecture.md:116`).
* **feed_savedonce**: the history saves a message; the dashboard then loads its copy of
  the conversation, and only then does its websocket forward the same message and add it.
  `add_message` compares with the last message of its own copy only, although the comment
  at `session/manager.py:43` says that it avoids saving repeated messages.  A second tab has
  the same effect.
* **users_oneowner**: `delete_user` reads everybody's mappings in its thread and writes them
  back.  An endpoint that the websocket's loop moves from one account to another in
  between is written back to the old one, and then stands in the files of both.  The
  repository's `README.md` says that a mapping binds an identity to one user profile.

### The properties of `stores` and `services`, and what they excuse

Several of these hold except in cases where the code plainly does otherwise.  Each
exception is a history variable or a named condition, so that it covers the one case and no
other; the hazard it belongs to in `PROJECT.json` has a note that says so.  Of the flow,
`NeverAnswersItself` excepts echoes that come after the guard's 20 seconds.

| Property | Says | Excused |
|---|---|---|
| `DeploymentsResolve` | the candidate and snapshot a deployment names exist, in every instance, whenever the process died | |
| `RejectedIsNotServed` | a rejected candidate is not left under canary | |
| `OverwrittenTextIsKept` | a prompt that is overwritten was copied before | a roll-back, which returns to a copy |
| `ShownInOrderOnce` | a connection shows events in order and once | events whose id was cut from `seen_event_ids` |
| `AccountsKept` | an endpoint leads only to accounts that asked for it; a deleted account stays deleted | an account whose profile somebody held in memory - a cache, a request, the loop - as its folder was removed |
| `SettingsKept` | `config.json` can be read and holds the last value saved | saves over a file loaded earlier, two saves in `config.tmp` at once, invalid values (they load as defaults and are saved as such), a second key |
| `TailerDeliversLines` | `AuditTrail` implements `LineStream` | |
| `ModelCallsKept` | a key goes to its own provider; calls and results are paired; what is read is what was streamed | a provider without an address of its own uses the one another left in litellm; the standing provider keeps the key of the start; Codex requests may hold empty texts, and a stream that is cut ends as "stop" |
| `InstancesKept` | a running instance can be stopped by its key; routes are indexed | instances of `start_all` that were replaced or removed; an instance started under a key while a stop of that key was still to pop it |
| `OrderlyEnd` | at the end nothing runs and the state is saved; no service stops twice | a `stop()` that a signal began is cut short when `run()` returns first (`scheduler.py:882`) |
| `NothingSkipped`, `SeenIsHeardOrWaits` | Mochat's cursor passes over nothing that was not heard; what was seen is heard once or waits for a timer | the history of a session; what was posted since but came in its first payload, which the code takes for history as a whole; answers to subscriptions that were late; answers cut at the watch limit and overtaken by pushes |
| `AgentsReached` | one connection; an acknowledged letter was read; exactly those that wait can be reached | a client that was reconnecting when it was stopped (it connects once more, `websocket_client.py:624`); two letters with one `msg_id` (same words, same millisecond); a letter encrypted for a lost key; a receive loop cancelled at that moment |
| `InboundOnce` | updates, mails and posts are handed to the bus once, none is lost | ids that left a window; mails still unseen when their uid was forgotten, or of a poll that raised; Slack's two events of a mention while it does not know itself |
| `RepliesShown` | chunks and parts are shown in order and once; DingTalk and Matrix name what they give up | calls that failed though carried out, in whatever way; the six others give up a file silently; a single word longer than a chunk, against `each <= max_length` at `utils/helpers.py:56` |
| `TypingKept` | a keepalive can be found and stopped, ends with the answer, and with `stop()` | Discord's handler may start one after `stop()` |
| `ConsoleKept` | a reply stands under its prompt; the gateway's ports differ | a provider's answer without text leaves the prompt waiting for ever (`agent/loop.py:588`); ports the user gives; the port after the default one taken |
| `FilesKept` | an edit keeps the rest; the editor saves the file it shows; templates are those of the files | a text that overlaps itself is counted as one; a file asked for by its bare name that lies in several folders, or in none but the root; removed and renamed templates stay in memory |

### What the modelling showed beside the violated runs

These follow from the code as modelled and contradict no document's sentence exactly
enough to be a run of their own, or concern code that never gets as far as having a
state:

* The fan-out includes the chat that the message came from, where `docs/en/channels.md:60`
  and `tests/test_multi_user_isolation.py:203` leave it out (`IOProcessor!Targets`).
* Without a user manager `origin` is unbound in `_collect_outbound_targets`
  (`agent/loop.py:393`), in the very branch whose comment guarantees delivery to the
  dashboard: every reply is lost (`IOProcessor!Act`).
* A channel that is started under a key, while a stop of that key awaits the end of the
  task before it, is dropped from the table by that stop: it runs on, and cannot be stopped
  (`Channels`).
* `consolidate` hides messages that no summary tells of when more come in while it awaits
  the provider, or when the session is cleared then (`Consolidation`).  Nothing calls it.
* Mochat loses what was posted between finding a session and its first payload, and what
  an answer of `watch_limit` messages leaves out when a push follows (`Mochat`).
* Every cron job fails: the scheduler's callback uses `reactive_engine.tools` and
  `.process_direct`, which the I/O processor does not have (`agent/scheduler.py:657`).
  `Cron` treats `on_job`'s exception and its return alike.
* A spawned subagent fails at its first step (`agent/subagent.py:66`); nobody calls
  `set_context` of the message, cron and spawn tools.
* `crabclaw agent -m` always answers "Agent not initialized" (`Console`, command
  `message`).
* Settings of tools and MCP servers are looked up at the root of the configuration,
  where the schema does not have them (`agent/scheduler.py:84`, `config/schema.py:321`),
  so that file tools are never restricted to the workspace.
* The profile page's pattern takes text of the body with it (`dashboard/server.py:1733`).
* The watcher of prompts is not started when the folder does not exist at the start.
* The tailer neither sleeps nor awaits while the log ends in a cut line
  (`dashboard/tailer.py:106`).
* The agent's proposals to others are unreachable, and an agent whose confidence has
  come down to nothing follows none of its drives but hunger any more (`Metabolism`).
* An answer of *n* tool calls puts its text into the conversation *n* times
  (`Dialogue`).
* ClawSocial's encryption is never active, since nobody registers a peer's key;
  `send_message` of its manager reports success after a time-out.
* A message that gets no answer leaves the typing indicator on (`Typing`).

### Bounds

* `cron_calls`: three jobs (a one-shot that is deleted, one that is kept, a recurring
  one), one caller of `run_job`, clock up to 4, five calls.  Five calls are enough to
  add the three jobs and cut two ticks; the one-shots fall due at 2 and 3, so both can
  be in one due list and one can be rescheduled.  Crashes and restarts are unbounded.
* `cron_edits`, `cron_midtick`: two edits, so that a job can be disabled and
  enabled again; the schedules include a cron expression that never matches.
* `flow_channels`: three messages - one by a linked user on a chat, one by a stranger
  on another, one by the same user on the dashboard - and one echo, which may be late.  The fan-out reaches
  three chats, one of which the user never wrote from.
* `flow_requests`: three requests in one chat, so that two share a waiter and a third
  removes it.  The two strangers are symmetric.
* `flow_live`: two messages; liveness concerns one of them at a time.
* `stores`: two candidates for one prompt and five operations (generate, canary,
  measure, promote, and one that meets the result); three events and a window of two
  event ids of which one is kept; four messages, two calls of `consolidate`, two
  failures, one `clear`; two accounts (one the administrator), one endpoint they compete
  for, one thread beside the websocket's loop (with two it takes longer than a run should:
  the theorem `AccountsStay` is about any number); files of two lines with one kept, five lines, so that the log rotates twice;
  two writers, three changes, two keys; three providers - a gateway, one with a key apart,
  one that signs in; two rounds of two tool calls.
* `services`: two keys, three instances, two tabs; two signals; three posts of which one
  mentions the agent, answers of one message, two calls that wait, two lives; two clients and two losses; three updates, two replies
  of several chunks, two time-outs; three mails, two uids; two posts and one repetition
  with a window of one; two files and two texts; texts of four lines for the cards; six
  units of energy; two prompts, six ports; two letters, one peer that may restart; two rooms,
  one of them direct, and two keepalive tasks.  Each is the least with which the case
  that the property is about happens: the fault seeds show that for every property.
* `feed_savedonce` has one tab, so that the repetition is not one of two tabs;
  `users_oneowner` two accounts and one thread.
* `CHECK_DEADLOCK FALSE` everywhere: an idle process with nothing left to receive is
  not an error, and the bounds end behaviours.

### Fairness

`Cron!FairSpec` assumes that an expired timer is run by the event loop and that
`on_job` returns (its agent turn has an iteration limit and the provider a time-out).
Nothing is assumed of callers, crashes, or the clock.  `Flow!Fairness` assumes that
each listener runs when its queue is not empty, that the mind goes on ticking and its
provider call returns, and that a request which waits takes a reply that is there for it.
A user is never obliged to write, nor a platform to echo.  A request's deadline may never
come: `RepliesEndRequests` says that the reply ends it.
`stores` and `services` state safety only; where the code promises that something
happens in the end (a timer that is set, an event that is told, a call that waits can be
reached), the property says that whatever is to happen is still on its way
(`SeenIsHeardOrWaits`, `TemplatesFollowFiles`, `TurnsPaired`, `WaitersAreReached`).

## 4. What is proved

Each theorem is about a module's own specification (`Spec`, `PromptSpec`, `FeedSpec`, ...)
under nothing but the named assumption on its constants, where no other hypothesis is
mentioned.  TLC evaluates these assumptions in the runs.  Where the invariant of a theorem
is not the property itself, TLC agreed to it before it was proved.  `StoresApart` and
`ServicesApart` show that in `MCStores` and `MCServices` each component behaves as its own
specification says, so the theorems about components hold of what the runs check.

### `CronProofs`

For any number of jobs, any schedules, callers and bounds:

* `TypeCorrect`: `Spec => []TypeOK`, external edits included.
* Under `MaxEdits = 0`: `Invariance`, `TimerCovers`, `DueListFresh`,
  `SavedWhenNotExecuting`, `CommandsHonoured`, `OneShotsNotRepeated`.

The assumption `MaxEdits = 0` (nobody else edits the file) is needed: the run
`cron_midtick` shows that commands are not honoured otherwise, and a reload
during a job makes the timer lag.

The inductive invariant `IInv` has these parts.  `TasksHoldStore`: a running service
has a store that matches its file, a stopped one has no timer task, and whoever
executes a job holds an object of the current store.  From it follows `LoadedInUse`:
`_load_store` never replaces a store that is in use, which is why no update is lost.
`TimerCoversJobs`, `DueListIsFresh` and `SavedWhenIdle` are inductive together with it,
because every change of the store that could invalidate a due list goes through
`Arm`, which drops the list, and saves (`SaveAndArm`); the one change that does neither is
the end of a job in the middle of a list, which touches only that job.
`OnMeansWished` must speak of memory *and* file, since after a crash the file becomes
the memory.  For one-shots this is the crux: a crash may lose the save that recorded a
completion, so the file may still have the job enabled and due; it is not started
again only because `start` computes the next run anew and the time of a completed
one-shot has passed (`OneShotTimes` on both, `SpentNotPending` for a running service).
`OnlyBorn` says that ids are not reused.

The step theorem has one case per action; `StartedIsDue` derives both action
properties: only the timer task starts a job, and one that is due in the store.

### `FlowProofs`

For any messages, users, chats, links, limits, and with or without a user manager:
`TypeCorrect`, `Invariance`, `ScopeIsolation`, `LoopProtection`, `ReplyOrder`,
`AnswersArePrivate`, `WaitersEnd`, and `ConversationOrder`.

`IInv` is `TypeOK /\ WrittenOnce /\ Traffic /\ InLine`.  `Traffic` bounds what may be in each
queue: beside a chat's own messages the bus holds only echoes, each of which is still
remembered, so that the listener drops it, or is too late; and only of the late ones does the
mind ever think (`LoopProtection`).  And what is queued for a chat answers
somebody whose scope reaches that chat (`ScopeIsolation`).  `InLine` is needed for the order
of replies, which leaves answers to late echoes aside: everything between a chat and the reply that appears in it - sent,
queued for sending, queued as an action, being thought about, a stimulus, not heard
yet - is one line of six parts, of which each is sorted and stands before the next ones.  An
action moves the head of one part to the end of the one before it, which keeps this
because messages are written once.  The order is among those that came in the same way:
the bus and the broadcast manager are two queues with two listeners.

`AnswersArePrivate` adds that a reply carries the scope of the message it answers
(`Private`), `WaitersEnd` that a waiter belongs to a request that still waits (`WaitersHeld`).
`ConversationOrder` has one hypothesis, `EchoesAreMapped`: whoever writes in a chat in which
the platform echoes is resolved by that chat's mapping, so that an echo, which has no
other way to be resolved, is saved in the conversation of the message it answers.
Otherwise it is saved elsewhere, and nothing orders the two conversations.

### `StoreProofs`

* `AccountsStay`: `AccountsKept` for any accounts, endpoints, threads and instances.  The
  invariant says of each worker, between any two of its accesses to the files, what it may
  have read and is about to write: every mapping that it holds was asked for by the account
  in whose file it stood or is to stand (`AskedPairs`), and whatever it does for an
  account belongs to one that exists, or that somebody held in memory when it went
  (`Gone`, `Fits`).  It says nothing of how many accounts have an endpoint, because in the
  code they can be several (`users_oneowner`).
* `SettingsStay`: `SettingsKept`, from where each writer stands and how old its copy is.
* `StoresStayTyped`: `StoresSpec => []StoresTypeOK`, from a theorem for each of the eight stores
  (`UsersStayTyped`, ... ; those of `PromptProofs` and `FeedProofs` stand there).  A type
  follows from the component's invariant and from what bounds it that no property needs:
  that a counter stops at its bound, that the copies of a session file are numbered
  (`SavedCopies`), that a slice is no longer than what it is cut from.

### `PromptProofs`

* `DeploymentsStayResolvable`, `RejectedStaysOff`, `OverwrittenTextStays`, from `PromptInv`:
  what memory, `state.json` and the second instance name was written before they
  named it, and candidates and snapshots are never removed (`SoundGrows`).
* `ModelCallsStay`, for any callpoints, providers, rounds, parallel calls and pieces.  `CallsInv`
  says that what a callpoint holds fits its route up to the address another one left.
  `DialogueInv` follows a stream event by event: what has been read is what has been sent
  (`ReadAsSent`), also for arguments that come in pieces in any order of
  calls; the conversation is pairs of calls and results with ids of their own
  (`Conversed`), and the request made of it keeps them together through the conversion of
  each provider (`WireFacts`, whose crux is flattening a list of lists).

### `FeedProofs`

* `EventsShownInOrder`: `ShownInOrderOnce` for any number of connections; an event that waits in
  a queue is newer than all that is shown, or its id is known, or was cut (`OrderInv`).
* `AuditImplementsStream`: `AuditSpec => TailerDeliversLines`, where the latter is the
  specification of `LineStream` under the refinement mapping.  `AuditInv` says that the
  tailer stands right after the lines it has published and that only the newest
  file is written; then every step of `AuditTrail` is one of `LineStream` or changes nothing there.

### `HostProofs`

* `InstancesStayStoppable`: `InstancesKept`, with the fact that a task has its channel.
* `ShutdownIsOrderly`: `OrderlyEnd`.  The invariant says who runs `stop()` and how far it
  is (`MainHasStop`, and that a caller in the middle of it is the `stopper`).
* `AgentsStayReached`: `AgentsReached`.  `OneConnection` shows that a client which was replaced is
  on its way out or gone for good; `LettersArrive` that exactly the letters that wait
  have an entry of their own, and that the router can only acknowledge what was treated.

* `TypingFollows`, `RepliesStandUnderPrompts`: `TypingKept` and `ConsoleKept` (the last with the fact that the search for a port finds the first free one).

* `FilesStay`: `FilesKept` for any text, files, folders and templates, of `FileToolsSpec` and
  `PromptFilesSpec` together.  For `edit_file` the crux is what `str.count` says: it scans for
  places that do not overlap, so a text it counts once has a first place and every other place
  overlaps that one (`SeenUpto`, `CountedOnce`); hence replacing that place keeps what stands
  before and after it.  For the prompts the invariant (`PromptFileInv`) says that a
  page between truncation and the end of its writing belongs to a file that is there, that the
  file shown is the file saved (`ShownHere`), and how far the watcher lags behind the files.
* `ServicesStayTyped`: `ServicesSpec => []ServicesTypeOK`, from a theorem for each of the fourteen
  services (`ChannelsStayTyped`, ..., `MochatStaysTyped`).  Some of it is more than types: no
  action of the life loop takes energy, confidence or credits below zero (`BodyStaysTyped`); the
  window of ids of an adapter never holds more than it is to (`InboxStaysTyped`), nor does
  the mailbox remember more uids (`MailboxStaysTyped`); and nothing that Mochat has queued,
  delayed, handed over or lost is a message that was not posted, nor does an answer
  reach further than what is posted (`Concerned`).

### `AdapterProofs`

* `InboundStaysOnce`: `InboundOnce` for any users, mails, posts, windows, repeats and time-outs,
  of the receiving sides of Telegram, of the mailbox and of the eight adapters of `Inbox`
  together.  Its three parts are theorems of their own:
  * `UpdatesHandedOnce`: an update of Telegram is in one of five places - waiting, being
    handled, in the album's buffer, handed over, or dropped (not for the bot, or the
    sender not allowed) - and once in there; a buffer that is not empty has its flush.
  * `MailsHandedOnce`: a mail that was delivered, or is about to be, is among the uids that are
    remembered or that were forgotten when there were too many (`MailInv`).
  * `PostsPassedOnce`: what an adapter has passed on is in its window of ids, or was pushed
    out of it (`PostsKnown`, `WindowHolds`); without a window, a post is passed on as often as the
    platform delivers it (`DeliveriesCounted` adds up what is on the wire, with the
    handlers and passed on); queues keep their order (`PostsInLine`).
* `CursorsSkipNothing`, `EachMessageOnce`: `NothingSkipped` and `SeenIsHeardOrWaits` of Mochat.  The
  invariant says of every payload on its way - answers to subscriptions, polls, pushes -
  that it reaches from a cursor at or below the present one without a gap, but for what is
  `missed` already (`CursorCovered`), and that what a filter removes has been seen (`UnseenFacts`).
* `RepliesStayShown`: `RepliesShown` for any replies, limits, failures and time-outs.  Its parts:
  * `RepliesStayRead`, of Telegram: what the chat shows comes before the chunk that is being
    sent, or is that chunk after a call that failed though carried out (`SpeechInv`); and what was cut
    into chunks is what the reply says (next item).
  * `SplitMessageKeepsTheWords`: for every limit and text, `split_message` keeps the words in
    order, and a chunk is too long only if it is one word.  Each word, then each paragraph,
    adds its words to the end of what the chunks so far and the one being filled
    hold, and leaves them short enough.
  * `PartsStayShown`, of the eight adapters of `Outbox`: every part of a reply has a place in
    its adapter's order (`Where`); what is to be called stands in that order (`InLine`) and
    what is shown comes before it (`ShownFirst`, `ShownInOrder`) unless a call failed that was
    carried out.  For Discord, DingTalk and Matrix, `TextsFollow`, `FilesAccounted`,
    `DingTalkNames` and `MatrixNames` say where each part that is not shown is accounted for.
  * `CardsHoldEveryText`, of Feishu: for every text the cards hold each line once, one
    table at most each, and no heading from within code.  The last rests on fences
    being counted in the text around a line: if no table starts in code, the tables before a
    line hold all of a block or nothing, and the parity of the fences is the same
    there as in the whole text.

### How recursion is dealt with

Recursive definitions in these modules are functions on numbers (`Unseen`, `Without`, `Count`,
the library's `FlattenSeq`).  That such a definition has a value at each number and what it is
there is shown in `QueueFacts` from the library's least-number principle
(`RecursionHasValue`, `CountingUp`, `LeastOf`); no induction rule with a predicate as
a parameter is used.  Where a result is about all texts, the induction is over the set of
numbers up to which it holds (`CountingUp`).

### What the attempts showed about the model

Some definitions could not be proved about because they were not what they should be, and
were corrected from the source:

* `Settings`: a writer could pass for up to date when the value it had loaded was saved
  again by somebody else in between; `Outdated` now compares changes, not values.
* `PromptEvolution!Decision` had overlapping branches of a CASE, whose choice is not
  specified; it is now the IF...ELSE chain of the code.
* `Dialogue`: the ids of calls and the special tokens of a stream shared the
  numbers, which more than a hundred calls in an answer would have shown.
* `Feed`, `Channels` and `FileTools` did not state what their constants must satisfy: a file that
  `edit_file` or `write_file` leaves can be read again only because the limit for writing
  (5 MB) is not above the one for reading (10 MB).  `Telegram` and `Outbox` did not either,
  nor did `Mailbox`.
* The types hold only if some bounds of the instances are not zero, which the assumptions
  now say: `MaxKeyChanges`, `MaxWrites`, `MaxUids` and `Posts` (what is there at the start
  counts), and the agent's `InitialBalance` is not above `MaxBalance`.
* `Chunks` and `Cards` were folds, whose operator argument no prover can look into.  They are
  now recursive functions on the numbers of the words, paragraphs and elements, and what a line
  is (of a table, a heading, code) is said of the line itself, as the regular
  expressions of the code say it.  The cards of all texts of up to six lines are the same
  under both definitions.

### Left to TLC

* `DueJobStarts`, `RepliesEndRequests`, `QueuedReplyIsSent`: liveness and fairness are beyond
  this prover.

Every invariant and every action property that a passing run checks is stated by a theorem,
some under a hypothesis the section on it names (no foreign edits of the cron file,
echoes that are mapped).

## 5. Abstractions worth knowing

* Cron expressions are "the next multiple of a number"; milliseconds are a small
  counter; `on_job`'s result is ignored since a value and an exception take one path.
* `run_job` needs `running` in the model, because the scheduler starts the service
  before anything can call it.  The CLI's use of an unstarted service is the
  `ExternalEdit`.
* Texts are distinct, so the guard's mistake of dropping a user's message that equals
  a recent reply is not visible.
* Failures of `channel.send` have no effect on the bus and appear as a successful send.
* In `Flow`, identity mappings are fixed and give an endpoint to one user.  `Users` shows
  that the code which changes them can come to give it to two.
* In `Users`, a profile is read, written or removed in one step; the files of the mappings,
  which several workers rewrite as a whole, are not.
* In `Flow`, each chat's part of the outbound queue is served fairly on its own: a channel
  that never returns from `send()` holds up all others in the code, and not there.
* Stimuli from other agents (ClawLink), collaboration proposals, `_progress` messages and
  messages published by tools in the middle of an answer are left out.
* A text is a number, a set of sections, a sequence of line kinds or of word lengths:
  whatever the properties of the module tell apart.
* The two directions of the Telegram adapter are checked one at a time; they share
  only the running state and the typing task.
* Each adapter in `Inbox` and `Outbox` is a value of one constant choice: its actions are
  disjuncts of its own where its code differs, and shared where it does the same.
* The ledger, the mail server, the Mochat and ClawSocial servers, the chat platforms
  and other programs that write files are modelled by what the code expects of them, and
  marked external.

## 6. Plan

Done so far: the cron service, the message flow, the stores and the services; the proofs
of section 4.  Next, in this order:

1. `CronSpec`, an abstract scheduler (wishes, due times, starts, completions) which `Cron`
   without external edits implements; the refinement proved from `IInv`.
2. ClawLink in `IOProcessor` and `Mind`.

## 7. Not modelled

* `agent/context.py`, `agent/skills.py`, `i18n/`, `config/paths.py` and the HTML of the
  dashboard: text and layout.
* Parsing, signatures and encryption of vendor protocols; the conversion of Markdown to
  HTML; passwords and tokens' expiry.
* Shell, web and MCP tools: input and output with the operating system and the
  network, without state of the program's own between two calls.
* Read-only pages of the dashboard and of the gateway; the alert rules of prompt
  evolution, which only colour a page.
* `utils/cache.py`, `utils/http_pool.py`, `utils/container.py`, `utils/microservices.py`,
  `utils/plugin_system.py`, `utils/metrics.py`, `agent/skill_discovery.py`: nothing in the
  program uses them.
* Hazards that no property covers, because the code does what the hazard says and no
  document promises otherwise, or because nothing gets there: the echo guard's 20 seconds
  (`agent/loop.py:439`), what a tick drops (`sapiens/psychology.py:60`), replies without a
  user manager or a dispatcher (`agent/loop.py:393`), the key that a stop pops
  (`channels/manager.py:145`), the offset of `consolidate` (`agent/memory.py:275`), what Mochat
  passes over (`channels/mochat.py:699`), lost answers of the ledger and hunger that is not
  in focus (`sapiens/sociology.py:92`), and profiles that outlive their account in memory
  (`user/manager.py:352`).  The models have them, and the properties next to them name them
  as their exceptions.

`PROJECT.json` gives the state of each component.
