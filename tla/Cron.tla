-------------------------------- MODULE Cron --------------------------------
(***************************************************************************)
(* The cron service (crabclaw/cron/service.py): a list of jobs kept in     *)
(* memory and in jobs.json, one asyncio timer task that sleeps until the   *)
(* earliest next run and then executes the due jobs one after the other,   *)
(* and the public methods (add_job, remove_job, enable_job, run_job,       *)
(* list_jobs, start, stop), which any coroutine may call while the timer   *)
(* task waits inside `await self.on_job(job)'.                             *)
(*                                                                         *)
(* Everything between two awaits is one action, since nothing else of the  *)
(* event loop can run there.  A job's identity stands for the CronJob      *)
(* object: ids are given in the order in which jobs are appended, so the   *)
(* list order of the code is the order of the ids.  A job's name, payload, *)
(* last_status and last_error are not modelled, and on_job's outcome is    *)
(* not either: a returned value and an Exception take the same path.       *)
(***************************************************************************)
EXTENDS Naturals, FiniteSets, FiniteSetsExt

CONSTANTS
  NumJobs,          \* how many job ids may ever be given out
  Schedule,         \* the schedule each id is added with
  Callers,          \* coroutines that call run_job
  MaxTime,          \* bound on the clock
  MaxCalls,         \* bound on the calls of add/remove/enable/run_job
  MaxEdits,         \* bound on edits of jobs.json by another process
  EditsDuringRuns   \* may such an edit land while a job is executing?

Jobs == 1..NumJobs

ASSUME CronAssumption ==
  /\ NumJobs \in Nat /\ MaxTime \in Nat /\ MaxCalls \in Nat /\ MaxEdits \in Nat
  /\ EditsDuringRuns \in BOOLEAN
  /\ Schedule \in [Jobs -> [kind : {"at", "every", "cron"}, arg : Nat, delete : BOOLEAN]]

NoJob == 0      \* no job is being executed
Never == 0      \* next_run_at_ms is None; also: no timer is sleeping

VARIABLES
  now,      \* the wall clock
  mem,      \* self._store.jobs
  loaded,   \* self._store is not None
  disk,     \* what jobs.json parses to (an unreadable file parses to no jobs)
  synced,   \* self._last_mtime is the file's mtime
  running,  \* self._running
  timer,    \* wake time of the sleeping timer task, or Never
  tick,     \* what the timer task executes: [job, orphan, queue]
  runs,     \* what each caller of run_job executes: [job, orphan]
  born,     \* how many ids have been given out
  calls,    \* calls made so far
  edits,    \* external edits made so far
  wish,     \* history: what the last command about each job asked for
  spent     \* history: jobs completed since they were last switched on

storeVars == <<mem, loaded, disk, synced>>
execVars  == <<timer, tick, runs>>
histVars  == <<wish, spent>>
boundVars == <<born, calls, edits>>
vars == <<now, storeVars, running, execVars, boundVars, histVars>>

-----------------------------------------------------------------------------
(* Jobs, schedules and stores *)

JobState == [state : {"absent", "on", "off"}, next : Nat]
Absent   == [state |-> "absent", next |-> Never]
NoJobs   == [j \in Jobs |-> Absent]

Present(s, j) == s[j].state # "absent"
Pending(s, j) == s[j].state = "on" /\ s[j].next # Never
Due(s, j)     == Pending(s, j) /\ s[j].next <= now

OneShot(j) == Schedule[j].kind = "at"

(* _compute_next_run: a one-shot time that has passed, an interval of zero *)
(* and an expression croniter rejects all give None.  A cron expression is *)
(* abstracted to "the next multiple of arg".                               *)
NextRun(j) ==
  LET a == Schedule[j].arg IN
  IF a = 0 THEN Never
  ELSE CASE Schedule[j].kind = "at"    -> IF a > now THEN a ELSE Never
         [] Schedule[j].kind = "every" -> now + a
         [] Schedule[j].kind = "cron"  -> (now \div a + 1) * a

\* Fault seed: overdue jobs are not taken into account.
NextWakeOfFutureOnly(s) ==
  LET times == {s[j].next : j \in {i \in Jobs : Pending(s, i) /\ s[i].next > now}}
  IN  IF times = {} THEN Never ELSE Min(times)

(* _get_next_wake_ms *)
NextWake(s) ==
  LET times == {s[j].next : j \in {i \in Jobs : Pending(s, i)}}
  IN  IF times = {} THEN Never ELSE Min(times)

(* _recompute_next_runs *)
Recomputed(s) ==
  [j \in Jobs |-> IF s[j].state = "on" THEN [s[j] EXCEPT !.next = NextRun(j)] ELSE s[j]]

(* The part of _execute_job after the await, on the store `s'.  The delete *)
(* is by id on the current store; every other update is made on the job    *)
(* object, which is no longer part of the store when the store was         *)
(* reloaded (orphan) or the job removed in the meantime.                   *)
Executed(s, e) ==
  LET j == e.job IN
  IF OneShot(j) /\ Schedule[j].delete THEN [s EXCEPT ![j] = Absent]
  ELSE IF e.orphan \/ ~Present(s, j)  THEN s
  ELSE IF OneShot(j)                  THEN [s EXCEPT ![j] = [state |-> "off", next |-> Never]]
  ELSE [s EXCEPT ![j].next = NextRun(j)]

-----------------------------------------------------------------------------
(* Loading, saving, arming *)

(* _load_store reads the file when nothing is loaded or the mtime differs. *)
(* It does not record the mtime it read, so only a save makes them equal.  *)
Reloads == ~loaded \/ ~synced

\* Fault seed: a loaded store is never checked against the file again.
LoadedOnce == IF loaded THEN mem ELSE disk

Loaded == IF Reloads THEN disk ELSE mem

\* A job that is executing when the store is replaced keeps the old object.
RunsAfterLoad ==
  [c \in Callers |-> [runs[c] EXCEPT !.orphan = @ \/ (Reloads /\ runs[c].job # NoJob)]]
TickAfterLoad == [tick EXCEPT !.orphan = @ \/ (Reloads /\ tick.job # NoJob)]

KeepLoaded(s) == mem' = s /\ loaded' = TRUE

(* _save_store *)
Save(s) == KeepLoaded(s) /\ disk' = s /\ synced' = TRUE

IdleTick == [job |-> NoJob, orphan |-> FALSE, queue |-> {}]
IdleRun  == [job |-> NoJob, orphan |-> FALSE]

\* Fault seed: the previous timer task is left alone while it is executing jobs.
ArmWithoutCancel(s) ==
  /\ tick' = TickAfterLoad
  /\ timer' = IF running THEN NextWake(s) ELSE Never

\* Fault seed: the timer is given the delay, not clipped at zero.
ArmRelative(s) ==
  /\ tick' = IdleTick
  /\ timer' = IF running THEN NextWake(s) - now ELSE Never

(* _arm_timer cancels the current timer task, whether it sleeps or is in   *)
(* the middle of its due jobs (CancelledError is not an Exception, so      *)
(* _execute_job does not go on), and creates the next one.                 *)
Arm(s) ==
  /\ tick' = IdleTick
  /\ timer' = IF running THEN NextWake(s) ELSE Never

-----------------------------------------------------------------------------
(* The public interface *)

Init ==
  /\ now = 1
  /\ mem = NoJobs /\ loaded = FALSE /\ disk = NoJobs /\ synced = FALSE
  /\ running = FALSE
  /\ timer = Never /\ tick = IdleTick /\ runs = [c \in Callers |-> IdleRun]
  /\ born = 0 /\ calls = 0 /\ edits = 0
  /\ wish = [j \in Jobs |-> "none"] /\ spent = {}

\* Fault seed: next runs are taken from the file as they were saved.
StartWithoutRecompute ==
  /\ running' = TRUE
  /\ Save(Loaded)
  /\ tick' = IdleTick /\ timer' = NextWake(Loaded)
  /\ runs' = RunsAfterLoad
  /\ UNCHANGED <<now, boundVars, histVars>>

(* start: every enabled job's next run is recomputed from the clock *)
Start ==
  /\ running' = TRUE
  /\ Save(Recomputed(Loaded))
  /\ tick' = IdleTick /\ timer' = NextWake(Recomputed(Loaded))
  /\ runs' = RunsAfterLoad
  /\ UNCHANGED <<now, boundVars, histVars>>

(* stop: cancels the timer task and saves nothing *)
Stop ==
  /\ running
  /\ running' = FALSE
  /\ timer' = Never /\ tick' = IdleTick
  /\ UNCHANGED <<now, storeVars, runs, boundVars, histVars>>

CountCall == calls < MaxCalls /\ calls' = calls + 1

AddJob ==
  /\ CountCall
  /\ born < NumJobs
  /\ LET j == born + 1
         s == [Loaded EXCEPT ![j] = [state |-> "on", next |-> NextRun(j)]]
     IN  /\ Save(s) /\ Arm(s)
         /\ born' = j
         /\ wish' = [wish EXCEPT ![j] = "on"]
  /\ runs' = RunsAfterLoad
  /\ UNCHANGED <<now, running, edits, spent>>

RemoveJob(j) ==
  /\ CountCall
  /\ Present(Loaded, j)
  /\ LET s == [Loaded EXCEPT ![j] = Absent]
     IN  Save(s) /\ Arm(s)
  /\ runs' = RunsAfterLoad
  /\ wish' = [wish EXCEPT ![j] = "gone"]
  /\ UNCHANGED <<now, running, born, edits, spent>>

\* Fault seed: the change is not written to jobs.json.
EnableJobUnsaved(j, on) ==
  /\ CountCall
  /\ Present(Loaded, j)
  /\ LET s == [Loaded EXCEPT ![j] = IF on THEN [state |-> "on", next |-> NextRun(j)]
                                          ELSE [state |-> "off", next |-> Never]]
     IN  KeepLoaded(s) /\ Arm(s)
  /\ runs' = RunsAfterLoad
  /\ wish' = [wish EXCEPT ![j] = IF on THEN "on" ELSE "off"]
  /\ spent' = IF on THEN spent \ {j} ELSE spent
  /\ UNCHANGED <<now, disk, synced, running, born, edits>>

EnableJob(j, on) ==
  /\ CountCall
  /\ Present(Loaded, j)
  /\ LET s == [Loaded EXCEPT ![j] = IF on THEN [state |-> "on", next |-> NextRun(j)]
                                          ELSE [state |-> "off", next |-> Never]]
     IN  Save(s) /\ Arm(s)
  /\ runs' = RunsAfterLoad
  /\ wish' = [wish EXCEPT ![j] = IF on THEN "on" ELSE "off"]
  /\ spent' = IF on THEN spent \ {j} ELSE spent
  /\ UNCHANGED <<now, running, born, edits>>

(* list_jobs and status load and change nothing else; so do remove_job,    *)
(* enable_job and run_job when they return False or None.                  *)
ListJobs ==
  /\ KeepLoaded(Loaded)
  /\ runs' = RunsAfterLoad /\ tick' = TickAfterLoad
  /\ UNCHANGED <<now, disk, synced, running, timer, boundVars, histVars>>

(* run_job up to its await.  `running' is not a check of the code: it says *)
(* that callers reach the service through a scheduler that has started it. *)
RunJob(c, j, force) ==
  /\ CountCall
  /\ running
  /\ runs[c].job = NoJob
  /\ Present(Loaded, j)
  /\ force \/ Loaded[j].state = "on"
  /\ KeepLoaded(Loaded)
  /\ runs' = [RunsAfterLoad EXCEPT ![c] = [job |-> j, orphan |-> FALSE]]
  /\ tick' = TickAfterLoad
  /\ UNCHANGED <<now, disk, synced, running, timer, born, edits, histVars>>

(* run_job after its await: on whatever self._store is by now *)
FinishRun(c) ==
  /\ runs[c].job # NoJob
  /\ Save(Executed(mem, runs[c])) /\ Arm(Executed(mem, runs[c]))
  /\ runs' = [runs EXCEPT ![c] = IdleRun]
  /\ spent' = spent \cup {runs[c].job}
  /\ UNCHANGED <<now, running, boundVars, wish>>

-----------------------------------------------------------------------------
(* The timer task *)

\* Fault seed: jobs that are switched off are executed as well.
DueJobsEvenIfOff(s) == {j \in Jobs : s[j].next # Never /\ s[j].next <= now}

(* the due_jobs of _on_timer *)
DueJobs(s) == {j \in Jobs : Due(s, j)}

\* The queue's first job is started at once: there is no await in between.
Begin(queue) ==
  [job |-> Min(queue), orphan |-> FALSE, queue |-> queue \ {Min(queue)}]

(* The sleep ends: _on_timer loads and picks the due jobs once. *)
FireTimer ==
  /\ timer # Never /\ timer <= now
  /\ runs' = RunsAfterLoad
  /\ \/ /\ DueJobs(Loaded) # {}
        /\ KeepLoaded(Loaded) /\ UNCHANGED <<disk, synced>>
        /\ tick' = Begin(DueJobs(Loaded))
        /\ timer' = Never
     \/ /\ DueJobs(Loaded) = {}
        /\ Save(Loaded) /\ Arm(Loaded)
  /\ UNCHANGED <<now, running, boundVars, histVars>>

\* Fault seed: a tick that executed its jobs ends without arming the next timer.
FinishTickJobUnarmed ==
  /\ tick.job # NoJob
  /\ LET s == Executed(mem, tick) IN
     \/ /\ tick.queue # {}
        /\ KeepLoaded(s) /\ UNCHANGED <<disk, synced, timer>>
        /\ tick' = [Begin(tick.queue) EXCEPT !.orphan = tick.orphan]
     \/ /\ tick.queue = {}
        /\ Save(s) /\ tick' = IdleTick /\ UNCHANGED timer
  /\ spent' = spent \cup {tick.job}
  /\ UNCHANGED <<now, running, runs, boundVars, wish>>

(* on_job returns or raises; the loop of _on_timer goes on with the next   *)
(* job of the list it picked, or saves and arms.                           *)
FinishTickJob ==
  /\ tick.job # NoJob
  /\ LET s == Executed(mem, tick) IN
     \/ /\ tick.queue # {}
        /\ KeepLoaded(s) /\ UNCHANGED <<disk, synced, timer>>
        /\ tick' = [Begin(tick.queue) EXCEPT !.orphan = tick.orphan]
     \/ /\ tick.queue = {}
        /\ Save(s) /\ Arm(s)
  /\ spent' = spent \cup {tick.job}
  /\ UNCHANGED <<now, running, runs, boundVars, wish>>

-----------------------------------------------------------------------------
(* The environment *)

TimePasses ==
  /\ now < MaxTime
  /\ now' = now + 1
  /\ UNCHANGED <<storeVars, running, execVars, boundVars, histVars>>

(* The process dies.  A crash inside write_text leaves a truncated file,   *)
(* which _load_store reads as no jobs at all.                              *)
Crash(torn) ==
  /\ loaded
  /\ mem' = NoJobs /\ loaded' = FALSE /\ synced' = FALSE
  /\ disk' = IF torn THEN NoJobs ELSE disk
  /\ running' = FALSE
  /\ timer' = Never /\ tick' = IdleTick /\ runs' = [c \in Callers |-> IdleRun]
  /\ UNCHANGED <<now, boundVars, histVars>>

(* Another process with its own CronService on the same file: it loads the *)
(* file, switches a job or removes it, and saves.                          *)
ExternalEdit(j, to) ==
  /\ edits < MaxEdits /\ edits' = edits + 1
  /\ EditsDuringRuns \/ (tick.job = NoJob /\ \A c \in Callers : runs[c].job = NoJob)
  /\ Present(disk, j)
  /\ disk' = [disk EXCEPT ![j] =
                CASE to = "on"   -> [state |-> "on", next |-> NextRun(j)]
                  [] to = "off"  -> [state |-> "off", next |-> Never]
                  [] to = "gone" -> Absent]
  /\ synced' = FALSE
  /\ wish' = [wish EXCEPT ![j] = to]
  /\ spent' = IF to = "on" THEN spent \ {j} ELSE spent
  /\ UNCHANGED <<now, mem, loaded, running, execVars, born, calls>>

-----------------------------------------------------------------------------

Next ==
  \/ Start
  \/ Stop
  \/ AddJob
  \/ \E j \in Jobs : RemoveJob(j)
  \/ \E j \in Jobs, on \in BOOLEAN : EnableJob(j, on)
  \/ ListJobs
  \/ \E c \in Callers, j \in Jobs, force \in BOOLEAN : RunJob(c, j, force)
  \/ \E c \in Callers : FinishRun(c)
  \/ FireTimer
  \/ FinishTickJob
  \/ TimePasses
  \/ \E torn \in BOOLEAN : Crash(torn)
  \/ \E j \in Jobs, to \in {"on", "off", "gone"} : ExternalEdit(j, to)

Spec == Init /\ [][Next]_vars

(* The event loop runs a timer that has expired, and on_job returns: the   *)
(* agent turn it awaits is bounded by its iteration limit and by the       *)
(* provider's time-outs.  Callers, the clock and crashes promise nothing.  *)
FairSpec == Spec /\ WF_vars(FireTimer) /\ WF_vars(FinishTickJob)

-----------------------------------------------------------------------------
(* Properties *)

TypeOK ==
  /\ now \in Nat /\ born \in 0..NumJobs /\ calls \in Nat /\ edits \in Nat
  /\ mem \in [Jobs -> JobState] /\ disk \in [Jobs -> JobState]
  /\ loaded \in BOOLEAN /\ synced \in BOOLEAN /\ running \in BOOLEAN
  /\ timer \in Nat
  /\ tick \in [job : Jobs \cup {NoJob}, orphan : BOOLEAN, queue : SUBSET Jobs]
  /\ runs \in [Callers -> [job : Jobs \cup {NoJob}, orphan : BOOLEAN]]
  /\ wish \in [Jobs -> {"none", "on", "off", "gone"}]
  /\ spent \in SUBSET Jobs

\* The running service never sleeps past a job: unless the timer task is in
\* the middle of its due jobs, the timer is set to the earliest pending run
\* (every path of _arm_timer, _on_timer and run_job, whatever cancelled what).
TimerCoversJobs == running /\ tick.job = NoJob => timer = NextWake(mem)

\* The due list that _on_timer computes once, before the first await, never
\* goes stale: whatever happens during the awaits, the jobs still in it are
\* enabled and due in the store, or the timer task has been cancelled.
DueListIsFresh ==
  \A j \in tick.queue \cup ({tick.job} \ {NoJob}) : Due(mem, j)

\* jobs.json lags behind memory only while the timer task executes a list of
\* jobs, or after stop() has cut such a list short.  (Of a running service only:
\* what a crash leaves in the file is the concern of OneShotNotRepeated.)
SavedWhenIdle == running /\ tick.job = NoJob => disk = mem

TimerStarts(j) == tick'.job = j /\ <<tick.job, tick.queue>> # <<tick'.job, tick'.queue>>

\* The timer executes only jobs whose last command, through this service or
\* through another process, was to be on: a removed or disabled job is not
\* started, not even out of a due list picked earlier or after a crash.
HonoursCommands == [][\A j \in Jobs : TimerStarts(j) => wish[j] = "on"]_vars

\* A one-shot job that has completed, by the timer or by run_job, is not
\* started by the timer again unless it was switched on again, whatever the
\* cancellations, crashes and restarts in between (at-most-once completion).
OneShotNotRepeated ==
  [][\A j \in Jobs : OneShot(j) /\ TimerStarts(j) => j \notin spent]_vars

\* "One-time - runs once at a specific time" (skills/cron/SKILL.md): when the
\* timer task stops executing a one-shot job, the job is not pending any more.
OneTimeRunsOnce ==
  [][\A j \in Jobs : OneShot(j) /\ tick.job = j /\ tick'.job # j /\ running'
                       => ~Pending(mem', j)]_vars

\* A due job of a running service is started, or ceases to be due, however
\* often the timer task is cancelled and re-created by calls in between.
DueJobStarts ==
  \A j \in Jobs : (running /\ Due(mem, j)) ~> (~running \/ tick.job = j \/ ~Due(mem, j))

=============================================================================
