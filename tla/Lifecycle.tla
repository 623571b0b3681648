------------------------------- MODULE Lifecycle -------------------------------
(***************************************************************************)
(* Start-up and shutdown of the program: BehaviorScheduler.run and .stop   *)
(* (crabclaw/agent/scheduler.py).  run() is the main coroutine: it starts  *)
(* the services, waits until a core task ends or stop() has begun, and     *)
(* then either awaits stop() or, when somebody else has begun it, returns. *)
(* A signal starts stop() as a task of its own.  When the main coroutine   *)
(* has returned, asyncio.run cancels the tasks that are left and closes    *)
(* the loop.                                                               *)
(***************************************************************************)
EXTENDS Naturals, Sequences, FiniteSets

CONSTANT Signals   \* the signals the process may get

Main == "main"
Nobody == "nobody"
ASSUME SignalsAssumption == Signals \cap {Main, Nobody} = {}

Services == {"gateway", "dashboard", "cron", "mcp", "engine", "channels"}
CoreTasks == {"engine", "channels"}

\* What stop() does, an await at most in each stage but the first and the last.
Stages == <<"cron", "mcp", "engine", "channels", "dashboard", "gateway", "tasks", "state">>
\* Stages that await a task they have cancelled and suppress the CancelledError.
Swallows == {"channels", "dashboard"}

VARIABLES
  at,        \* run(): "connecting", "waiting", "stopping", "returned", "closing" or "over"
  up,        \* the services that are running
  core,      \* the core tasks that have not ended
  stopping,  \* _stopping
  stopper,   \* who set it: Main or a signal
  stage,     \* for Main and each signal, how far its stop() is; 0 before, Len(Stages) + 1 after
  stops,     \* how often each service was stopped
  unsaved    \* the internal state has changed since it was last saved

lifecycleVars == <<at, up, core, stopping, stopper, stage, stops, unsaved>>

Callers == Signals \cup {Main}
Finished == Len(Stages) + 1

-----------------------------------------------------------------------------
(* Start-up.  The gateway and the dashboard may fail to bind their ports,  *)
(* which is logged; the first await is the connection to the MCP servers.  *)
LifecycleInit ==
  /\ at = "connecting"
  /\ \E bound \in SUBSET {"gateway", "dashboard"} : up = bound \cup {"cron"}
  /\ core = {}
  /\ stopping = FALSE /\ stopper = Nobody
  /\ stage = [c \in Callers |-> 0]
  /\ stops = [s \in Services |-> 0]
  /\ unsaved = FALSE

\* MCP is connected or not; then the core tasks and the signal handlers.
Connected ==
  /\ at = "connecting" /\ at' = "waiting"
  /\ \E mcp \in SUBSET {"mcp"} : up' = up \cup mcp \cup CoreTasks
  /\ core' = CoreTasks
  /\ UNCHANGED <<stopping, stopper, stage, stops, unsaved>>

\* An interrupt before the handlers are there cancels run() outside its try.
Interrupted ==
  /\ at = "connecting" /\ at' = "over"
  /\ UNCHANGED <<up, core, stopping, stopper, stage, stops, unsaved>>

-----------------------------------------------------------------------------
(* The services run *)

\* The state ticker of the dashboard copies the mind's state.
StateChanges ==
  /\ "dashboard" \in up /\ at \notin {"connecting", "over"}
  /\ unsaved' = TRUE
  /\ UNCHANGED <<at, up, core, stopping, stopper, stage, stops>>

\* A core task fails, or all channels have ended.
CoreEnds(t) ==
  /\ t \in core /\ at # "over"
  /\ core' = core \ {t}
  /\ UNCHANGED <<at, up, stopping, stopper, stage, stops, unsaved>>

\* The wait times out after save_interval.
SaveInterval ==
  /\ at = "waiting" /\ core = CoreTasks /\ ~stopping
  /\ unsaved' = FALSE
  /\ UNCHANGED <<at, up, core, stopping, stopper, stage, stops>>

-----------------------------------------------------------------------------
(* stop() *)

\* The guard at the top of stop().
MayStop == ~stopping

(* The caller enters stop(): up to its first await it also stops cron. *)
Entered(c) ==
  IF MayStop
  THEN /\ stopping' = TRUE
       /\ stopper' = IF stopping THEN stopper ELSE c
       /\ up' = up \ {"cron"}
       /\ stops' = [stops EXCEPT !["cron"] = @ + 1]
       /\ stage' = [stage EXCEPT ![c] = 2]
  ELSE stage' = [stage EXCEPT ![c] = Finished] /\ UNCHANGED <<stopping, stopper, up, stops>>

Signal(s) ==
  /\ at \notin {"connecting", "over"} /\ stage[s] = 0
  /\ Entered(s)
  /\ UNCHANGED <<at, core, unsaved>>

\* The wait ends, because a core task has ended or stop() was entered; only
\* in the first case does run() itself stop the services.
Wake ==
  /\ at = "waiting" /\ (core # CoreTasks \/ stopping)
  /\ IF stopping
     THEN at' = "returned" /\ UNCHANGED <<up, stopping, stopper, stage, stops>>
     ELSE at' = "stopping" /\ Entered(Main)
  /\ UNCHANGED <<core, unsaved>>

Ended(service) ==
  /\ up' = up \ {service}
  /\ stops' = [stops EXCEPT ![service] = IF service \in up THEN @ + 1 ELSE @]

StageOf(c) == Stages[stage[c]]

\* Fault seed: the state is saved before the dashboard, whose ticker changes it, is stopped.
SaveFirst(c) ==
  /\ stage[c] \in 2..Len(Stages) /\ at # "over"
  /\ stage' = [stage EXCEPT ![c] = @ + 1]
  /\ IF StageOf(c) \in Services THEN Ended(StageOf(c)) ELSE UNCHANGED <<up, stops>>
  /\ core' = IF StageOf(c) = "tasks" THEN {} ELSE core
  /\ unsaved' = IF StageOf(c) = "mcp" THEN FALSE ELSE unsaved
  /\ UNCHANGED <<at, stopping, stopper>>

StopStage(c) ==
  /\ stage[c] \in 2..Len(Stages) /\ at # "over"
  /\ stage' = [stage EXCEPT ![c] = @ + 1]
  /\ IF StageOf(c) \in Services THEN Ended(StageOf(c)) ELSE UNCHANGED <<up, stops>>
  /\ core' = IF StageOf(c) = "tasks" THEN {} ELSE core
  /\ unsaved' = IF StageOf(c) = "state" THEN FALSE ELSE unsaved
  /\ UNCHANGED <<at, stopping, stopper>>

\* `await self.stop()' in the finally clause of run() returns.
MainStopped ==
  /\ at = "stopping" /\ stage[Main] = Finished /\ at' = "returned"
  /\ UNCHANGED <<up, core, stopping, stopper, stage, stops, unsaved>>

-----------------------------------------------------------------------------
(* asyncio.run after the main coroutine *)

Midway(s) == stage[s] \in 2..Len(Stages)

\* All tasks are cancelled once; a stop() whose await suppresses that goes on.
CancelAll ==
  /\ at = "returned" /\ at' = "closing"
  /\ core' = {}
  /\ \E survivors \in SUBSET {s \in Signals : Midway(s) /\ StageOf(s) \in Swallows} :
       stage' = [c \in Callers |->
                   IF c \in Signals /\ Midway(c) /\ c \notin survivors THEN Finished ELSE stage[c]]
  /\ UNCHANGED <<up, stopping, stopper, stops, unsaved>>

\* The loop closes when the cancelled tasks have ended; the process ends.
LoopCloses ==
  /\ at = "closing" /\ ~\E s \in Signals : Midway(s)
  /\ at' = "over"
  /\ UNCHANGED <<up, core, stopping, stopper, stage, stops, unsaved>>

LifecycleNext ==
  \/ Connected
  \/ Interrupted
  \/ StateChanges
  \/ \E t \in CoreTasks : CoreEnds(t)
  \/ SaveInterval
  \/ \E s \in Signals : Signal(s)
  \/ Wake
  \/ \E c \in Callers : StopStage(c)
  \/ MainStopped
  \/ CancelAll
  \/ LoopCloses

LifecycleSpec == LifecycleInit /\ [][LifecycleNext]_lifecycleVars

-----------------------------------------------------------------------------
(* Properties *)

\* Every variable keeps its type.
LifecycleTypeOK ==
  /\ at \in {"connecting", "waiting", "stopping", "returned", "closing", "over"}
  /\ up \subseteq Services /\ core \subseteq CoreTasks
  /\ stopping \in BOOLEAN /\ unsaved \in BOOLEAN
  /\ stopper \in Callers \cup {Nobody}
  /\ stage \in [Callers -> 0..Finished]
  /\ stops \in [Services -> Nat]

\* A shutdown that run() began itself, because a core task ended, is complete
\* when the process ends, whatever signals come in between: nothing runs any
\* more, and the state of the mind was saved after its last change.  (One that
\* a signal began may be cut short by the end of the event loop: run() does not
\* wait for it, crabclaw/agent/scheduler.py:882; then only cron is sure to be stopped.)
\* However many signals come during a shutdown, no service is stopped twice.
OrderlyEnd ==
  /\ at = "over" => /\ stopper = Main => up = {} /\ ~unsaved
                    /\ stopper # Nobody => "cron" \notin up
  /\ \A s \in Services : stops[s] <= 1
=============================================================================
