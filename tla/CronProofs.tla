----------------------------- MODULE CronProofs -----------------------------
(***************************************************************************)
(* Proofs about the cron service, for any number of jobs, any schedules,   *)
(* any callers and any bounds.                                             *)
(***************************************************************************)
EXTENDS Cron, WellFoundedInduction, TLAPS

-----------------------------------------------------------------------------
(* Facts about the operators *)

\* The minimum of a non-empty set of naturals is one of its members.
LEMMA MinIsMember ==
  ASSUME NEW S \in SUBSET Nat, S # {}
  PROVE  Min(S) \in S
<1>1. PICK m \in S : \A n \in S : ~(<<n, m>> \in OpToRel(<, Nat))
  BY NatLessThanWellFounded, WFMin, Zenon
<1>2. \A n \in S : ~(n < m)
  BY <1>1 DEF OpToRel
<1>3. \A n \in S : m <= n
  BY <1>2
<1> QED
  BY <1>3 DEF Min

\* A store maps every id to the state of a job.
Stores == [Jobs -> JobState]

\* The first job of a non-empty due list is a job of that list.
LEMMA BeginFacts ==
  ASSUME NEW Q \in SUBSET Jobs, Q # {}
  PROVE  /\ Begin(Q) \in [job : Jobs \cup {NoJob}, orphan : BOOLEAN, queue : SUBSET Jobs]
         /\ Begin(Q).job \in Q /\ Begin(Q).job # NoJob /\ ~Begin(Q).orphan
         /\ Begin(Q).queue = Q \ {Begin(Q).job}
<1>1. Min(Q) \in Q /\ Min(Q) # NoJob
  BY MinIsMember DEF Jobs, NoJob
<1> QED
  BY <1>1 DEF Begin

\* _compute_next_run gives a time or Never.
LEMMA NextRunType ==
  ASSUME now \in Nat, NEW j \in Jobs
  PROVE  NextRun(j) \in Nat
<1> DEFINE a == Schedule[j].arg
<1>1. a \in Nat /\ Schedule[j].kind \in {"at", "every", "cron"}
  <2>1. Schedule[j] \in [kind : {"at", "every", "cron"}, arg : Nat, delete : BOOLEAN]
    BY CronAssumption
  <2> QED
    BY <2>1
<1>2. a # 0 => (now \div a + 1) * a \in Nat
  <2>1. ASSUME a # 0 PROVE now \div a \in Nat
    BY <1>1, <2>1
  <2> HIDE DEF a
  <2> QED
    BY <1>1, <2>1
<1>3. CASE a = 0
  BY <1>3 DEF NextRun, Never
<1>4. CASE a # 0 /\ Schedule[j].kind = "at"
  BY <1>1, <1>4 DEF NextRun, Never
<1>5. CASE a # 0 /\ Schedule[j].kind = "every"
  BY <1>1, <1>5 DEF NextRun
<1>6. CASE a # 0 /\ Schedule[j].kind = "cron"
  BY <1>2, <1>6 DEF NextRun
<1> QED
  BY <1>1, <1>3, <1>4, <1>5, <1>6

\* _get_next_wake_ms gives a time or Never.
LEMMA NextWakeType ==
  ASSUME NEW s \in Stores
  PROVE  NextWake(s) \in Nat
<1> DEFINE times == {s[j].next : j \in {i \in Jobs : Pending(s, i)}}
<1>1. times \in SUBSET Nat
  BY DEF Stores, JobState
<1>2. times # {} => Min(times) \in Nat
  BY <1>1, MinIsMember
<1> QED
  BY <1>2 DEF NextWake, Never

\* What the store operations return is a store.
LEMMA StoreTypes ==
  ASSUME now \in Nat, NEW s \in Stores
  PROVE  /\ Recomputed(s) \in Stores
         /\ \A e \in [job : Jobs, orphan : BOOLEAN] : Executed(s, e) \in Stores
         /\ \A e \in [job : Jobs, orphan : BOOLEAN, queue : SUBSET Jobs] :
              Executed(s, e) \in Stores
<1>1. \A j \in Jobs : NextRun(j) \in Nat
  BY NextRunType
<1>2. Recomputed(s) \in Stores
  BY <1>1 DEF Recomputed, Stores, JobState
<1>3. ASSUME NEW e, e.job \in Jobs
      PROVE  Executed(s, e) \in Stores
  BY <1>1, <1>3 DEF Executed, Stores, JobState, Absent, Never
<1> QED
  BY <1>2, <1>3

LEMMA LoadedType ==
  ASSUME mem \in Stores, disk \in Stores
  PROVE  Loaded \in Stores
BY DEF Loaded

-----------------------------------------------------------------------------
(* Type correctness *)

LEMMA TypeInit == Init => TypeOK
<1> SUFFICES ASSUME Init PROVE TypeOK
  OBVIOUS
<1>1. NoJobs \in Stores
  BY DEF NoJobs, Stores, Absent, JobState, Never
<1>2. IdleTick \in [job : Jobs \cup {NoJob}, orphan : BOOLEAN, queue : SUBSET Jobs]
  BY DEF IdleTick
<1>3. IdleRun \in [job : Jobs \cup {NoJob}, orphan : BOOLEAN]
  BY DEF IdleRun
<1>4. runs \in [Callers -> [job : Jobs \cup {NoJob}, orphan : BOOLEAN]]
  BY <1>3 DEF Init
<1>5. wish \in [Jobs -> {"none", "on", "off", "gone"}]
  BY DEF Init
<1>6. born \in 0..NumJobs
  BY CronAssumption DEF Init
<1> QED
  BY <1>1, <1>2, <1>4, <1>5, <1>6 DEF Init, TypeOK, Stores, Never

\* The values that the arming and loading helpers give to the variables.
LEMMA HelperTypes ==
  ASSUME TypeOK
  PROVE  /\ Loaded \in Stores
         /\ RunsAfterLoad \in [Callers -> [job : Jobs \cup {NoJob}, orphan : BOOLEAN]]
         /\ TickAfterLoad \in [job : Jobs \cup {NoJob}, orphan : BOOLEAN, queue : SUBSET Jobs]
         /\ IdleTick \in [job : Jobs \cup {NoJob}, orphan : BOOLEAN, queue : SUBSET Jobs]
         /\ \A s \in Stores : Arm(s) =>
              /\ tick' \in [job : Jobs \cup {NoJob}, orphan : BOOLEAN, queue : SUBSET Jobs]
              /\ timer' \in Nat
<1>1. Loaded \in Stores
  BY LoadedType DEF TypeOK, Stores
<1>2. RunsAfterLoad \in [Callers -> [job : Jobs \cup {NoJob}, orphan : BOOLEAN]]
  <2>1. runs \in [Callers -> [job : Jobs \cup {NoJob}, orphan : BOOLEAN]]
    BY DEF TypeOK
  <2>2. ASSUME NEW r \in [job : Jobs \cup {NoJob}, orphan : BOOLEAN], NEW o \in BOOLEAN
        PROVE  [r EXCEPT !.orphan = o] \in [job : Jobs \cup {NoJob}, orphan : BOOLEAN]
    OBVIOUS
  <2>3. ASSUME NEW c \in Callers
        PROVE  RunsAfterLoad[c] \in [job : Jobs \cup {NoJob}, orphan : BOOLEAN]
    <3>1. (runs[c].orphan \/ (Reloads /\ runs[c].job # NoJob)) \in BOOLEAN
      OBVIOUS
    <3>2. RunsAfterLoad[c] = [runs[c] EXCEPT !.orphan = @ \/ (Reloads /\ runs[c].job # NoJob)]
      BY DEF RunsAfterLoad
    <3> QED
      BY <2>1, <2>2, <3>1, <3>2
  <2> QED
    BY <2>3 DEF RunsAfterLoad
<1>3. TickAfterLoad \in [job : Jobs \cup {NoJob}, orphan : BOOLEAN, queue : SUBSET Jobs]
  BY DEF TypeOK, TickAfterLoad, Reloads
<1>4. IdleTick \in [job : Jobs \cup {NoJob}, orphan : BOOLEAN, queue : SUBSET Jobs]
  BY DEF IdleTick
<1>5. ASSUME NEW s \in Stores, Arm(s)
      PROVE  timer' \in Nat
  BY <1>5, NextWakeType DEF Arm, Never
<1> QED
  BY <1>1, <1>2, <1>3, <1>4, <1>5 DEF Arm

LEMMA TypeNext == TypeOK /\ [Next]_vars => TypeOK'
<1> SUFFICES ASSUME TypeOK, [Next]_vars PROVE TypeOK'
  OBVIOUS
<1> USE HelperTypes DEF Stores
<1>0. /\ now \in Nat /\ mem \in Stores /\ disk \in Stores
      /\ runs \in [Callers -> [job : Jobs \cup {NoJob}, orphan : BOOLEAN]]
      /\ \A j \in Jobs : [state |-> "on", next |-> NextRun(j)] \in JobState
      /\ [state |-> "off", next |-> Never] \in JobState /\ Absent \in JobState
  BY NextRunType DEF TypeOK, JobState, Absent, Never
<1>1. CASE Start
  <2>1. Recomputed(Loaded) \in Stores
    BY <1>0, StoreTypes
  <2>2. NextWake(Recomputed(Loaded)) \in Nat
    BY <2>1, NextWakeType
  <2> QED
    BY <1>1, <2>1, <2>2
       DEF Start, Save, KeepLoaded, TypeOK, histVars, boundVars, execVars, storeVars
<1>2. CASE Stop
  BY <1>2 DEF Stop, TypeOK, Never, histVars, boundVars, execVars, storeVars
<1>3. CASE AddJob
  <2> DEFINE s == [Loaded EXCEPT ![born + 1] = [state |-> "on", next |-> NextRun(born + 1)]]
  <2>1. born + 1 \in Jobs
    BY <1>3, CronAssumption DEF AddJob, Jobs, TypeOK
  <2>2. s \in Stores
    BY <1>0, <2>1
  <2>3. Save(s) /\ Arm(s)
    BY <1>3 DEF AddJob
  <2> HIDE DEF s
  <2> QED
    BY <1>3, <2>1, <2>2, <2>3
       DEF AddJob, CountCall, Save, KeepLoaded, TypeOK, Jobs
<1>4. ASSUME NEW j \in Jobs, RemoveJob(j) PROVE TypeOK'
  <2> DEFINE s == [Loaded EXCEPT ![j] = Absent]
  <2>1. s \in Stores
    BY <1>0
  <2>2. Save(s) /\ Arm(s)
    BY <1>4 DEF RemoveJob
  <2> HIDE DEF s
  <2> QED
    BY <1>4, <2>1, <2>2 DEF RemoveJob, CountCall, Save, KeepLoaded, TypeOK
<1>5. ASSUME NEW j \in Jobs, NEW on \in BOOLEAN, EnableJob(j, on) PROVE TypeOK'
  <2> DEFINE s == [Loaded EXCEPT ![j] = IF on THEN [state |-> "on", next |-> NextRun(j)]
                                              ELSE [state |-> "off", next |-> Never]]
  <2>1. s \in Stores
    BY <1>0
  <2>2. Save(s) /\ Arm(s)
    BY <1>5 DEF EnableJob
  <2> HIDE DEF s
  <2> QED
    BY <1>5, <2>1, <2>2 DEF EnableJob, CountCall, Save, KeepLoaded, TypeOK
<1>6. CASE ListJobs
  BY <1>6 DEF ListJobs, KeepLoaded, TypeOK, histVars, boundVars, execVars, storeVars
<1>7. ASSUME NEW c \in Callers, NEW j \in Jobs, NEW force \in BOOLEAN, RunJob(c, j, force)
      PROVE  TypeOK'
  BY <1>7 DEF RunJob, CountCall, KeepLoaded, TypeOK, histVars, boundVars, execVars, storeVars
<1>8. ASSUME NEW c \in Callers, FinishRun(c) PROVE TypeOK'
  <2>1. runs[c].job \in Jobs /\ runs[c] \in [job : Jobs, orphan : BOOLEAN]
    BY <1>0, <1>8 DEF FinishRun
  <2>2. Executed(mem, runs[c]) \in Stores
    BY <1>0, <2>1, StoreTypes
  <2>3. [runs EXCEPT ![c] = IdleRun] \in [Callers -> [job : Jobs \cup {NoJob}, orphan : BOOLEAN]]
    BY <1>0 DEF IdleRun
  <2> QED
    BY <1>8, <2>1, <2>2, <2>3
       DEF FinishRun, Save, KeepLoaded, TypeOK, histVars, boundVars, execVars, storeVars
<1>9. CASE FireTimer
  <2>1. CASE DueJobs(Loaded) # {} /\ KeepLoaded(Loaded) /\ UNCHANGED <<disk, synced>>
             /\ tick' = Begin(DueJobs(Loaded)) /\ timer' = Never
    BY <1>9, <2>1, BeginFacts
       DEF FireTimer, DueJobs, KeepLoaded, TypeOK, Never, histVars, boundVars, execVars,
           storeVars
  <2>2. CASE Save(Loaded) /\ Arm(Loaded)
    BY <1>9, <2>2
       DEF FireTimer, Save, KeepLoaded, TypeOK, histVars, boundVars, execVars, storeVars
  <2> QED
    BY <1>9, <2>1, <2>2 DEF FireTimer
<1>10. CASE FinishTickJob
  <2>1. tick.job \in Jobs /\ tick \in [job : Jobs, orphan : BOOLEAN, queue : SUBSET Jobs]
    BY <1>10 DEF FinishTickJob, TypeOK
  <2>2. Executed(mem, tick) \in Stores
    BY <1>0, <2>1, StoreTypes
  <2>3. CASE tick.queue # {} /\ KeepLoaded(Executed(mem, tick)) /\ UNCHANGED <<disk, synced, timer>>
             /\ tick' = [Begin(tick.queue) EXCEPT !.orphan = tick.orphan]
    BY <1>10, <2>1, <2>2, <2>3, BeginFacts
       DEF FinishTickJob, KeepLoaded, TypeOK, histVars, boundVars, execVars, storeVars
  <2>4. CASE Save(Executed(mem, tick)) /\ Arm(Executed(mem, tick))
    BY <1>10, <2>1, <2>2, <2>4
       DEF FinishTickJob, Save, KeepLoaded, TypeOK, histVars, boundVars, execVars, storeVars
  <2> QED
    BY <1>10, <2>3, <2>4 DEF FinishTickJob
<1>11. CASE TimePasses
  BY <1>11 DEF TimePasses, TypeOK, histVars, boundVars, execVars, storeVars
<1>12. ASSUME NEW torn \in BOOLEAN, Crash(torn) PROVE TypeOK'
  <2>1. NoJobs \in Stores
    BY <1>0 DEF NoJobs
  <2>2. [c \in Callers |-> IdleRun] \in [Callers -> [job : Jobs \cup {NoJob}, orphan : BOOLEAN]]
    BY DEF IdleRun
  <2> QED
    BY <1>12, <2>1, <2>2 DEF Crash, TypeOK, Never, histVars, boundVars, execVars, storeVars
<1>13. ASSUME NEW j \in Jobs, NEW to \in {"on", "off", "gone"}, ExternalEdit(j, to)
       PROVE  TypeOK'
  <2> DEFINE edited == CASE to = "on"   -> [state |-> "on", next |-> NextRun(j)]
                           [] to = "off"  -> [state |-> "off", next |-> Never]
                           [] to = "gone" -> Absent
  <2>1. edited \in JobState
    BY <1>0
  <2>2. disk' = [disk EXCEPT ![j] = edited]
    BY <1>13 DEF ExternalEdit
  <2>3. disk' \in Stores
    BY <1>0, <2>1, <2>2
  <2>4. UNCHANGED <<now, mem, loaded, running, timer, tick, runs, born, calls>>
    BY <1>13 DEF ExternalEdit, execVars
  <2>5. edits' = edits + 1 /\ synced' = FALSE /\ wish' = [wish EXCEPT ![j] = to]
        /\ spent' = IF to = "on" THEN spent \ {j} ELSE spent
    BY <1>13 DEF ExternalEdit
  <2>6. edits' \in Nat /\ wish' \in [Jobs -> {"none", "on", "off", "gone"}]
        /\ spent' \in SUBSET Jobs
    BY <2>5 DEF TypeOK
  <2> QED
    BY <2>3, <2>4, <2>5, <2>6 DEF TypeOK
<1>14. CASE UNCHANGED vars
  BY <1>14 DEF vars, TypeOK, histVars, boundVars, execVars, storeVars
<1> QED
  BY <1>1, <1>2, <1>3, <1>4, <1>5, <1>6, <1>7, <1>8, <1>9, <1>10, <1>11, <1>12, <1>13, <1>14
     DEF Next

\* Every variable of the service keeps its type.
THEOREM TypeCorrect == Spec => []TypeOK
BY TypeInit, TypeNext, PTL DEF Spec

-----------------------------------------------------------------------------
(* The inductive invariant, for a store that nobody else edits *)

\* What the tasks and the store have to do with each other: a running service
\* is in step with the file, a stopped one has no timer task, and whoever
\* executes a job holds an object of the current store.
TasksHoldStore ==
  /\ running => loaded /\ synced
  /\ ~running => timer = Never /\ tick.job = NoJob
  /\ ~tick.orphan /\ tick.job \notin tick.queue
  /\ tick.job = NoJob => tick.queue = {}
  /\ \A c \in Callers : runs[c].job # NoJob => loaded /\ synced /\ ~runs[c].orphan

\* Only ids that have been given out are in a store, executed or completed.
OnlyBorn ==
  /\ \A j \in Jobs : Present(mem, j) \/ Present(disk, j) \/ j \in spent => j <= born
  /\ \A c \in Callers : runs[c].job <= born

\* A job that is on, in memory or in the file, is meant to be on.
OnMeansWished ==
  \A j \in Jobs : mem[j].state = "on" \/ disk[j].state = "on" => wish[j] = "on"

\* In the store s, a one-shot job that is on has its time as next run, or that
\* time has passed; the time of a completed one has passed.
OneShotTimes(s) ==
  \A j \in Jobs : OneShot(j) /\ s[j].state = "on" =>
    /\ s[j].next \in {Schedule[j].arg, Never}
    /\ s[j].next = Never \/ j \in spent => Schedule[j].arg <= now

SpentNotPending ==
  running => \A j \in Jobs : OneShot(j) /\ j \in spent => ~Pending(mem, j)

IInv ==
  /\ TypeOK
  /\ TasksHoldStore /\ TimerCoversJobs /\ DueListIsFresh /\ SavedWhenIdle
  /\ OnlyBorn /\ OnMeansWished
  /\ OneShotTimes(mem) /\ OneShotTimes(disk) /\ SpentNotPending

LEMMA IInvInit == Init => IInv
<1> SUFFICES ASSUME Init PROVE IInv
  OBVIOUS
<1>1. TypeOK
  BY TypeInit
<1>2. \A j \in Jobs : NoJobs[j].state = "absent"
  BY DEF NoJobs, Absent
<1>3. TasksHoldStore
  BY DEF Init, TasksHoldStore, IdleTick, IdleRun
<1>4. TimerCoversJobs /\ DueListIsFresh /\ SavedWhenIdle /\ SpentNotPending
  BY DEF Init, TimerCoversJobs, DueListIsFresh, SavedWhenIdle, SpentNotPending, IdleTick
<1>5. OnlyBorn
  BY <1>2 DEF Init, OnlyBorn, Present, IdleRun, NoJob
<1>6. OnMeansWished /\ OneShotTimes(mem) /\ OneShotTimes(disk)
  BY <1>2 DEF Init, OnMeansWished, OneShotTimes
<1> QED
  BY <1>1, <1>3, <1>4, <1>5, <1>6 DEF IInv

\* Loading replaces nothing that is in use.
LEMMA LoadedInUse ==
  ASSUME IInv
  PROVE  /\ RunsAfterLoad = runs /\ TickAfterLoad = tick
         /\ running => Loaded = mem
         /\ Loaded = mem \/ Loaded = disk
<1>1. \A c \in Callers : runs[c].job # NoJob => ~Reloads
  BY DEF IInv, TasksHoldStore, Reloads
<1>2. tick.job # NoJob => ~Reloads
  BY DEF IInv, TasksHoldStore, Reloads
<1>3. \A c \in Callers :
        [runs[c] EXCEPT !.orphan = @ \/ (Reloads /\ runs[c].job # NoJob)] = runs[c]
  BY <1>1 DEF IInv, TypeOK
<1>4. RunsAfterLoad = runs
  BY <1>3 DEF IInv, TypeOK, RunsAfterLoad
<1>5. TickAfterLoad = tick
  BY <1>2 DEF IInv, TypeOK, TickAfterLoad
<1> QED
  BY <1>4, <1>5 DEF IInv, TasksHoldStore, Loaded, Reloads

\* The part of the invariant about tasks, timer and file.
InStep == TasksHoldStore /\ TimerCoversJobs /\ DueListIsFresh /\ SavedWhenIdle

\* Saving and arming puts all of them in step, whatever has been cancelled.
LEMMA SaveAndArm ==
  ASSUME IInv, NEW s \in Stores, Save(s), Arm(s), UNCHANGED running,
         runs' = runs \/ \E c \in Callers : runs' = [runs EXCEPT ![c] = IdleRun]
  PROVE  InStep'
<1>1. mem' = s /\ disk' = s /\ loaded' = TRUE /\ synced' = TRUE
  BY DEF Save, KeepLoaded
<1>2. tick'.job = NoJob /\ tick'.queue = {} /\ ~tick'.orphan
  BY DEF Arm, IdleTick
<1>3. \A c \in Callers : runs'[c].job # NoJob => ~runs'[c].orphan
  BY DEF IInv, TypeOK, TasksHoldStore, IdleRun
<1>4. timer' = IF running' THEN NextWake(mem') ELSE Never
  BY <1>1 DEF Arm
<1>5. TasksHoldStore'
  BY <1>1, <1>2, <1>3, <1>4 DEF TasksHoldStore
<1>6. DueListIsFresh'
  BY <1>2 DEF DueListIsFresh
<1>7. TimerCoversJobs'
  BY <1>1, <1>4 DEF TimerCoversJobs, NextWake, Pending
<1>8. SavedWhenIdle'
  BY <1>1 DEF SavedWhenIdle
<1> QED
  BY <1>5, <1>6, <1>7, <1>8 DEF InStep

\* Every step keeps tasks, timer and file in step with the store.
LEMMA InStepNext ==
  ASSUME MaxEdits = 0, IInv, Next
  PROVE  InStep'
<1> USE LoadedInUse
<1>0. /\ TypeOK /\ Loaded \in Stores /\ mem \in Stores /\ now \in Nat
      /\ \A j \in Jobs : [state |-> "on", next |-> NextRun(j)] \in JobState
      /\ [state |-> "off", next |-> Never] \in JobState /\ Absent \in JobState
  BY HelperTypes, NextRunType DEF IInv, TypeOK, Stores, JobState, Absent, Never
<1>1. CASE Start
  <2>1. mem' = Recomputed(Loaded) /\ disk' = mem' /\ running' /\ loaded' /\ synced'
        /\ tick' = IdleTick /\ timer' = NextWake(Recomputed(Loaded)) /\ runs' = runs
    BY <1>1 DEF Start, Save, KeepLoaded
  <2>2. TasksHoldStore'
    BY <2>1 DEF TasksHoldStore, IInv, IdleTick
  <2>3. TimerCoversJobs'
    BY <2>1 DEF TimerCoversJobs, NextWake, Pending
  <2> QED
    BY <2>1, <2>2, <2>3 DEF InStep, DueListIsFresh, SavedWhenIdle, IdleTick
<1>2. CASE Stop
  BY <1>2 DEF Stop, InStep, IInv, TasksHoldStore, TimerCoversJobs, DueListIsFresh,
              SavedWhenIdle, IdleTick, histVars, boundVars, execVars, storeVars
<1>3. CASE AddJob
  <2>1. born + 1 \in Jobs
    BY <1>0, <1>3, CronAssumption DEF AddJob, Jobs, TypeOK
  <2>2. [Loaded EXCEPT ![born + 1] = [state |-> "on", next |-> NextRun(born + 1)]] \in Stores
    BY <1>0, <2>1 DEF Stores
  <2> QED
    BY <1>3, <2>2, SaveAndArm DEF AddJob
<1>4. ASSUME NEW j \in Jobs, RemoveJob(j) PROVE InStep'
  <2>1. [Loaded EXCEPT ![j] = Absent] \in Stores
    BY <1>0 DEF Stores
  <2> QED
    BY <1>4, <2>1, SaveAndArm DEF RemoveJob
<1>5. ASSUME NEW j \in Jobs, NEW on \in BOOLEAN, EnableJob(j, on) PROVE InStep'
  <2>1. [Loaded EXCEPT ![j] = IF on THEN [state |-> "on", next |-> NextRun(j)]
                                    ELSE [state |-> "off", next |-> Never]] \in Stores
    BY <1>0 DEF Stores
  <2> QED
    BY <1>5, <2>1, SaveAndArm DEF EnableJob
<1>6. CASE ListJobs
  <2>1. /\ UNCHANGED <<now, disk, synced, running, timer, tick, runs>>
        /\ loaded' = TRUE /\ (running => mem' = mem)
    BY <1>6 DEF ListJobs, KeepLoaded
  <2>2. TasksHoldStore'
    BY <2>1 DEF TasksHoldStore, IInv
  <2>3. TimerCoversJobs' /\ SavedWhenIdle'
    BY <2>1 DEF TimerCoversJobs, SavedWhenIdle, IInv, NextWake, Pending
  <2>4. DueListIsFresh'
    BY <2>1 DEF DueListIsFresh, IInv, TasksHoldStore, Due, Pending
  <2> QED
    BY <2>2, <2>3, <2>4 DEF InStep
<1>7. ASSUME NEW c \in Callers, NEW j \in Jobs, NEW force \in BOOLEAN, RunJob(c, j, force)
      PROVE  InStep'
  <2>1. /\ UNCHANGED <<now, mem, disk, synced, running, timer, tick>> /\ loaded' = TRUE
        /\ running /\ runs' = [runs EXCEPT ![c] = [job |-> j, orphan |-> FALSE]]
    BY <1>7 DEF RunJob, KeepLoaded
  <2>2. \A d \in Callers : runs'[d].job # NoJob => ~runs'[d].orphan
    BY <1>0, <2>1 DEF IInv, TypeOK, TasksHoldStore
  <2>3. TasksHoldStore'
    BY <2>1, <2>2 DEF TasksHoldStore, IInv
  <2>4. TimerCoversJobs' /\ SavedWhenIdle' /\ DueListIsFresh'
    BY <2>1 DEF TimerCoversJobs, SavedWhenIdle, DueListIsFresh, IInv, NextWake, Due, Pending
  <2> QED
    BY <2>3, <2>4 DEF InStep
<1>8. ASSUME NEW c \in Callers, FinishRun(c) PROVE InStep'
  <2>1. runs[c] \in [job : Jobs, orphan : BOOLEAN]
    BY <1>0, <1>8 DEF FinishRun, TypeOK
  <2>2. Executed(mem, runs[c]) \in Stores
    BY <1>0, <2>1, StoreTypes
  <2> QED
    BY <1>8, <2>2, SaveAndArm DEF FinishRun
<1>9. CASE FireTimer
  <2>0. running /\ Loaded = mem /\ UNCHANGED <<now, running, runs>>
    BY <1>9 DEF FireTimer, IInv, TasksHoldStore
  <2>1. CASE DueJobs(mem) # {} /\ KeepLoaded(mem) /\ UNCHANGED <<disk, synced>>
             /\ tick' = Begin(DueJobs(mem)) /\ timer' = Never
    <3>1. /\ tick'.job \in DueJobs(mem) /\ tick'.job # NoJob /\ ~tick'.orphan
          /\ tick'.queue = DueJobs(mem) \ {tick'.job}
      BY <2>1, BeginFacts DEF DueJobs
    <3>2. TasksHoldStore'
      BY <2>0, <2>1, <3>1 DEF TasksHoldStore, IInv, KeepLoaded
    <3>3. DueListIsFresh'
      BY <2>0, <2>1, <3>1 DEF DueListIsFresh, DueJobs, KeepLoaded, Due, Pending
    <3> QED
      BY <3>1, <3>2, <3>3 DEF InStep, TimerCoversJobs, SavedWhenIdle
  <2>2. CASE Save(mem) /\ Arm(mem)
    BY <1>0, <2>0, <2>2, SaveAndArm
  <2> QED
    BY <1>9, <2>0, <2>1, <2>2 DEF FireTimer
<1>10. CASE FinishTickJob
  <2>0. running /\ UNCHANGED <<now, running, runs>> /\ tick.job # NoJob
    BY <1>10 DEF FinishTickJob, IInv, TasksHoldStore
  <2>1. tick \in [job : Jobs, orphan : BOOLEAN, queue : SUBSET Jobs]
    BY <1>0, <2>0 DEF TypeOK
  <2>2. CASE tick.queue # {} /\ KeepLoaded(Executed(mem, tick)) /\ UNCHANGED <<disk, synced, timer>>
             /\ tick' = [Begin(tick.queue) EXCEPT !.orphan = tick.orphan]
    <3>1. /\ tick'.job \in tick.queue /\ tick'.job # NoJob /\ ~tick'.orphan
          /\ tick'.queue = tick.queue \ {tick'.job}
      BY <2>1, <2>2, BeginFacts DEF IInv, TasksHoldStore
    <3>2. TasksHoldStore'
      BY <2>0, <2>2, <3>1 DEF TasksHoldStore, IInv, KeepLoaded
    <3>3. \A j \in tick.queue : Executed(mem, tick)[j] = mem[j]
      BY <1>0, <2>1 DEF Executed, IInv, TasksHoldStore, Stores
    <3>4. DueListIsFresh'
      BY <2>0, <2>2, <3>1, <3>3 DEF DueListIsFresh, KeepLoaded, IInv, Due, Pending
    <3> QED
      BY <3>1, <3>2, <3>4 DEF InStep, TimerCoversJobs, SavedWhenIdle
  <2>3. CASE Save(Executed(mem, tick)) /\ Arm(Executed(mem, tick))
    <3>1. Executed(mem, tick) \in Stores
      BY <1>0, <2>1, StoreTypes
    <3> QED
      BY <2>0, <2>3, <3>1, SaveAndArm
  <2> QED
    BY <1>10, <2>2, <2>3 DEF FinishTickJob
<1>11. CASE TimePasses
  <2>1. now' = now + 1 /\ UNCHANGED <<mem, disk, loaded, synced, running, timer, tick, runs>>
    BY <1>11 DEF TimePasses, execVars, storeVars
  <2>2. TasksHoldStore' /\ TimerCoversJobs' /\ SavedWhenIdle'
    BY <2>1 DEF TasksHoldStore, TimerCoversJobs, SavedWhenIdle, IInv, NextWake, Pending
  <2>3. tick.queue \cup ({tick.job} \ {NoJob}) \in SUBSET Jobs
    BY <1>0 DEF TypeOK
  <2>4. \A j \in Jobs : mem[j].next \in Nat /\ (Due(mem, j) => Due(mem, j)')
    BY <1>0, <2>1 DEF Due, Pending, Stores, JobState
  <2>5. DueListIsFresh'
    BY <2>1, <2>3, <2>4 DEF DueListIsFresh, IInv
  <2> QED
    BY <2>2, <2>5 DEF InStep
<1>12. ASSUME NEW torn \in BOOLEAN, Crash(torn) PROVE InStep'
  BY <1>12 DEF Crash, InStep, TasksHoldStore, TimerCoversJobs, DueListIsFresh,
               SavedWhenIdle, IdleTick, IdleRun
<1>13. ASSUME NEW j \in Jobs, NEW to \in {"on", "off", "gone"}, ExternalEdit(j, to)
       PROVE  InStep'
  <2>1. edits < 0 /\ edits \in Nat
    BY <1>0, <1>13 DEF ExternalEdit, TypeOK
  <2> QED
    BY <2>1
<1> QED
  BY <1>1, <1>2, <1>3, <1>4, <1>5, <1>6, <1>7, <1>8, <1>9, <1>10, <1>11, <1>12, <1>13
     DEF Next

-----------------------------------------------------------------------------
(* What the jobs in the store are *)

\* No step puts a job into a store that was not added, or switches one on
\* against the last command.
LEMMA JobsNext ==
  ASSUME MaxEdits = 0, IInv, Next
  PROVE  (OnlyBorn /\ OnMeansWished)'
<1> USE LoadedInUse
<1>0. /\ TypeOK /\ OnlyBorn /\ OnMeansWished
      /\ mem \in Stores /\ disk \in Stores /\ Loaded \in Stores /\ born \in Nat
      /\ \A j \in Jobs : Present(Loaded, j) => j <= born
      /\ \A j \in Jobs : Loaded[j].state = "on" => wish[j] = "on"
  BY HelperTypes, CronAssumption DEF IInv, TypeOK, Stores, OnlyBorn, OnMeansWished, Present
<1>1. CASE Start
  <2>1. mem' = Recomputed(Loaded) /\ disk' = mem' /\ runs' = runs
        /\ UNCHANGED <<born, wish, spent>>
    BY <1>1 DEF Start, Save, KeepLoaded, boundVars, histVars
  <2>2. \A j \in Jobs : Recomputed(Loaded)[j].state = Loaded[j].state
    BY <1>0 DEF Recomputed, Stores, JobState
  <2> QED
    BY <1>0, <2>1, <2>2 DEF OnlyBorn, OnMeansWished, Present
<1>2. CASE Stop
  BY <1>0, <1>2
     DEF Stop, OnlyBorn, OnMeansWished, Present, histVars, boundVars, execVars, storeVars
<1>3. CASE AddJob
  <2> DEFINE b == born + 1
             s == [Loaded EXCEPT ![b] = [state |-> "on", next |-> NextRun(b)]]
  <2>1. /\ mem' = s /\ disk' = s /\ runs' = runs /\ born' = b /\ spent' = spent
        /\ wish' = [wish EXCEPT ![b] = "on"]
    BY <1>3 DEF AddJob, Save, KeepLoaded
  <2>2. b \in Jobs
    BY <1>0, <1>3, CronAssumption DEF AddJob, Jobs
  <2>3. \A j \in Jobs : j # b => s[j] = Loaded[j]
    BY <1>0, <2>2 DEF Stores
  <2>4. wish'[b] = "on" /\ \A j \in Jobs : j # b => wish'[j] = wish[j]
    BY <1>0, <2>1, <2>2 DEF TypeOK
  <2>5. \A j \in Jobs : Present(s, j) \/ j \in spent => j <= b
    BY <1>0, <2>3 DEF OnlyBorn, Present, Jobs
  <2>6. \A c \in Callers : runs[c].job <= b
    BY <1>0 DEF OnlyBorn, TypeOK, Jobs, NoJob
  <2> HIDE DEF s
  <2>7. OnlyBorn'
    BY <2>1, <2>5, <2>6 DEF OnlyBorn, Present
  <2>8. OnMeansWished'
    BY <1>0, <2>1, <2>3, <2>4 DEF OnMeansWished
  <2> QED
    BY <2>7, <2>8
<1>4. ASSUME NEW j \in Jobs, RemoveJob(j) PROVE (OnlyBorn /\ OnMeansWished)'
  <2>1. /\ mem' = [Loaded EXCEPT ![j] = Absent] /\ disk' = mem' /\ runs' = runs
        /\ wish' = [wish EXCEPT ![j] = "gone"] /\ UNCHANGED <<born, spent>>
    BY <1>4 DEF RemoveJob, Save, KeepLoaded
  <2>2. mem'[j].state = "absent" /\ \A i \in Jobs : i # j => mem'[i] = Loaded[i] /\ wish'[i] = wish[i]
    BY <1>0, <2>1 DEF Stores, Absent, TypeOK
  <2> QED
    BY <1>0, <2>1, <2>2 DEF OnlyBorn, OnMeansWished, Present
<1>5. ASSUME NEW j \in Jobs, NEW on \in BOOLEAN, EnableJob(j, on)
      PROVE  (OnlyBorn /\ OnMeansWished)'
  <2>1. /\ Present(Loaded, j) /\ disk' = mem' /\ runs' = runs
        /\ mem' = [Loaded EXCEPT ![j] = IF on THEN [state |-> "on", next |-> NextRun(j)]
                                             ELSE [state |-> "off", next |-> Never]]
        /\ wish' = [wish EXCEPT ![j] = IF on THEN "on" ELSE "off"]
        /\ UNCHANGED born /\ spent' \in SUBSET spent
    BY <1>5 DEF EnableJob, Save, KeepLoaded
  <2>2. /\ mem'[j].state = IF on THEN "on" ELSE "off"
        /\ wish'[j] = IF on THEN "on" ELSE "off"
        /\ \A i \in Jobs : i # j => mem'[i] = Loaded[i] /\ wish'[i] = wish[i]
    BY <1>0, <2>1 DEF Stores, TypeOK
  <2> QED
    BY <1>0, <2>1, <2>2 DEF OnlyBorn, OnMeansWished, Present
<1>6. CASE ListJobs
  BY <1>0, <1>6
     DEF ListJobs, KeepLoaded, OnlyBorn, OnMeansWished, Present, histVars, boundVars,
         execVars, storeVars
<1>7. ASSUME NEW c \in Callers, NEW j \in Jobs, NEW force \in BOOLEAN, RunJob(c, j, force)
      PROVE  (OnlyBorn /\ OnMeansWished)'
  <2>1. /\ mem' = Loaded /\ UNCHANGED <<disk, born, wish, spent>> /\ Present(Loaded, j)
        /\ runs' = [runs EXCEPT ![c] = [job |-> j, orphan |-> FALSE]]
    BY <1>7 DEF RunJob, KeepLoaded, histVars
  <2>2. \A d \in Callers : runs'[d].job <= born
    BY <1>0, <2>1 DEF OnlyBorn, TypeOK
  <2> QED
    BY <1>0, <2>1, <2>2 DEF OnlyBorn, OnMeansWished, Present
<1>20. ASSUME NEW e, e.job \in Jobs, mem' = Executed(mem, e),
              disk' = mem' \/ disk' = disk, UNCHANGED <<born, wish>>,
              spent' = spent \cup {e.job}, e.job <= born,
              \A d \in Callers : runs'[d].job <= born
       PROVE  (OnlyBorn /\ OnMeansWished)'
  <2>1. \A i \in Jobs : /\ Present(mem', i) => Present(mem, i)
                        /\ mem'[i].state = "on" => mem[i].state = "on"
    BY <1>0, <1>20 DEF Executed, Present, Absent, Stores, JobState
  <2>2. \A i \in Jobs : /\ Present(disk', i) => Present(mem, i) \/ Present(disk, i)
                        /\ disk'[i].state = "on" => mem[i].state = "on" \/ disk[i].state = "on"
    BY <1>20, <2>1 DEF Present
  <2>3. OnMeansWished'
    BY <1>0, <1>20, <2>1, <2>2 DEF OnMeansWished
  <2>4. \A i \in spent' : i <= born
    BY <1>0, <1>20 DEF OnlyBorn, TypeOK
  <2>5. OnlyBorn'
    BY <1>0, <1>20, <2>1, <2>2, <2>4 DEF OnlyBorn, Present
  <2> QED
    BY <2>3, <2>5
<1>8. ASSUME NEW c \in Callers, FinishRun(c) PROVE (OnlyBorn /\ OnMeansWished)'
  <2>1. /\ runs[c].job \in Jobs /\ mem' = Executed(mem, runs[c]) /\ disk' = mem'
        /\ UNCHANGED <<born, wish>> /\ spent' = spent \cup {runs[c].job}
    BY <1>0, <1>8 DEF FinishRun, Save, KeepLoaded, TypeOK, boundVars
  <2>2. \A d \in Callers : runs'[d].job <= born
    BY <1>0, <1>8 DEF FinishRun, OnlyBorn, TypeOK, IdleRun, NoJob
  <2> QED
    BY <1>0, <1>20, <2>1, <2>2 DEF OnlyBorn
<1>9. CASE FireTimer
  <2>1. mem' = Loaded /\ runs' = runs /\ (disk' = disk \/ disk' = Loaded)
        /\ UNCHANGED <<born, wish, spent>>
    BY <1>9 DEF FireTimer, Save, KeepLoaded, boundVars, histVars
  <2> QED
    BY <1>0, <2>1 DEF OnlyBorn, OnMeansWished, Present
<1>10. CASE FinishTickJob
  <2>1. /\ tick.job \in Jobs /\ mem' = Executed(mem, tick) /\ (disk' = mem' \/ disk' = disk)
        /\ UNCHANGED <<born, wish, runs>> /\ spent' = spent \cup {tick.job}
    <3>1. tick.job # NoJob /\ UNCHANGED <<runs, boundVars, wish>> /\ spent' = spent \cup {tick.job}
      BY <1>10 DEF FinishTickJob
    <3>2. mem' = Executed(mem, tick) /\ (disk' = mem' \/ disk' = disk)
      BY <1>10 DEF FinishTickJob, Save, KeepLoaded
    <3> QED
      BY <1>0, <3>1, <3>2 DEF TypeOK, boundVars
  <2>2. Present(mem, tick.job)
    BY <2>1 DEF IInv, DueListIsFresh, Due, Pending, Present, NoJob, Jobs
  <2> QED
    BY <1>0, <1>20, <2>1, <2>2 DEF OnlyBorn
<1>11. CASE TimePasses
  BY <1>0, <1>11
     DEF TimePasses, OnlyBorn, OnMeansWished, Present, histVars, boundVars, execVars,
         storeVars
<1>12. ASSUME NEW torn \in BOOLEAN, Crash(torn) PROVE (OnlyBorn /\ OnMeansWished)'
  <2>1. /\ mem' = NoJobs /\ (disk' = NoJobs \/ disk' = disk) /\ UNCHANGED <<born, wish, spent>>
        /\ runs' = [c \in Callers |-> IdleRun]
    BY <1>12 DEF Crash, boundVars, histVars
  <2>2. \A j \in Jobs : NoJobs[j].state = "absent"
    BY DEF NoJobs, Absent
  <2>3. \A c \in Callers : runs'[c].job <= born
    BY <1>0, <2>1 DEF IdleRun, NoJob
  <2> QED
    BY <1>0, <2>1, <2>2, <2>3 DEF OnlyBorn, OnMeansWished, Present
<1>13. ASSUME NEW j \in Jobs, NEW to \in {"on", "off", "gone"}, ExternalEdit(j, to)
       PROVE  (OnlyBorn /\ OnMeansWished)'
  <2>1. edits < 0 /\ edits \in Nat
    BY <1>0, <1>13 DEF ExternalEdit, TypeOK
  <2> QED
    BY <2>1
<1> QED
  BY <1>1, <1>2, <1>3, <1>4, <1>5, <1>6, <1>7, <1>8, <1>9, <1>10, <1>11, <1>12, <1>13
     DEF Next

\* A one-shot job is next run at its time, or never when that has passed.
LEMMA OneShotNextRun ==
  ASSUME now \in Nat, NEW j \in Jobs, OneShot(j)
  PROVE  /\ NextRun(j) \in {Schedule[j].arg, Never}
         /\ NextRun(j) = Never <=> Schedule[j].arg <= now
<1>1. Schedule[j].arg \in Nat
  <2>1. Schedule[j] \in [kind : {"at", "every", "cron"}, arg : Nat, delete : BOOLEAN]
    BY CronAssumption
  <2> QED
    BY <2>1
<1> QED
  BY <1>1 DEF NextRun, OneShot, Never

\* The part of the invariant about one-shot jobs.
OneShots == OneShotTimes(mem) /\ OneShotTimes(disk) /\ SpentNotPending

\* Completing a job leaves a one-shot job absent or off.
LEMMA ExecutedOneShots ==
  ASSUME IInv, NEW e, e.job \in Jobs, ~e.orphan,
         UNCHANGED now, mem' = Executed(mem, e), spent' = spent \cup {e.job},
         \/ disk' = mem'
         \/ disk' = disk /\ Due(mem, e.job),
         UNCHANGED running
  PROVE  OneShots'
<1>0. mem \in Stores /\ now \in Nat /\ OneShots
  BY DEF IInv, TypeOK, Stores, OneShots
<1>1. \A i \in Jobs : i # e.job => mem'[i] = mem[i]
  BY <1>0 DEF Executed, Stores
<1>2. OneShot(e.job) => mem'[e.job].state # "on"
  BY <1>0 DEF Executed, Stores, Present, Absent
<1>3. OneShotTimes(mem)'
  BY <1>0, <1>1, <1>2 DEF OneShotTimes, OneShots
<1>4. SpentNotPending'
  BY <1>0, <1>1, <1>2 DEF SpentNotPending, OneShots, Pending
<1>5. CASE disk' = disk /\ Due(mem, e.job)
  <2>1. OneShot(e.job) => Schedule[e.job].arg <= now
    BY <1>0, <1>5 DEF Due, Pending, OneShots, OneShotTimes
  <2>2. OneShotTimes(disk)'
    BY <1>0, <1>5, <2>1 DEF OneShotTimes, OneShots
  <2> QED
    BY <1>3, <1>4, <2>2 DEF OneShots
<1>6. CASE disk' = mem'
  BY <1>3, <1>4, <1>6 DEF OneShots, OneShotTimes
<1> QED
  BY <1>5, <1>6

\* No step makes a completed one-shot job pending again.
LEMMA OneShotsNext ==
  ASSUME MaxEdits = 0, IInv, Next
  PROVE  OneShots'
<1> USE LoadedInUse
<1>0. /\ TypeOK /\ OneShotTimes(mem) /\ OneShotTimes(disk) /\ SpentNotPending
      /\ mem \in Stores /\ disk \in Stores /\ Loaded \in Stores /\ now \in Nat
      /\ OneShotTimes(Loaded)
  BY HelperTypes DEF IInv, TypeOK, Stores
<1>1. CASE Start
  <2>1. mem' = Recomputed(Loaded) /\ disk' = mem' /\ UNCHANGED <<now, spent>>
    BY <1>1 DEF Start, Save, KeepLoaded, histVars
  <2>2. ASSUME NEW j \in Jobs, OneShot(j), mem'[j].state = "on"
        PROVE  /\ mem'[j].next = NextRun(j)
               /\ j \in spent => Schedule[j].arg <= now
    BY <1>0, <2>1, <2>2 DEF Recomputed, Stores, JobState, OneShotTimes
  <2>3. OneShotTimes(mem)'
    BY <1>0, <2>1, <2>2, OneShotNextRun DEF OneShotTimes
  <2>4. SpentNotPending'
    BY <1>0, <2>1, <2>2, OneShotNextRun DEF SpentNotPending, Pending
  <2> QED
    BY <2>1, <2>3, <2>4 DEF OneShots, OneShotTimes
<1>2. CASE Stop
  BY <1>0, <1>2
     DEF Stop, OneShots, OneShotTimes, SpentNotPending, histVars, boundVars, execVars,
         storeVars
<1>20. ASSUME NEW b \in Jobs, NEW x \in JobState, mem' = [Loaded EXCEPT ![b] = x],
              disk' = mem', UNCHANGED <<now, running>>,
              \A j \in spent' : j \in spent,
              x.state = "on" => b \notin spent' /\ x.next = NextRun(b)
       PROVE  OneShots'
  <2>1. mem'[b] = x /\ \A j \in Jobs : j # b => mem'[j] = Loaded[j]
    BY <1>0, <1>20 DEF Stores
  <2>2. OneShotTimes(mem)'
    BY <1>0, <1>20, <2>1, OneShotNextRun DEF OneShotTimes
  <2>3. SpentNotPending'
    BY <1>0, <1>20, <2>1 DEF SpentNotPending, Pending
  <2> QED
    BY <1>20, <2>2, <2>3 DEF OneShots, OneShotTimes
<1>21. \A j \in Jobs : /\ [state |-> "on", next |-> NextRun(j)] \in JobState
                       /\ [state |-> "off", next |-> Never] \in JobState
                       /\ Absent \in JobState
  BY <1>0, NextRunType DEF JobState, Absent, Never
<1>3. CASE AddJob
  <2> DEFINE b == born + 1
  <2>1. b \in Jobs
    BY <1>0, <1>3, CronAssumption DEF AddJob, Jobs, TypeOK
  <2>2. b \notin spent
    BY <1>0, <2>1 DEF IInv, OnlyBorn, TypeOK, Jobs
  <2>3. /\ mem' = [Loaded EXCEPT ![b] = [state |-> "on", next |-> NextRun(b)]]
        /\ disk' = mem' /\ UNCHANGED <<now, running, spent>>
    BY <1>3 DEF AddJob, Save, KeepLoaded
  <2> HIDE DEF b
  <2> QED
    BY <1>20, <1>21, <2>1, <2>2, <2>3
<1>4. ASSUME NEW j \in Jobs, RemoveJob(j) PROVE OneShots'
  <2>1. /\ mem' = [Loaded EXCEPT ![j] = Absent] /\ disk' = mem'
        /\ UNCHANGED <<now, running, spent>>
    BY <1>4 DEF RemoveJob, Save, KeepLoaded
  <2>2. Absent.state # "on"
    BY DEF Absent
  <2> QED
    BY <1>20, <1>21, <2>1, <2>2
<1>5. ASSUME NEW j \in Jobs, NEW on \in BOOLEAN, EnableJob(j, on) PROVE OneShots'
  <2> DEFINE x == IF on THEN [state |-> "on", next |-> NextRun(j)]
                        ELSE [state |-> "off", next |-> Never]
  <2>1. /\ mem' = [Loaded EXCEPT ![j] = x] /\ disk' = mem' /\ UNCHANGED <<now, running>>
        /\ spent' = IF on THEN spent \ {j} ELSE spent
    BY <1>5 DEF EnableJob, Save, KeepLoaded
  <2>2. x \in JobState
    BY <1>21
  <2>3. x.state = "on" => j \notin spent' /\ x.next = NextRun(j)
    BY <2>1
  <2>4. \A i \in spent' : i \in spent
    BY <2>1
  <2> HIDE DEF x
  <2> QED
    BY <1>20, <2>1, <2>2, <2>3, <2>4
<1>6. CASE ListJobs
  <2>1. mem' = Loaded /\ UNCHANGED <<now, disk, running, spent>>
    BY <1>6 DEF ListJobs, KeepLoaded, histVars
  <2> QED
    BY <1>0, <2>1 DEF OneShots, OneShotTimes, SpentNotPending, Pending
<1>7. ASSUME NEW c \in Callers, NEW j \in Jobs, NEW force \in BOOLEAN, RunJob(c, j, force)
      PROVE  OneShots'
  <2>1. mem' = Loaded /\ UNCHANGED <<now, disk, running, spent>>
    BY <1>7 DEF RunJob, KeepLoaded, histVars
  <2> QED
    BY <1>0, <2>1 DEF OneShots, OneShotTimes, SpentNotPending, Pending
<1>8. ASSUME NEW c \in Callers, FinishRun(c) PROVE OneShots'
  <2>1. /\ runs[c].job \in Jobs /\ mem' = Executed(mem, runs[c]) /\ disk' = mem'
        /\ UNCHANGED <<now, running>> /\ spent' = spent \cup {runs[c].job}
    BY <1>0, <1>8 DEF FinishRun, Save, KeepLoaded, TypeOK
  <2>2. ~runs[c].orphan
    BY <1>8 DEF FinishRun, IInv, TasksHoldStore
  <2> QED
    BY <2>1, <2>2, ExecutedOneShots
<1>9. CASE FireTimer
  <2>1. mem' = Loaded /\ (disk' = disk \/ disk' = Loaded) /\ UNCHANGED <<now, running, spent>>
    BY <1>9 DEF FireTimer, Save, KeepLoaded, histVars
  <2> QED
    BY <1>0, <2>1 DEF OneShots, OneShotTimes, SpentNotPending, Pending
<1>10. CASE FinishTickJob
  <2>1. tick.job # NoJob /\ UNCHANGED <<now, running>> /\ spent' = spent \cup {tick.job}
    BY <1>10 DEF FinishTickJob
  <2>2. mem' = Executed(mem, tick) /\ (disk' = mem' \/ disk' = disk)
    BY <1>10 DEF FinishTickJob, Save, KeepLoaded
  <2>3. tick.job \in Jobs /\ ~tick.orphan /\ Due(mem, tick.job)
    BY <1>0, <2>1 DEF TypeOK, IInv, TasksHoldStore, DueListIsFresh
  <2> QED
    BY <2>1, <2>2, <2>3, ExecutedOneShots
<1>11. CASE TimePasses
  <2>1. now' = now + 1 /\ UNCHANGED <<mem, disk, running, spent>>
    BY <1>11 DEF TimePasses, storeVars, histVars
  <2>2. \A j \in Jobs : Schedule[j].arg \in Nat
    <3>1. \A j \in Jobs :
            Schedule[j] \in [kind : {"at", "every", "cron"}, arg : Nat, delete : BOOLEAN]
      BY CronAssumption
    <3> QED
      BY <3>1
  <2> QED
    BY <1>0, <2>1, <2>2 DEF OneShots, OneShotTimes, SpentNotPending, Pending
<1>12. ASSUME NEW torn \in BOOLEAN, Crash(torn) PROVE OneShots'
  <2>1. /\ mem' = NoJobs /\ (disk' = NoJobs \/ disk' = disk) /\ ~running'
        /\ UNCHANGED <<now, spent>>
    BY <1>12 DEF Crash, histVars
  <2>2. \A j \in Jobs : NoJobs[j].state = "absent"
    BY DEF NoJobs, Absent
  <2> QED
    BY <1>0, <2>1, <2>2 DEF OneShots, OneShotTimes, SpentNotPending
<1>13. ASSUME NEW j \in Jobs, NEW to \in {"on", "off", "gone"}, ExternalEdit(j, to)
       PROVE  OneShots'
  <2>1. edits < 0 /\ edits \in Nat
    BY <1>0, <1>13 DEF ExternalEdit, TypeOK
  <2> QED
    BY <2>1
<1> QED
  BY <1>1, <1>2, <1>3, <1>4, <1>5, <1>6, <1>7, <1>8, <1>9, <1>10, <1>11, <1>12, <1>13
     DEF Next

LEMMA IInvNext ==
  ASSUME MaxEdits = 0
  PROVE  IInv /\ [Next]_vars => IInv'
<1> SUFFICES ASSUME IInv, [Next]_vars PROVE IInv'
  OBVIOUS
<1>1. TypeOK'
  BY TypeNext DEF IInv
<1>2. CASE Next
  BY <1>1, <1>2, InStepNext, JobsNext, OneShotsNext DEF IInv, InStep, OneShots
<1>3. CASE UNCHANGED vars
  <2>1. UNCHANGED <<now, mem, loaded, disk, synced, running, timer, tick, runs, born, wish, spent>>
    BY <1>3 DEF vars, storeVars, execVars, boundVars, histVars
  <2>2. InStep'
    BY <2>1 DEF IInv, InStep, TasksHoldStore, TimerCoversJobs, NextWake, DueListIsFresh, Due,
                Pending, SavedWhenIdle
  <2>3. (OnlyBorn /\ OnMeansWished)'
    BY <2>1 DEF IInv, OnlyBorn, OnMeansWished, Present
  <2>4. OneShots'
    BY <2>1 DEF IInv, OneShots, OneShotTimes, SpentNotPending, Pending
  <2> QED
    BY <1>1, <2>2, <2>3, <2>4 DEF IInv, InStep, OneShots
<1> QED
  BY <1>2, <1>3

\* Nobody else edits jobs.json: the inductive invariant holds of every
\* interleaving of calls, ticks and crashes.
THEOREM Invariance ==
  ASSUME MaxEdits = 0
  PROVE  Spec => []IInv
BY IInvInit, IInvNext, PTL DEF Spec

-----------------------------------------------------------------------------
(* What the invariant gives *)

\* The timer of a running service is never set past a pending job, however the
\* timer task was cancelled and created again by _arm_timer.
THEOREM TimerCovers ==
  ASSUME MaxEdits = 0
  PROVE  Spec => []TimerCoversJobs
<1>1. IInv => TimerCoversJobs
  BY DEF IInv
<1> QED
  BY <1>1, Invariance, PTL

\* The due list of _on_timer stays true of the store over all of its awaits.
THEOREM DueListFresh ==
  ASSUME MaxEdits = 0
  PROVE  Spec => []DueListIsFresh
<1>1. IInv => DueListIsFresh
  BY DEF IInv
<1> QED
  BY <1>1, Invariance, PTL

\* Whenever the timer task is not executing, jobs.json is what memory holds.
THEOREM SavedWhenNotExecuting ==
  ASSUME MaxEdits = 0
  PROVE  Spec => []SavedWhenIdle
<1>1. IInv => SavedWhenIdle
  BY DEF IInv
<1> QED
  BY <1>1, Invariance, PTL

\* The timer task starts a job that is due in memory and leaves `wish' alone.
\* It is only the two actions of the timer task that start one.
LEMMA StartedIsDue ==
  ASSUME IInv, [Next]_vars, NEW j \in Jobs, TimerStarts(j)
  PROVE  running /\ Due(mem, j)
<1> USE LoadedInUse
<1>1. tick' # tick /\ tick' # IdleTick
  BY DEF TimerStarts, IdleTick, NoJob, Jobs
<1>2. CASE FireTimer
  <2>1. DueJobs(Loaded) # {} /\ tick' = Begin(DueJobs(Loaded))
    BY <1>1, <1>2 DEF FireTimer, Arm
  <2>2. tick'.job \in DueJobs(Loaded)
    BY <2>1, BeginFacts DEF DueJobs
  <2>3. running /\ Loaded = mem
    BY <1>2 DEF FireTimer, IInv, TasksHoldStore
  <2> QED
    BY <2>2, <2>3 DEF DueJobs, TimerStarts
<1>3. CASE FinishTickJob
  <2>1. tick.queue # {} /\ tick' = [Begin(tick.queue) EXCEPT !.orphan = tick.orphan]
    BY <1>1, <1>3 DEF FinishTickJob, Arm
  <2>2. tick'.job \in tick.queue
    BY <2>1, BeginFacts DEF IInv, TypeOK
  <2>3. running
    BY <1>3 DEF FinishTickJob, IInv, TasksHoldStore
  <2> QED
    BY <2>2, <2>3 DEF TimerStarts, IInv, DueListIsFresh
<1>4. ~FireTimer /\ ~FinishTickJob => tick' = tick \/ tick' = IdleTick
  BY DEF Next, Start, Stop, AddJob, RemoveJob, EnableJob, ListJobs, RunJob, FinishRun,
         TimePasses, Crash, ExternalEdit, Arm, vars, execVars
<1> QED
  BY <1>1, <1>2, <1>3, <1>4

\* Whatever the interleaving, the timer starts only jobs that are meant to be on.
THEOREM CommandsHonoured ==
  ASSUME MaxEdits = 0
  PROVE  Spec => HonoursCommands
<1>1. IInv /\ [Next]_vars => [\A j \in Jobs : TimerStarts(j) => wish[j] = "on"]_vars
  BY StartedIsDue DEF IInv, OnMeansWished, Due, Pending
<1> QED
  BY <1>1, Invariance, PTL DEF Spec, HonoursCommands

\* A completed one-shot job is not started by the timer again, not even after
\* crashes that lost the save which would have recorded its completion.
THEOREM OneShotsNotRepeated ==
  ASSUME MaxEdits = 0
  PROVE  Spec => OneShotNotRepeated
<1>1. IInv /\ [Next]_vars =>
        [\A j \in Jobs : OneShot(j) /\ TimerStarts(j) => j \notin spent]_vars
  BY StartedIsDue DEF IInv, SpentNotPending, Due
<1> QED
  BY <1>1, Invariance, PTL DEF Spec, OneShotNotRepeated

=============================================================================
