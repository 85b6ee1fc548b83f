-------------------------- MODULE SchedulerProofs --------------------------
(***************************************************************************)
(* Theorems about the scheduler for every set of tasks, number of levels,  *)
(* choice of calls and of places where the quantum runs out; those that    *)
(* need an assumption on the program name it (CleanUse, SafeReuse,         *)
(* FlatSections, SafePreemption).                                          *)
(***************************************************************************)
EXTENDS Scheduler, SchedKernelProofs

\* A program that stops no task but its own and unblocks neither a task that
\* has ended nor its own: the first two leave an element in the queue of a task
\* whose context is freed, the third gives a task a second one.  A late signal
\* in unblock_task lets the task end before it is unblocked.
CleanUse ==
    /\ Ops \cap {"stop", "unblock_ended", "unblock_self"} = {}
    /\ "late" \notin PreemptPoints

ClientTypes ==
    /\ live \in SUBSET Task
    /\ pc \in [Task -> ProgramCounter]
    /\ arg \in [Task -> Task \cup {NULL}]
    /\ res \in [Task -> {"unset", "NULL", "value"}]
    /\ old_armed \in BOOLEAN

\* The inductive invariant.  QueueAccounting alone is not inductive: that
\* create_task may enter an element for its structure rests on ContextsAlive
\* (a structure that is not alive has no element), and that in turn on
\* QueueAccounting (a task that ends leaves no second element behind).
SchedInv ==
    /\ phase \in {"off", "on", "destroyed"}
    /\ ClientTypes
    /\ KernelTypeOK
    /\ phase # "destroyed" => OneElement /\ QueuedExact /\ Held \subseteq live
    /\ phase = "off" => Held = {}

-----------------------------------------------------------------------------
LEMMA EmptyQueueType == EmptyQueue \in Queue
<1>1. <<>> \in Seq(QElem)
  OBVIOUS
<1>2. [l \in Level |-> NoBack] \in [Level -> Task \cup {NULL}]
  BY DEF NULL
<1> QED
  BY <1>1, <1>2, Zenon DEF EmptyQueue, Queue

LEMMA InitEstablishesSchedInv == Init => SchedInv
<1> SUFFICES ASSUME Init PROVE SchedInv
  OBVIOUS
<1>1. phase = "off" /\ KernelInit
  BY DEF Init
<1>2. ClientTypes
  BY DEF Init, ClientTypes, ProgramCounter
<1>3. KernelTypeOK
  BY <1>1, EmptyQueueType DEF KernelInit, KernelTypeOK, TaskState, Queue
<1>4. runq = <<>> /\ Held = {}
  BY <1>1 DEF KernelInit, EmptyQueue, runq, Held, InQueue, Current
<1>5. OneElement /\ QueuedExact
  BY <1>1, <1>4 DEF KernelInit, OneElement, QueuedExact, Held
<1> QED
  BY <1>1, <1>2, <1>3, <1>4, <1>5 DEF SchedInv

\* A step that calls scheduler() preserves the invariant: one that enters a
\* task which has no element and is alive from now on, one that enters none,
\* and one that ends the running task.
LEMMA EnterStep ==
    ASSUME SchedInv, phase # "destroyed", phase' = "on", ClientTypes',
           NEW n \in Task \ Held, NEW s \in [Task -> TaskState],
           scheduler("SIG_TASK_NEW", n, s),
           Held \cup {n} \subseteq live'
    PROVE  SchedInv'
<1>1. KernelInv
  BY DEF SchedInv, KernelInv
<1> DEFINE sig == "SIG_TASK_NEW"
<1>2. sig = "SIG_TASK_NEW" /\ sig \in {"SIG_TASK_NEW", "SIG_TASK_YIELD", "SIG_TASK_END"}
      /\ scheduler(sig, n, s)
  OBVIOUS
<1> HIDE DEF sig
<1>3. KernelInv' /\ Held' \subseteq Held \cup {n}
  BY <1>1, <1>2, SchedulerPreserves, Zenon
<1> QED
  BY <1>3 DEF SchedInv, KernelInv

LEMMA YieldStep ==
    ASSUME SchedInv, phase = "on", phase' = "on", live' = live, ClientTypes',
           NEW data, scheduler("SIG_TASK_YIELD", data, st)
    PROVE  SchedInv'
<1>1. KernelInv /\ Held \subseteq live /\ st \in [Task -> TaskState]
  BY DEF SchedInv, KernelInv, KernelTypeOK
<1> DEFINE sig == "SIG_TASK_YIELD"
<1>2. /\ sig = "SIG_TASK_YIELD" /\ sig # "SIG_TASK_NEW"
      /\ sig \in {"SIG_TASK_NEW", "SIG_TASK_YIELD", "SIG_TASK_END"}
      /\ scheduler(sig, data, st)
  OBVIOUS
<1> HIDE DEF sig
<1>3. KernelInv' /\ Held' \subseteq Held
  BY <1>1, <1>2, SchedulerPreserves, Zenon
<1> QED
  BY <1>1, <1>3 DEF SchedInv, KernelInv

LEMMA EndStep ==
    ASSUME SchedInv, phase = "on", phase' = "on", ClientTypes',
           NEW data, scheduler("SIG_TASK_END", data, st),
           InQueue \subseteq live'
    PROVE  SchedInv'
<1>1. KernelInv /\ st \in [Task -> TaskState]
  BY DEF SchedInv, KernelInv, KernelTypeOK
<1> DEFINE sig == "SIG_TASK_END"
<1>2. /\ sig = "SIG_TASK_END" /\ sig # "SIG_TASK_NEW"
      /\ sig \in {"SIG_TASK_NEW", "SIG_TASK_YIELD", "SIG_TASK_END"}
      /\ scheduler(sig, data, st)
  OBVIOUS
<1> HIDE DEF sig
<1>3. KernelInv' /\ Held' \subseteq InQueue
  BY <1>1, <1>2, SchedulerPreserves, Zenon
<1> QED
  BY <1>3 DEF SchedInv, KernelInv

\* So does a step that leaves the queue, its bits and the current element.
LEMMA QuietStep ==
    ASSUME SchedInv, phase' = phase, live' = live, ClientTypes',
           UNCHANGED <<queued, queues, qelem_current>>,
           st' \in [Task -> TaskState], armed' \in BOOLEAN, lift_expired' \in BOOLEAN
    PROVE  SchedInv'
<1>1. KernelTypeOK'
  BY DEF SchedInv, KernelTypeOK
<1>2. runq' = runq /\ InQueue' = InQueue /\ Current' = Current
  BY DEF runq, InQueue, Current
<1>3. (OneElement <=> OneElement') /\ (QueuedExact <=> QueuedExact') /\ Held' = Held
  BY <1>2 DEF OneElement, QueuedExact, Held
<1> QED
  BY <1>1, <1>3 DEF SchedInv

-----------------------------------------------------------------------------
\* A running task has an element, so that it is alive.
LEMMA RunningFacts ==
    ASSUME SchedInv, NEW t \in Task, Running(t)
    PROVE  /\ phase = "on" /\ Current = {t} /\ t \in live /\ t \notin InQueue
           /\ Held \subseteq live
<1>1. phase = "on" /\ Current = {t}
  BY DEF Running, Current
<1> QED
  BY <1>1 DEF SchedInv, Held, OneElement

LEMMA StartPreserves == ASSUME SchedInv, Start PROVE SchedInv'
<1> DEFINE s == [st EXCEPT ![MainTask] = "ACTIVE"]
<1>1. phase = "off" /\ phase' = "on" /\ Held = {} /\ MainTask \in Task
  BY MainAssumption DEF Start, SchedInv
<1>2. live' = live \cup {MainTask}
  BY DEF Start, Stack!Take
<1>3. s \in [Task -> TaskState]
  BY DEF SchedInv, KernelTypeOK, TaskState
<1>4. ClientTypes'
  BY <1>1, <1>2 DEF Start, SchedInv, ClientTypes, ProgramCounter
<1>5. scheduler("SIG_TASK_NEW", MainTask, s)
  BY DEF Start
<1> HIDE DEF s
<1>6. MainTask \in Task \ Held /\ Held \cup {MainTask} \subseteq live' /\ phase # "destroyed"
  BY <1>1, <1>2
<1> QED
  BY <1>1, <1>3, <1>4, <1>5, <1>6, EnterStep

LEMMA CreateTaskPreserves ==
    ASSUME SchedInv, NEW t \in Task, NEW n \in Task, CreateTask(t, n)
    PROVE  SchedInv'
<1> DEFINE s == [st EXCEPT ![n] = "READY"]
<1>1. Held \subseteq live /\ phase = "on"
  BY RunningFacts DEF CreateTask, Calls
<1>2. n \notin live /\ live' = live \cup {n} /\ phase' = "on"
  BY <1>1 DEF CreateTask, Stack!Take
<1>3. s \in [Task -> TaskState]
  BY DEF SchedInv, KernelTypeOK, TaskState
<1>4. ClientTypes'
  BY <1>2 DEF CreateTask, SchedInv, ClientTypes, ProgramCounter
<1>5. scheduler("SIG_TASK_NEW", n, s)
  BY DEF CreateTask
<1> HIDE DEF s
<1>6. n \in Task \ Held /\ Held \cup {n} \subseteq live' /\ phase # "destroyed"
  BY <1>1, <1>2
<1> QED
  BY <1>2, <1>3, <1>4, <1>5, <1>6, EnterStep

\* stop_task on the running task itself.
LEMMA StopTaskPreserves ==
    ASSUME SchedInv, NEW t \in Task, Running(t), StopTask(t)
    PROVE  SchedInv'
<1>1. phase = "on" /\ InQueue \subseteq live \ {t}
  BY RunningFacts DEF Held
<1>2. phase' = "on" /\ live' = live \ {t}
  BY <1>1 DEF StopTask, Stack!Release
<1>3. ClientTypes'
  BY <1>2 DEF StopTask, SchedInv, ClientTypes, ProgramCounter, ResultOfStopped
<1>4. scheduler("SIG_TASK_END", NULL, st)
  BY DEF StopTask
<1> QED
  BY <1>1, <1>2, <1>3, <1>4, EndStep

LEMMA UnblockPreserves ==
    ASSUME SchedInv, NEW t \in Task, NEW u \in Task, Running(t),
           u # t, u \in live, NEW r \in BOOLEAN, UnblockTask(u, r),
           ClientTypes', UNCHANGED <<stackVars, phase>>
    PROVE  SchedInv'
<1> DEFINE s == [st EXCEPT ![u] = "READY"]
<1>1. /\ phase = "on" /\ phase' = "on" /\ live' = live
      /\ Current = {t} /\ Held \subseteq live
  BY RunningFacts DEF stackVars
<1>2. s \in [Task -> TaskState]
  BY DEF SchedInv, KernelTypeOK, TaskState
<1>4. \/ ~queued[u] /\ scheduler("SIG_TASK_NEW", u, s)
      \/ /\ st' = s /\ armed' = r
         /\ UNCHANGED <<queued, queues, qelem_current, lift_expired>>
  BY DEF UnblockTask
<1> HIDE DEF s
<1>5. ASSUME ~queued[u], scheduler("SIG_TASK_NEW", u, s) PROVE SchedInv'
  <2>1. u \in Task \ Held /\ Held \cup {u} \subseteq live' /\ phase # "destroyed"
    BY <1>1, <1>5 DEF SchedInv, QueuedExact, Held
  <2> QED
    BY <1>1, <1>2, <1>5, <2>1, EnterStep
<1>6. ASSUME st' = s, armed' = r,
             UNCHANGED <<queued, queues, qelem_current, lift_expired>>
      PROVE  SchedInv'
  <2>1. armed' \in BOOLEAN /\ lift_expired' \in BOOLEAN
    BY <1>6 DEF SchedInv, KernelTypeOK
  <2> QED
    BY <1>1, <1>2, <1>6, <2>1, QuietStep
<1> QED
  BY <1>4, <1>5, <1>6

LEMMA DestroyPreserves == ASSUME SchedInv, DestroySched PROVE SchedInv'
<1>1. phase' = "destroyed" /\ live' = live
  BY DEF DestroySched, Stack!Destroy
<1>2. ClientTypes'
  BY <1>1 DEF DestroySched, SchedInv, ClientTypes, clientVars
<1>3. KernelTypeOK'
  BY EmptyQueueType DEF DestroySched, SchedInv, KernelTypeOK, Queue
<1> QED
  BY <1>1, <1>2, <1>3 DEF SchedInv

-----------------------------------------------------------------------------
\* Where unblock_sched leads, from inside a section.
LEMMA LeavesFacts ==
    \A e \in Enters \cup {<<"user", "torn">>} :
        /\ e[1] \in {"user", "critical"}
        /\ e[2] \in {"critical", "nested", "torn"}
        /\ e[1] = "critical" => e[2] = "nested"
        /\ e[2] = "nested" => e[1] = "critical"
<1> QED
  BY DEF Enters

\* No unblock_task is under way with its signal already delivered; or none about
\* the task that calls.
NoPending == \A t \in Task : pc[t] # "unblock"

PendingOther == \A t \in Task : pc[t] = "unblock" => arg[t] \in Task \ {t}

\* A task gets to the read of join_task's result, or into unblock_task's switch,
\* by one action each, and stays there with its argument.
ArgKept(t) == arg \in [Task -> Task \cup {NULL}] => arg'[t] = arg[t]

LEMMA CallKept ==
    ASSUME pc \in [Task -> ProgramCounter], [Next]_vars,
           NEW t \in Task, pc'[t] \in {"result", "unblock"}
    PROVE  \/ pc[t] = pc'[t] /\ ArgKept(t)
           \/ JoinSees(t) /\ pc'[t] = "result"
           \/ (\E u \in Task : UnblockLate(t, u)) /\ pc'[t] = "unblock"
<1> DEFINE Stays == pc[t] = pc'[t] /\ ArgKept(t)
<1> USE DEF ArgKept
<1>1. ASSUME NEW v \in Task, NEW c, pc' = [pc EXCEPT ![v] = c],
             c \notin {"result", "unblock"},
             arg' = arg \/ \E x : arg' = [arg EXCEPT ![v] = x]
      PROVE  Stays
  BY <1>1
<1>2. CASE Start
  BY <1>1, <1>2, MainAssumption DEF Start
<1>3. CASE DestroySched \/ Timer \/ UNCHANGED vars
  BY <1>3 DEF DestroySched, Timer, IdleTick, LiftExpires, Preempt, vars, clientVars
<1>4. ASSUME NEW v \in Task, LibraryStep(v), ~JoinSees(v) PROVE Stays
  <2>1. CASE End(v)
    BY <1>1, <2>1 DEF End, StopTask
  <2>2. CASE PollNothing(v) \/ PollAnswers(v) \/ JoinSpins(v) \/ JoinYields(v)
    BY <1>1, <2>2 DEF PollNothing, PollAnswers, JoinSpins, JoinYields
  <2>3. CASE JoinReturn(v) \/ BlockSet(v) \/ UnblockResumes(v)
    BY <1>1, <2>3 DEF JoinReturn, BlockSet, UnblockResumes
  <2>4. CASE UnblockSched(v)
    BY <1>1, <2>4, LeavesFacts DEF UnblockSched
  <2> QED
    BY <1>4, <2>1, <2>2, <2>3, <2>4 DEF LibraryStep
<1>5. ASSUME NEW v \in Task, JoinSees(v) PROVE Stays \/ (v = t /\ pc'[t] = "result")
  BY <1>5 DEF JoinSees
<1>6. ASSUME NEW v \in Task, ClientCall(v), \A u \in Task : ~UnblockLate(v, u)
      PROVE  Stays
  <2>1. CASE Return(v) \/ TaskYield(v) \/ BlockSchedLate(v)
    BY <1>1, <2>1 DEF Return, TaskYield, BlockSchedLate, clientVars
  <2>2. CASE BlockSched(v)
    <3>1. \A e \in Enters : e[2] \notin {"result", "unblock"}
      BY DEF Enters
    <3> QED
      BY <1>1, <2>2, <3>1 DEF BlockSched
  <2>3. CASE Exit(v)
    BY <1>1, <2>3 DEF Exit, StopTask
  <2>4. ASSUME NEW u \in Task, CreateTask(v, u) \/ StopOther(v, u) PROVE Stays
    BY <1>1, <2>4 DEF CreateTask, StopOther, StopTask
  <2>5. ASSUME NEW u \in Task, JoinCall(v, u) \/ BlockTest(v, u) PROVE Stays
    BY <1>1, <2>5 DEF JoinCall, BlockTest
  <2>6. ASSUME NEW u \in Task, Unblock(v, u) PROVE Stays
    BY <2>6 DEF Unblock, clientVars
  <2>7. ASSUME NEW u \in Task, UnblockInside(v, u) PROVE Stays
    <3>1. pc' = pc \/ pc' = [pc EXCEPT ![v] = "torn"]
      BY <2>7 DEF UnblockInside
    <3> QED
      BY <1>1, <2>7, <3>1 DEF UnblockInside
  <2> QED
    BY <1>6, <2>1, <2>2, <2>3, <2>4, <2>5, <2>6, <2>7 DEF ClientCall
<1>7. ASSUME NEW v \in Task, NEW u \in Task, UnblockLate(v, u)
      PROVE  Stays \/ (v = t /\ pc'[t] = "unblock")
  BY <1>7 DEF UnblockLate
<1> QED
  BY <1>2, <1>3, <1>4, <1>5, <1>6, <1>7 DEF Next

LEMMA PendingStep ==
    ASSUME pc \in [Task -> ProgramCounter], [Next]_vars
    PROVE  /\ "late" \notin PreemptPoints /\ NoPending => NoPending'
           /\ arg \in [Task -> Task \cup {NULL}] /\ "unblock_self" \notin Ops /\ PendingOther
                 => PendingOther'
<1>1. ASSUME "late" \notin PreemptPoints, NoPending, NEW t \in Task PROVE pc'[t] # "unblock"
  BY <1>1, CallKept DEF NoPending, UnblockLate, Late
<1>2. ASSUME arg \in [Task -> Task \cup {NULL}], "unblock_self" \notin Ops, PendingOther,
             NEW t \in Task, pc'[t] = "unblock"
      PROVE  arg'[t] \in Task \ {t}
  <2>1. CASE pc[t] = pc'[t] /\ ArgKept(t)
    BY <1>2, <2>1 DEF PendingOther, ArgKept
  <2>2. ASSUME NEW u \in Task, UnblockLate(t, u) PROVE arg'[t] \in Task \ {t}
    BY <1>2, <2>2 DEF UnblockLate, MayUnblock
  <2> QED
    BY <1>2, <2>1, <2>2, CallKept
<1> QED
  BY <1>1, <1>2 DEF NoPending, PendingOther

LEMMA LibraryStepPreserves ==
    ASSUME SchedInv, NoPending, NEW t \in Task, LibraryStep(t)
    PROVE  SchedInv'
<1> USE DEF ProgramCounter
<1>1. CASE End(t)
  BY <1>1, StopTaskPreserves DEF End
<1>2. CASE PollNothing(t)
  <2>1. /\ phase = "on" /\ phase' = "on" /\ live' = live
        /\ scheduler("SIG_TASK_YIELD", NULL, st)
    BY <1>2 DEF PollNothing, Calls, Running, stackVars
  <2>2. ClientTypes'
    BY <1>2 DEF PollNothing, SchedInv, ClientTypes, stackVars
  <2> QED
    BY <2>1, <2>2, YieldStep
<1>3. CASE PollAnswers(t)
  <2>1. ClientTypes'
    BY <1>3 DEF PollAnswers, SchedInv, ClientTypes, stackVars
  <2> QED
    BY <1>3, <2>1, QuietStep
       DEF PollAnswers, SchedInv, KernelTypeOK, kernelVars, stackVars
<1>4. CASE JoinSpins(t)
  <2>1. ClientTypes'
    BY <1>4 DEF JoinSpins, SchedInv, ClientTypes, stackVars
  <2> QED
    BY <1>4, <2>1, QuietStep
       DEF JoinSpins, SchedInv, KernelTypeOK, kernelVars, stackVars
<1>5. CASE JoinYields(t)
  <2>1. /\ phase = "on" /\ phase' = "on" /\ live' = live
        /\ scheduler("SIG_TASK_YIELD", NULL, st)
    BY <1>5 DEF JoinYields, Running, stackVars
  <2>2. ClientTypes'
    BY <1>5 DEF JoinYields, SchedInv, ClientTypes, stackVars
  <2> QED
    BY <2>1, <2>2, YieldStep
<1>6. CASE JoinSees(t) \/ JoinReturn(t)
  <2>1. ClientTypes'
    BY <1>6 DEF JoinSees, JoinReturn, SchedInv, ClientTypes, stackVars
  <2> QED
    BY <1>6, <2>1, QuietStep
       DEF JoinSees, JoinReturn, SchedInv, KernelTypeOK, kernelVars, stackVars
<1>7. CASE BlockSet(t)
  <2>1. ClientTypes'
    BY <1>7 DEF BlockSet, SchedInv, ClientTypes, stackVars
  <2>2. st' \in [Task -> TaskState]
    BY <1>7 DEF BlockSet, SchedInv, KernelTypeOK, TaskState
  <2> QED
    BY <1>7, <2>1, <2>2, QuietStep DEF BlockSet, SchedInv, KernelTypeOK, stackVars
<1>8. CASE UnblockSched(t)
  <2>1. ClientTypes' /\ armed' \in BOOLEAN
    <3>1. pc' \in [Task -> ProgramCounter]
      BY <1>8, LeavesFacts DEF UnblockSched, SchedInv, ClientTypes
    <3> QED
      BY <1>8, <3>1
         DEF UnblockSched, SchedInv, ClientTypes, TimerToRestore, stackVars
  <2> QED
    BY <1>8, <2>1, QuietStep DEF UnblockSched, SchedInv, KernelTypeOK, stackVars
<1>9. ~UnblockResumes(t)
  BY DEF UnblockResumes, NoPending
<1> QED
  BY <1>1, <1>2, <1>3, <1>4, <1>5, <1>6, <1>7, <1>8, <1>9 DEF LibraryStep

LEMMA ClientCallPreserves ==
    ASSUME SchedInv, CleanUse, NEW t \in Task, ClientCall(t)
    PROVE  SchedInv'
<1> USE DEF ProgramCounter
<1>1. CASE Return(t)
  <2>1. ClientTypes'
    BY <1>1 DEF Return, SchedInv, ClientTypes, stackVars
  <2>2. st' \in [Task -> TaskState]
    BY <1>1 DEF Return, SchedInv, KernelTypeOK, TaskState
  <2> QED
    BY <1>1, <2>1, <2>2, QuietStep DEF Return, SchedInv, KernelTypeOK, stackVars
<1>2. CASE Exit(t)
  BY <1>2, StopTaskPreserves DEF Exit, Calls
<1>3. CASE TaskYield(t)
  <2>1. /\ phase = "on" /\ phase' = "on" /\ live' = live
        /\ scheduler("SIG_TASK_YIELD", NULL, st)
    BY <1>3 DEF TaskYield, Calls, Running, stackVars
  <2>2. ClientTypes'
    BY <1>3 DEF TaskYield, SchedInv, ClientTypes, stackVars, clientVars
  <2> QED
    BY <2>1, <2>2, YieldStep
<1>4. CASE BlockSched(t)
  <2>1. ClientTypes' /\ armed' \in BOOLEAN
    <3>1. pc' \in [Task -> ProgramCounter]
      BY <1>4 DEF BlockSched, SchedInv, ClientTypes, Enters
    <3> QED
      BY <1>4, <3>1 DEF BlockSched, SchedInv, ClientTypes, KernelTypeOK, stackVars
  <2> QED
    BY <1>4, <2>1, QuietStep DEF BlockSched, SchedInv, KernelTypeOK, stackVars
<1>5. ASSUME NEW u \in Task, CreateTask(t, u) PROVE SchedInv'
  BY <1>5, CreateTaskPreserves
<1>6. ASSUME NEW u \in Task, StopOther(t, u) PROVE SchedInv'
  BY <1>6 DEF StopOther, Calls, CleanUse
<1>7. ASSUME NEW u \in Task, JoinCall(t, u) PROVE SchedInv'
  <2>1. ClientTypes'
    BY <1>7 DEF JoinCall, SchedInv, ClientTypes, stackVars
  <2> QED
    BY <1>7, <2>1, QuietStep
       DEF JoinCall, SchedInv, KernelTypeOK, kernelVars, stackVars
<1>8. ASSUME NEW u \in Task, BlockTest(t, u) PROVE SchedInv'
  <2>1. ClientTypes'
    BY <1>8 DEF BlockTest, SchedInv, ClientTypes, stackVars
  <2> QED
    BY <1>8, <2>1, QuietStep
       DEF BlockTest, SchedInv, KernelTypeOK, kernelVars, stackVars
<1>9. ASSUME NEW u \in Task, Unblock(t, u) \/ UnblockInside(t, u) PROVE SchedInv'
  <2>1. Running(t) /\ u # t /\ u \in live
    BY <1>9 DEF Unblock, UnblockInside, MayUnblock, Calls, CleanUse
  <2>2. ClientTypes'
    BY <1>9 DEF Unblock, UnblockInside, SchedInv, ClientTypes, stackVars, clientVars
  <2>3. UnblockTask(u, armed) /\ armed \in BOOLEAN /\ UNCHANGED <<stackVars, phase>>
    BY <1>9 DEF Unblock, UnblockInside, RestoredTimer, SchedInv, KernelTypeOK
  <2> QED
    BY <2>1, <2>2, <2>3, UnblockPreserves
<1>10. ~BlockSchedLate(t) /\ \A u \in Task : ~UnblockLate(t, u)
  BY DEF BlockSchedLate, UnblockLate, Late, CleanUse
<1> QED
  BY <1>1, <1>2, <1>3, <1>4, <1>5, <1>6, <1>7, <1>8, <1>9, <1>10 DEF ClientCall

LEMMA TimerPreserves == ASSUME SchedInv, Timer PROVE SchedInv'
<1>1. ASSUME NEW t \in Task, Preempt(t) PROVE SchedInv'
  <2>1. /\ phase = "on" /\ phase' = "on" /\ live' = live
        /\ scheduler("SIG_TASK_YIELD", "siginfo", st)
    BY <1>1 DEF Preempt, Running, stackVars
  <2>2. ClientTypes'
    BY <1>1 DEF Preempt, SchedInv, ClientTypes, stackVars, clientVars
  <2> QED
    BY <2>1, <2>2, YieldStep
<1>2. CASE IdleTick
  <2>1. /\ phase = "on" /\ phase' = "on" /\ live' = live
        /\ scheduler("SIG_TASK_YIELD", "siginfo", st)
    BY <1>2 DEF IdleTick, stackVars
  <2>2. ClientTypes'
    BY <1>2 DEF IdleTick, SchedInv, ClientTypes, stackVars, clientVars
  <2> QED
    BY <2>1, <2>2, YieldStep
<1>3. CASE LiftExpires
  <2>1. ClientTypes'
    BY <1>3 DEF LiftExpires, SchedInv, ClientTypes, stackVars, clientVars
  <2> QED
    BY <1>3, <2>1, QuietStep DEF LiftExpires, SchedInv, KernelTypeOK, stackVars
<1> QED
  BY <1>1, <1>2, <1>3 DEF Timer

LEMMA NextPreservesSchedInv ==
    CleanUse => (SchedInv /\ NoPending /\ [Next]_vars => SchedInv')
<1> SUFFICES ASSUME CleanUse, SchedInv, NoPending, [Next]_vars PROVE SchedInv'
  OBVIOUS
<1>1. CASE Start
  BY <1>1, StartPreserves
<1>2. CASE DestroySched
  BY <1>2, DestroyPreserves
<1>3. CASE Timer
  BY <1>3, TimerPreserves
<1>4. ASSUME NEW t \in Task, LibraryStep(t) PROVE SchedInv'
  BY <1>4, LibraryStepPreserves
<1>5. ASSUME NEW t \in Task, ClientCall(t) PROVE SchedInv'
  BY <1>5, ClientCallPreserves
<1>6. CASE UNCHANGED vars
  <2>1. ClientTypes'
    BY <1>6 DEF vars, SchedInv, ClientTypes, stackVars, clientVars
  <2> QED
    BY <1>6, <2>1, QuietStep
       DEF vars, SchedInv, KernelTypeOK, kernelVars, stackVars
<1> QED
  BY <1>1, <1>2, <1>3, <1>4, <1>5, <1>6 DEF Next

LEMMA SchedInvariant == CleanUse => (Spec => [](SchedInv /\ NoPending))
<1> SUFFICES ASSUME CleanUse PROVE Spec => [](SchedInv /\ NoPending)
  OBVIOUS
<1>1. SchedInv /\ NoPending /\ [Next]_vars => SchedInv' /\ NoPending'
  BY NextPreservesSchedInv, PendingStep DEF SchedInv, ClientTypes, CleanUse
<1>2. Init => NoPending
  BY DEF Init, NoPending
<1> QED
  BY <1>1, <1>2, InitEstablishesSchedInv, PTL DEF Spec

-----------------------------------------------------------------------------
(* Programs that stop other tasks or unblock ended ones, and late signals.   *)

\* Where a structure whose task has ended is not given to create_task again,
\* stopping other tasks and unblocking ended ones leaves the queue consistent,
\* though it may hold an element of a freed context; late signals do too.
SafeReuse == CleanUse \/ (Reusable = {} /\ "unblock_self" \notin Ops)

\* The tasks whose structure has been given to create_task (or is main's).
Made == {t \in Task : st[t] # "UNUSED"}

\* What both kinds of program keep.  The last part is what create_task relies on
\* when it enters an element without a look at the queued bit.
AccountInv ==
    /\ phase \in {"off", "on", "destroyed"}
    /\ ClientTypes
    /\ KernelTypeOK
    /\ phase # "destroyed" =>
          /\ OneElement /\ QueuedExact
          /\ \A n \in Task \ live : st[n] = "UNUSED" \/ n \in Reusable => n \notin Held
    /\ phase = "off" => Held = {}

\* The inductive invariant for structures used once: only made ones have an
\* element.
OnceInv ==
    /\ phase \in {"off", "on", "destroyed"}
    /\ ClientTypes
    /\ KernelTypeOK
    /\ phase # "destroyed" => OneElement /\ QueuedExact /\ Held \subseteq Made
    /\ phase = "off" => Held = {}

\* A running task has the one element that is not in the queue.
LEMMA RunningHolds ==
    ASSUME AccountInv \/ OnceInv, NEW t \in Task, Running(t)
    PROVE  phase = "on" /\ Current = {t} /\ t \notin InQueue
<1>1. phase = "on" /\ Current = {t}
  BY DEF Running, Current
<1> QED
  BY <1>1 DEF AccountInv, OnceInv, OneElement

\* The variables of the client keep their types, whatever the program does.
LEMMA ClientTypesKept ==
    ASSUME ClientTypes, KernelTypeOK, [Next]_vars
    PROVE  ClientTypes'
<1> USE DEF ClientTypes, ProgramCounter
<1>1. CASE Start \/ DestroySched
  BY <1>1, MainAssumption DEF Start, DestroySched, clientVars, Stack!Take, Stack!Destroy
<1>2. CASE Timer \/ UNCHANGED vars
  BY <1>2 DEF Timer, IdleTick, LiftExpires, Preempt, vars, clientVars, stackVars
<1>3. ASSUME NEW r \in Task, StopTask(r) PROVE ClientTypes'
  BY <1>3 DEF StopTask, ResultOfStopped, Stack!Release
<1>4. ASSUME NEW t \in Task, LibraryStep(t) PROVE ClientTypes'
  <2>1. CASE End(t)
    BY <1>3, <2>1 DEF End
  <2>2. CASE PollNothing(t) \/ PollAnswers(t)
    BY <2>2 DEF PollNothing, PollAnswers, stackVars
  <2>3. CASE JoinSpins(t) \/ JoinYields(t) \/ JoinSees(t) \/ JoinReturn(t)
    BY <2>3 DEF JoinSpins, JoinYields, JoinSees, JoinReturn, stackVars
  <2>4. CASE BlockSet(t) \/ UnblockResumes(t)
    BY <2>4 DEF BlockSet, UnblockResumes, stackVars
  <2>5. CASE UnblockSched(t)
    <3>1. pc' \in [Task -> ProgramCounter]
      BY <2>5, LeavesFacts DEF UnblockSched
    <3> QED
      BY <2>5, <3>1 DEF UnblockSched, stackVars
  <2> QED
    BY <1>4, <2>1, <2>2, <2>3, <2>4, <2>5 DEF LibraryStep
<1>5. ASSUME NEW t \in Task, ClientCall(t) PROVE ClientTypes'
  <2>1. CASE Return(t) \/ TaskYield(t) \/ BlockSchedLate(t)
    BY <2>1 DEF Return, TaskYield, BlockSchedLate, clientVars, stackVars
  <2>2. CASE Exit(t)
    BY <1>3, <2>2 DEF Exit
  <2>3. CASE BlockSched(t)
    <3>1. pc' \in [Task -> ProgramCounter]
      BY <2>3 DEF BlockSched, Enters
    <3> QED
      BY <2>3, <3>1 DEF BlockSched, KernelTypeOK, stackVars
  <2>4. ASSUME NEW u \in Task, CreateTask(t, u) PROVE ClientTypes'
    BY <2>4 DEF CreateTask, Stack!Take
  <2>5. ASSUME NEW u \in Task, StopOther(t, u) PROVE ClientTypes'
    BY <1>3, <2>5 DEF StopOther
  <2>6. ASSUME NEW u \in Task, JoinCall(t, u) \/ BlockTest(t, u) PROVE ClientTypes'
    BY <2>6 DEF JoinCall, BlockTest, stackVars
  <2>7. ASSUME NEW u \in Task, Unblock(t, u) \/ UnblockLate(t, u) PROVE ClientTypes'
    BY <2>7 DEF Unblock, UnblockLate, clientVars, stackVars
  <2>8. ASSUME NEW u \in Task, UnblockInside(t, u) PROVE ClientTypes'
    BY <2>8 DEF UnblockInside, stackVars
  <2> QED
    BY <1>5, <2>1, <2>2, <2>3, <2>4, <2>5, <2>6, <2>7, <2>8 DEF ClientCall
<1> QED
  BY <1>1, <1>2, <1>4, <1>5 DEF Next

\* A call of scheduler() gives no element but to the task that enters, and makes
\* no structure an unused one.
LEMMA OnceCall ==
    ASSUME OnceInv, phase # "destroyed", phase' = "on", ClientTypes',
           NEW signum \in {"SIG_TASK_NEW", "SIG_TASK_YIELD", "SIG_TASK_END"},
           NEW data, NEW s \in [Task -> TaskState], scheduler(signum, data, s),
           signum = "SIG_TASK_NEW" => data \in Task \ Held /\ s[data] # "UNUSED",
           \A t \in Made : s[t] # "UNUSED"
    PROVE  OnceInv'
<1>1. KernelInv /\ Held \subseteq Made
  BY DEF OnceInv, KernelInv
<1>2. /\ KernelInv'
      /\ Held' \subseteq Held \/ (signum = "SIG_TASK_NEW" /\ Held' \subseteq Held \cup {data})
  BY <1>1, SchedulerPreserves DEF Held
<1>3. \A t \in Task : s[t] # "UNUSED" => st'[t] # "UNUSED"
  BY <1>1, SchedulerDispatches DEF KernelInv
<1>4. \A t \in Task : s[t] # "UNUSED" => t \in Made'
  BY <1>3 DEF Made
<1>5. Held' \subseteq Made'
  BY <1>1, <1>2, <1>4 DEF Made
<1> QED
  BY <1>2, <1>5 DEF OnceInv, KernelInv

\* A call that enters n, whose state the caller has set.
LEMMA OnceEnter ==
    ASSUME OnceInv, phase # "destroyed", phase' = "on", ClientTypes',
           NEW n \in Task \ Held, NEW c \in {"ACTIVE", "READY"},
           scheduler("SIG_TASK_NEW", n, [st EXCEPT ![n] = c])
    PROVE  OnceInv'
<1> DEFINE s == [st EXCEPT ![n] = c]
           sig == "SIG_TASK_NEW"
<1>1. st \in [Task -> TaskState]
  BY DEF OnceInv, KernelTypeOK
<1>2. /\ s \in [Task -> TaskState] /\ s[n] # "UNUSED"
      /\ \A t \in Made : s[t] # "UNUSED"
  BY <1>1 DEF TaskState, Made
<1>3. sig \in {"SIG_TASK_NEW", "SIG_TASK_YIELD", "SIG_TASK_END"} /\ scheduler(sig, n, s)
  OBVIOUS
<1> HIDE DEF s, sig
<1> QED
  BY <1>2, <1>3, OnceCall

\* A call that enters nobody.
LEMMA OncePlain ==
    ASSUME OnceInv, phase # "destroyed", phase' = "on", ClientTypes', NEW data,
           scheduler("SIG_TASK_YIELD", data, st) \/ scheduler("SIG_TASK_END", data, st)
    PROVE  OnceInv'
<1>1. st \in [Task -> TaskState] /\ \A t \in Made : st[t] # "UNUSED"
  BY DEF OnceInv, KernelTypeOK, Made
<1>2. ASSUME NEW sig \in {"SIG_TASK_NEW", "SIG_TASK_YIELD", "SIG_TASK_END"},
             sig # "SIG_TASK_NEW", scheduler(sig, data, st)
      PROVE  OnceInv'
  BY <1>1, <1>2, OnceCall
<1> QED
  BY <1>2

\* A step that leaves the queue alone and makes no structure an unused one.
LEMMA OnceQuiet ==
    ASSUME OnceInv, phase' = phase, ClientTypes', KernelTypeOK',
           UNCHANGED <<queued, queues, qelem_current>>,
           \A t \in Task : st[t] # "UNUSED" => st'[t] # "UNUSED"
    PROVE  OnceInv'
<1>1. runq' = runq /\ InQueue' = InQueue /\ Current' = Current
  BY DEF runq, InQueue, Current
<1>2. (OneElement <=> OneElement') /\ (QueuedExact <=> QueuedExact') /\ Held' = Held
  BY <1>1 DEF OneElement, QueuedExact, Held
<1>3. Made \subseteq Made'
  BY DEF Made
<1> QED
  BY <1>2, <1>3 DEF OnceInv

\* Every step keeps OnceInv: stop_task drops the caller's element and no other,
\* and unblock_task enters one only where the bit says there is none.
LEMMA OnceStep ==
    ASSUME Reusable = {}, "unblock_self" \notin Ops, OnceInv, PendingOther, [Next]_vars
    PROVE  OnceInv'
<1>1. ClientTypes' /\ KernelTypeOK /\ Current \subseteq Held
  BY ClientTypesKept DEF OnceInv, Held
<1>2. ASSUME phase' = phase, UNCHANGED kernelVars PROVE OnceInv'
  <2>1. KernelTypeOK'
    BY <1>1, <1>2 DEF KernelTypeOK, kernelVars
  <2> QED
    BY <1>1, <1>2, <2>1, OnceQuiet DEF kernelVars
<1>3. CASE Start
  <2>1. /\ phase = "off" /\ phase' = "on" /\ Held = {} /\ MainTask \in Task
        /\ scheduler("SIG_TASK_NEW", MainTask, [st EXCEPT ![MainTask] = "ACTIVE"])
    BY <1>3, MainAssumption DEF Start, OnceInv
  <2> QED
    BY <1>1, <2>1, OnceEnter
<1>4. CASE DestroySched
  <2>1. KernelTypeOK' /\ phase' = "destroyed"
    BY <1>1, <1>4, EmptyQueueType DEF DestroySched, KernelTypeOK, Queue
  <2> QED
    BY <1>1, <2>1 DEF OnceInv
<1>5. CASE Timer
  <2>1. CASE LiftExpires
    <3>1. KernelTypeOK'
      BY <1>1, <2>1 DEF LiftExpires, KernelTypeOK
    <3> QED
      BY <1>1, <2>1, <3>1, OnceQuiet DEF LiftExpires
  <2>2. CASE ~LiftExpires
    <3>1. /\ phase = "on" /\ phase' = "on"
          /\ scheduler("SIG_TASK_YIELD", "siginfo", st)
      BY <1>5, <2>2 DEF Timer, IdleTick, Preempt, Running
    <3> QED
      BY <1>1, <3>1, OncePlain
  <2> QED
    BY <2>1, <2>2
<1>6. ASSUME NEW r \in Task, StopTask(r), phase = "on" PROVE OnceInv'
  <2>1. phase' = "on" /\ scheduler("SIG_TASK_END", NULL, st)
    BY <1>6 DEF StopTask
  <2> QED
    BY <1>1, <1>6, <2>1, OncePlain
<1>10. ASSUME NEW t \in Task, NEW u \in Task, NEW r \in BOOLEAN,
              UnblockTask(u, r), phase' = phase, Running(t), u # t
       PROVE  OnceInv'
  <2>1. phase = "on" /\ phase' = "on"
    BY <1>10 DEF Running
  <2>2. CASE ~queued[u] /\ scheduler("SIG_TASK_NEW", u, [st EXCEPT ![u] = "READY"])
    <3>1. u \in Task \ Held
      BY <1>10, <2>2, RunningHolds DEF OnceInv, QueuedExact, Held
    <3> QED
      BY <1>1, <2>1, <2>2, <3>1, OnceEnter
  <2>3. CASE /\ st' = [st EXCEPT ![u] = "READY"] /\ armed' = r
             /\ UNCHANGED <<queued, queues, qelem_current, lift_expired>>
    <3>1. KernelTypeOK' /\ \A x \in Task : st[x] # "UNUSED" => st'[x] # "UNUSED"
      BY <1>1, <2>3 DEF KernelTypeOK, TaskState
    <3> QED
      BY <1>1, <2>1, <2>3, <3>1, OnceQuiet
  <2> QED
    BY <1>10, <2>2, <2>3 DEF UnblockTask
<1>7. ASSUME NEW t \in Task, LibraryStep(t) PROVE OnceInv'
  <2>1. CASE End(t)
    BY <1>6, <2>1 DEF End, Running
  <2>2. CASE PollNothing(t) \/ JoinYields(t)
    <3>1. phase = "on" /\ phase' = "on" /\ scheduler("SIG_TASK_YIELD", NULL, st)
      BY <2>2 DEF PollNothing, JoinYields, Calls, Running
    <3> QED
      BY <1>1, <3>1, OncePlain
  <2>3. CASE PollAnswers(t) \/ JoinSpins(t) \/ JoinSees(t) \/ JoinReturn(t)
    BY <1>2, <2>3 DEF PollAnswers, JoinSpins, JoinSees, JoinReturn
  <2>4. CASE BlockSet(t) \/ UnblockSched(t)
    <3>1. KernelTypeOK'
      BY <1>1, <2>4 DEF BlockSet, UnblockSched, TimerToRestore, KernelTypeOK, TaskState,
                        OnceInv, ClientTypes
    <3>2. /\ phase' = phase /\ UNCHANGED <<queued, queues, qelem_current>>
          /\ \A u \in Task : st[u] # "UNUSED" => st'[u] # "UNUSED"
      BY <1>1, <2>4 DEF BlockSet, UnblockSched, KernelTypeOK
    <3> QED
      BY <1>1, <3>1, <3>2, OnceQuiet
  <2>5. CASE UnblockResumes(t)
    <3>1. arg[t] \in Task /\ arg[t] # t
      BY <2>5 DEF UnblockResumes, PendingOther
    <3>2. UnblockTask(arg[t], FALSE) /\ phase' = phase /\ Running(t)
      BY <2>5 DEF UnblockResumes
    <3> QED
      BY <1>10, <3>1, <3>2
  <2> QED
    BY <1>7, <2>1, <2>2, <2>3, <2>4, <2>5 DEF LibraryStep
<1>8. ASSUME NEW t \in Task, ClientCall(t) PROVE OnceInv'
  <2>1. CASE Return(t) \/ BlockSched(t)
    <3>1. KernelTypeOK'
      BY <1>1, <2>1 DEF Return, BlockSched, KernelTypeOK, TaskState
    <3>2. /\ phase' = phase /\ UNCHANGED <<queued, queues, qelem_current>>
          /\ \A u \in Task : st[u] # "UNUSED" => st'[u] # "UNUSED"
      BY <1>1, <2>1 DEF Return, BlockSched, KernelTypeOK
    <3> QED
      BY <1>1, <3>1, <3>2, OnceQuiet
  <2>2. CASE Exit(t)
    BY <1>6, <2>2 DEF Exit, Calls, Running
  <2>3. CASE TaskYield(t)
    <3>1. phase = "on" /\ phase' = "on" /\ scheduler("SIG_TASK_YIELD", NULL, st)
      BY <2>3 DEF TaskYield, Calls, Running
    <3> QED
      BY <1>1, <3>1, OncePlain
  <2>4. ASSUME NEW u \in Task, CreateTask(t, u) PROVE OnceInv'
    <3>1. /\ phase = "on" /\ phase' = "on" /\ st[u] = "UNUSED"
          /\ scheduler("SIG_TASK_NEW", u, [st EXCEPT ![u] = "READY"])
      BY <2>4 DEF CreateTask, Calls, Running
    <3>2. u \in Task \ Held
      BY <3>1 DEF OnceInv, Made
    <3> QED
      BY <1>1, <3>1, <3>2, OnceEnter
  <2>5. ASSUME NEW u \in Task, StopOther(t, u) PROVE OnceInv'
    BY <1>6, <2>5 DEF StopOther, Calls, Running
  <2>6. ASSUME NEW u \in Task, JoinCall(t, u) \/ BlockTest(t, u) PROVE OnceInv'
    BY <1>2, <2>6 DEF JoinCall, BlockTest
  <2>7. ASSUME NEW u \in Task, Unblock(t, u) \/ UnblockInside(t, u) PROVE OnceInv'
    <3>1. UnblockTask(u, armed) /\ phase' = phase /\ Running(t) /\ u # t
      BY <2>7 DEF Unblock, UnblockInside, MayUnblock, RestoredTimer, Calls
    <3>2. armed \in BOOLEAN
      BY <1>1 DEF KernelTypeOK
    <3> QED
      BY <1>10, <3>1, <3>2
  <2>8. ASSUME NEW u \in Task, UnblockLate(t, u) \/ BlockSchedLate(t) PROVE OnceInv'
    <3>1. phase = "on" /\ phase' = "on" /\ scheduler("SIG_TASK_YIELD", "siginfo", st)
      BY <2>8 DEF UnblockLate, BlockSchedLate, Calls, Running
    <3> QED
      BY <1>1, <3>1, OncePlain
  <2> QED
    BY <1>8, <2>1, <2>2, <2>3, <2>4, <2>5, <2>6, <2>7, <2>8 DEF ClientCall
<1>9. CASE UNCHANGED vars
  BY <1>2, <1>9 DEF vars
<1> QED
  BY <1>3, <1>4, <1>5, <1>7, <1>8, <1>9 DEF Next

\* AccountInv holds in every reachable state: by SchedInv where the program is
\* clean, by OnceInv where no structure is used twice.
LEMMA AccountInvariant == SafeReuse => (Spec => [](AccountInv /\ PendingOther))
<1>1. SchedInv /\ NoPending => AccountInv /\ PendingOther
  BY DEF SchedInv, AccountInv, NoPending, PendingOther
<1>2. CleanUse => (Spec => [](AccountInv /\ PendingOther))
  BY <1>1, SchedInvariant, PTL
<1>3. ASSUME Reusable = {}, "unblock_self" \notin Ops
      PROVE  Spec => [](AccountInv /\ PendingOther)
  <2>1. Init => OnceInv /\ PendingOther
    <3> SUFFICES ASSUME Init PROVE OnceInv /\ PendingOther
      OBVIOUS
    <3>1. SchedInv /\ phase = "off" /\ PendingOther
      BY InitEstablishesSchedInv DEF Init, PendingOther
    <3> QED
      BY <3>1 DEF SchedInv, OnceInv
  <2>2. OnceInv /\ PendingOther /\ [Next]_vars => OnceInv' /\ PendingOther'
    BY <1>3, OnceStep, PendingStep DEF OnceInv, ClientTypes
  <2>3. OnceInv => AccountInv
    BY <1>3 DEF OnceInv, AccountInv, Made
  <2> QED
    BY <2>1, <2>2, <2>3, PTL DEF Spec
<1> QED
  BY <1>2, <1>3 DEF SafeReuse

-----------------------------------------------------------------------------
\* Every variable keeps its type: no level past the last one, no state out
\* of Task_State, no element that is not a task's.
THEOREM SchedulerTypeCorrect == SafeReuse => (Spec => []TypeOK)
<1>1. AccountInv => TypeOK
  BY DEF AccountInv, ClientTypes, TypeOK
<1> QED
  BY <1>1, AccountInvariant, PTL

\* One element for each task and exact queued bits, wherever the quantum runs
\* out and whatever tasks are created, blocked, unblocked and joined; stopped or
\* unblocked after their end too, if no structure is given to create_task twice.
THEOREM QueueAccountingHolds == SafeReuse => (Spec => []QueueAccounting)
<1>1. AccountInv => QueueAccounting
  BY DEF AccountInv, QueueAccounting
<1> QED
  BY <1>1, AccountInvariant, PTL

\* scheduler() never holds, and so never jumps into, a task whose context and
\* stack have been freed.
THEOREM ContextsStayAlive == CleanUse => (Spec => []ContextsAlive)
<1>1. SchedInv => ContextsAlive
  BY DEF SchedInv, ContextsAlive, Held
<1> QED
  BY <1>1, SchedInvariant, PTL

-----------------------------------------------------------------------------
Inside == {"critical", "nested"}

\* Who is inside a block_sched section runs, with the timer disarmed; and in a
\* nested one what block_sched saved is a disarmed timer too.
SectionInv ==
    /\ pc \in [Task -> ProgramCounter]
    /\ \A t \in Task : pc[t] \in Inside =>
          Running(t) /\ ~armed /\ (pc[t] = "nested" => ~old_armed)

SectionKept ==
    \A t \in Task : Running(t) /\ pc[t] \in Inside =>
        \/ Running(t)'
        \/ \E u \in Task : ~queued[u] /\ UnblockInside(t, u)

\* While a task runs outside, or none runs, nobody is inside.
LEMMA NobodyInside ==
    ASSUME SectionInv,
           armed \/ ~(\E t \in Task : Running(t))
                 \/ \E t \in Task : Running(t) /\ pc[t] \notin Inside
    PROVE  \A u \in Task : pc[u] \notin Inside
<1>1. ASSUME NEW t \in Task, Running(t), pc[t] \notin Inside, NEW u \in Task, Running(u)
      PROVE  u = t
  BY <1>1 DEF Running
<1> QED
  BY <1>1 DEF SectionInv

\* A step from a state where nobody is inside, and that lets nobody in.
LEMMA OutsideStep ==
    ASSUME SectionInv, \A u \in Task : pc[u] \notin Inside,
           pc' \in [Task -> ProgramCounter],
           \A u \in Task : pc'[u] \notin Inside
    PROVE  SectionInv' /\ SectionKept
<1> QED
  BY DEF SectionInv, SectionKept

\* A step of the task that runs, inside, which keeps the processor.
LEMMA InsideStep ==
    ASSUME SectionInv, NEW t \in Task, Running(t),
           UNCHANGED <<phase, qelem_current>>,
           NEW c \in ProgramCounter, pc' = [pc EXCEPT ![t] = c],
           c \in Inside => ~armed' /\ (c = "nested" => ~old_armed')
    PROVE  SectionInv' /\ SectionKept
<1>1. \A u \in Task : Running(u) <=> u = t
  BY DEF Running
<1>2. \A u \in Task : Running(u)' <=> Running(u)
  BY DEF Running
<1>3. pc' \in [Task -> ProgramCounter]
  BY DEF SectionInv
<1>4. \A u \in Task : u # t => pc[u] \notin Inside /\ pc'[u] = pc[u]
  BY <1>1 DEF SectionInv
<1>5. pc'[t] = c
  BY DEF SectionInv
<1> QED
  BY <1>1, <1>2, <1>3, <1>4, <1>5 DEF SectionInv, SectionKept

\* No step lets the task that is inside lose the processor, but unblock_task.
LEMMA SectionStep ==
    ASSUME SectionInv, [Next]_vars
    PROVE  SectionInv' /\ SectionKept
<1> USE DEF ProgramCounter, Inside
<1>1. CASE Start
  <2>1. \A u \in Task : pc[u] \notin Inside
    BY <1>1, NobodyInside DEF Start, Running
  <2>2. pc' \in [Task -> ProgramCounter] /\ \A u \in Task : pc'[u] \notin Inside
    BY <1>1, <2>1 DEF Start, SectionInv
  <2> QED
    BY <2>1, <2>2, OutsideStep
<1>2. CASE DestroySched
  <2>1. \A u \in Task : pc[u] \notin Inside
    BY <1>2, NobodyInside, MainAssumption DEF DestroySched, Calls
  <2> QED
    BY <1>2, <2>1, OutsideStep DEF DestroySched, clientVars, SectionInv
<1>3. ASSUME NEW t \in Task, Preempt(t) PROVE SectionInv' /\ SectionKept
  <2>1. \A u \in Task : pc[u] \notin Inside
    BY <1>3, NobodyInside DEF Preempt
  <2> QED
    BY <1>3, <2>1, OutsideStep DEF Preempt, clientVars, SectionInv
<1>4. CASE IdleTick
  <2>1. \A u \in Task : pc[u] \notin Inside
    BY <1>4, NobodyInside DEF IdleTick, Running
  <2> QED
    BY <1>4, <2>1, OutsideStep DEF IdleTick, clientVars, SectionInv
<1>5. CASE LiftExpires
  BY <1>5 DEF LiftExpires, clientVars, SectionInv, SectionKept, Running
<1>6. ASSUME NEW t \in Task, NEW op, Calls(t, op)
      PROVE  Running(t) /\ \A u \in Task : pc[u] \notin Inside
  BY <1>6, NobodyInside DEF Calls
<1>7. ASSUME NEW t \in Task, LibraryStep(t) PROVE SectionInv' /\ SectionKept
  <2>1. CASE UnblockSched(t)
    <3>1. PICK e \in Enters \cup {<<"user", "torn">>} :
             pc[t] = e[2] /\ pc' = [pc EXCEPT ![t] = e[1]]
      BY <2>1 DEF UnblockSched
    <3>3. e[1] \in ProgramCounter /\ e[1] # "nested"
      BY LeavesFacts
    <3>4. e[1] = "critical" => pc[t] = "nested"
      BY <3>1, LeavesFacts
    <3>5. e[1] \in Inside => ~armed'
      BY <2>1, <3>3, <3>4 DEF UnblockSched, TimerToRestore, SectionInv
    <3> QED
      BY <2>1, <3>1, <3>3, <3>5, InsideStep DEF UnblockSched
  <2>2. CASE ~UnblockSched(t)
    <3>1. Running(t) /\ pc[t] \notin Inside
      BY <1>7, <2>2
         DEF LibraryStep, End, PollNothing, PollAnswers, JoinSpins, JoinYields,
             JoinSees, JoinReturn, BlockSet, UnblockResumes, Calls
    <3>2. \A u \in Task : pc[u] \notin Inside
      BY <3>1, NobodyInside
    <3>3. PICK v \in Task, c \in ProgramCounter \ Inside : pc' = [pc EXCEPT ![v] = c]
      BY <1>7, <2>2
         DEF LibraryStep, End, StopTask, PollNothing, PollAnswers, JoinSpins,
             JoinYields, JoinSees, JoinReturn, BlockSet, UnblockResumes
    <3>4. pc' \in [Task -> ProgramCounter] /\ \A u \in Task : pc'[u] \notin Inside
      BY <3>2, <3>3 DEF SectionInv
    <3> QED
      BY <3>2, <3>4, OutsideStep
  <2> QED
    BY <2>1, <2>2
<1>8. ASSUME NEW t \in Task, ClientCall(t) PROVE SectionInv' /\ SectionKept
  <2>1. CASE BlockSched(t)
    <3>1. PICK e \in Enters : pc[t] = e[1] /\ pc' = [pc EXCEPT ![t] = e[2]]
      BY <2>1 DEF BlockSched
    <3>2. e = <<"user", "critical">> \/ e = <<"critical", "nested">>
      BY DEF Enters
    <3>3. e[2] \in ProgramCounter /\ (e[2] = "nested" => pc[t] = "critical")
      BY <3>1, <3>2
    <3>4. ~armed' /\ (e[2] = "nested" => ~old_armed')
      BY <2>1, <3>3 DEF BlockSched, SectionInv
    <3> QED
      BY <2>1, <3>1, <3>3, <3>4, InsideStep DEF BlockSched
  <2>2. ASSUME NEW u \in Task, UnblockInside(t, u), queued[u]
        PROVE  SectionInv' /\ SectionKept
    <3>1. /\ Running(t) /\ pc[t] \in {"critical", "torn"} /\ armed' = armed
          /\ UNCHANGED <<phase, qelem_current>> /\ pc' = [pc EXCEPT ![t] = pc[t]]
      BY <2>2 DEF UnblockInside, UnblockTask, RestoredTimer
    <3>2. pc[t] \in Inside => pc[t] = "critical" /\ ~armed
      BY <3>1 DEF SectionInv
    <3> QED
      BY <3>1, <3>2, InsideStep
  <2>4. ASSUME NEW u \in Task, UnblockInside(t, u), ~queued[u]
        PROVE  SectionInv' /\ SectionKept
    <3>1. Running(t) /\ pc' = [pc EXCEPT ![t] = "torn"]
      BY <2>4 DEF UnblockInside
    <3>2. \A v \in Task : Running(v) => v = t
      BY <3>1 DEF Running
    <3>3. pc' \in [Task -> ProgramCounter] /\ \A v \in Task : pc'[v] \notin Inside
      BY <3>1, <3>2 DEF SectionInv
    <3> QED
      BY <2>4, <3>2, <3>3 DEF SectionInv, SectionKept
  <2>3. CASE ~BlockSched(t) /\ \A u \in Task : ~UnblockInside(t, u)
    <3>1. \A u \in Task : pc[u] \notin Inside
      BY <1>6, <1>8, <2>3
         DEF ClientCall, Return, Exit, TaskYield, CreateTask, StopOther, JoinCall,
             BlockTest, Unblock, UnblockLate, BlockSchedLate
    <3>2. \/ pc' = pc
          \/ \E v \in Task, c \in ProgramCounter \ Inside : pc' = [pc EXCEPT ![v] = c]
      BY <1>8, <2>3
         DEF ClientCall, Return, Exit, StopTask, TaskYield, CreateTask, StopOther,
             JoinCall, BlockTest, Unblock, UnblockLate, BlockSchedLate, clientVars
    <3>3. pc' \in [Task -> ProgramCounter] /\ \A u \in Task : pc'[u] \notin Inside
      BY <3>1, <3>2 DEF SectionInv
    <3> QED
      BY <3>1, <3>3, OutsideStep
  <2> QED
    BY <2>1, <2>2, <2>3, <2>4
<1>9. CASE UNCHANGED vars
  BY <1>9 DEF vars, kernelVars, clientVars, SectionInv, SectionKept, Running
<1> QED
  BY <1>1, <1>2, <1>3, <1>4, <1>5, <1>7, <1>8, <1>9 DEF Next, Timer

LEMMA SectionInvariant == Spec => []SectionInv
<1>1. Init => SectionInv
  BY DEF Init, SectionInv, ProgramCounter, Inside
<1>2. SectionInv /\ [Next]_vars => SectionInv'
  BY SectionStep
<1> QED
  BY <1>1, <1>2, PTL DEF Spec

\* Between block_sched and unblock_sched, nested or not, the running task keeps
\* the processor, whatever the program does and wherever the quantum may run out,
\* but for the section's own unblock_task of a task with no element in the queue.
THEOREM SectionsAreAtomic == Spec => SectionsAtomic
<1> DEFINE Kept == \A t \in Task :
                      Running(t) /\ pc[t] \in {"critical", "nested"} =>
                          \/ Running(t)'
                          \/ \E u \in Task : ~queued[u] /\ UnblockInside(t, u)
<1>1. SectionInv /\ [Next]_vars => [Kept]_vars
  BY SectionStep DEF SectionKept, Inside
<1> QED
  BY <1>1, SectionInvariant, PTL DEF Spec, SectionsAtomic

-----------------------------------------------------------------------------
\* A program that does not open a section inside a section, and whose signals do
\* not arrive inside the call that disarms the timer.
FlatSections == "nested" \notin Ops /\ "late" \notin PreemptPoints

\* Nobody is in a section of a section, so that what block_sched saved is the
\* quantum of a task that ran with its timer armed.
QuantumInv ==
    /\ SectionInv
    /\ \A t \in Task :
          /\ pc[t] # "nested"
          /\ pc[t] \in {"critical", "torn"} => old_armed
          /\ Running(t) /\ pc[t] # "critical" => armed

\* scheduler() gives whom it dispatches a quantum.
LEMMA DispatchArms ==
    ASSUME NEW signum, NEW data, NEW s, scheduler(signum, data, s)
    PROVE  qelem_current' # NULL => armed'
<1> QED
  BY Zenon DEF scheduler

\* A step after which nobody is inside, and that dispatched a task or left the
\* running one and its timer.
LEMMA ArmedStep ==
    ASSUME QuantumInv, SectionInv',
           \A u \in Task : pc[u] \notin Inside /\ pc'[u] \notin Inside,
           old_armed' = old_armed, \A u \in Task : pc'[u] = "torn" => pc[u] = "torn",
           \/ qelem_current' # NULL => armed'
           \/ UNCHANGED <<phase, qelem_current, armed>>
    PROVE  QuantumInv'
<1>1. ASSUME NEW u \in Task, Running(u)' PROVE armed'
  BY <1>1 DEF QuantumInv, Running, Inside
<1> QED
  BY <1>1 DEF QuantumInv, Inside

\* No step of such a program takes the quantum's timer from who runs outside.
LEMMA QuantumStep ==
    ASSUME FlatSections, QuantumInv, NoPending, [Next]_vars
    PROVE  QuantumInv'
<1> USE DEF ProgramCounter, Inside
<1>1. SectionInv /\ SectionInv'
  BY SectionStep DEF QuantumInv
<1>2. ASSUME NEW t \in Task, Running(t), pc[t] \notin Inside, old_armed' = old_armed,
             pc' = pc \/ \E v \in Task, c \in ProgramCounter \ (Inside \cup {"torn"}) :
                            pc' = [pc EXCEPT ![v] = c],
             \/ qelem_current' # NULL => armed'
             \/ UNCHANGED <<phase, qelem_current, armed>>
      PROVE  QuantumInv'
  <2>1. \A u \in Task : pc[u] \notin Inside
    BY <1>1, <1>2, NobodyInside
  <2>2. \A u \in Task : pc'[u] \notin Inside /\ (pc'[u] = "torn" => pc[u] = "torn")
    BY <1>1, <1>2, <2>1 DEF SectionInv
  <2> QED
    BY <1>1, <1>2, <2>1, <2>2, ArmedStep
<1>3. CASE Start
  <2>1. \A u \in Task : pc[u] \notin Inside
    BY <1>1, <1>3, NobodyInside DEF Start, Running
  <2>2. \A u \in Task : pc'[u] \notin Inside /\ (pc'[u] = "torn" => pc[u] = "torn")
    BY <1>1, <1>3, <2>1 DEF Start, SectionInv
  <2>3. (qelem_current' # NULL => armed') /\ old_armed' = old_armed
    BY <1>3, DispatchArms DEF Start
  <2> QED
    BY <1>1, <2>1, <2>2, <2>3, ArmedStep
<1>4. CASE DestroySched
  <2>1. pc' = pc /\ old_armed' = old_armed /\ \A u \in Task : ~Running(u)'
    BY <1>4 DEF DestroySched, clientVars, Running
  <2> QED
    BY <1>1, <2>1 DEF QuantumInv
<1>5. ASSUME NEW t \in Task, Preempt(t) PROVE QuantumInv'
  <2>1. pc' = pc /\ (qelem_current' # NULL => armed')
    BY <1>5, DispatchArms DEF Preempt, clientVars
  <2>2. pc[t] \notin Inside
    BY <1>1, <1>5 DEF Preempt, SectionInv
  <2> QED
    BY <1>2, <1>5, <2>1, <2>2 DEF Preempt
<1>6. CASE IdleTick
  <2>1. \A u \in Task : pc[u] \notin Inside
    BY <1>1, <1>6, NobodyInside DEF IdleTick, Running
  <2>2. pc' = pc /\ old_armed' = old_armed /\ (qelem_current' # NULL => armed')
    BY <1>6, DispatchArms DEF IdleTick, clientVars
  <2> QED
    BY <1>1, <2>1, <2>2, ArmedStep
<1>7. CASE LiftExpires
  BY <1>1, <1>7 DEF LiftExpires, clientVars, QuantumInv, Running
<1>8. ASSUME NEW t \in Task, LibraryStep(t) PROVE QuantumInv'
  <2>1. CASE UnblockSched(t)
    <3>1. PICK e \in Enters \cup {<<"user", "torn">>} :
             pc[t] = e[2] /\ pc' = [pc EXCEPT ![t] = e[1]]
      BY <2>1 DEF UnblockSched
    <3>2. pc[t] \in {"critical", "torn"} /\ e[1] = "user"
      BY <3>1, LeavesFacts DEF QuantumInv
    <3>3. /\ Running(t) /\ armed' = old_armed /\ old_armed /\ old_armed' = old_armed
          /\ UNCHANGED <<phase, qelem_current>>
      BY <2>1, <3>2 DEF UnblockSched, TimerToRestore, QuantumInv
    <3> QED
      BY <1>1, <3>1, <3>2, <3>3 DEF QuantumInv, SectionInv
  <2>2. CASE End(t) \/ PollNothing(t) \/ JoinYields(t)
    <3>1. qelem_current' # NULL => armed'
      BY <2>2, DispatchArms DEF End, StopTask, PollNothing, JoinYields
    <3> QED
      BY <1>2, <2>2, <3>1 DEF End, StopTask, PollNothing, JoinYields, Calls
  <2>3. CASE PollAnswers(t) \/ JoinSpins(t) \/ JoinSees(t) \/ JoinReturn(t) \/ BlockSet(t)
    BY <1>2, <2>3 DEF PollAnswers, JoinSpins, JoinSees, JoinReturn, BlockSet, kernelVars
  <2>4. ~UnblockResumes(t)
    BY DEF UnblockResumes, NoPending
  <2> QED
    BY <1>8, <2>1, <2>2, <2>3, <2>4 DEF LibraryStep
<1>9. ASSUME NEW t \in Task, ClientCall(t) PROVE QuantumInv'
  <2>1. CASE BlockSched(t)
    <3>1. PICK e \in Enters :
            /\ pc[t] = e[1] /\ pc' = [pc EXCEPT ![t] = e[2]]
            /\ e[2] = "nested" => "nested" \in Ops
      BY <2>1 DEF BlockSched
    <3>2. pc[t] = "user" /\ e[2] = "critical"
      BY <3>1 DEF Enters, FlatSections
    <3>3. /\ Running(t) /\ old_armed' = armed /\ armed
          /\ UNCHANGED <<phase, qelem_current>>
      BY <2>1, <3>2 DEF BlockSched, QuantumInv
    <3>4. \A u \in Task : Running(u)' => u = t
      BY <3>3 DEF Running
    <3> QED
      BY <1>1, <3>1, <3>2, <3>3, <3>4 DEF QuantumInv, SectionInv
  <2>2. ASSUME NEW u \in Task, UnblockInside(t, u), queued[u] PROVE QuantumInv'
    <3>1. UNCHANGED <<phase, qelem_current, armed, old_armed>> /\ pc' = [pc EXCEPT ![t] = pc[t]]
      BY <2>2 DEF UnblockInside, UnblockTask, RestoredTimer
    <3>2. pc' = pc
      BY <1>1, <3>1 DEF SectionInv
    <3> QED
      BY <1>1, <3>1, <3>2 DEF QuantumInv, Running
\* The section goes on, some day, with the quantum of whom is resumed.
  <2>8. ASSUME NEW u \in Task, UnblockInside(t, u), ~queued[u] PROVE QuantumInv'
    <3>1. /\ Running(t) /\ pc' = [pc EXCEPT ![t] = "torn"] /\ old_armed' = old_armed
          /\ pc[t] \in {"critical", "torn"} /\ (qelem_current' # NULL => armed')
      BY <2>8, DispatchArms DEF UnblockInside, UnblockTask
    <3>2. \A v \in Task : Running(v)' => armed'
      BY <3>1 DEF Running
    <3> QED
      BY <1>1, <3>1, <3>2 DEF QuantumInv, SectionInv
  <2>3. CASE Return(t)
    BY <1>2, <2>3 DEF Return, Calls
  <2>4. CASE Exit(t) \/ TaskYield(t)
    <3>1. qelem_current' # NULL => armed'
      BY <2>4, DispatchArms DEF Exit, StopTask, TaskYield
    <3> QED
      BY <1>2, <2>4, <3>1 DEF Exit, StopTask, TaskYield, clientVars, Calls
  <2>5. ASSUME NEW u \in Task, CreateTask(t, u) \/ StopOther(t, u) PROVE QuantumInv'
    <3>1. qelem_current' # NULL => armed'
      BY <2>5, DispatchArms DEF CreateTask, StopOther, StopTask
    <3> QED
      BY <1>2, <2>5, <3>1 DEF CreateTask, StopOther, StopTask, Calls
  <2>6. ASSUME NEW u \in Task, JoinCall(t, u) \/ BlockTest(t, u) PROVE QuantumInv'
    BY <1>2, <2>6 DEF JoinCall, BlockTest, Calls, kernelVars
  <2>7. ASSUME NEW u \in Task, Unblock(t, u) PROVE QuantumInv'
    <3>1. \/ qelem_current' # NULL => armed'
          \/ UNCHANGED <<phase, qelem_current, armed>>
      BY <2>7, DispatchArms DEF Unblock, UnblockTask, RestoredTimer
    <3> QED
      BY <1>2, <2>7, <3>1 DEF Unblock, clientVars, Calls
  <2>9. ~BlockSchedLate(t) /\ \A u \in Task : ~UnblockLate(t, u)
    BY DEF BlockSchedLate, UnblockLate, Late, FlatSections
  <2> QED
    BY <1>9, <2>1, <2>2, <2>3, <2>4, <2>5, <2>6, <2>7, <2>8, <2>9 DEF ClientCall
<1>10. CASE UNCHANGED vars
  BY <1>1, <1>10 DEF vars, kernelVars, clientVars, QuantumInv, Running
<1> QED
  BY <1>3, <1>4, <1>5, <1>6, <1>7, <1>8, <1>9, <1>10 DEF Next, Timer

\* A task that runs outside a section can be preempted, in every program that
\* does not nest them, sections that give the processor away included.
THEOREM QuantumStaysArmed == FlatSections => (Spec => []QuantumArmed)
<1> SUFFICES ASSUME FlatSections PROVE Spec => []QuantumArmed
  OBVIOUS
<1> DEFINE QInv == QuantumInv /\ NoPending
<1>1. Init => QInv
  BY DEF Init, QuantumInv, NoPending, SectionInv, ProgramCounter, Inside, Running
<1>2. QInv /\ [Next]_vars => QInv'
  BY QuantumStep, PendingStep DEF FlatSections, QuantumInv, SectionInv
<1>3. QInv => QuantumArmed
  BY DEF QuantumInv, SectionInv, QuantumArmed, Inside
<1> QED
  BY <1>1, <1>2, <1>3, PTL DEF Spec

-----------------------------------------------------------------------------
\* Each task that is alive is held or blocked, and only the one that runs is
\* ACTIVE.
TaskInv ==
    /\ SchedInv
    /\ phase = "off" => live = {}
    /\ NoTaskLost
    /\ OneActive

\* The call of scheduler() does to the tasks what the library functions count
\* on, if each live task the caller leaves with no element is blocked, and
\* each it leaves ACTIVE is the one that runs (or main, while idle runs).
LEMMA CallStep ==
    ASSUME KernelInv, NEW signum \in {"SIG_TASK_NEW", "SIG_TASK_YIELD", "SIG_TASK_END"},
           NEW data, NEW s \in [Task -> TaskState],
           signum = "SIG_TASK_NEW" => data \in Task \ Held,
           scheduler(signum, data, s),
           live' \in SUBSET Task,
           \A t \in live' :
              /\ t \in Held \/ (signum = "SIG_TASK_NEW" /\ t = data) \/ s[t] = "BLOCKED"
              /\ signum = "SIG_TASK_END" => t \notin Current
              /\ s[t] = "ACTIVE" => t \in Current \/ (live' = {t} /\ InQueue \subseteq {t})
    PROVE  NoTaskLost' /\ OneActive'
<1>1. /\ \A t \in InQueue : t \in Held' \/ s[t] = "BLOCKED"
      /\ signum # "SIG_TASK_END" => Current \subseteq Held'
      /\ signum = "SIG_TASK_NEW" => data \in Held'
  BY SchedulerPreserves
<1>2. KernelTypeOK
  BY DEF KernelInv
<1>3. /\ \A t \in Current' : t \in InQueue /\ s[t] # "BLOCKED"
      /\ \A t, u \in Current' : t = u
      /\ \A t \in Task :
            st'[t] = IF t \in Current' THEN "ACTIVE"
                     ELSE IF /\ signum # "SIG_TASK_END" /\ t \in Current
                             /\ s[t] = "ACTIVE"
                          THEN "READY"
                          ELSE s[t]
  BY <1>2, SchedulerDispatches, ZenonT(60)
<1>4. ASSUME NEW t \in live' PROVE st'[t] = "BLOCKED" \/ t \in Held'
  <2>1. CASE t \in Held'
    BY <2>1
  <2>2. CASE t \notin Held'
    <3>1. s[t] = "BLOCKED" /\ t \notin Current'
      BY <2>2, <1>1, <1>4 DEF Held
    <3> QED
      BY <3>1, <1>3, <1>4
  <2> QED
    BY <2>1, <2>2
<1>5. ASSUME NEW t \in live', st'[t] = "ACTIVE"
      PROVE  Current' = {t} \/ (Current' = {} /\ live' = {t})
  <2>1. CASE t \in Current'
    BY <2>1, <1>3
  <2>2. CASE t \notin Current'
    <3>1. s[t] = "ACTIVE" /\ ~(signum # "SIG_TASK_END" /\ t \in Current)
      BY <2>2, <1>3, <1>5
    <3>2. live' = {t} /\ InQueue \subseteq {t}
      BY <3>1, <1>5
    <3> QED
      BY <2>2, <3>2, <1>3
  <2> QED
    BY <2>1, <2>2
<1>6. NoTaskLost'
  BY <1>4 DEF NoTaskLost, Held
<1> QED
  BY <1>5, <1>6 DEF OneActive

\* A task gives the processor up, or idle does, with the states as they were.
LEMMA YieldKeeps ==
    ASSUME TaskInv, phase = "on", live' = live,
           NEW data, scheduler("SIG_TASK_YIELD", data, st)
    PROVE  NoTaskLost' /\ OneActive'
<1> DEFINE sig == "SIG_TASK_YIELD"
<1>1. /\ sig # "SIG_TASK_NEW" /\ sig # "SIG_TASK_END"
      /\ sig \in {"SIG_TASK_NEW", "SIG_TASK_YIELD", "SIG_TASK_END"}
      /\ scheduler(sig, data, st)
  OBVIOUS
<1> HIDE DEF sig
<1>2. KernelInv /\ Held \subseteq live /\ st \in [Task -> TaskState] /\ live' \in SUBSET Task
  BY DEF TaskInv, SchedInv, ClientTypes, KernelInv, KernelTypeOK
<1>3. ASSUME NEW t \in live'
      PROVE  /\ t \in Held \/ st[t] = "BLOCKED"
             /\ st[t] = "ACTIVE" => t \in Current \/ (live' = {t} /\ InQueue \subseteq {t})
  BY <1>2 DEF TaskInv, NoTaskLost, OneActive, Held
<1> QED
  BY <1>1, <1>2, <1>3, CallStep

\* A task enters the queue; only start_sched leaves it ACTIVE.
LEMMA EnterKeeps ==
    ASSUME TaskInv, phase # "destroyed", NEW n \in Task \ Held,
           live' = live \cup {n},
           NEW c \in TaskState, scheduler("SIG_TASK_NEW", n, [st EXCEPT ![n] = c]),
           \/ c # "ACTIVE" /\ Current # {}
           \/ live = {}
    PROVE  NoTaskLost' /\ OneActive'
<1> DEFINE sig == "SIG_TASK_NEW"
           s == [st EXCEPT ![n] = c]
<1>1. /\ sig = "SIG_TASK_NEW" /\ sig # "SIG_TASK_END"
      /\ sig \in {"SIG_TASK_NEW", "SIG_TASK_YIELD", "SIG_TASK_END"}
      /\ scheduler(sig, n, s)
  OBVIOUS
<1>2. /\ KernelInv /\ Held \subseteq live
      /\ st \in [Task -> TaskState] /\ live' \in SUBSET Task
  BY DEF TaskInv, SchedInv, ClientTypes, KernelInv, KernelTypeOK
<1>3. s \in [Task -> TaskState] /\ s[n] = c /\ \A t \in Task \ {n} : s[t] = st[t]
  BY <1>2
<1> HIDE DEF sig, s
<1>4. ASSUME NEW t \in live'
      PROVE  /\ t \in Held \/ t = n \/ s[t] = "BLOCKED"
             /\ s[t] = "ACTIVE" => t \in Current \/ (live' = {t} /\ InQueue \subseteq {t})
  <2>1. CASE live = {}
    BY <2>1, <1>2 DEF Held
  <2>2. CASE c # "ACTIVE" /\ Current # {} /\ live # {}
    <3>1. phase = "on"
      BY <2>2 DEF TaskInv, SchedInv
    <3>2. t # n => t \in live /\ s[t] = st[t]
      BY <1>2, <1>3
    <3>3. t # n => t \in Held \/ s[t] = "BLOCKED"
      BY <3>1, <3>2 DEF TaskInv, NoTaskLost, Held
    <3>4. s[t] = "ACTIVE" => t # n
      BY <1>3, <2>2
    <3>5. s[t] = "ACTIVE" => t \in Current
      BY <2>2, <3>1, <3>2, <3>4 DEF TaskInv, OneActive
    <3> QED
      BY <3>3, <3>5
  <2> QED
    BY <2>1, <2>2
<1> QED
  BY <1>1, <1>2, <1>3, <1>4, CallStep

\* A task stops itself.
LEMMA EndKeeps ==
    ASSUME TaskInv, NEW t \in Task, Running(t), StopTask(t)
    PROVE  NoTaskLost' /\ OneActive'
<1> DEFINE sig == "SIG_TASK_END"
<1>1. /\ sig # "SIG_TASK_NEW"
      /\ sig \in {"SIG_TASK_NEW", "SIG_TASK_YIELD", "SIG_TASK_END"}
      /\ scheduler(sig, NULL, st)
  BY DEF StopTask
<1> HIDE DEF sig
<1>2. phase = "on" /\ Current = {t} /\ Held \subseteq live
  BY RunningFacts DEF TaskInv
<1>3. KernelInv /\ st \in [Task -> TaskState] /\ live \in SUBSET Task
  BY <1>2 DEF TaskInv, SchedInv, ClientTypes, KernelInv, KernelTypeOK
<1>4. live' = live \ {t}
  BY DEF StopTask, Stack!Release
<1>5. ASSUME NEW u \in live'
      PROVE  /\ u \in Held \/ st[u] = "BLOCKED"
             /\ u \notin Current
             /\ st[u] # "ACTIVE"
  BY <1>2, <1>4 DEF TaskInv, NoTaskLost, OneActive, Held
<1> QED
  BY <1>1, <1>3, <1>4, <1>5, CallStep

\* A step that leaves the queue and the current element, and puts no live task
\* in a state it may not have.
LEMMA QuietKeeps ==
    ASSUME TaskInv, UNCHANGED <<phase, live, queues, qelem_current>>,
           \A t \in live : \/ st'[t] = st[t]
                           \/ st'[t] # "ACTIVE" /\ t \in Held
                           \/ st'[t] = "BLOCKED"
    PROVE  NoTaskLost' /\ OneActive'
<1>1. InQueue' = InQueue /\ Current' = Current
  BY DEF InQueue, Current, runq
<1> QED
  BY <1>1 DEF TaskInv, NoTaskLost, OneActive, Held

\* unblock_task on another live task, in a section or not.
LEMMA UnblockKeeps ==
    ASSUME TaskInv, NEW t \in Task, NEW u \in live \ {t}, Running(t),
           NEW r, UnblockTask(u, r),
           UNCHANGED <<stackVars, phase>>
    PROVE  NoTaskLost' /\ OneActive'
<1>1. /\ phase = "on" /\ Current = {t} /\ live' = live /\ u \in Task
      /\ st \in [Task -> TaskState] /\ QueuedExact
  BY RunningFacts DEF TaskInv, SchedInv, ClientTypes, KernelTypeOK, stackVars
<1>2. CASE ~queued[u] /\ scheduler("SIG_TASK_NEW", u, [st EXCEPT ![u] = "READY"])
  <2>1. u \in Task \ Held
    BY <1>1, <1>2 DEF QueuedExact, Held
  <2>2. "READY" \in TaskState /\ "READY" # "ACTIVE"
    BY DEF TaskState
  <2>3. live' = live \cup {u} /\ phase # "destroyed" /\ Current # {}
    BY <1>1
  <2> QED
    BY <1>2, <2>1, <2>2, <2>3, EnterKeeps
<1>3. CASE queued[u] /\ st' = [st EXCEPT ![u] = "READY"] /\ UNCHANGED <<queues, qelem_current>>
  <2>1. u \in Held
    BY <1>1, <1>3 DEF QueuedExact, Held
  <2> QED
    BY <1>1, <1>3, <2>1, QuietKeeps
<1> QED
  BY <1>2, <1>3 DEF UnblockTask

\* Before start_sched nothing happens.
LEMMA OffStays == ASSUME [Next]_vars, phase' = "off" PROVE UNCHANGED vars
<1>1. CASE Start \/ DestroySched \/ Timer
  BY <1>1 DEF Start, DestroySched, Timer, IdleTick, LiftExpires, Preempt, Running
<1>2. ASSUME NEW t \in Task, LibraryStep(t) PROVE FALSE
  <2>1. ~(End(t) \/ PollNothing(t) \/ PollAnswers(t) \/ BlockSet(t) \/ UnblockSched(t))
    BY DEF End, StopTask, PollNothing, PollAnswers, BlockSet, UnblockSched, Calls, Running
  <2>2. ~(JoinSpins(t) \/ JoinYields(t) \/ JoinSees(t) \/ JoinReturn(t) \/ UnblockResumes(t))
    BY DEF JoinSpins, JoinYields, JoinSees, JoinReturn, UnblockResumes, Running
  <2> QED
    BY <1>2, <2>1, <2>2 DEF LibraryStep
<1>3. ASSUME NEW t \in Task, ClientCall(t) PROVE FALSE
  <2>1. ~(Return(t) \/ Exit(t) \/ TaskYield(t) \/ BlockSched(t) \/ BlockSchedLate(t))
    BY DEF Return, Exit, StopTask, TaskYield, BlockSched, BlockSchedLate, Calls, Running
  <2>2. \A u \in Task : ~(CreateTask(t, u) \/ StopOther(t, u) \/ JoinCall(t, u) \/ BlockTest(t, u))
    BY DEF CreateTask, StopOther, StopTask, JoinCall, BlockTest, Calls, Running
  <2>3. \A u \in Task : ~(Unblock(t, u) \/ UnblockLate(t, u) \/ UnblockInside(t, u))
    BY DEF Unblock, UnblockLate, UnblockInside, Calls, Running
  <2> QED
    BY <1>3, <2>1, <2>2, <2>3 DEF ClientCall
<1> QED
  BY <1>1, <1>2, <1>3 DEF Next

\* One step for each function: what it does to the tasks that wait, to the one
\* that runs, and to the one it is about.
LEMMA TaskStep ==
    ASSUME CleanUse, TaskInv, NoPending, [Next]_vars
    PROVE  TaskInv'
<1>1. SchedInv /\ SchedInv'
  BY NextPreservesSchedInv DEF TaskInv
<1>2. phase' = "off" => live' = {}
  BY OffStays DEF TaskInv, vars, stackVars
<1>3. NoTaskLost' /\ OneActive'
  <2>1. CASE Start
    <3>1. /\ phase # "destroyed" /\ live = {} /\ MainTask \in Task \ Held
          /\ live' = live \cup {MainTask} /\ "ACTIVE" \in TaskState
          /\ scheduler("SIG_TASK_NEW", MainTask, [st EXCEPT ![MainTask] = "ACTIVE"])
      BY <1>1, <2>1, MainAssumption DEF Start, TaskInv, SchedInv, Stack!Take, TaskState
    <3> QED
      BY <3>1, EnterKeeps
  <2>2. CASE DestroySched
    BY <2>2 DEF DestroySched, NoTaskLost, OneActive
  <2>3. ASSUME NEW t \in Task, Preempt(t) PROVE NoTaskLost' /\ OneActive'
    BY <2>3, YieldKeeps DEF Preempt, Running, stackVars
  <2>4. CASE IdleTick
    BY <2>4, YieldKeeps DEF IdleTick, stackVars
  <2>5. CASE LiftExpires
    BY <2>5, QuietKeeps DEF LiftExpires, stackVars
  <2>6. ASSUME NEW t \in Task, LibraryStep(t) PROVE NoTaskLost' /\ OneActive'
    <3>1. CASE End(t)
      BY <3>1, EndKeeps DEF End
    <3>2. CASE PollNothing(t) \/ JoinYields(t)
      BY <3>2, YieldKeeps DEF PollNothing, JoinYields, Calls, Running, stackVars
    <3>3. CASE \/ PollAnswers(t) \/ JoinSpins(t) \/ JoinSees(t) \/ JoinReturn(t)
               \/ UnblockSched(t)
      BY <3>3, QuietKeeps
         DEF PollAnswers, JoinSpins, JoinSees, JoinReturn, UnblockSched, kernelVars,
             stackVars
    <3>4. CASE BlockSet(t)
      <4>1. \A u \in live : st'[u] = st[u] \/ st'[u] = "BLOCKED"
        BY <1>1, <3>4 DEF BlockSet, SchedInv, ClientTypes, KernelTypeOK
      <4> QED
        BY <3>4, <4>1, QuietKeeps DEF BlockSet, stackVars
    <3>5. ~UnblockResumes(t)
      BY DEF UnblockResumes, NoPending
    <3> QED
      BY <2>6, <3>1, <3>2, <3>3, <3>4, <3>5 DEF LibraryStep
  <2>7. ASSUME NEW t \in Task, ClientCall(t) PROVE NoTaskLost' /\ OneActive'
    <3>1. CASE Return(t)
      <4>1. t \in Held
        BY <1>1, <3>1, RunningFacts DEF Return, Calls, Held
      <4>2. \A u \in live : st'[u] = st[u] \/ (st'[u] # "ACTIVE" /\ u \in Held)
        BY <1>1, <3>1, <4>1 DEF Return, SchedInv, ClientTypes, KernelTypeOK
      <4> QED
        BY <3>1, <4>2, QuietKeeps DEF Return, stackVars
    <3>2. CASE Exit(t)
      BY <3>2, EndKeeps DEF Exit, Calls
    <3>3. CASE TaskYield(t)
      BY <3>3, YieldKeeps DEF TaskYield, Calls, Running, stackVars
    <3>4. CASE BlockSched(t)
      BY <3>4, QuietKeeps DEF BlockSched, stackVars
    <3>5. ASSUME NEW u \in Task, CreateTask(t, u) PROVE NoTaskLost' /\ OneActive'
      <4>1. phase # "destroyed" /\ Current # {} /\ Held \subseteq live
        BY <1>1, <3>5, RunningFacts DEF CreateTask, Calls
      <4>2. /\ u \in Task \ Held /\ live' = live \cup {u}
            /\ "READY" \in TaskState /\ "READY" # "ACTIVE"
            /\ scheduler("SIG_TASK_NEW", u, [st EXCEPT ![u] = "READY"])
        BY <3>5, <4>1 DEF CreateTask, Stack!Take, TaskState
      <4> QED
        BY <4>1, <4>2, EnterKeeps
    <3>6. ASSUME NEW u \in Task, StopOther(t, u) PROVE NoTaskLost' /\ OneActive'
      BY <3>6 DEF StopOther, Calls, CleanUse
    <3>7. ASSUME NEW u \in Task, JoinCall(t, u) \/ BlockTest(t, u)
          PROVE  NoTaskLost' /\ OneActive'
      BY <3>7, QuietKeeps DEF JoinCall, BlockTest, kernelVars, stackVars
    <3>8. ASSUME NEW u \in Task, Unblock(t, u) \/ UnblockInside(t, u)
          PROVE  NoTaskLost' /\ OneActive'
      BY <3>8, UnblockKeeps DEF Unblock, UnblockInside, MayUnblock, Calls, CleanUse
    <3>9. ~BlockSchedLate(t) /\ \A u \in Task : ~UnblockLate(t, u)
      BY DEF BlockSchedLate, UnblockLate, Late, CleanUse
    <3> QED
      BY <2>7, <3>1, <3>2, <3>3, <3>4, <3>5, <3>6, <3>7, <3>8, <3>9 DEF ClientCall
  <2>8. CASE UNCHANGED vars
    BY <2>8, QuietKeeps DEF vars, kernelVars, stackVars
  <2> QED
    BY <2>1, <2>2, <2>3, <2>4, <2>5, <2>6, <2>7, <2>8 DEF Next, Timer
<1> QED
  BY <1>1, <1>2, <1>3 DEF TaskInv

LEMMA TaskInvariant == CleanUse => (Spec => []TaskInv)
<1> SUFFICES ASSUME CleanUse PROVE Spec => []TaskInv
  OBVIOUS
<1>1. Init => TaskInv
  BY InitEstablishesSchedInv DEF Init, TaskInv, NoTaskLost, OneActive
<1>2. TaskInv /\ NoPending /\ [Next]_vars => TaskInv'
  BY TaskStep
<1> QED
  BY <1>1, <1>2, SchedInvariant, PTL DEF Spec

\* No live task is forgotten between block_task, the lazy removal of blocked
\* elements and unblock_task: it has an element, or is blocked.
THEOREM NoTaskIsLost == CleanUse => (Spec => []NoTaskLost)
<1>1. TaskInv => NoTaskLost
  BY DEF TaskInv
<1> QED
  BY <1>1, TaskInvariant, PTL

\* No live task but the one that runs is ACTIVE.
THEOREM OneTaskActive == CleanUse => (Spec => []OneActive)
<1>1. TaskInv => OneActive
  BY DEF TaskInv
<1> QED
  BY <1>1, TaskInvariant, PTL

-----------------------------------------------------------------------------
\* A call of scheduler() dispatches nobody that is blocked: the states it looks
\* at are, for the tasks that wait in the queue, those the step found.
StaysOut == \A t \in Task \ Current : st[t] = "BLOCKED" => t \notin Current'

LEMMA DispatchStaysOut ==
    ASSUME AccountInv, NEW signum, NEW data, NEW s, scheduler(signum, data, s),
           \A t \in InQueue : s[t] = st[t]
    PROVE  StaysOut
<1>1. \A t \in Current' : t \in InQueue /\ s[t] # "BLOCKED"
  BY SchedulerDispatches DEF AccountInv
<1> QED
  BY <1>1 DEF StaysOut

\* The one task whose state the caller has set is not in the queue.
LEMMA EnterStaysOut ==
    ASSUME AccountInv, NEW n \in Task \ InQueue, NEW c,
           scheduler("SIG_TASK_NEW", n, [st EXCEPT ![n] = c])
    PROVE  StaysOut
<1> DEFINE s == [st EXCEPT ![n] = c]
<1>1. \A t \in InQueue : s[t] = st[t]
  BY DEF AccountInv, KernelTypeOK
<1>2. scheduler("SIG_TASK_NEW", n, s)
  OBVIOUS
<1> HIDE DEF s
<1> QED
  BY <1>1, <1>2, DispatchStaysOut

\* Each function sets, before it calls scheduler(), at most the state of a task
\* it is about to enter.
LEMMA StaysOutStep ==
    ASSUME AccountInv, PendingOther, [Next]_vars
    PROVE  StaysOut
<1>1. CASE UNCHANGED qelem_current
  BY <1>1 DEF StaysOut, Current
<1>2. ASSUME NEW signum, NEW data, scheduler(signum, data, st) PROVE StaysOut
  BY <1>2, DispatchStaysOut
<1>3. CASE Start
  <2>1. MainTask \in Task \ InQueue
    BY <1>3, MainAssumption DEF Start, AccountInv, Held
  <2> QED
    BY <1>3, <2>1, EnterStaysOut DEF Start
<1>4. CASE Timer
  BY <1>1, <1>2, <1>4 DEF Timer, IdleTick, LiftExpires, Preempt
<1>8. ASSUME NEW t \in Task, NEW u \in Task, NEW r, UnblockTask(u, r), Running(t)
      PROVE  StaysOut
  <2>1. ~queued[u] => u \in Task \ InQueue
    BY <1>8 DEF AccountInv, QueuedExact, Running
  <2> QED
    BY <1>1, <1>8, <2>1, EnterStaysOut DEF UnblockTask
<1>5. ASSUME NEW t \in Task, LibraryStep(t) PROVE StaysOut
  <2>1. CASE End(t) \/ PollNothing(t) \/ JoinYields(t)
    BY <1>2, <2>1 DEF End, StopTask, PollNothing, JoinYields
  <2>2. CASE UnblockResumes(t)
    BY <1>8, <2>2 DEF UnblockResumes, PendingOther
  <2>3. CASE ~(End(t) \/ PollNothing(t) \/ JoinYields(t) \/ UnblockResumes(t))
    BY <1>1, <1>5, <2>3
       DEF LibraryStep, PollAnswers, JoinSpins, JoinSees, JoinReturn, BlockSet,
           UnblockSched, kernelVars
  <2> QED
    BY <2>1, <2>2, <2>3
<1>6. ASSUME NEW t \in Task, ClientCall(t) PROVE StaysOut
  <2>1. CASE Return(t) \/ BlockSched(t)
    BY <1>1, <2>1 DEF Return, BlockSched
  <2>2. CASE Exit(t) \/ TaskYield(t) \/ BlockSchedLate(t)
    BY <1>2, <2>2 DEF Exit, StopTask, TaskYield, BlockSchedLate
  <2>3. ASSUME NEW u \in Task, CreateTask(t, u) PROVE StaysOut
    <3>1. u \in Task \ InQueue
      BY <2>3, RunningHolds DEF CreateTask, Calls, AccountInv, Held
    <3> QED
      BY <2>3, <3>1, EnterStaysOut DEF CreateTask
  <2>4. ASSUME NEW u \in Task, StopOther(t, u) PROVE StaysOut
    BY <1>2, <2>4 DEF StopOther, StopTask
  <2>5. ASSUME NEW u \in Task, JoinCall(t, u) \/ BlockTest(t, u) PROVE StaysOut
    BY <1>1, <2>5 DEF JoinCall, BlockTest, kernelVars
  <2>6. ASSUME NEW u \in Task, Unblock(t, u) \/ UnblockInside(t, u) PROVE StaysOut
    BY <1>8, <2>6 DEF Unblock, UnblockInside, Calls
  <2>7. ASSUME NEW u \in Task, UnblockLate(t, u) PROVE StaysOut
    BY <1>2, <2>7 DEF UnblockLate
  <2> QED
    BY <1>6, <2>1, <2>2, <2>3, <2>4, <2>5, <2>6, <2>7 DEF ClientCall
<1>7. CASE DestroySched \/ UNCHANGED vars
  BY <1>1, <1>7 DEF DestroySched, vars, kernelVars
<1> QED
  BY <1>3, <1>4, <1>5, <1>6, <1>7 DEF Next

\* A blocked task that does not run gets the processor in no step.
THEOREM BlockedTasksStayOut == SafeReuse => (Spec => BlockedStaysOut)
<1> SUFFICES ASSUME SafeReuse PROVE Spec => BlockedStaysOut
  OBVIOUS
<1> DEFINE Out == \A t \in Task \ Current : st[t] = "BLOCKED" => t \notin Current'
<1>1. AccountInv /\ PendingOther /\ [Next]_vars => [Out]_vars
  BY StaysOutStep DEF StaysOut
<1> QED
  BY <1>1, AccountInvariant, PTL DEF Spec, BlockedStaysOut

-----------------------------------------------------------------------------
\* The calls that keep a task as their argument.
InCall == {"join", "spin", "result", "block", "unblock"}

\* A task is ZOMBIE only with its result in place, and the argument of a call
\* under way is a task.
ResultInv ==
    /\ st \in [Task -> TaskState]
    /\ pc \in [Task -> ProgramCounter]
    /\ arg \in [Task -> Task \cup {NULL}]
    /\ res \in [Task -> {"unset", "NULL", "value"}]
    /\ \A t \in Task : st[t] = "ZOMBIE" => res[t] = "value"
    /\ \A t \in Task : pc[t] \in InCall => arg[t] \in Task

\* scheduler() makes nobody ZOMBIE.
LEMMA NoNewZombie ==
    ASSUME NEW signum, NEW data, NEW s \in [Task -> TaskState], scheduler(signum, data, s)
    PROVE  /\ st' \in [Task -> TaskState]
           /\ \A t \in Task : st'[t] = "ZOMBIE" => s[t] = "ZOMBIE"
<1>1. PICK k \in BlockedPrefix(s) : st' = StatesAfter(k, signum, s)
  BY Zenon DEF scheduler
<1> QED
  BY <1>1 DEF StatesAfter, TaskState

\* The result is written before the state, and lost only with it.
LEMMA ResultStep ==
    ASSUME ResultInv, [Next]_vars
    PROVE  ResultInv'
<1> USE DEF ProgramCounter, InCall
<1>1. st \in [Task -> TaskState] /\ \A c \in TaskState : \A n \in Task :
        [st EXCEPT ![n] = c] \in [Task -> TaskState]
  BY DEF ResultInv
<1>2. {"READY", "ACTIVE", "BLOCKED", "ZOMBIE"} \subseteq TaskState
  BY DEF TaskState
<1>3. ASSUME NEW signum, NEW data, NEW s \in [Task -> TaskState],
             scheduler(signum, data, s),
             \A t \in Task : s[t] = "ZOMBIE" => st[t] = "ZOMBIE",
             res' = res,
             pc' \in [Task -> ProgramCounter], arg' = arg,
             \A t \in Task : pc'[t] \in InCall => pc[t] \in InCall
      PROVE  ResultInv'
  BY <1>3, NoNewZombie DEF ResultInv
<1>4. CASE Start
  <2> DEFINE s == [st EXCEPT ![MainTask] = "ACTIVE"]
  <2>1. s \in [Task -> TaskState] /\ s[MainTask] = "ACTIVE"
        /\ \A t \in Task \ {MainTask} : s[t] = st[t]
    BY <1>1, <1>2, MainAssumption
  <2>2. scheduler("SIG_TASK_NEW", MainTask, s)
    BY <1>4 DEF Start
  <2> HIDE DEF s
  <2>3. st' \in [Task -> TaskState] /\ \A t \in Task : st'[t] = "ZOMBIE" => s[t] = "ZOMBIE"
    BY <2>1, <2>2, NoNewZombie
  <2> QED
    BY <1>4, <2>1, <2>3, MainAssumption DEF Start, ResultInv
<1>5. ASSUME NEW t \in Task, NEW r \in Task, StopTask(r) PROVE ResultInv'
  <2>1. st' \in [Task -> TaskState] /\ \A u \in Task : st'[u] = "ZOMBIE" => st[u] = "ZOMBIE"
    BY <1>1, <1>5, NoNewZombie DEF StopTask
  <2>2. /\ res' = [res EXCEPT ![r] = IF st[r] # "ZOMBIE" THEN "NULL" ELSE res[r]]
        /\ pc' = [pc EXCEPT ![r] = "gone"] /\ arg' = arg
    BY <1>5 DEF StopTask, ResultOfStopped
  <2> QED
    BY <2>1, <2>2 DEF ResultInv
<1>6. CASE Timer
  <2>1. CASE LiftExpires
    BY <2>1 DEF LiftExpires, clientVars, ResultInv
  <2>2. CASE IdleTick \/ \E t \in Task : Preempt(t)
    BY <1>1, <1>3, <2>2 DEF IdleTick, Preempt, clientVars, ResultInv
  <2> QED
    BY <1>6, <2>1, <2>2 DEF Timer
<1>10. ASSUME NEW u \in Task, NEW r, UnblockTask(u, r)
       PROVE  /\ st' \in [Task -> TaskState]
              /\ \A v \in Task : st'[v] = "ZOMBIE" => st[v] = "ZOMBIE"
  <2> DEFINE s == [st EXCEPT ![u] = "READY"]
  <2>1. s \in [Task -> TaskState] /\ \A v \in Task : s[v] = "ZOMBIE" => st[v] = "ZOMBIE"
    BY <1>1, <1>2
  <2>2. scheduler("SIG_TASK_NEW", u, s) \/ st' = s
    BY <1>10 DEF UnblockTask
  <2> HIDE DEF s
  <2> QED
    BY <2>1, <2>2, NoNewZombie
<1>7. ASSUME NEW t \in Task, LibraryStep(t) PROVE ResultInv'
  <2>1. CASE End(t)
    BY <1>5, <2>1 DEF End
  <2>2. CASE PollNothing(t) \/ JoinYields(t)
    <3>1. /\ scheduler("SIG_TASK_YIELD", NULL, st) /\ res' = res /\ arg' = arg
          /\ \/ pc' = [pc EXCEPT ![t] = "poll"]
             \/ pc[t] = "spin" /\ pc' = [pc EXCEPT ![t] = "join"]
      BY <2>2 DEF PollNothing, JoinYields
    <3> QED
      BY <1>1, <1>3, <3>1 DEF ResultInv
  <2>3. CASE PollAnswers(t) \/ JoinSpins(t) \/ JoinSees(t) \/ JoinReturn(t)
    BY <2>3 DEF PollAnswers, JoinSpins, JoinSees, JoinReturn, kernelVars, ResultInv
  <2>4. CASE BlockSet(t)
    <3>1. arg[t] \in Task
      BY <2>4 DEF BlockSet, ResultInv
    <3> QED
      BY <1>1, <1>2, <2>4, <3>1 DEF BlockSet, ResultInv
  <2>5. CASE UnblockSched(t)
    <3>1. PICK e \in Enters \cup {<<"user", "torn">>} : pc' = [pc EXCEPT ![t] = e[1]]
      BY <2>5 DEF UnblockSched
    <3>2. e[1] \in {"user", "critical"}
      BY LeavesFacts
    <3> QED
      BY <2>5, <3>1, <3>2 DEF UnblockSched, ResultInv
  <2>6. CASE UnblockResumes(t)
    <3>1. /\ arg[t] \in Task /\ UnblockTask(arg[t], FALSE) /\ res' = res
          /\ pc' = [pc EXCEPT ![t] = "user"] /\ arg' = [arg EXCEPT ![t] = NULL]
      BY <2>6 DEF UnblockResumes, ResultInv
    <3>2. /\ st' \in [Task -> TaskState]
          /\ \A v \in Task : st'[v] = "ZOMBIE" => st[v] = "ZOMBIE"
      BY <1>10, <3>1
    <3> QED
      BY <3>1, <3>2 DEF ResultInv
  <2> QED
    BY <1>7, <2>1, <2>2, <2>3, <2>4, <2>5, <2>6 DEF LibraryStep
<1>8. ASSUME NEW t \in Task, ClientCall(t) PROVE ResultInv'
  <2>1. CASE Return(t)
    BY <1>1, <1>2, <2>1 DEF Return, ResultInv
  <2>2. CASE Exit(t)
    BY <1>5, <2>2 DEF Exit
  <2>3. CASE TaskYield(t)
    BY <1>1, <1>3, <2>3 DEF TaskYield, clientVars, ResultInv
  <2>9. CASE BlockSchedLate(t)
    <3>1. /\ scheduler("SIG_TASK_YIELD", "siginfo", st) /\ res' = res /\ arg' = arg
          /\ pc' = [pc EXCEPT ![t] = "torn"]
      BY <2>9 DEF BlockSchedLate
    <3> QED
      BY <1>1, <1>3, <3>1 DEF ResultInv
  <2>4. CASE BlockSched(t)
    <3>1. PICK e \in Enters : pc' = [pc EXCEPT ![t] = e[2]]
      BY <2>4 DEF BlockSched
    <3>2. e[2] \in {"critical", "nested"}
      BY DEF Enters
    <3> QED
      BY <2>4, <3>1, <3>2 DEF BlockSched, ResultInv
  <2>5. ASSUME NEW u \in Task, CreateTask(t, u) PROVE ResultInv'
    <3>1. /\ scheduler("SIG_TASK_NEW", u, [st EXCEPT ![u] = "READY"])
          /\ res' = res /\ arg' = arg /\ pc' = [pc EXCEPT ![u] = "user"]
      BY <2>5 DEF CreateTask
    <3>2. /\ [st EXCEPT ![u] = "READY"] \in [Task -> TaskState]
          /\ \A v \in Task : [st EXCEPT ![u] = "READY"][v] = "ZOMBIE" => st[v] = "ZOMBIE"
      BY <1>1, <1>2
    <3> QED
      BY <1>3, <3>1, <3>2 DEF ResultInv
  <2>6. ASSUME NEW u \in Task, StopOther(t, u) PROVE ResultInv'
    BY <1>5, <2>6 DEF StopOther
  <2>7. ASSUME NEW u \in Task, JoinCall(t, u) \/ BlockTest(t, u) PROVE ResultInv'
    BY <2>7 DEF JoinCall, BlockTest, kernelVars, ResultInv
  <2>8. ASSUME NEW u \in Task, Unblock(t, u) \/ UnblockInside(t, u) PROVE ResultInv'
    <3>1. /\ UNCHANGED <<arg, res>>
          /\ pc' = pc \/ pc' = [pc EXCEPT ![t] = "torn"] \/ pc' = [pc EXCEPT ![t] = pc[t]]
      BY <2>8 DEF Unblock, UnblockInside, clientVars
    <3>2. /\ st' \in [Task -> TaskState]
          /\ \A v \in Task : st'[v] = "ZOMBIE" => st[v] = "ZOMBIE"
      BY <1>10, <2>8 DEF Unblock, UnblockInside
    <3> QED
      BY <3>1, <3>2 DEF ResultInv
  <2>10. ASSUME NEW u \in Task, UnblockLate(t, u) PROVE ResultInv'
    <3>1. /\ scheduler("SIG_TASK_YIELD", "siginfo", st) /\ res' = res
          /\ pc' = [pc EXCEPT ![t] = "unblock"] /\ arg' = [arg EXCEPT ![t] = u]
      BY <2>10 DEF UnblockLate
    <3>2. /\ st' \in [Task -> TaskState]
          /\ \A v \in Task : st'[v] = "ZOMBIE" => st[v] = "ZOMBIE"
      BY <1>1, <3>1, NoNewZombie
    <3> QED
      BY <3>1, <3>2 DEF ResultInv
  <2> QED
    BY <1>8, <2>1, <2>2, <2>3, <2>4, <2>5, <2>6, <2>7, <2>8, <2>9, <2>10 DEF ClientCall
<1>9. CASE DestroySched \/ UNCHANGED vars
  BY <1>9 DEF DestroySched, vars, kernelVars, clientVars, ResultInv
<1> QED
  BY <1>4, <1>6, <1>7, <1>8, <1>9 DEF Next

LEMMA ResultInvariant == Spec => []ResultInv
<1>1. Init => ResultInv
  BY DEF Init, KernelInit, ResultInv, TaskState, ProgramCounter, InCall
<1>2. ResultInv /\ [Next]_vars => ResultInv'
  BY ResultStep
<1> QED
  BY <1>1, <1>2, PTL DEF Spec

-----------------------------------------------------------------------------
\* The quantum does not run out in the two windows of a few instructions: from
\* the test of block_task to its write, and from the end of a task's function
\* to where stop_task disarms the timer.
SafePreemption == PreemptPoints \cap {"block", "ending"} = {}

Window == {"block", "ending"}

\* No ended task waits in the queue.  The one that runs may be ZOMBIE, on its
\* way to stop_task; and only the one that runs is in a window.
ZombieInv ==
    /\ SchedInv
    /\ \A t \in InQueue : st[t] # "ZOMBIE"
    /\ \A t \in Task :
          /\ pc[t] \in Window => Running(t)
          /\ Running(t) /\ st[t] = "ZOMBIE" => pc[t] = "ending"
          /\ pc[t] = "block" => arg[t] \in Task /\ st[arg[t]] # "ZOMBIE"

ZombiesKept ==
    \A t \in Task : st[t] = "ZOMBIE" => st'[t] = "ZOMBIE" \/ t \in live' \ live

\* While none runs, or one outside the windows, nobody is in a window.
LEMMA NobodyInWindow ==
    ASSUME ZombieInv,
           \/ ~(\E t \in Task : Running(t))
           \/ \E t \in Task : Running(t) /\ pc[t] \notin Window
    PROVE  \A u \in Task : pc[u] \notin Window
<1>1. ASSUME NEW t \in Task, Running(t), pc[t] \notin Window, NEW u \in Task, Running(u)
      PROVE  u = t
  BY <1>1 DEF Running
<1> QED
  BY <1>1 DEF ZombieInv

\* A call of scheduler() that saves no ended task and enters none.
LEMMA ZombieCall ==
    ASSUME ZombieInv, SchedInv', phase # "destroyed",
           NEW signum \in {"SIG_TASK_NEW", "SIG_TASK_YIELD", "SIG_TASK_END"},
           NEW data, NEW s \in [Task -> TaskState],
           signum = "SIG_TASK_NEW" => data \in Task \ Held /\ s[data] # "ZOMBIE",
           signum # "SIG_TASK_END" => \A t \in Current : st[t] # "ZOMBIE",
           scheduler(signum, data, s),
           \A t \in Task : s[t] = "ZOMBIE" => st[t] = "ZOMBIE",
           \A t \in Task : st[t] = "ZOMBIE" => s[t] = "ZOMBIE" \/ t \in live' \ live,
           \A t \in Task : pc'[t] \notin Window
    PROVE  ZombieInv' /\ ZombiesKept
<1>1. KernelInv /\ KernelTypeOK
  BY DEF ZombieInv, SchedInv, KernelInv
<1>2. /\ signum = "SIG_TASK_NEW" => Held' \subseteq Held \cup {data}
      /\ signum = "SIG_TASK_YIELD" => Held' \subseteq Held
      /\ signum = "SIG_TASK_END" => Held' \subseteq InQueue
  BY <1>1, SchedulerPreserves
<1>3. /\ \A t \in Current' : t \in InQueue /\ s[t] # "BLOCKED"
      /\ \A t \in Task :
            st'[t] = IF t \in Current' THEN "ACTIVE"
                     ELSE IF signum # "SIG_TASK_END" /\ t \in Current /\ s[t] = "ACTIVE"
                          THEN "READY"
                          ELSE s[t]
  BY <1>1, SchedulerDispatches
<1>4. \A t \in Task : st'[t] = "ZOMBIE" => s[t] = "ZOMBIE" /\ st[t] = "ZOMBIE"
  BY <1>3
<1>5. ASSUME NEW t \in Held' PROVE st'[t] # "ZOMBIE"
  <2>1. t \in Task /\ s[t] # "ZOMBIE"
    <3>1. Held \subseteq Task
      BY DEF ZombieInv, SchedInv, ClientTypes
    <3>2. \A u \in InQueue : u \in Task /\ s[u] # "ZOMBIE"
      BY <3>1 DEF ZombieInv, Held
    <3>3. signum # "SIG_TASK_END" => \A u \in Current : u \in Task /\ s[u] # "ZOMBIE"
      BY <3>1 DEF Held
    <3> QED
      BY <1>2, <1>5, <3>2, <3>3 DEF Held
  <2> QED
    BY <1>4, <2>1
<1>6. ASSUME NEW t \in Task, st[t] = "ZOMBIE", t \notin live' \ live
      PROVE  st'[t] = "ZOMBIE"
  <2>1. s[t] = "ZOMBIE" /\ t \notin InQueue
    BY <1>6 DEF ZombieInv
  <2> QED
    BY <1>3, <2>1
<1>7. \A t \in Task : Running(t)' => t \in Held'
  BY DEF Running, Held, Current
<1>8. \A t \in InQueue' : t \in Held'
  BY DEF Held
<1> QED
  BY <1>5, <1>6, <1>7, <1>8 DEF ZombieInv, ZombiesKept, Window

\* The same for a yield, the entry of a task, and the end of one.
LEMMA ZombieYield ==
    ASSUME ZombieInv, SchedInv', phase = "on",
           \A t \in Current : st[t] # "ZOMBIE",
           NEW data, scheduler("SIG_TASK_YIELD", data, st),
           \A t \in Task : pc'[t] \notin Window
    PROVE  ZombieInv' /\ ZombiesKept
<1> DEFINE sig == "SIG_TASK_YIELD"
<1>1. /\ sig # "SIG_TASK_NEW" /\ scheduler(sig, data, st)
      /\ sig \in {"SIG_TASK_NEW", "SIG_TASK_YIELD", "SIG_TASK_END"}
  OBVIOUS
<1> HIDE DEF sig
<1>2. st \in [Task -> TaskState] /\ phase # "destroyed"
  BY DEF ZombieInv, SchedInv, KernelTypeOK
<1> QED
  BY <1>1, <1>2, ZombieCall

LEMMA ZombieEnter ==
    ASSUME ZombieInv, SchedInv', phase # "destroyed",
           \A t \in Current : st[t] # "ZOMBIE",
           NEW n \in Task \ Held, NEW c \in {"ACTIVE", "READY"},
           scheduler("SIG_TASK_NEW", n, [st EXCEPT ![n] = c]),
           st[n] = "ZOMBIE" => n \in live' \ live,
           \A t \in Task : pc'[t] \notin Window
    PROVE  ZombieInv' /\ ZombiesKept
<1> DEFINE sig == "SIG_TASK_NEW"
           s == [st EXCEPT ![n] = c]
<1>1. /\ sig = "SIG_TASK_NEW" /\ scheduler(sig, n, s)
      /\ sig \in {"SIG_TASK_NEW", "SIG_TASK_YIELD", "SIG_TASK_END"}
  OBVIOUS
<1>2. /\ s \in [Task -> TaskState] /\ s[n] # "ZOMBIE"
      /\ \A t \in Task \ {n} : s[t] = st[t]
  BY DEF ZombieInv, SchedInv, KernelTypeOK, TaskState
<1> HIDE DEF sig, s
<1>3. /\ \A t \in Task : s[t] = "ZOMBIE" => st[t] = "ZOMBIE"
      /\ \A t \in Task : st[t] = "ZOMBIE" => s[t] = "ZOMBIE" \/ t \in live' \ live
  BY <1>2
<1> QED
  BY <1>1, <1>2, <1>3, ZombieCall

LEMMA ZombieEnd ==
    ASSUME ZombieInv, SchedInv', NEW t \in Task, Running(t), StopTask(t)
    PROVE  ZombieInv' /\ ZombiesKept
<1> DEFINE sig == "SIG_TASK_END"
<1>1. /\ sig # "SIG_TASK_NEW" /\ sig = "SIG_TASK_END" /\ scheduler(sig, NULL, st)
      /\ sig \in {"SIG_TASK_NEW", "SIG_TASK_YIELD", "SIG_TASK_END"}
  BY DEF StopTask
<1> HIDE DEF sig
<1>2. /\ st \in [Task -> TaskState] /\ phase # "destroyed"
      /\ pc \in [Task -> ProgramCounter]
  BY DEF ZombieInv, SchedInv, KernelTypeOK, ClientTypes, Running
<1>3. \A u \in Task : pc[u] \in Window => u = t
  BY DEF ZombieInv, Running
<1>4. \A u \in Task : pc'[u] \notin Window
  BY <1>2, <1>3 DEF StopTask, Window
<1> QED
  BY <1>1, <1>2, <1>4, ZombieCall

\* A step that leaves the kernel alone, of a task that gets into no window.
LEMMA ZombieQuiet ==
    ASSUME ZombieInv, SchedInv', UNCHANGED <<phase, st, queues, qelem_current>>,
           \A u \in Task : pc[u] \notin Window /\ pc'[u] \notin Window
    PROVE  ZombieInv' /\ ZombiesKept
<1>1. InQueue' = InQueue
  BY DEF InQueue, runq
<1> QED
  BY <1>1 DEF ZombieInv, ZombiesKept, Window, Running

\* unblock_task on a task that has not ended.
LEMMA ZombieUnblock ==
    ASSUME ZombieInv, SchedInv', NEW t \in Task, NEW u \in Task, Running(t), u # t,
           pc[t] \notin Window, NEW r, UnblockTask(u, r), st[u] # "ZOMBIE",
           \A v \in Task : pc'[v] = pc[v] \/ pc'[v] = "torn", phase' = phase
    PROVE  ZombieInv' /\ ZombiesKept
<1>1. /\ phase = "on" /\ Current = {t} /\ st \in [Task -> TaskState]
      /\ QueuedExact
  BY RunningFacts DEF ZombieInv, SchedInv, KernelTypeOK
<1>2. \A v \in Task : pc[v] \notin Window /\ pc'[v] \notin Window
  BY NobodyInWindow DEF Window
<1>3. st[t] # "ZOMBIE"
  BY <1>2 DEF ZombieInv, Window
<1>4. CASE ~queued[u] /\ scheduler("SIG_TASK_NEW", u, [st EXCEPT ![u] = "READY"])
  <2>1. u \in Task \ Held
    BY <1>1, <1>4 DEF QueuedExact, Held
  <2> QED
    BY <1>1, <1>2, <1>3, <1>4, <2>1, ZombieEnter
<1>5. CASE st' = [st EXCEPT ![u] = "READY"] /\ UNCHANGED <<queues, qelem_current>>
  <2>1. InQueue' = InQueue
    BY <1>5 DEF InQueue, runq
  <2>2. st'[u] = "READY" /\ \A v \in Task \ {u} : st'[v] = st[v]
    BY <1>1, <1>5
  <2>3. \A v \in Task : Running(v)' <=> Running(v)
    BY <1>5 DEF Running
  <2>4. InQueue \subseteq Task
    BY <1>1 DEF ZombieInv, SchedInv, ClientTypes, Held
  <2> QED
    BY <1>2, <2>1, <2>2, <2>3, <2>4 DEF ZombieInv, ZombiesKept, Window
<1> QED
  BY <1>4, <1>5 DEF UnblockTask

\* No function takes the state ZOMBIE from a task but create_task.
LEMMA ZombieStep ==
    ASSUME CleanUse, SafePreemption, ZombieInv, NoPending, [Next]_vars
    PROVE  ZombieInv' /\ ZombiesKept
<1> USE DEF ProgramCounter
<1>1. SchedInv /\ SchedInv'
  BY NextPreservesSchedInv DEF ZombieInv
<1>2. pc \in [Task -> ProgramCounter]
  BY <1>1 DEF SchedInv, ClientTypes
\* A running task that is in no window has not ended, nor has anybody who runs.
<1>3. ASSUME NEW t \in Task, Running(t), pc[t] \notin Window
      PROVE  /\ phase = "on" /\ \A u \in Task : pc[u] \notin Window
             /\ \A u \in Current : st[u] # "ZOMBIE"
  BY <1>1, <1>3, RunningFacts, NobodyInWindow DEF ZombieInv, Window
<1>4. CASE Start
  <2>1. \A u \in Task : pc[u] \notin Window
    BY <1>4, NobodyInWindow DEF Start, Running
  <2>2. /\ phase # "destroyed" /\ MainTask \in Task \ Held
        /\ \A u \in Current : st[u] # "ZOMBIE"
        /\ \A u \in Task : pc'[u] \notin Window
    BY <1>1, <1>2, <1>4, <2>1, MainAssumption DEF Start, SchedInv, Held, Window
  <2>3. MainTask \in live' \ live
    BY <1>4 DEF Start, Stack!Take
  <2>4. scheduler("SIG_TASK_NEW", MainTask, [st EXCEPT ![MainTask] = "ACTIVE"])
    BY <1>4 DEF Start
  <2> QED
    BY <1>1, <2>2, <2>3, <2>4, ZombieEnter
<1>5. CASE DestroySched
  <2>1. /\ \A u \in Task : pc[u] \notin Window /\ pc'[u] = pc[u] /\ ~Running(u)'
        /\ st' = st
    BY <1>3, <1>5, MainAssumption DEF DestroySched, Calls, Running, clientVars, Window
  <2>2. InQueue' = {}
    BY <1>5 DEF DestroySched, InQueue, runq, EmptyQueue
  <2> QED
    BY <1>1, <2>1, <2>2 DEF ZombieInv, ZombiesKept, Window
<1>6. ASSUME NEW t \in Task, Preempt(t) PROVE ZombieInv' /\ ZombiesKept
  <2>1. Running(t) /\ pc[t] \notin Window /\ pc' = pc
    BY <1>6 DEF Preempt, SafePreemption, Window, clientVars
  <2>2. scheduler("SIG_TASK_YIELD", "siginfo", st)
    BY <1>6 DEF Preempt
  <2> QED
    BY <1>1, <1>3, <2>1, <2>2, ZombieYield
<1>7. CASE IdleTick
  <2>1. /\ phase = "on" /\ Current = {} /\ pc' = pc
        /\ \A u \in Task : pc[u] \notin Window
    BY <1>7, NobodyInWindow DEF IdleTick, Running, Current, clientVars
  <2>2. scheduler("SIG_TASK_YIELD", "siginfo", st)
    BY <1>7 DEF IdleTick
  <2> QED
    BY <1>1, <2>1, <2>2, ZombieYield
<1>8. CASE LiftExpires \/ UNCHANGED vars
  <2>1. UNCHANGED <<phase, st, queues, qelem_current, pc, arg>>
    BY <1>8 DEF LiftExpires, vars, kernelVars, clientVars
  <2> QED
    BY <1>1, <2>1 DEF ZombieInv, ZombiesKept, InQueue, runq, Running
<1>9. ASSUME NEW t \in Task, LibraryStep(t) PROVE ZombieInv' /\ ZombiesKept
  <2>1. CASE End(t)
    BY <1>1, <2>1, ZombieEnd DEF End
  <2>2. CASE BlockSet(t)
    <3>1. /\ Running(t) /\ pc[t] = "block" /\ arg[t] \in Task /\ st[arg[t]] # "ZOMBIE"
          /\ st' = [st EXCEPT ![arg[t]] = "BLOCKED"] /\ pc' = [pc EXCEPT ![t] = "user"]
          /\ UNCHANGED <<queues, qelem_current, phase>>
      BY <2>2 DEF BlockSet, ZombieInv
    <3>2. /\ \A u \in Task : Running(u) => u = t
          /\ \A u \in Task : Running(u)' <=> Running(u)
          /\ InQueue' = InQueue
      BY <3>1 DEF Running, InQueue, runq
    <3>3. /\ st'[arg[t]] = "BLOCKED" /\ \A u \in Task \ {arg[t]} : st'[u] = st[u]
          /\ pc'[t] = "user" /\ \A u \in Task \ {t} : pc'[u] = pc[u]
      BY <1>1, <1>2, <3>1 DEF SchedInv, KernelTypeOK
    <3>4. InQueue \subseteq Task /\ st[t] # "ZOMBIE"
      BY <1>1, <3>1, RunningFacts DEF ZombieInv, SchedInv, ClientTypes, Held
    <3> QED
      BY <1>1, <3>1, <3>2, <3>3, <3>4 DEF ZombieInv, ZombiesKept, Window
  <2>3. CASE PollNothing(t) \/ JoinYields(t)
    <3>1. /\ Running(t) /\ pc[t] \notin Window
          /\ scheduler("SIG_TASK_YIELD", NULL, st)
          /\ \E c \in {"poll", "join"} : pc' = [pc EXCEPT ![t] = c]
      BY <2>3 DEF PollNothing, JoinYields, Calls, Window
    <3>2. \A u \in Task : pc'[u] \notin Window
      BY <1>2, <1>3, <3>1 DEF Window
    <3> QED
      BY <1>1, <1>3, <3>1, <3>2, ZombieYield
  <2>4. CASE \/ PollAnswers(t) \/ JoinSpins(t) \/ JoinSees(t) \/ JoinReturn(t)
             \/ UnblockSched(t)
    <3>1. /\ Running(t) /\ pc[t] \notin Window
          /\ UNCHANGED <<phase, st, queues, qelem_current>>
      BY <2>4, LeavesFacts
         DEF PollAnswers, JoinSpins, JoinSees, JoinReturn, UnblockSched, Window, kernelVars
    <3>2. \E c \in {"user", "spin", "result", "critical"} : pc' = [pc EXCEPT ![t] = c]
      BY <2>4, LeavesFacts DEF PollAnswers, JoinSpins, JoinSees, JoinReturn, UnblockSched
    <3>3. \A u \in Task : pc'[u] \notin Window
      BY <1>2, <1>3, <3>1, <3>2 DEF Window
    <3> QED
      BY <1>1, <1>3, <3>1, <3>3, ZombieQuiet
  <2>5. ~UnblockResumes(t)
    BY DEF UnblockResumes, NoPending
  <2> QED
    BY <1>9, <2>1, <2>2, <2>3, <2>4, <2>5 DEF LibraryStep
<1>10. ASSUME NEW t \in Task, ClientCall(t) PROVE ZombieInv' /\ ZombiesKept
  <2>0. ~BlockSchedLate(t) /\ \A u \in Task : ~UnblockLate(t, u)
    BY DEF BlockSchedLate, UnblockLate, Late, CleanUse
  <2>1. Running(t) /\ pc[t] \notin Window
    <3>1. CASE BlockSched(t)
      BY <3>1 DEF BlockSched, Enters, Window
    <3>2. CASE ~BlockSched(t)
      BY <1>10, <2>0, <3>2
         DEF ClientCall, Return, Exit, TaskYield, CreateTask, StopOther, JoinCall,
             BlockTest, Unblock, UnblockInside, Calls, Window
    <3> QED
      BY <3>1, <3>2
  <2>2. /\ phase = "on" /\ \A u \in Task : pc[u] \notin Window
        /\ \A u \in Current : st[u] # "ZOMBIE"
    BY <1>3, <2>1
  <2>3. /\ Current = {t} /\ t \in live /\ t \notin InQueue /\ Held \subseteq live
        /\ st \in [Task -> TaskState] /\ st[t] # "ZOMBIE"
    BY <1>1, <2>1, <2>2, RunningFacts DEF SchedInv, KernelTypeOK
  <2>4. CASE Return(t)
    <3>1. /\ st'[t] = "ZOMBIE" /\ \A u \in Task \ {t} : st'[u] = st[u]
          /\ pc'[t] = "ending" /\ \A u \in Task \ {t} : pc'[u] = pc[u]
          /\ UNCHANGED <<queues, qelem_current, phase>>
      BY <1>2, <2>3, <2>4 DEF Return
    <3>2. /\ \A u \in Task : Running(u)' <=> u = t
          /\ InQueue' = InQueue /\ InQueue \subseteq Task
      BY <1>1, <2>1, <2>3, <3>1
         DEF Running, InQueue, runq, SchedInv, ClientTypes, Held
    <3> QED
      BY <1>1, <2>2, <2>3, <3>1, <3>2 DEF ZombieInv, ZombiesKept, Window
  <2>5. CASE Exit(t)
    BY <1>1, <2>1, <2>5, ZombieEnd DEF Exit
  <2>6. CASE TaskYield(t)
    BY <1>1, <2>2, <2>6, ZombieYield DEF TaskYield, clientVars
  <2>7. CASE BlockSched(t)
    <3>1. PICK e \in Enters : pc' = [pc EXCEPT ![t] = e[2]]
      BY <2>7 DEF BlockSched
    <3>2. e[2] \in {"critical", "nested"}
      BY DEF Enters
    <3>3. \A u \in Task : pc'[u] \notin Window
      BY <1>2, <2>2, <3>1, <3>2 DEF Window
    <3> QED
      BY <1>1, <2>2, <2>7, <3>3, ZombieQuiet DEF BlockSched
  <2>8. ASSUME NEW n \in Task, CreateTask(t, n) PROVE ZombieInv' /\ ZombiesKept
    <3>1. /\ n \in Task \ Held /\ n \in live' \ live
          /\ scheduler("SIG_TASK_NEW", n, [st EXCEPT ![n] = "READY"])
          /\ pc' = [pc EXCEPT ![n] = "user"]
      BY <2>3, <2>8 DEF CreateTask, Stack!Take
    <3>2. \A u \in Task : pc'[u] \notin Window
      BY <1>2, <2>2, <3>1 DEF Window
    <3> QED
      BY <1>1, <2>2, <3>1, <3>2, ZombieEnter
  <2>9. ASSUME NEW u \in Task, StopOther(t, u) PROVE ZombieInv' /\ ZombiesKept
    BY <2>9 DEF StopOther, Calls, CleanUse
  <2>10. ASSUME NEW u \in Task, JoinCall(t, u) PROVE ZombieInv' /\ ZombiesKept
    <3>1. /\ UNCHANGED <<phase, st, queues, qelem_current>>
          /\ pc' = [pc EXCEPT ![t] = "join"]
      BY <2>10 DEF JoinCall, kernelVars
    <3>2. \A v \in Task : pc'[v] \notin Window
      BY <1>2, <2>2, <3>1 DEF Window
    <3> QED
      BY <1>1, <2>2, <3>1, <3>2, ZombieQuiet
  <2>11. ASSUME NEW u \in Task, BlockTest(t, u) PROVE ZombieInv' /\ ZombiesKept
    <3>1. /\ UNCHANGED <<phase, st, queues, qelem_current>> /\ st[u] # "ZOMBIE"
          /\ pc'[t] = "block" /\ \A v \in Task \ {t} : pc'[v] = pc[v]
          /\ arg'[t] = u
      BY <1>1, <1>2, <2>11
         DEF BlockTest, Blockable, kernelVars, SchedInv, ClientTypes
    <3>2. /\ \A v \in Task : Running(v)' <=> v = t
          /\ InQueue' = InQueue
      BY <2>1, <3>1 DEF Running, InQueue, runq
    <3> QED
      BY <1>1, <2>2, <2>3, <3>1, <3>2 DEF ZombieInv, ZombiesKept, Window
  <2>12. ASSUME NEW u \in Task, Unblock(t, u) \/ UnblockInside(t, u)
         PROVE  ZombieInv' /\ ZombiesKept
    <3>1. /\ u # t /\ UnblockTask(u, armed) /\ st[u] # "ZOMBIE" /\ phase' = phase
          /\ \A v \in Task : pc'[v] = pc[v] \/ pc'[v] = "torn"
      BY <1>2, <2>12
         DEF Unblock, UnblockInside, MayUnblock, RestoredTimer, clientVars, CleanUse
    <3> QED
      BY <1>1, <2>1, <3>1, ZombieUnblock
  <2> QED
    BY <1>10, <2>0, <2>4, <2>5, <2>6, <2>7, <2>8, <2>9, <2>10, <2>11, <2>12 DEF ClientCall
<1> QED
  BY <1>4, <1>5, <1>6, <1>7, <1>8, <1>9, <1>10 DEF Next, Timer

LEMMA ZombieInvariant ==
    CleanUse /\ SafePreemption => (Spec => [](ZombieInv /\ NoPending))
<1> SUFFICES ASSUME CleanUse, SafePreemption PROVE Spec => [](ZombieInv /\ NoPending)
  OBVIOUS
<1>1. Init => ZombieInv
  <2> SUFFICES ASSUME Init PROVE ZombieInv
    OBVIOUS
  <2>1. SchedInv
    BY InitEstablishesSchedInv
  <2>2. InQueue = {} /\ \A t \in Task : ~Running(t) /\ pc[t] = "gone"
    BY DEF Init, KernelInit, EmptyQueue, InQueue, runq, Running
  <2> QED
    BY <2>1, <2>2 DEF ZombieInv, Window
<1>2. ZombieInv /\ NoPending /\ [Next]_vars => ZombieInv'
  BY ZombieStep
<1> QED
  BY <1>1, <1>2, SchedInvariant, PTL DEF Spec

\* A task that has ended is ZOMBIE until create_task is given its structure, if
\* the quantum does not run out in the two windows (zombie_preempted and
\* block_overwrites_zombie show what happens in each).
THEOREM ZombiesStayZombie == CleanUse /\ SafePreemption => (Spec => ZombieIsFinal)
<1> SUFFICES ASSUME CleanUse, SafePreemption PROVE Spec => ZombieIsFinal
  OBVIOUS
<1> DEFINE Kept == \A t \in Task :
                      st[t] = "ZOMBIE" => st'[t] = "ZOMBIE" \/ t \in live' \ live
<1>1. ZombieInv /\ NoPending /\ [Next]_vars => [Kept]_vars
  BY ZombieStep DEF ZombiesKept
<1> QED
  BY <1>1, ZombieInvariant, PTL DEF Spec, ZombieIsFinal

-----------------------------------------------------------------------------
\* A program that does not give a structure to create_task again while some task
\* is inside join_task for the one that ended.
JoinedLast == "reuse_joined" \notin Ops

\* Only start_sched and create_task make a task live.
LEMMA MadeLive ==
    ASSUME [Next]_vars, NEW n \in live' \ live
    PROVE  Start \/ \E t \in Task : CreateTask(t, n)
<1>1. CASE DestroySched \/ Timer \/ UNCHANGED vars
  BY <1>1 DEF DestroySched, Timer, IdleTick, LiftExpires, Preempt, vars, stackVars, Stack!Destroy
<1>2. ASSUME NEW t \in Task, LibraryStep(t) PROVE FALSE
  <2>1. ~(End(t) \/ PollNothing(t) \/ PollAnswers(t) \/ BlockSet(t) \/ UnblockSched(t))
    BY DEF End, StopTask, PollNothing, PollAnswers, BlockSet, UnblockSched, stackVars,
           Stack!Release
  <2>2. ~(JoinSpins(t) \/ JoinYields(t) \/ JoinSees(t) \/ JoinReturn(t) \/ UnblockResumes(t))
    BY DEF JoinSpins, JoinYields, JoinSees, JoinReturn, UnblockResumes, stackVars
  <2> QED
    BY <1>2, <2>1, <2>2 DEF LibraryStep
<1>3. ASSUME NEW t \in Task, ClientCall(t) PROVE \E u \in Task : CreateTask(t, u) /\ u = n
  <2>1. ~(Return(t) \/ Exit(t) \/ TaskYield(t) \/ BlockSched(t) \/ BlockSchedLate(t))
    BY DEF Return, Exit, StopTask, TaskYield, BlockSched, BlockSchedLate, stackVars,
           Stack!Release
  <2>2. \A u \in Task : ~(StopOther(t, u) \/ JoinCall(t, u) \/ BlockTest(t, u))
    BY DEF StopOther, StopTask, JoinCall, BlockTest, stackVars, Stack!Release
  <2>3. \A u \in Task : ~(Unblock(t, u) \/ UnblockLate(t, u) \/ UnblockInside(t, u))
    BY DEF Unblock, UnblockLate, UnblockInside, stackVars
  <2>4. ASSUME NEW u \in Task, CreateTask(t, u) PROVE u = n
    BY <2>4 DEF CreateTask, Stack!Take
  <2> QED
    BY <1>3, <2>1, <2>2, <2>3, <2>4 DEF ClientCall
<1> QED
  BY <1>1, <1>2, <1>3 DEF Next

\* A task about to read the result reads it of a task that is still ZOMBIE.
JoinInv ==
    /\ phase = "off" => \A t \in Task : pc[t] # "result"
    /\ \A t \in Task : pc[t] = "result" => st[arg[t]] = "ZOMBIE"

LEMMA JoinStep ==
    ASSUME CleanUse, SafePreemption, JoinedLast, ZombieInv, NoPending, ResultInv,
           JoinInv, [Next]_vars
    PROVE  JoinInv'
<1>1. ZombiesKept
  BY ZombieStep
<1>2. phase' = "off" => \A t \in Task : pc'[t] # "result"
  BY OffStays DEF JoinInv, vars, clientVars
<1>3. ASSUME NEW t \in Task, pc'[t] = "result" PROVE st'[arg'[t]] = "ZOMBIE"
  <2>1. CASE JoinSees(t)
    BY <2>1 DEF JoinSees, JoinOver, kernelVars
  <2>2. CASE pc[t] = "result" /\ arg'[t] = arg[t]
    <3>1. arg[t] \in Task /\ st[arg[t]] = "ZOMBIE"
      BY <2>2 DEF ResultInv, JoinInv, InCall
    <3>2. Joined(arg[t])
      BY <2>2 DEF Joined
    <3>3. ~Start /\ \A v \in Task : ~CreateTask(v, arg[t])
      BY <2>2, <3>2 DEF Start, CreateTask, JoinedLast, JoinInv
    <3>4. arg[t] \notin live' \ live
      BY <3>3, MadeLive
    <3> QED
      BY <1>1, <2>2, <3>1, <3>4 DEF ZombiesKept
  <2> QED
    BY <1>3, <2>1, <2>2, CallKept DEF ResultInv, ArgKept
<1> QED
  BY <1>2, <1>3 DEF JoinInv

\* What join_task returns is the value of the joined task's function, although the
\* timer is armed between the last test of the spin and the read: wherever else
\* the quantum runs out.
THEOREM JoinGetsItsResult ==
    CleanUse /\ SafePreemption /\ JoinedLast => (Spec => JoinGetsResult)
<1> SUFFICES ASSUME CleanUse, SafePreemption, JoinedLast PROVE Spec => JoinGetsResult
  OBVIOUS
<1> DEFINE Gets == \A t \in Task : JoinReturn(t) => res[arg[t]] = "value"
<1>1. Init => JoinInv
  BY DEF Init, JoinInv
<1>2. ZombieInv /\ NoPending /\ ResultInv /\ JoinInv /\ [Next]_vars => JoinInv'
  BY JoinStep
<1>3. ResultInv /\ JoinInv /\ [Next]_vars => [Gets]_vars
  <2>1. ASSUME ResultInv, JoinInv, NEW t \in Task, JoinReturn(t) PROVE res[arg[t]] = "value"
    BY <2>1 DEF ResultInv, JoinInv, JoinReturn, InCall
  <2> QED
    BY <2>1
<1> QED
  BY <1>1, <1>2, <1>3, ZombieInvariant, ResultInvariant, PTL DEF Spec, JoinGetsResult

-----------------------------------------------------------------------------
\* What any step does to the queue: the backs stay behind their levels, the
\* elements keep their levels or go to level 0, but that of a task whose
\* quantum ran out may go down one, and the one dispatched was in the queue.
QueueStep ==
    /\ Reaching(queues')
    /\ \A x \in Elements(runq') :
          \/ x.lvl = 0
          \/ x \in Elements(runq)
          \/ /\ qelem_current # NULL
             /\ \/ x = qelem_current
                \/ /\ x.data = qelem_current.data /\ x.lvl = qelem_current.lvl + 1
                   /\ RunsOut(x.data)
    /\ \/ qelem_current' \in {NULL, qelem_current}
       \/ qelem_current' \in Elements(runq)

BacksInv == AccountInv /\ PendingOther /\ Reaching(queues)

LEMMA CallQueueStep ==
    ASSUME BacksInv, phase # "destroyed", NEW signum, NEW data, NEW s,
           signum = "SIG_TASK_NEW" => data \in Task \ Held,
           signum # "SIG_TASK_NEW" /\ data # NULL => \A t \in Current : RunsOut(t),
           scheduler(signum, data, s)
    PROVE  QueueStep
<1>1. KernelInv /\ Reaching(queues)
  BY DEF BacksInv, AccountInv, KernelInv
<1>2. /\ Reaching(queues')
      /\ \A x \in Elements(runq') :
            \/ x.lvl = 0
            \/ x \in Elements(runq)
            \/ qelem_current # NULL /\ x = Aged(signum, data)
      /\ qelem_current' = NULL \/ qelem_current' \in Elements(runq)
  BY <1>1, SchedulerQueue, Zenon
<1>3. ASSUME NEW x, qelem_current # NULL, x = Aged(signum, data)
      PROVE  \/ x = qelem_current
             \/ /\ x.data = qelem_current.data /\ x.lvl = qelem_current.lvl + 1
                /\ RunsOut(x.data)
  <2>1. qelem_current \in QElem /\ qelem_current.data \in Current
    BY <1>1, <1>3 DEF KernelInv, KernelTypeOK, Current
  <2>2. /\ x.data = qelem_current.data
        /\ \/ x = qelem_current
           \/ /\ signum # "SIG_TASK_NEW" /\ data # NULL
              /\ x.lvl = qelem_current.lvl + 1
    BY <1>3, <2>1, AgedFacts
  <2> QED
    BY <2>1, <2>2
<1> QED
  BY <1>2, <1>3 DEF QueueStep

\* A call with a task to enter.
LEMMA EnterQueueStep ==
    ASSUME BacksInv, phase # "destroyed", NEW n \in Task \ Held, NEW s,
           scheduler("SIG_TASK_NEW", n, s)
    PROVE  QueueStep
<1> DEFINE sig == "SIG_TASK_NEW"
<1>1. sig = "SIG_TASK_NEW" /\ scheduler(sig, n, s)
  OBVIOUS
<1> HIDE DEF sig
<1> QED
  BY <1>1, CallQueueStep

\* A call without data.
LEMMA PlainQueueStep ==
    ASSUME BacksInv, phase # "destroyed",
           \/ scheduler("SIG_TASK_YIELD", NULL, st)
           \/ scheduler("SIG_TASK_END", NULL, st)
    PROVE  QueueStep
<1>1. ASSUME NEW sig, sig # "SIG_TASK_NEW", scheduler(sig, NULL, st) PROVE QueueStep
  BY <1>1, CallQueueStep
<1> QED
  BY <1>1

\* A timer's call.
LEMMA TimerQueueStep ==
    ASSUME BacksInv, phase # "destroyed",
           scheduler("SIG_TASK_YIELD", "siginfo", st),
           \A t \in Current : RunsOut(t)
    PROVE  QueueStep
<1>1. ASSUME NEW sig, NEW data, sig # "SIG_TASK_NEW", scheduler(sig, data, st)
      PROVE  QueueStep
  BY <1>1, CallQueueStep
<1> QED
  BY <1>1

\* A step that leaves the queue and the running task alone keeps what QueueStep
\* says of them.
LEMMA QuietQueueStep ==
    ASSUME BacksInv, UNCHANGED <<queues, qelem_current>>
    PROVE  QueueStep
<1>1. runq' = runq
  BY DEF runq
<1> QED
  BY <1>1 DEF QueueStep, BacksInv

LEMMA EmptyQueueReaches ==
    ASSUME NEW Q, Q = EmptyQueue
    PROVE  Reaching(Q) /\ \A x : x \notin Elements(Q.list)
<1>1. Q.list = <<>>
  BY DEF EmptyQueue
<1>2. \A i : i \notin DOMAIN Q.list
  <2>1. Q.list \in Seq({}) /\ Len(Q.list) = 0
    BY <1>1
  <2>2. DOMAIN Q.list = 1 .. Len(Q.list)
    BY <2>1, LenProperties
  <2> QED
    BY <2>1, <2>2
<1> QED
  BY <1>2 DEF Reaching, Elements

\* Every step does to the queue what QueueStep says.
LEMMA QueueStepTaken ==
    ASSUME "unblock_self" \notin Ops, BacksInv, [Next]_vars
    PROVE  QueueStep
<1>0. AccountInv
  BY DEF BacksInv
<1>1. CASE UNCHANGED <<queues, qelem_current>>
  BY <1>1, QuietQueueStep
<1>2. CASE Start
  <2>1. /\ MainTask \in Task \ Held /\ phase # "destroyed"
        /\ scheduler("SIG_TASK_NEW", MainTask, [st EXCEPT ![MainTask] = "ACTIVE"])
    BY <1>0, <1>2, MainAssumption DEF Start, AccountInv
  <2> QED
    BY <2>1, EnterQueueStep
<1>3. CASE DestroySched
  <2>1. queues' = EmptyQueue /\ qelem_current' = qelem_current
    BY <1>3 DEF DestroySched
  <2>2. Reaching(queues') /\ \A x : x \notin Elements(runq')
    BY <2>1, EmptyQueueReaches DEF runq
  <2>3. qelem_current' \in {NULL, qelem_current}
    BY <2>1
  <2> QED
    BY <2>2, <2>3, Zenon DEF QueueStep
<1>4. ASSUME NEW t \in Task, Preempt(t) PROVE QueueStep
  <2>1. phase = "on" /\ scheduler("SIG_TASK_YIELD", "siginfo", st)
    BY <1>4 DEF Preempt, Running
  <2>2. Current = {t} /\ RunsOut(t)
    BY <1>0, <1>4, RunningHolds DEF Preempt, RunsOut
  <2> QED
    BY <2>1, <2>2, TimerQueueStep
<1>5. CASE IdleTick
  <2>1. /\ phase = "on" /\ scheduler("SIG_TASK_YIELD", "siginfo", st)
        /\ Current = {}
    BY <1>5 DEF IdleTick, Current
  <2> QED
    BY <2>1, TimerQueueStep
<1>9. ASSUME NEW t \in Task, NEW u \in Task, NEW r, UnblockTask(u, r), Running(t), u # t
      PROVE  QueueStep
  <2>1. phase = "on" /\ (~queued[u] => u \in Task \ Held)
    BY <1>0, <1>9, RunningHolds DEF AccountInv, QueuedExact, Held
  <2>2. CASE ~queued[u] /\ scheduler("SIG_TASK_NEW", u, [st EXCEPT ![u] = "READY"])
    BY <2>1, <2>2, EnterQueueStep
  <2> QED
    BY <1>1, <1>9, <2>2 DEF UnblockTask
<1>6. ASSUME NEW t \in Task, LibraryStep(t) PROVE QueueStep
  <2>1. CASE End(t) \/ PollNothing(t) \/ JoinYields(t)
    <3>1. /\ phase = "on"
          /\ \/ scheduler("SIG_TASK_YIELD", NULL, st)
             \/ scheduler("SIG_TASK_END", NULL, st)
      BY <2>1 DEF End, StopTask, PollNothing, JoinYields, Calls, Running
    <3> QED
      BY <3>1, PlainQueueStep
  <2>2. CASE UnblockResumes(t)
    BY <1>9, <2>2 DEF UnblockResumes, BacksInv, PendingOther
  <2>3. CASE ~(End(t) \/ PollNothing(t) \/ JoinYields(t) \/ UnblockResumes(t))
    BY <1>1, <1>6, <2>3
       DEF LibraryStep, PollAnswers, JoinSpins, JoinSees, JoinReturn, BlockSet,
           UnblockSched, kernelVars
  <2> QED
    BY <2>1, <2>2, <2>3
<1>7. ASSUME NEW t \in Task, ClientCall(t) PROVE QueueStep
  <2>1. CASE Return(t) \/ BlockSched(t)
    BY <1>1, <2>1 DEF Return, BlockSched
  <2>2. CASE Exit(t) \/ TaskYield(t)
    <3>1. /\ phase = "on"
          /\ \/ scheduler("SIG_TASK_YIELD", NULL, st)
             \/ scheduler("SIG_TASK_END", NULL, st)
      BY <2>2 DEF Exit, StopTask, TaskYield, Calls, Running
    <3> QED
      BY <3>1, PlainQueueStep
  <2>3. ASSUME NEW u \in Task, CreateTask(t, u) PROVE QueueStep
    <3>1. /\ phase = "on" /\ u \in Task \ Held
          /\ scheduler("SIG_TASK_NEW", u, [st EXCEPT ![u] = "READY"])
      BY <1>0, <2>3, RunningHolds DEF CreateTask, Calls, AccountInv
    <3> QED
      BY <3>1, EnterQueueStep
  <2>4. ASSUME NEW u \in Task, StopOther(t, u) PROVE QueueStep
    BY <2>4, PlainQueueStep DEF StopOther, StopTask, Calls, Running
  <2>5. ASSUME NEW u \in Task, JoinCall(t, u) \/ BlockTest(t, u) PROVE QueueStep
    BY <1>1, <2>5 DEF JoinCall, BlockTest, kernelVars
  <2>6. ASSUME NEW u \in Task, Unblock(t, u) \/ UnblockInside(t, u) PROVE QueueStep
    <3>1. UnblockTask(u, armed) /\ Running(t) /\ u # t
      BY <2>6 DEF Unblock, UnblockInside, MayUnblock, RestoredTimer, Calls
    <3> QED
      BY <1>9, <3>1
  <2>7. ASSUME NEW u \in Task, BlockSchedLate(t) \/ UnblockLate(t, u) PROVE QueueStep
    <3>1. /\ Running(t) /\ phase = "on" /\ scheduler("SIG_TASK_YIELD", "siginfo", st)
          /\ RunsOut(t)
      BY <2>7 DEF BlockSchedLate, UnblockLate, Calls, Running, RunsOut
    <3>2. Current = {t}
      BY <1>0, <3>1, RunningHolds
    <3> QED
      BY <3>1, <3>2, TimerQueueStep
  <2> QED
    BY <1>7, <2>1, <2>2, <2>3, <2>4, <2>5, <2>6, <2>7 DEF ClientCall
<1>8. CASE LiftExpires \/ UNCHANGED vars
  BY <1>1, <1>8 DEF LiftExpires, vars, kernelVars
<1> QED
  BY <1>2, <1>3, <1>4, <1>5, <1>6, <1>7, <1>8 DEF Next, Timer

\* BacksInv holds in every reachable state.
LEMMA BacksInvariant == SafeReuse => (Spec => []BacksInv)
<1> SUFFICES ASSUME SafeReuse PROVE Spec => []BacksInv
  OBVIOUS
<1>1. Init => Reaching(queues)
  BY DEF Init, KernelInit, EmptyQueue, Reaching
<1>2. AccountInv /\ PendingOther /\ Reaching(queues) /\ [Next]_vars => Reaching(queues)'
  BY QueueStepTaken DEF BacksInv, QueueStep, SafeReuse, CleanUse
<1>3. AccountInv /\ PendingOther /\ Reaching(queues) <=> BacksInv
  BY DEF BacksInv
<1> QED
  BY <1>1, <1>2, <1>3, AccountInvariant, PTL DEF Spec

\* The pointer that queue_insert follows without a test is that of an element
\* in the list, with no element of its level behind it, although an insert into
\* an empty level moves its neighbour's back as well and a lift moves them all.
THEOREM BacksStayReachable == SafeReuse => (Spec => []BacksReach)
<1>1. BacksInv => BacksReach
  BY DEF BacksInv, BacksReach, Reaching, BackOf, runq
<1> QED
  BY <1>1, BacksInvariant, PTL

-----------------------------------------------------------------------------
\* The level of a task with one element is that element's.
LevelsKnown ==
    /\ \A x \in Elements(runq) :
          x \in QElem /\ x.data \in InQueue /\ LevelOf(x.data) = x.lvl
    /\ \A t \in InQueue : \E x \in Elements(runq) : x.data = t
    /\ \A t \in Current : /\ qelem_current \in QElem /\ t = qelem_current.data
                          /\ LevelOf(t) = qelem_current.lvl
    /\ qelem_current # NULL => qelem_current.data \in Current
    /\ \A t \in Task : t \notin InQueue \cup Current => LevelOf(t) = 0

LEMMA LevelFacts == KernelTypeOK /\ OneElement => LevelsKnown
<1> SUFFICES ASSUME KernelTypeOK, OneElement PROVE LevelsKnown
  OBVIOUS
<1>1. runq \in Seq(QElem) /\ qelem_current \in QElem \cup {NULL}
  BY DEF KernelTypeOK, runq
<1>2. ASSUME NEW i \in DOMAIN runq
      PROVE  /\ runq[i] \in QElem /\ runq[i].data \in InQueue
             /\ LevelOf(runq[i].data) = runq[i].lvl
  <2>1. runq[i] \in QElem /\ runq[i].data \in InQueue
    BY <1>1 DEF InQueue
  <2>2. runq[i].data \notin Current
    BY <2>1 DEF OneElement
  <2> DEFINE h == CHOOSE j \in DOMAIN runq : runq[j].data = runq[i].data
  <2>3. h \in DOMAIN runq /\ runq[h].data = runq[i].data
    OBVIOUS
  <2>4. h = i
    BY <2>3 DEF OneElement
  <2>5. LevelOf(runq[i].data) = runq[h].lvl
    BY <2>1, <2>2 DEF LevelOf
  <2> QED
    BY <2>1, <2>4, <2>5
<1>3. \A t \in Current : /\ qelem_current \in QElem /\ t = qelem_current.data
                         /\ LevelOf(t) = qelem_current.lvl
  BY <1>1 DEF Current, LevelOf
<1>4. \A x \in Elements(runq) :
         x \in QElem /\ x.data \in InQueue /\ LevelOf(x.data) = x.lvl
  BY <1>2 DEF Elements
<1>5. \A t \in InQueue : \E x \in Elements(runq) : x.data = t
  BY DEF InQueue, Elements
<1> QED
  BY <1>3, <1>4, <1>5 DEF LevelsKnown, LevelOf, Current

\* Where QueueStep leads, an element that sank is that of a task whose quantum ran
\* out.
LEMMA SunkWasPreempted ==
    ASSUME LevelsKnown, LevelsKnown', OneElement, QueueStep,
           NEW t \in Task, LevelOf(t)' > LevelOf(t)
    PROVE  RunsOut(t) /\ LevelOf(t)' = LevelOf(t) + 1
<1>0. \A u \in Task : LevelOf(u) \in Nat
  BY DEF LevelsKnown, QElem, Level
<1>1. /\ \A x \in Elements(runq') :
            x.data \in InQueue' /\ LevelOf(x.data)' = x.lvl
      /\ \A u \in InQueue' : \E x \in Elements(runq') : x.data = u
      /\ \A u \in Current' : u = qelem_current'.data /\ LevelOf(u)' = qelem_current'.lvl
      /\ t \notin InQueue' \cup Current' => LevelOf(t)' = 0
  BY DEF LevelsKnown, Elements
<1>2. /\ \A x \in Elements(runq) : LevelOf(x.data) = x.lvl
      /\ qelem_current # NULL => LevelOf(qelem_current.data) = qelem_current.lvl
  BY DEF LevelsKnown
<1> DEFINE v == LevelOf(t)'
           w == LevelOf(t)
<1>3. v > w /\ w \in Nat
  BY <1>0
<1>4. CASE t \in Current'
  <2>1. qelem_current' # NULL /\ t = qelem_current'.data /\ v = qelem_current'.lvl
    BY <1>1, <1>4 DEF Current
  <2>2. qelem_current' = qelem_current \/ qelem_current' \in Elements(runq)
    BY <2>1 DEF QueueStep
  <2>3. v = w
    BY <1>2, <2>1, <2>2
  <2> HIDE DEF v, w
  <2> QED
    BY <1>3, <2>3
<1>5. CASE t \in InQueue'
  <2>1. PICK x \in Elements(runq') : x.data = t
    BY <1>1, <1>5
  <2>2. v = x.lvl
    BY <1>1, <2>1
  <2>3. x.lvl # 0 /\ x.lvl # w
    <3> HIDE DEF v, w
    <3> QED
      BY <1>3, <2>2
  <2>4. x \notin Elements(runq)
    BY <1>2, <2>1, <2>3
  <2>5. qelem_current # NULL /\ x # qelem_current
    BY <1>2, <2>1, <2>3, <2>4 DEF QueueStep
  <2>6. /\ x.data = qelem_current.data /\ x.lvl = qelem_current.lvl + 1
        /\ RunsOut(x.data)
    BY <2>3, <2>4, <2>5 DEF QueueStep
  <2> QED
    BY <1>2, <2>1, <2>2, <2>5, <2>6
<1>6. CASE t \notin InQueue' \cup Current'
  <2>1. v = 0
    BY <1>1, <1>6
  <2> HIDE DEF v, w
  <2> QED
    BY <1>3, <2>1
<1> QED
  BY <1>4, <1>5, <1>6

\* Nothing happens after destroy_sched.
LEMMA OnUntilDestroyed ==
    ASSUME Next
    PROVE  phase # "destroyed" /\ (phase' # "destroyed" \/ DestroySched)
<1>1. CASE Start
  BY <1>1 DEF Start
<1>2. CASE DestroySched
  BY <1>2 DEF DestroySched, Calls, Running
<1>3. CASE Timer
  BY <1>3 DEF Timer, IdleTick, LiftExpires, Preempt, Running
<1>4. ASSUME NEW t \in Task, LibraryStep(t)
      PROVE  phase # "destroyed" /\ phase' # "destroyed"
  <2>1. CASE End(t) \/ PollNothing(t) \/ PollAnswers(t)
    BY <2>1 DEF End, StopTask, PollNothing, PollAnswers, Calls, Running
  <2>2. CASE JoinSpins(t) \/ JoinYields(t) \/ JoinSees(t) \/ JoinReturn(t)
    BY <2>2 DEF JoinSpins, JoinYields, JoinSees, JoinReturn, Running
  <2>3. CASE BlockSet(t) \/ UnblockResumes(t) \/ UnblockSched(t)
    BY <2>3 DEF BlockSet, UnblockResumes, UnblockSched, Running
  <2> QED
    BY <1>4, <2>1, <2>2, <2>3 DEF LibraryStep
<1>5. ASSUME NEW t \in Task, ClientCall(t)
      PROVE  phase # "destroyed" /\ phase' # "destroyed"
  <2>1. CASE Return(t) \/ Exit(t) \/ TaskYield(t) \/ BlockSched(t) \/ BlockSchedLate(t)
    BY <2>1 DEF Return, Exit, StopTask, TaskYield, BlockSched, BlockSchedLate, Calls, Running
  <2>2. ASSUME NEW u \in Task, CreateTask(t, u) \/ StopOther(t, u) \/ JoinCall(t, u)
        PROVE  phase # "destroyed" /\ phase' # "destroyed"
    BY <2>2 DEF CreateTask, StopOther, StopTask, JoinCall, Calls, Running
  <2>3. ASSUME NEW u \in Task, \/ BlockTest(t, u) \/ Unblock(t, u)
                               \/ UnblockLate(t, u) \/ UnblockInside(t, u)
        PROVE  phase # "destroyed" /\ phase' # "destroyed"
    BY <2>3 DEF BlockTest, Unblock, UnblockLate, UnblockInside, Calls, Running
  <2> QED
    BY <1>5, <2>1, <2>2, <2>3 DEF ClientCall
<1> QED
  BY <1>1, <1>2, <1>3, <1>4, <1>5 DEF Next

\* A task's element sinks in no step but the end of its own quantum, and then by
\* one level: not when it yields, is unblocked, joins or is overtaken by inserts.
THEOREM OnlyQuantumLowers == SafeReuse => (Spec => OnlyQuantumDemotes)
<1> SUFFICES ASSUME SafeReuse PROVE Spec => OnlyQuantumDemotes
  OBVIOUS
<1> DEFINE Sinks == \A t \in Task : LevelOf(t)' > LevelOf(t) =>
                       RunsOut(t) /\ LevelOf(t)' = LevelOf(t) + 1
<1>1. KernelTypeOK' /\ OneElement' => LevelsKnown'
  BY LevelFacts, PTL
<1>2. ASSUME BacksInv, AccountInv', [Next]_vars PROVE [Sinks]_vars
  <2>1. /\ QueueStep /\ AccountInv /\ KernelTypeOK /\ KernelTypeOK'
        /\ phase # "destroyed" => OneElement /\ LevelsKnown
    BY <1>2, QueueStepTaken, LevelFacts DEF BacksInv, AccountInv, SafeReuse, CleanUse
  <2>2. \/ UNCHANGED vars
        \/ phase # "destroyed" /\ (phase' # "destroyed" \/ DestroySched)
    BY <1>2, OnUntilDestroyed
  <2>3. CASE phase # "destroyed" /\ (phase' # "destroyed" \/ DestroySched)
    <3>1. OneElement'
      <4>1. CASE phase' # "destroyed"
        BY <1>2, <4>1 DEF AccountInv
      <4>2. CASE DestroySched
        <5>1. runq' = <<>>
          BY <4>2 DEF DestroySched, EmptyQueue, runq
        <5> QED
          BY <5>1 DEF OneElement, InQueue
      <4> QED
        BY <2>3, <4>1, <4>2
    <3>2. OneElement /\ LevelsKnown /\ LevelsKnown'
      BY <1>1, <2>1, <2>3, <3>1
    <3>3. Sinks
      BY <2>1, <3>2, SunkWasPreempted
    <3> QED
      BY <3>3
  <2> QED
    BY <2>2, <2>3
<1> QED
  BY <1>2, BacksInvariant, AccountInvariant, PTL DEF Spec, OnlyQuantumDemotes
=============================================================================
