----------------------------- MODULE Scheduler -----------------------------
(***************************************************************************)
(* The coroutine library of tpcorrutinas as its client sees it: the tasks  *)
(* of a program run one at a time, call the functions of scheduler.c, and  *)
(* lose the processor when the quantum's timer fires.  The state of        *)
(* scheduler() is SchedKernel's; memory_manager() is StackManager.         *)
(*                                                                         *)
(* A function that disarms the timer before it touches anything runs to    *)
(* its call of scheduler() as one step.  A function that does not is split *)
(* at the places where the timer can fire: pc tells where a task is, and   *)
(* PreemptPoints where the quantum may run out; "late" in PreemptPoints    *)
(* says that it may also run out inside the system call that disarms the   *)
(* timer.                                                                  *)
(***************************************************************************)
EXTENDS SchedKernel, FiniteSets

CONSTANTS
    MainTask,           \* maintask of start_sched
    MEM_TASKS_PER_SEG,
    Ops,                \* the library calls the program makes, and the
                        \* liberties it takes: "unblock_ended",
                        \* "unblock_self", "reuse_joined"
    Joinable,           \* the pairs <<t, u>> such that t may join u
    Reusable,           \* structures the program passes to create_task again
    PreemptPoints       \* where the quantum may run out

ASSUME MainAssumption == MainTask \in Task
ASSUME SegAssumption == MEM_TASKS_PER_SEG \in Nat \ {0}

VARIABLES
    reserved, spots_count, next_free_spot, mem_position, live, \* StackManager
    phase,      \* "off" until start_sched, "on" until destroy_sched
    pc,         \* where each task is: in the program or inside a call
    arg,        \* the task that call is about
    res,        \* the res field of each Task
    old_armed   \* static old of sched_blocker: the timer was counting down

Stack == INSTANCE StackManager WITH destroyed <- phase = "destroyed"

stackVars == <<reserved, spots_count, next_free_spot, mem_position, live>>
clientVars == <<pc, arg, res>>
vars == <<kernelVars, stackVars, clientVars, phase, old_armed>>

\* "lock" is inside a function of locks.s or locks2.c (module Locks).
\* "torn" is inside a block_sched section, with the timer armed all the same.
ProgramCounter == {"user", "critical", "nested", "torn", "join", "spin",
                   "result", "poll", "block", "unblock", "ending", "gone",
                   "lock"}

Init ==
    /\ KernelInit
    /\ reserved = {} /\ spots_count = 0 /\ next_free_spot = 0
    /\ mem_position = [t \in Task |-> Stack!NoSpot]
    /\ live = {}
    /\ phase = "off"
    /\ pc = [t \in Task |-> "gone"]
    /\ arg = [t \in Task |-> NULL]
    /\ res = [t \in Task |-> "unset"]
    /\ old_armed = FALSE

\* The task that runs.
Running(t) == phase = "on" /\ qelem_current # NULL /\ qelem_current.data = t

\* It runs the program's own code and that code makes a call op.
Calls(t, op) == Running(t) /\ pc[t] = "user" /\ op \in Ops

-----------------------------------------------------------------------------
(* start_sched, create_task, stop_task, destroy_sched                      *)

\* start_sched: main is ACTIVE from before the scheduler's first call, which
\* only enters it in the queue and goes idle.
Start ==
    /\ phase = "off"
    /\ phase' = "on"
    /\ Stack!Take(MainTask)
    /\ pc' = [pc EXCEPT ![MainTask] = "user"]
    /\ res' = [res EXCEPT ![MainTask] = "NULL"]
    /\ scheduler("SIG_TASK_NEW", MainTask, [st EXCEPT ![MainTask] = "ACTIVE"])
    /\ UNCHANGED <<arg, old_armed>>

\* Some task is inside join_task(n).
Joined(n) == \E t \in Task : arg[t] = n /\ pc[t] \in {"join", "spin", "result"}

\* create_task(f, arg, n): n is a fresh structure, or one whose task ended.
CreateTask(t, n) ==
    /\ Calls(t, "create")
    /\ n \notin live /\ n # MainTask
    /\ st[n] = "UNUSED" \/ n \in Reusable
    /\ Joined(n) => "reuse_joined" \in Ops
    /\ UNCHANGED <<phase, arg, res, old_armed>>
    /\ Stack!Take(n)
    /\ pc' = [pc EXCEPT ![n] = "user"]
    /\ scheduler("SIG_TASK_NEW", n, [st EXCEPT ![n] = "READY"])

\* _start_task: the task's function returns; its result and its state are
\* written with the timer still counting down.
Return(t) ==
    /\ Calls(t, "return") /\ t # MainTask
    /\ res' = [res EXCEPT ![t] = "value"]
    /\ st' = [st EXCEPT ![t] = "ZOMBIE"]
    /\ pc' = [pc EXCEPT ![t] = "ending"]
    /\ UNCHANGED <<queued, queues, qelem_current, armed, lift_expired,
                   stackVars, arg, phase, old_armed>>

\* Mutant of ResultOfStopped: the test of line 183 is missing.
ResultLost(r) == "NULL"

\* Lines 183-184.
ResultOfStopped(r) == IF st[r] # "ZOMBIE" THEN "NULL" ELSE res[r]

\* stop_task(r), called by the running task.
StopTask(r) ==
    /\ UNCHANGED <<phase, arg, old_armed>>
    /\ res' = [res EXCEPT ![r] = ResultOfStopped(r)]
    /\ pc' = [pc EXCEPT ![r] = "gone"]
    /\ Stack!Release(r)
    /\ scheduler("SIG_TASK_END", NULL, st)

\* Line 170: a task whose function returned stops itself.
End(t) == Running(t) /\ pc[t] = "ending" /\ StopTask(t)

\* stop_task(task_current()) in the middle of a task's function.
Exit(t) == Calls(t, "exit") /\ t # MainTask /\ StopTask(t)

\* stop_task(r) on a task that is not the caller.
StopOther(t, r) ==
    /\ Calls(t, "stop")
    /\ r \in live /\ r \notin {t, MainTask}
    /\ StopTask(r)

\* destroy_sched, by main: the queue, the element of qelem_current and the
\* stack array are freed; the pointers and the bits keep their values.
DestroySched ==
    /\ Calls(MainTask, "destroy")
    /\ phase' = "destroyed"
    /\ Stack!Destroy
    /\ armed' = FALSE
    /\ queues' = EmptyQueue
    /\ UNCHANGED <<st, queued, qelem_current, lift_expired, clientVars, old_armed>>

-----------------------------------------------------------------------------
(* task_yield, task_poll, join_task                                        *)

TaskYield(t) ==
    /\ Calls(t, "yield")
    /\ scheduler("SIG_TASK_YIELD", NULL, st)
    /\ UNCHANGED <<stackVars, clientVars, phase, old_armed>>

\* task_poll: poll() finds nothing, the task yields and will ask again.
PollNothing(t) ==
    /\ \/ Calls(t, "poll")
       \/ Running(t) /\ pc[t] = "poll"
    /\ pc' = [pc EXCEPT ![t] = "poll"]
    /\ scheduler("SIG_TASK_YIELD", NULL, st)
    /\ UNCHANGED <<stackVars, arg, res, phase, old_armed>>

\* poll() finds an event or an error.
PollAnswers(t) ==
    /\ Running(t) /\ pc[t] = "poll"
    /\ pc' = [pc EXCEPT ![t] = "user"]
    /\ UNCHANGED <<kernelVars, stackVars, arg, res, phase, old_armed>>

JoinCall(t, u) ==
    /\ Calls(t, "join")
    /\ <<t, u>> \in Joinable /\ st[u] # "UNUSED"
    /\ pc' = [pc EXCEPT ![t] = "join"]
    /\ arg' = [arg EXCEPT ![t] = u]
    /\ UNCHANGED <<kernelVars, stackVars, res, phase, old_armed>>

\* Line 197.
JoinOver(u) == st[u] = "ZOMBIE"

\* The test fails: one more round of the spin.
JoinSpins(t) ==
    /\ Running(t) /\ pc[t] = "join" /\ ~JoinOver(arg[t])
    /\ pc' = [pc EXCEPT ![t] = "spin"]
    /\ UNCHANGED <<kernelVars, stackVars, arg, res, phase, old_armed>>

\* Lines 198-200.
JoinYields(t) ==
    /\ Running(t) /\ pc[t] = "spin"
    /\ pc' = [pc EXCEPT ![t] = "join"]
    /\ scheduler("SIG_TASK_YIELD", NULL, st)
    /\ UNCHANGED <<stackVars, arg, res, phase, old_armed>>

\* It succeeds: the spin is over.
JoinSees(t) ==
    /\ Running(t) /\ pc[t] = "join" /\ JoinOver(arg[t])
    /\ pc' = [pc EXCEPT ![t] = "result"]
    /\ UNCHANGED <<kernelVars, stackVars, arg, res, phase, old_armed>>

\* Line 202, with the timer armed since: join_task returns res[arg[t]].
JoinReturn(t) ==
    /\ Running(t) /\ pc[t] = "result"
    /\ pc' = [pc EXCEPT ![t] = "user"]
    /\ arg' = [arg EXCEPT ![t] = NULL]
    /\ UNCHANGED <<kernelVars, stackVars, res, phase, old_armed>>

-----------------------------------------------------------------------------
(* block_task, unblock_task, sched_blocker                                 *)

\* Mutant of Blockable: the test of line 208 is missing.
BlockableAny(u) == TRUE

\* Line 208: otherwise block_task has no effect.
Blockable(u) == st[u] # "ZOMBIE"

\* The test, with the timer counting down.
BlockTest(t, u) ==
    /\ Calls(t, "block")
    /\ st[u] # "UNUSED" /\ Blockable(u)
    /\ pc' = [pc EXCEPT ![t] = "block"]
    /\ arg' = [arg EXCEPT ![t] = u]
    /\ UNCHANGED <<kernelVars, stackVars, res, phase, old_armed>>

\* Line 209.
BlockSet(t) ==
    /\ Running(t) /\ pc[t] = "block"
    /\ st' = [st EXCEPT ![arg[t]] = "BLOCKED"]
    /\ pc' = [pc EXCEPT ![t] = "user"]
    /\ arg' = [arg EXCEPT ![t] = NULL]
    /\ UNCHANGED <<queued, queues, qelem_current, armed, lift_expired,
                   stackVars, res, phase, old_armed>>

\* Mutant of RestoredTimer: line 231 is missing.
TimerLeftOff == FALSE

\* Lines 216 and 231: disarmed, then set to what remained.
RestoredTimer == armed

\* The two ways unblock_task ends, lines 222-226 and 229-232.
UnblockTask(u, restored) ==
    LET s == [st EXCEPT ![u] = "READY"]
    IN  \/ /\ ~queued[u]
           /\ scheduler("SIG_TASK_NEW", u, s)
        \/ /\ queued[u]
           /\ st' = s
           /\ armed' = restored
           /\ UNCHANGED <<queued, queues, qelem_current, lift_expired>>

\* The tasks a program unblocks, blocked or not.
MayUnblock(t, u) ==
    /\ u = t => "unblock_self" \in Ops
    /\ \/ u \in live /\ st[u] # "ZOMBIE"
       \/ "unblock_ended" \in Ops /\ st[u] = "ZOMBIE"

Unblock(t, u) ==
    /\ Calls(t, "unblock") /\ MayUnblock(t, u)
    /\ UnblockTask(u, RestoredTimer)
    /\ UNCHANGED <<stackVars, clientVars, phase, old_armed>>

\* The quantum runs out inside the call that disarms its timer: old reads 0,
\* and the signal is there when the call returns.
Late == armed /\ "late" \in PreemptPoints

\* unblock_task with a late signal, up to the switch.
UnblockLate(t, u) ==
    /\ Calls(t, "unblock") /\ MayUnblock(t, u) /\ Late
    /\ pc' = [pc EXCEPT ![t] = "unblock"]
    /\ arg' = [arg EXCEPT ![t] = u]
    /\ scheduler("SIG_TASK_YIELD", "siginfo", st)
    /\ UNCHANGED <<stackVars, res, phase, old_armed>>

\* The same call after it: the timer is set to the 0 that old reads.
UnblockResumes(t) ==
    /\ Running(t) /\ pc[t] = "unblock"
    /\ pc' = [pc EXCEPT ![t] = "user"]
    /\ arg' = [arg EXCEPT ![t] = NULL]
    /\ UnblockTask(arg[t], FALSE)
    /\ UNCHANGED <<stackVars, res, phase, old_armed>>

\* unblock_task from inside a block_sched section.  With u's element out of
\* the queue it gives the processor away in mid-section, and the section
\* goes on with the timer of the quantum in which it is resumed.
UnblockInside(t, u) ==
    /\ Running(t) /\ pc[t] \in {"critical", "torn"} /\ "unblock" \in Ops
    /\ MayUnblock(t, u)
    /\ pc' = [pc EXCEPT ![t] = IF queued[u] THEN @ ELSE "torn"]
    /\ UnblockTask(u, RestoredTimer)
    /\ UNCHANGED <<stackVars, arg, res, phase, old_armed>>

\* Where block_sched() leads and unblock_sched() leads back: a call such as
\* shmem_new opens a section of its own inside the caller's.
Enters == {<<"user", "critical">>, <<"critical", "nested">>}

\* sched_blocker(0).
BlockSched(t) ==
    /\ Running(t) /\ "critical" \in Ops
    /\ \E e \in Enters :
          /\ pc[t] = e[1]
          /\ e[2] = "nested" => "nested" \in Ops
          /\ pc' = [pc EXCEPT ![t] = e[2]]
    /\ old_armed' = armed
    /\ armed' = FALSE
    /\ UNCHANGED <<st, queued, queues, qelem_current, lift_expired,
                   stackVars, arg, res, phase>>

\* sched_blocker(0) with a late signal: when the task is resumed the section
\* is open, with the timer armed.
BlockSchedLate(t) ==
    /\ Calls(t, "critical") /\ Late
    /\ pc' = [pc EXCEPT ![t] = "torn"]
    /\ old_armed' = FALSE
    /\ scheduler("SIG_TASK_YIELD", "siginfo", st)
    /\ UNCHANGED <<stackVars, arg, res, phase>>

\* Mutant of TimerToRestore: unblock_sched gives a quantum of its own.
FreshQuantum == TRUE

\* Line 394: the timer is set to what block_sched saved.
TimerToRestore == old_armed

\* sched_blocker(1).
UnblockSched(t) ==
    /\ Running(t)
    /\ \E e \in Enters \cup {<<"user", "torn">>} :
          /\ pc[t] = e[2]
          /\ pc' = [pc EXCEPT ![t] = e[1]]
    /\ armed' = TimerToRestore
    /\ UNCHANGED <<st, queued, queues, qelem_current, lift_expired,
                   stackVars, arg, res, phase, old_armed>>

-----------------------------------------------------------------------------
(* The timers                                                              *)

\* sched_yield_timer reaches 0: its signal calls scheduler() with a siginfo_t.
Preempt(t) ==
    /\ Running(t) /\ armed /\ pc[t] \in PreemptPoints
    /\ scheduler("SIG_TASK_YIELD", "siginfo", st)
    /\ UNCHANGED <<stackVars, clientVars, phase, old_armed>>

\* The idle timer fires: SIG_TASK_YIELD with no current task.
IdleTick ==
    /\ phase = "on" /\ qelem_current = NULL
    /\ scheduler("SIG_TASK_YIELD", "siginfo", st)
    /\ UNCHANGED <<stackVars, clientVars, phase, old_armed>>

LiftExpires ==
    /\ phase = "on" /\ ~lift_expired
    /\ lift_expired' = TRUE
    /\ UNCHANGED <<st, queued, queues, qelem_current, armed, stackVars,
                   clientVars, phase, old_armed>>

-----------------------------------------------------------------------------
\* A library call goes on to its next step.
LibraryStep(t) ==
    \/ End(t) \/ PollNothing(t) \/ PollAnswers(t)
    \/ JoinSpins(t) \/ JoinYields(t) \/ JoinSees(t) \/ JoinReturn(t)
    \/ BlockSet(t) \/ UnblockResumes(t) \/ UnblockSched(t)

\* The program makes a call about itself, or about a task u.
ClientCall(t) ==
    \/ Return(t) \/ Exit(t) \/ TaskYield(t)
    \/ BlockSched(t) \/ BlockSchedLate(t)
    \/ \E u \in Task :
          \/ CreateTask(t, u) \/ StopOther(t, u) \/ JoinCall(t, u)
          \/ BlockTest(t, u)
          \/ Unblock(t, u) \/ UnblockLate(t, u) \/ UnblockInside(t, u)

Timer == IdleTick \/ LiftExpires \/ \E t \in Task : Preempt(t)

Next ==
    \/ Start \/ DestroySched \/ Timer
    \/ \E t \in Task : LibraryStep(t) \/ ClientCall(t)

Spec == Init /\ [][Next]_vars

\* The timers fire: that of the idle task, that of the lift, and the quantum's
\* of a task that keeps the processor and its timer armed (WF: a task that
\* yields gets a fresh quantum each time, and none of them need run out).  A
\* task that keeps getting quanta gets through the few instructions of a
\* library call (SF).
Fairness ==
    /\ WF_vars(IdleTick) /\ WF_vars(LiftExpires)
    /\ \A t \in Task : WF_vars(Preempt(t)) /\ SF_vars(LibraryStep(t))

LiveSpec == Spec /\ Fairness

-----------------------------------------------------------------------------
TypeOK ==
    /\ KernelTypeOK
    /\ phase \in {"off", "on", "destroyed"}
    /\ live \in SUBSET Task
    /\ pc \in [Task -> ProgramCounter]
    /\ arg \in [Task -> Task \cup {NULL}]
    /\ res \in [Task -> {"unset", "NULL", "value"}]
    /\ old_armed \in BOOLEAN

\* What scheduler(), pqueue.c and the queued bit promise each other: one
\* q_elem for each task, bits that tell the truth.  A second element would
\* run a task twice, a wrong bit would make unblock_task lose the task or
\* build that second element.
QueueAccounting == phase # "destroyed" => OneElement /\ QueuedExact

\* The back of a level, which queue_insert follows without a test, is in the
\* list, and no element of that level waits behind it.
BacksReach ==
    \A i \in DOMAIN runq : \E j \in DOMAIN runq :
        j >= i /\ runq[j].data = queues.backs[runq[i].lvl]

\* No task that is still alive can be forgotten: it runs, or waits in the
\* queue, or is blocked and out of the queue until unblock_task enters it
\* again.  In particular none is dropped between block_task, the scheduler's
\* lazy removal of blocked elements, and unblock_task.
NoTaskLost ==
    phase = "on" =>
        \A t \in live : st[t] = "BLOCKED" \/ t \in InQueue \cup Current

\* The scheduler never holds an element of a task whose context and stack
\* spot have been freed: ACTIVATE on it would jump through freed memory.
ContextsAlive == phase = "on" => InQueue \cup Current \subseteq live

\* At most one live task is ACTIVE, and it is the one that runs (while main
\* waits for its first turn, idle runs and main is already ACTIVE).
OneActive ==
    phase = "on" =>
        \A t \in live : st[t] = "ACTIVE" =>
            \/ Current = {t}
            \/ Current = {} /\ live = {t}

\* A task that runs outside a block_sched section has its quantum's timer
\* armed, so that it can be preempted, whatever calls it and the others have
\* made, sections they gave the processor away in among them.  It is so for
\* sections that are not nested and closed by unblock_sched, as
\* shmem.c:36-44 does not close its own, and without late signals.
QuantumArmed ==
    \A t \in Task : Running(t) =>
        (armed <=> pc[t] \notin {"critical", "nested"})

\* Inside block_sched ... unblock_sched, nested or not, the processor is not
\* given away by anything but the section's own unblock_task of a task whose
\* element has left the queue.
SectionsAtomic ==
    [][\A t \in Task :
          Running(t) /\ pc[t] \in {"critical", "nested"} =>
              \/ Running(t)'
              \/ \E u \in Task : ~queued[u] /\ UnblockInside(t, u)]_vars

\* The documented meaning of ZOMBIE (inf.tex on Task_State): the task has
\* ended, and keeps that state until create_task is given its structure.
ZombieIsFinal ==
    [][\A t \in Task :
          st[t] = "ZOMBIE" => st'[t] = "ZOMBIE" \/ t \in live' \ live]_vars

\* A blocked task that is not running gets the processor only after some
\* unblock_task, wherever in the queue the block found its element.
BlockedStaysOut ==
    [][\A t \in Task \ Current : st[t] = "BLOCKED" => t \notin Current']_vars

\* The level of t's element, the scheduler's memory of how t has used its
\* quanta (0 if it has none).
LevelOf(t) ==
    IF t \in Current THEN qelem_current.lvl
    ELSE IF t \in InQueue
         THEN runq[CHOOSE i \in DOMAIN runq : runq[i].data = t].lvl
         ELSE 0

\* t's quantum runs out, on time or inside the call that disarms its timer.
RunsOut(t) == Preempt(t) \/ BlockSchedLate(t) \/ \E u \in Task : UnblockLate(t, u)

\* "No cambia la prioridad de la tarea" (task_yield) and its counterpart for
\* the other calls: an element sinks only when its own task's quantum ran
\* out, and then by one level.
OnlyQuantumDemotes ==
    [][\A t \in Task : LevelOf(t)' > LevelOf(t) =>
          RunsOut(t) /\ LevelOf(t)' = LevelOf(t) + 1]_vars

\* What join_task returns is the value the joined task's function returned:
\* the result is in place when the spin ends, and not overwritten when it is
\* read, with the timer armed, after the test.
JoinGetsResult ==
    [][\A t \in Task : JoinReturn(t) => res[arg[t]] = "value"]_vars

\* Once its quantum's worth of better-placed tasks have had their turns a
\* ready task runs, however many new and yielding tasks stay at level 0.
NoStarvation ==
    \A t \in Task :
        phase = "on" /\ t \in InQueue /\ st[t] = "READY"
            ~> Running(t) \/ st[t] = "BLOCKED" \/ phase = "destroyed"

\* A task that waits in join_task for one that has ended comes back from it:
\* its spin gets the processor again, and the end of the other is not undone.
JoinReturns ==
    \A t \in Task :
        pc[t] \in {"join", "spin"} /\ st[arg[t]] = "ZOMBIE"
            ~> pc[t] = "user" \/ st[t] = "BLOCKED"

\* "Cada cola representa una prioridad de ejecución" (inf.tex on pqueue.c):
\* the task that gets the processor has the best level among those that were
\* waiting for it.
BestLevelFirst ==
    [][qelem_current' \notin {qelem_current, NULL} =>
          \A i \in DOMAIN runq : st[runq[i].data] = "READY" =>
              runq[i].lvl >= qelem_current'.lvl]_vars
=============================================================================
