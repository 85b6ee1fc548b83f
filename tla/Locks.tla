------------------------------- MODULE Locks -------------------------------
(***************************************************************************)
(* The locks of the library under the scheduler: the spin locks of locks.s *)
(* and locksXchg.s and the queued lock of locks2.c.  A program uses one    *)
(* lock, of one of these kinds.                                            *)
(*                                                                         *)
(* An instruction that reads or writes the lock's word is one step, and    *)
(* the quantum may run out between two of them.  The sections of locks2.c  *)
(* that block_sched opens are one step as far as they keep the processor;  *)
(* where they give it away themselves (task_yield in task_q_blocker,       *)
(* unblock_task in task_q_unlock) a step ends.                             *)
(*                                                                         *)
(* A queue of one level is a FIFO: NULL and an empty queue are the same    *)
(* to the functions of locks2.c, and both are <<>>.                        *)
(***************************************************************************)
EXTENDS Scheduler

CONSTANTS
    Kinds           \* the kinds of lock the program may choose from

VARIABLES
    kind,           \* the kind in use
    key,            \* the lock's word: 1 when free
    lock_queue,     \* field queue of task_lock_t: the tasks that wait
    loc             \* where each task is in the lock's functions

lockVars == <<kind, key, lock_queue, loc>>
allVars == <<vars, lockVars>>

KindSet == {"cmpxchg", "xchg", "queued"}
ASSUME KindsAssumption == Kinds \subseteq KindSet

\* "out": outside and not owner; "test", "yield", "try": labels prelock, yield
\* and trylock; "enter": at the block_sched of task_q_blocker; "holds": owner;
\* "wake" and "give": in task_q_unlock, before unblock_task and after it.
Location == {"out", "test", "yield", "try", "enter", "holds", "wake", "give"}

LocksInit ==
    /\ Init
    /\ kind \in Kinds
    /\ key = 1
    /\ lock_queue = <<>>
    /\ loc = [t \in Task |-> "out"]

\* Task t runs and is at place p of a lock's function.
At(t, p) == Running(t) /\ pc[t] = "lock" /\ loc[t] = p

\* Task t goes on to place p; outside and as owner it is in its own code.
Goes(t, p) ==
    /\ loc' = [loc EXCEPT ![t] = p]
    /\ pc' = [pc EXCEPT ![t] =
                 IF p \in {"out", "holds"} THEN "user" ELSE "lock"]

\* A call, by a task that does not own the lock.
LockCall(t) ==
    /\ Calls(t, "lock") /\ loc[t] = "out" /\ kind # "destroyed"
    /\ Goes(t, IF kind = "queued" THEN "try" ELSE "test")
    /\ UNCHANGED <<kernelVars, stackVars, arg, res, phase, old_armed,
                   kind, key, lock_queue>>

-----------------------------------------------------------------------------
(* task_sp_lock, task_sp_unlock                                            *)

\* Label prelock: the word is read.
SpinTest(t) ==
    /\ At(t, "test")
    /\ Goes(t, IF key = 0 THEN "yield" ELSE "try")
    /\ UNCHANGED <<kernelVars, stackVars, arg, res, phase, old_armed,
                   kind, key, lock_queue>>

\* Label yield.
SpinYield(t) ==
    /\ At(t, "yield")
    /\ Goes(t, "test")
    /\ scheduler("SIG_TASK_YIELD", NULL, st)
    /\ UNCHANGED <<stackVars, arg, res, phase, old_armed,
                   kind, key, lock_queue>>

\* Mutant of Obtained: the answer of the exchange is not tested.
ObtainedAlways(k) == TRUE

\* What cmpxchg (ZF) and xchg (the old word in rax) answer.
Obtained(k) == k = 1

\* Label trylock of locks.s, and of the asm of task_q_lock: 0 is written if
\* the word is 1.
CmpXchg == key' = IF key = 1 THEN 0 ELSE key

\* Label trylock of locksXchg.s: 0 is written whatever the word is.
Xchg == key' = 0

SpinTry(t) ==
    /\ At(t, "try")
    /\ \/ kind = "cmpxchg" /\ CmpXchg
       \/ kind = "xchg" /\ Xchg
    /\ Goes(t, IF Obtained(key) THEN "holds" ELSE "yield")
    /\ UNCHANGED <<kernelVars, stackVars, arg, res, phase, old_armed,
                   kind, lock_queue>>

\* Mutant of Given: the word is cleared again.
GivenNothing == 0

\* The word of a lock that was given back.
Given == 1

SpinUnlock(t) ==
    /\ Calls(t, "lock") /\ loc[t] = "holds" /\ kind \in {"cmpxchg", "xchg"}
    /\ key' = Given
    /\ Goes(t, "out")
    /\ UNCHANGED <<kernelVars, stackVars, arg, res, phase, old_armed,
                   kind, lock_queue>>

-----------------------------------------------------------------------------
(* task_q_lock, task_q_blocker                                             *)

QueueTry(t) ==
    /\ At(t, "try") /\ kind = "queued"
    /\ CmpXchg
    /\ Goes(t, IF Obtained(key) THEN "holds" ELSE "enter")
    /\ UNCHANGED <<kernelVars, stackVars, arg, res, phase, old_armed,
                   kind, lock_queue>>

\* Lines 31-35: the lock came free in the meantime, try again.
BlockerReturns(t) ==
    /\ At(t, "enter") /\ key = 1
    /\ old_armed' = armed
    /\ Goes(t, "try")
    /\ UNCHANGED <<kernelVars, stackVars, arg, res, phase,
                   kind, key, lock_queue>>

\* Mutant of task_state: the waiter stays ACTIVE.
StateKept(t, s) == st

\* task_state(s), by the running task.
task_state(t, s) == [st EXCEPT ![t] = s]

\* queue_new_node, in a queue of one level.
Waiting(q, t) == Append(q, t)

\* Lines 31 and 36-40: the task queues itself, sets its own state to BLOCKED
\* and gives the processor away; it comes back to line 31.
BlockerWaits(t) ==
    /\ At(t, "enter") /\ key = 0
    /\ old_armed' = armed
    /\ lock_queue' = Waiting(lock_queue, t)
    /\ scheduler("SIG_TASK_YIELD", NULL, task_state(t, "BLOCKED"))
    /\ UNCHANGED <<stackVars, clientVars, phase, kind, key, loc>>

-----------------------------------------------------------------------------
(* task_q_unlock, task_lock_destroy                                        *)

\* Nobody waits: one section gives the lock back.
UnlockFree(t) ==
    /\ Calls(t, "lock") /\ loc[t] = "holds" /\ kind = "queued"
    /\ lock_queue = <<>>
    /\ old_armed' = armed
    /\ key' = Given
    /\ Goes(t, "out")
    /\ UNCHANGED <<kernelVars, stackVars, arg, res, phase, kind, lock_queue>>

\* Mutant of Popped: queue_pop leaves the element in the queue.
PoppedNot(q) == q

Popped(q) == Tail(q)

\* Lines 73-76: block_sched, and the first waiter leaves the queue.
UnlockPop(t) ==
    /\ Calls(t, "lock") /\ loc[t] = "holds" /\ kind = "queued"
    /\ lock_queue # <<>>
    /\ old_armed' = armed
    /\ armed' = FALSE
    /\ arg' = [arg EXCEPT ![t] = Head(lock_queue)]
    /\ lock_queue' = Popped(lock_queue)
    /\ Goes(t, "wake")
    /\ UNCHANGED <<st, queued, queues, qelem_current, lift_expired, stackVars,
                   res, phase, kind, key>>

\* Line 77: if the waiter's element has left the run queue, unblock_task gives
\* the processor away in the middle of the section, and the quantum that t
\* gets later runs with the timer armed.
UnlockWake(t) ==
    /\ At(t, "wake")
    /\ UnblockTask(arg[t], RestoredTimer)
    /\ Goes(t, "give")
    /\ UNCHANGED <<stackVars, arg, res, phase, old_armed,
                   kind, key, lock_queue>>

\* Lines 78-82.
UnlockGive(t) ==
    /\ At(t, "give")
    /\ key' = Given
    /\ armed' = TimerToRestore
    /\ arg' = [arg EXCEPT ![t] = NULL]
    /\ Goes(t, "out")
    /\ UNCHANGED <<st, queued, queues, qelem_current, lift_expired, stackVars,
                   res, phase, old_armed, kind, lock_queue>>

\* task_lock_destroy, by a program that is done with the lock.
LockDestroy(t) ==
    /\ Calls(t, "lock") /\ kind = "queued"
    /\ \A u \in Task : loc[u] = "out"
    /\ kind' = "destroyed"
    /\ lock_queue' = <<>>
    /\ old_armed' = armed
    /\ UNCHANGED <<kernelVars, stackVars, clientVars, phase, key, loc>>

-----------------------------------------------------------------------------
\* A task that has called a lock's function goes on to its next step.
LockStep(t) ==
    \/ SpinTest(t) \/ SpinYield(t) \/ SpinTry(t)
    \/ QueueTry(t) \/ BlockerReturns(t) \/ BlockerWaits(t)
    \/ UnlockWake(t) \/ UnlockGive(t)

\* What else the scheduler and the program do: its tasks do not end.
SchedulerStep ==
    /\ \/ Start \/ Timer
       \/ \E t \in Task : TaskYield(t) \/ \E u \in Task : CreateTask(t, u)
    /\ UNCHANGED lockVars

LocksNext ==
    \/ SchedulerStep
    \/ \E t \in Task :
          \/ LockStep(t) \/ LockCall(t) \/ LockDestroy(t)
          \/ SpinUnlock(t) \/ UnlockFree(t) \/ UnlockPop(t)

LocksSpec == LocksInit /\ [][LocksNext]_allVars

\* As in Scheduler: the timers fire, and a task that keeps getting the
\* processor gets through the instructions of a lock's function.  The program
\* need not call, release or return.
LocksFairness ==
    /\ WF_allVars(IdleTick /\ UNCHANGED lockVars)
    /\ WF_allVars(LiftExpires /\ UNCHANGED lockVars)
    /\ \A t \in Task : /\ WF_allVars(Preempt(t) /\ UNCHANGED lockVars)
                       /\ SF_allVars(LockStep(t))

LocksLiveSpec == LocksSpec /\ LocksFairness

-----------------------------------------------------------------------------
LocksTypeOK ==
    /\ TypeOK
    /\ kind \in Kinds \cup {"destroyed"}
    /\ key \in {0, 1}
    /\ lock_queue \in Seq(Task)
    /\ loc \in [Task -> Location]

\* The owners: those whose exchange succeeded and who have not yet written the
\* word back.
Holders == {t \in Task : loc[t] \in {"holds", "wake", "give"}}

LockPromise == INSTANCE Mutex WITH holders <- Holders

\* Every kind of lock has one owner at a time, wherever the quantum runs out,
\* and only the owner gives it back: in particular none enters while
\* task_q_unlock has given the processor away before it writes the key.
MutexSpec == LockPromise!Spec

\* The element a task in task_q_unlock has taken out and not yet woken.
InHand == {arg[t] : t \in {u \in Task : loc[u] = "wake"}}

\* The queue of the lock and the states of the scheduler say the same: each
\* blocked task has exactly one element in the lock's queue or in the hands of
\* task_q_unlock, so that it can be woken, and no element is of a task that
\* has gone on.
WaitersExact ==
    /\ \A i, j \in DOMAIN lock_queue : lock_queue[i] = lock_queue[j] => i = j
    /\ Range(lock_queue) \cap InHand = {}
    /\ {t \in Task : st[t] = "BLOCKED"} = Range(lock_queue) \cup InHand

\* A waiter that task_q_unlock takes out of the queue gets the processor, by
\* whichever of unblock_task's two ways and however the others keep yielding.
WokenRuns == \A t \in Task : t \in InHand ~> Running(t)

\* A free lock that a task waits for actively is taken, by it or by another:
\* the spinning tasks do not keep each other from it.
FreeLockTaken ==
    \A t \in Task :
        Holders = {} /\ loc[t] \in {"test", "yield", "try"} ~> Holders # {}

\* "Se asegura de despertar a alguna tarea en la cola" (locks2.c:69-70): while
\* tasks wait for a lock that is free, one of those in its functions is awake,
\* to take it.
NoLostWakeup ==
    key = 1 /\ lock_queue # <<>> =>
        \E t \in Task : loc[t] \in {"try", "enter"} /\ st[t] # "BLOCKED"
=============================================================================
