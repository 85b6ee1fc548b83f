---------------------------- MODULE SchedKernel ----------------------------
(***************************************************************************)
(* The state of scheduler.c and its function scheduler(), the handler of   *)
(* the signals SIG_TASK_YIELD, SIG_TASK_NEW and SIG_TASK_END, which the    *)
(* library functions also call directly.  A call runs with no timer armed  *)
(* (the quantum's is disarmed by the caller or has just expired), so that  *)
(* it is one step: nothing interleaves with it.  Its end is the longjmp2   *)
(* into the task it dispatches, or the idle loop.                          *)
(***************************************************************************)
EXTENDS RunQueueOps

CONSTANTS
    Task            \* the Task structures of the program

NULL == NoBack

\* A q_elem: the node of the queue that stands for a task.
QElem == [data : Task, lvl : Level]

ASSUME NullAssumption == NULL \notin QElem /\ NULL \notin Task

\* Task_State, and the state of a structure no call has filled yet.
TaskState == {"UNUSED", "ACTIVE", "READY", "BLOCKED", "ZOMBIE"}

VARIABLES
    st,             \* the st field of each Task
    queued,         \* the queued bit of each Task
    queues,         \* the run queue, a record of RunQueueOps
    qelem_current,  \* element of the running task; NULL while idle runs
    armed,          \* sched_yield_timer is counting down a quantum
    lift_expired    \* sched_lift_timer reads 0

kernelVars == <<st, queued, queues, qelem_current, armed, lift_expired>>

\* The elements in the order of the list.
runq == queues.list

\* Nothing is running; the disarmed lift timer reads 0.
KernelInit ==
    /\ st = [t \in Task |-> "UNUSED"]
    /\ queued = [t \in Task |-> FALSE]
    /\ queues = EmptyQueue
    /\ qelem_current = NULL
    /\ armed = FALSE
    /\ lift_expired = TRUE

-----------------------------------------------------------------------------
(* The steps of scheduler(signum, data).  s is the st field as the caller  *)
(* left it.                                                                *)

\* How many elements the loop of lines 246-256 frees, all of blocked tasks,
\* before it meets one to dispatch or the end of the queue.
BlockedPrefix(s) ==
    {k \in 0 .. Len(runq) :
        /\ \A i \in 1 .. k : s[runq[i].data] = "BLOCKED"
        /\ k < Len(runq) => s[runq[k + 1].data] # "BLOCKED"}

\* What the loop leaves in poped after freeing k elements.
Poped(k) == IF k = Len(runq) THEN NULL ELSE runq[k + 1]

\* Mutants of Unqueued: line 251 missing, or below the test of BLOCKED.
UnqueuedNone(k) == {}
UnqueuedPoped(k) == IF k = Len(runq) THEN {} ELSE {runq[k + 1].data}

\* The tasks whose queued bit the loop clears: the freed ones and poped's.
Unqueued(k) == {runq[i].data : i \in {j \in 1 .. Len(runq) : j =< k + 1}}

\* Mutant of Saves: the task that ends is enqueued again.
SavesAlways(signum) == qelem_current # NULL

\* Line 259: the caller's task goes back to the queue.
Saves(signum) == signum # "SIG_TASK_END" /\ qelem_current # NULL

\* Mutant of Aged: the test of data is missing.
AgedAlways(signum, data) ==
    IF qelem_current.lvl < QUEUE_NUMBER - 1 /\ signum # "SIG_TASK_NEW"
    THEN [qelem_current EXCEPT !.lvl = @ + 1]
    ELSE qelem_current

\* Mutant of Aged: the test against the last level is missing.
AgedUnbounded(signum, data) ==
    IF signum # "SIG_TASK_NEW" /\ data # NULL
    THEN [qelem_current EXCEPT !.lvl = @ + 1]
    ELSE qelem_current

\* Lines 260-262: only the timer's signal carries data and is not
\* SIG_TASK_NEW: a task that used its whole quantum goes down one level.
Aged(signum, data) ==
    IF /\ qelem_current.lvl < QUEUE_NUMBER - 1
       /\ signum # "SIG_TASK_NEW"
       /\ data # NULL
    THEN [qelem_current EXCEPT !.lvl = @ + 1]
    ELSE qelem_current

\* Line 263.
Requeued(q, signum, data) ==
    IF Saves(signum) THEN Enqueued(q, Aged(signum, data)) ELSE {q}

\* Line 273: queue_new_node enters at level 0.
Fed(q, signum, data) ==
    IF signum = "SIG_TASK_NEW"
    THEN Enqueued(q, [data |-> data, lvl |-> 0])
    ELSE {q}

\* The bits set by lines 265 and 274 after line 251 cleared some.
QueuedAfter(k, signum, data) ==
    [t \in Task |->
        \/ Saves(signum) /\ t = qelem_current.data
        \/ signum = "SIG_TASK_NEW" /\ t = data
        \/ queued[t] /\ t \notin Unqueued(k)]

\* Lines 266-267, then line 299.
StatesAfter(k, signum, s) ==
    [t \in Task |->
        IF Poped(k) # NULL /\ t = Poped(k).data THEN "ACTIVE"
        ELSE IF Saves(signum) /\ t = qelem_current.data /\ s[t] = "ACTIVE"
             THEN "READY"
             ELSE s[t]]

\* Mutant of MaybeLifted: the lift timer is never looked at.
NeverLifted(q) == q

\* Lines 281-286.
MaybeLifted(q) == IF lift_expired THEN Lifted(q) ELSE q

\* The whole call: drop the blocked front, take poped, put the caller's task
\* back, enter the new task, lift, and dispatch poped with a fresh quantum
\* or go idle (whose own 1 ms timer is always the one armed last).
scheduler(signum, data, s) ==
    \E k \in BlockedPrefix(s) :
        /\ \E q1 \in Requeued(Dequeued(queues, k + 1), signum, data) :
           \E q2 \in Fed(q1, signum, data) :
              queues' = MaybeLifted(q2)
        /\ lift_expired' = FALSE
        /\ queued' = QueuedAfter(k, signum, data)
        /\ st' = StatesAfter(k, signum, s)
        /\ qelem_current' = Poped(k)
        /\ armed' = (Poped(k) # NULL)

-----------------------------------------------------------------------------
KernelTypeOK ==
    /\ st \in [Task -> TaskState]
    /\ queued \in [Task -> BOOLEAN]
    /\ queues \in [list : Seq(QElem), backs : [Level -> Task \cup {NULL}]]
    /\ qelem_current \in QElem \cup {NULL}
    /\ armed \in BOOLEAN
    /\ lift_expired \in BOOLEAN

\* The tasks with an element in the queue, and the one whose element the
\* scheduler holds.
InQueue == {runq[i].data : i \in DOMAIN runq}
Current == IF qelem_current = NULL THEN {} ELSE {qelem_current.data}

\* A task has at most one q_elem, either in the queue or as the current one.
OneElement ==
    /\ \A i, j \in DOMAIN runq : runq[i].data = runq[j].data => i = j
    /\ InQueue \cap Current = {}

\* The queued bit, on which unblock_task decides whether to build a new
\* element, is exact.
QueuedExact == \A t \in Task : queued[t] <=> t \in InQueue
=============================================================================
