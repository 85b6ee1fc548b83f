# A TLA+ development for `arquitectura`

The repository holds the work of a computer-architecture course. Its one real
system is `tpcorrutinas`: a coroutine library for one Linux process, with a
preemptive scheduler driven by POSIX timers, a priority queue, an allocator
that cuts the process stack into task stacks, two kinds of locks and shared
memory regions. The other directories (`plancha1` … `plancha3`, `tpbinario`)
are short exercises and disassembly listings. This development is about
`tpcorrutinas`, and about the exercises that have an algorithm; paths below are
relative to `src/tpcorrutinas` unless they say otherwise.

## 1. The system

### Components, state, operations

| Component | State | Operations | Module |
|---|---|---|---|
| scheduler, `src/scheduler.c` | `qelem_current`, `queues`, the `st`, `queued`, `res` fields of each `Task`, three timers, `old` of `sched_blocker` | `scheduler`, `start_sched`, `create_task`, `_start_task`, `stop_task`, `join_task`, `block_task`, `unblock_task`, `sched_blocker`, `task_yield`, `task_poll`, `task_current`, `task_state`, `destroy_sched` | `SchedKernel`, `Scheduler` |
| stack manager, `memory_manager` in `src/scheduler.c` | `mm_free_spots`, `spots_count`, `next_free_spot`, each task's `mem_position` | `take_stack`, `release_stack`, `destroy_stack` | `StackManager` |
| run queue, `src/pqueue.c` | `front`, `backs`, `size`; `next` and `lvl` of each element | `queue_create`, `queue_new_node`, `queue_insert`, `queue_pop`, `queue_lift`, `queue_destroy` | `PQueue`, `RunQueue`, `RunQueueOps` |
| queued lock, `src/locks2.c` | `key`, `queue` of each lock | `task_q_lock`, `task_q_blocker`, `task_q_unlock`, `task_lock_destroy` | `Locks`, `Mutex` |
| spin lock, `src/locks.s`, `src/locksXchg.s` | one word per lock | `task_sp_lock`, `task_sp_unlock` | `Locks`, `Mutex` |
| shared memory, `src/shmem.c` | the array of regions, `regions_size`, `reg_next_free`; the pointer of each connection | `shmem_new`, `shmem_close`, `shmem_destroy_all`, `shmem_write`, `shmem_read`, `shmem_seek`, `shmem_poll`, `shmem_block_read` | `Shmem` |
| context switch, `src/jmp.s` | the 136 bytes of a context | `setjmp2`, `longjmp2` | `JmpContext`, `Processors` |
| error exit, `src/gerror.c` | none | `__error` ends the process | not modelled |
| string search, `plancha2/ej3.s` | the registers of one call | `fuerzabruta`, `findstr`, `cmpstr` | `FindStr` |
| arithmetic, `plancha1/long_numbers.c`, `plancha1/mult.c`, `plancha2/ej2.s` | none kept between calls | `sum`, `mult`, `lshift`, `rshift`, `print`, …; `contar_uno` | `LongNumbers` |
| exclusive ors, `plancha1/swap.c`, `cypher.c`, `encode.c` | none kept between calls | `swap`, `cypher`, `encode` | `XorRoutines` |

### How they interact

All tasks run in one process, one at a time. A task calls the library; the
calls that give the processor away save its registers with `setjmp2` and call
`scheduler()` directly. The quantum's timer, `sched_yield_timer`, calls the same
function as a signal handler. `scheduler()` pops the run queue until it finds a
task that is not blocked, puts the caller's element back, enters a new task,
lifts every element to level 0 if `sched_lift_timer` has run out, arms the
quantum of the popped task and jumps into it; with nothing to run it starts the
1 ms timer of an idle loop. `create_task` and `stop_task` take and release a
spot of the stack manager. `block_sched`/`unblock_sched` bracket the sections in
which the locks, the shared memory and the clients call `malloc`: they disarm
the quantum's timer and give it back what remained.

### What is hard about it

* The quantum may run out at nearly any instruction of the program and of those
  library functions that do not disarm the timer first: `_start_task` after the
  task's function returns, `join_task`, `block_task`, `task_poll`. It may also
  run out inside the system call that disarms it.
* Blocking is lazy: `block_task` writes only `st`. The element of a blocked task
  stays in the queue until it comes to the front. Whether `unblock_task` finds
  the element or must enter a new one rests on one bit, `queued`.
* A task's state is written by itself, by other tasks and by `scheduler()`;
  `ZOMBIE` carries the meaning "ended, result ready".
* Back pointers of the queue dangle by design; `size` alone says which may be
  followed. One element may be the back of two levels.
* Fairness among levels rests on the periodic lift, which is looked at only when
  `scheduler()` is called.
* `sched_blocker` keeps what remained of the quantum in one static variable for
  all tasks and all nested sections.
* The queued lock gives the processor away in the middle of its own sections:
  `task_q_blocker` by `task_yield`, `task_q_unlock` inside `unblock_task`, before
  the key is written. So does any section that unblocks a task whose element has
  left the run queue.
* Only opening a region is a section. Closing, reading and writing shared memory
  can be preempted between any two bytes, and between a test and what it guards.
* `longjmp2` decides its answer from flags it does not set, and reloads the
  register through which it reads the context.

`PROJECT.json` lists every hazard at its line, with the properties that cover it.

## 2. Modules

```
StackManager ───────────────┐ (INSTANCE)
                            ├── Scheduler ─┬─ MCScheduler
RunQueueOps ── SchedKernel ─┘              └─ Locks ── MCLocks
     └──────── RunQueue <── PQueue ── MCPQueue   └──> Mutex
Shmem ── MCShmem          JmpContext ── MCJmpContext
                               └──> Processors
LongNumbers, FindStr, XorRoutines ── MCRoutines

StackManagerProofs  SchedKernelProofs ── SchedulerProofs ── LocksProofs
PQueueProofs  ShmemProofs  JmpContextProofs  RoutinesProofs
```

An arrow `<──` or `──>` points at the abstract specification that the other
module implements; a plain line is `EXTENDS`.

**StackManager** is `memory_manager`. Spot *i* of the stack is the number *i*;
`reserved` is the set of indices at which `mm_free_spots` holds 1. Growing the
array, zeroing from the old sentinel, the scan that includes the sentinel and
the lowering on release are separate operators, named after what they do.

**PQueue** is `pqueue.c` with its pointers: `next`, `lvl`, `front`, `backs`,
`size`. A popped element is `held` by the caller until it is freed or inserted
at a level the caller chose. **RunQueue** is the interface: a sequence of
elements and, for each level, the element behind which the next one enters. Its
operators are in **RunQueueOps** and are the ones the scheduler's model uses, so
that the run `pqueue` and the theorem `QueueImplementsList` justify what
`SchedKernel` builds on.

**SchedKernel** is the state of `scheduler.c` and its function `scheduler()`, an
operator of the signal, its data and the `st` fields as the caller left them.
The whole call is one step (below). **Scheduler** has one action for each
library call, split where the code can be preempted inside it, and the timers:

| Action | Code |
|---|---|
| `Start`, `DestroySched` | `start_sched`, `destroy_sched` |
| `CreateTask` | `create_task` on a structure never used, or on one whose task ended (`Reusable`) |
| `Return`, `End` | `_start_task`: the function returns and `st = ZOMBIE` (timer armed); `stop_task` on itself |
| `Exit`, `StopOther` | `stop_task` in the middle of the task's function; on another task |
| `TaskYield`, `PollNothing`, `PollAnswers` | `task_yield`, `task_poll` |
| `JoinCall`, `JoinSpins`, `JoinYields`, `JoinSees`, `JoinReturn` | `join_task`: the test, the yield, and the read of the result are apart |
| `BlockTest`, `BlockSet` | `block_task`: the test of line 208 and the write of 209 are apart |
| `Unblock`, `UnblockInside` | `unblock_task`, called by the program or from inside a section, which it leaves "torn" when it has called `scheduler()`: open, with the timer armed |
| `BlockSched`, `UnblockSched` | `sched_blocker(0)`, `sched_blocker(1)` |
| `UnblockLate`, `UnblockResumes`, `BlockSchedLate` | the same two calls when the quantum runs out inside the `timer_settime` that disarms it |
| `Preempt`, `IdleTick`, `LiftExpires` | the three timers |

**Locks** composes the three locks with `Scheduler`: `loc` is where each task is
in a lock's functions, named after the labels of the assembly, `key` the lock's
word and `lock_queue` its queue.

| Action | Code |
|---|---|
| `LockCall` | the call, up to the first label |
| `SpinTest`, `SpinYield`, `SpinTry`, `SpinUnlock` | `prelock`, `yield`, `trylock` of `locks.s` (`CmpXchg`) and of `locksXchg.s` (`Xchg`); `task_sp_unlock` |
| `QueueTry` | `trylock` in `task_q_lock` |
| `BlockerReturns`, `BlockerWaits` | one turn of the loop of `task_q_blocker`: the lock is free again, or the task queues itself, sets its state with `task_state` and yields |
| `UnlockFree` | `task_q_unlock` with nobody waiting: one section |
| `UnlockPop`, `UnlockWake`, `UnlockGive` | the same with a waiter: up to the pop; `unblock_task`, which may switch to the waiter; the key is written |
| `LockDestroy` | `task_lock_destroy` |

The steps of the scheduler are those of `Scheduler` with the lock's variables
unchanged; a program in this model creates tasks, yields and locks. **Mutex** is
what a lock promises: acquired when free, released by its owner.

**Shmem** is `shmem.c` over the scheduler's promise (one task runs; after a yield
or the end of a quantum any task runs, with its timer armed). A place of the
table is the record of `shmem_reg_t` with, for the region's contents, the set of
offsets written since it was allocated. A call is split at each byte and at each
statement that reads or writes the table; `pc` says where in the call a task is.
`Liberties` is what the program allows itself beyond careful use: to close a
region that others are connected to, to open one that is being closed, to use a
connection it has closed, to read or seek before anything was written.

| Action | Code |
|---|---|
| `ConnectExisting`, `ConnectNew` | `shmem_new`: lines 36-44, which return from inside the section, and 46-70 |
| `CloseCall`, `Drop`, `Unname`, `ClearWriten`, `ClearConnections`, `Compare`, `Offer` | `shmem_close`, lines 76 to 83, a step for each |
| `DestroyAll` | `shmem_destroy` |
| `WriteCall`, `WriteByte`, `WriteEnds`, `WriteMarks` | `shmem_write`: the smaller of the two counts, the loop, the test of line 135, the write of 136 |
| `ReadCall`, `ReadTests`, `ReadCompares`, `ReadCounts`, `ReadByte`, `ReadEnds` | `shmem_read`: `writen` is read at lines 149, 152 and 153 |
| `BlockReadCall`, `PollChecks`, `PollYields`, `PollAnswers`, `ReadChecks` | `shmem_block_read`, with the checks of `shmem_poll` and `shmem_read`, either of which may answer `SHMEM_CLOSED` |
| `SeekCall`, `Seek` | `shmem_seek`: the check, and both ways of saying where |
| `GiveUp` | `task_yield`, or the quantum runs out |

**JmpContext** is `jmp.s`: the registers are a function from names to words, a
context is its 17 words. `Saves` and `Loads` are the two lists of instructions;
the five first words are read through the argument of `longjmp2`, the others
through the `rdi` the fifth has just loaded (`Source`). `rsp` counts the words of
a stack: the call of `setjmp2` pushes one (`Calls`), its `ret` pops it
(`Returns`), and `longjmp2` leaves it. `zf` is the flag that the branch of
`longjmp2` tests (`Answers`): every instruction of `Work` may change it. The
actions are the scheduler's uses: `CreateTask` (`_start_task`), `Yield`, `End`,
`ArmTimer` (the last test before the switch, of `timer_settime`'s answer),
`Activate`, and `Work`, any instruction of a task or of the scheduler.
**Processors** promises each task a register file that nobody else changes.

**FindStr** is the search of `plancha2/ej3.s` as a state machine over its
registers, one action for each of its labels' blocks; a pointer is an offset.
**LongNumbers** and **XorRoutines** are operators and recursive functions, with the
number and the width of the words as parameters; **MCRoutines** checks each call against what
arithmetic or the strings say it should be.

The client is any program: each task makes any call of `Ops` at any time. `Ops`
also holds what the program allows itself: `unblock_ended`, `unblock_self`, and
`reuse_joined`, to create a task again on a structure that somebody is joining.
`pc` says where in a call a task is, `arg` the task the call is about.
`PreemptPoints` is the set of places where the quantum may run out; `"late"` in
it stands for the inside of the calls that disarm the timer. Definitions whose comment
begins "Mutant of" are the plausible errors that each property is tested against;
nothing else uses them.

### What the models take for granted

* `scheduler()` is one step. Its callers disarm the quantum's timer first, or
  are the timer's handler, and the timer is armed again at its end; the idle
  timer is armed as its last statement. Between arming the quantum (line 301)
  and the jump (line 303) a few instructions run against 20 ms.
* A quantum that runs out inside the system call that disarms its timer is
  modelled where it makes a difference: in `unblock_task` and `block_sched`, which
  keep what the call says remained. `destroy_sched` is left out: it frees the run
  queue that the handler would use. In the other calls that disarm the timer, which keep
  nothing, it is the same as a quantum that runs out just before the call.
* A section that is "torn" opens no section inside itself.
* A signal that arrives between the arming of the quantum and `longjmp2` would
  return to the same instruction with its flags restored.
* The element and the structure of a task are the same model value: `data` is a
  pointer no two elements share, which `QueueAccounting` then checks.
* Memory never runs out: the code ends the process in `__error` if it does. The
  heap has finitely many nodes and none at address NULL (`HeapAssumption`).
* How long a quantum is (`QUANTUM(lvl)`) and how deep a task's stack reaches in
  its spot are left out; the contents of contexts are in `JmpContext` only.
* A task that releases its stack goes on using it until `scheduler()` jumps
  away: nothing else runs in between.
* A program uses one lock, of one kind, and does not block, unblock or stop the
  tasks that wait for it. A NULL queue and an empty one are the same to
  `locks2.c`; both are the empty sequence.
* The key of the queued lock is compared as one word. The code compares eight
  bytes of a four-byte field (`locks2.c:53`): the padding behind it is taken to
  be zero.
* A task has one connection to shared memory at a time. `shmem_destroy` is called
  when no task uses a region. The macro `shmem_close` lacks a closing
  parenthesis, and no program of the repository uses it: which of the liberties
  above a program takes is open. The run is of programs that take none; sections 4
  and 5 say what holds with them and what does not.
* A statement of `shmem.c` that reads or writes one field of the table is one
  step, the `--connections` of line 78 too: the address of the table, which
  another task's `realloc` may move, is not kept from one step to the next.
* A byte is told from another only by whether it was written. `shmem_write` and
  `shmem_read` are called for fewer than 128 bytes (their loops count in a char).
* In `JmpContext` the stack's contents stay: that tasks do not write each other's
  stack is what `StackManager` shows, as far as a spot is deep enough. What
  `longjmp2` answers with the flag clear is half of a register, and any word in
  the model.
* The search is called with a second string that is neither empty nor longer
  than the first.

## 3. The runs

| Run | Question | Instance |
|---|---|---|
| `stack_manager` | Are spots exclusive, the next one the lowest, and the stack no deeper than needed? | 5 tasks, segments of 2 |
| `pqueue` | Does the linked list lose nothing, follow no dangling pointer, and implement the list the scheduler's model uses? | 5 nodes, 3 levels |
| `scheduler_safety` | Are tasks never lost, run twice or run after their end; are results, levels and timers what the calls promise? | main and 2 reusable tasks that join each other, 3 levels, segments of 2 |
| `scheduler_misuse` | What survives preemption everywhere, late signals, stopping other tasks, unblocking ended ones and from inside sections, nested sections, `destroy_sched`? | main and 2 tasks, 1 level, main joins either |
| `scheduler_live` | Does every ready task run, every join of an ended task return? | main and 3 tasks, 2 levels, main joins one |
| `priority_inverted` | (violated) Is the best level dispatched first? | main and 3 tasks, 2 levels |
| `zombie_preempted` | (violated) Is `ZOMBIE` final? | main and 2 tasks, 2 levels |
| `locks` | Has each lock one owner; do its queue and the blocked tasks agree; does a woken waiter run, is a free lock taken? | main and 2 tasks, 2 levels, each of the three locks |
| `lock_lost_wakeup` | (violated) Is somebody awake to take a free lock that has waiters? | the same, the queued lock |
| `shmem` | Does a connection lead to its region through growth, close and reuse; do reads and writes stay inside it and inside what is written? | 2 careful tasks, 2 names, regions of 3 bytes, growth by 2 up to 4, calls of 1 or 2 bytes, no preemption between lines 135 and 136 |
| `context` | Do the switches give each task registers of its own, resume it once, and on its own stack? | 2 tasks, 2 words, stacks of 2 words; programs write `rsp`, `r12`, `rcx` |
| `routines` | Do the exercises compute what they should? | strings up to 5 and 3 characters of 2; numbers of 3 words of 2 bits, all pairs |

Why the bounds suffice for the interesting cases. Five tasks over segments of
two enlarge the stack array three times and release in every order. Five
nodes on three levels reach every case of `queue_insert`, including an element
that is the back of two levels and one whose neighbour is two levels away.
Three tasks let one run, one wait and one be blocked, ended or recreated at the
same time; structures are reused, so that histories are unbounded. Three levels
allow a demotion twice and the test against the last level. `scheduler_misuse` has
one level: whether a task has an element, and who runs, does not depend on
where the element is, and with levels the same is checked in `scheduler_safety`. The list needs four
elements to lose the order of levels, and therefore `scheduler_live` and
`priority_inverted` have four tasks. No counter of the scheduler's models is
capped: its state space is finite by itself, as are those of `StackManager`,
`PQueue`, `Locks` and `FindStr`.

Three tasks on a lock are the least for an owner, a waiter and one that comes in
between, which is what mutual exclusion and the lost wake-up are about. In
`Shmem` `REGIONS_MAX` stops the table before the char that counts it overflows:
the scan of line 65 always ends at the last free place, so that each new region
beyond the first makes the table grow, and two growths meet every case of it;
`CountMax` is the bytes of one call. Two tasks write, close and reopen while the
other is anywhere in a call. In `JmpContext` each class of register is written by
a program: one that callees keep (`r12`, which `plancha2/ej5.s`, a draft of the
same code, forgets), one they do not, and the one `longjmp2` takes an argument
in. Three words of two bits have a first, a middle and a last word, a carry
that crosses both borders, and a sign; the code has sixteen of sixteen.

Tasks other than main are interchangeable in the runs of safety, which use
symmetry; `scheduler_live` does not. `CHECK_DEADLOCK FALSE` is set where the
system ends: after `destroy_stack`, `queue_destroy`, `destroy_sched` and
`shmem_destroy`, when the last task of `JmpContext` has ended, and when a routine
has returned. In the other runs TLC also shows that the scheduler never gets
stuck: idle or a task can always go on.

`scheduler_safety` leaves out two preemption points a few instructions wide: the
test and write of `block_task` (`"block"`), and from the end of a task's function to
the disarming in `stop_task` (`"ending"`). `ZombieIsFinal` holds in neither: for the
second `zombie_preempted` shows it, for the first see section 5. The end of
`join_task`, between its spin's last test and the read of the result, is in
`scheduler_safety`, as are sections that `unblock_task` has left with the timer
armed. The points inside `join_task`'s spin and `task_poll`, where the code has
nothing to lose, and the late signals are in `scheduler_misuse` only. `shmem`
leaves out one point, between lines 135 and 136.

### Properties

`QueueAccounting`, `NoTaskLost` and `ContextsAlive` tie the queue, the `queued`
bits, `qelem_current` and the lives of the tasks together: one element for each
task, none for a dead one, and none missing for a live one unless it is blocked
and `unblock_task` will enter it. `BacksReach` is the promise between
`queue_insert` and its callers: a back it follows is in the list, and at or
behind every element of its level. `QuantumArmed` says that a task outside
sections can be preempted, whatever it and the others have called, as long as
sections are closed and not nested; `SectionsAtomic` the converse for sections,
nested or not: only the section's own `unblock_task` takes the processor away.
`ZombieIsFinal` and `JoinGetsResult` give the states their meaning;
`OnlyQuantumDemotes` is the documented promise of `task_yield` that it does not
change the priority. `NoStarvation` and `JoinReturns` are the liveness properties.

`MutexSpec` is mutual exclusion as a refinement, for the three locks.
`WaitersExact` ties the lock's queue to the scheduler's states: a blocked task
has exactly one place from which it can be woken. `WokenRuns` and `FreeLockTaken`
are their liveness: a waiter that `task_q_unlock` has chosen gets the processor,
and the tasks that spin do not keep each other from a free lock.

`TableSound` is what opening a region relies on, `ConnectionServed` what a
connection does, across the growth of the table, the reuse of places and the
statements of `shmem_close`; `NamesHeld` says that a region is let go when its last
user leaves, `NamesDistinct` that no name gets two regions and that the place
which ends the scans stays free. `InBounds`, `WrittenWhole` and `ReadsWritten` are
about the counts that a call computed before others wrote or moved.

`ProcessorsSpec` compares what `longjmp2` would load with what `setjmp2` saved, at
every moment in between and for every register but `rsp`, `rax` (the answer) and
`rdi` (the argument); `StackPointerFalls` says exactly what becomes of `rsp`;
`ResumesOnce` is about the answer. `SearchFinds` and `RoutinesExact` compare with
reference definitions.

### Fairness

`LiveSpec` assumes that the idle and the lift timer fire, and of the quantum's
timer that it fires for a task which keeps the processor with its timer armed
(weak fairness, for each task). Nothing is assumed of a task that yields: a call
that switches gives it a fresh quantum when it comes back (lines 300-301), so that
a task which yields often enough is never preempted and never sinks; `NoStarvation`
and `JoinReturns` hold among such tasks too. Strong fairness is assumed of the steps
inside a library call only (`LibraryStep`): they are a few instructions, and a task
that gets the processor again and again gets through them. No fairness is assumed
of the client: it need not return, yield or unblock. `LocksLiveSpec` assumes the
same of the timers and of the steps inside a lock's functions (`LockStep`), and
nothing of the program: it need not release the lock.

## 4. What is proved

`StackManagerProofs` proves, for every set of tasks and every segment size,
`TypeOK`, `SpotsExclusive`, `LowestFree` and `GrowsOnlyWhenFull`. The inductive
invariant is the conjunction of the first three with the fact that positions of
live tasks are below `spots_count`: exclusiveness of the next take needs
`next_free_spot` to be free, and that the scan finds a free spot needs the
sentinel to be free. `StackDepth`, for a finite set of tasks, is a counting
argument on top of it: the spots below `next_free_spot` are held by as many live
tasks, and the task that takes is not one of them.

`PQueueProofs` proves that the pointers of `pqueue.c` implement `RunQueue`, for
every finite heap and every number of levels (`QueueImplementsList`), and
`TypeOK`, `NothingLost`, `SizeExact` and `NoDanglingBack`. The inductive invariant
`ListInv` says that there is a finite sequence without repetition that `next`
follows from `front` to NULL and that holds exactly the queued nodes (`Linked`);
that `size` counts the levels of that sequence; that the back of a level in use
stands at or behind every node of its level (`BacksIn`); and that `next` of a node
a caller holds is NULL. Each part is needed: the back's place is what keeps
`queue_insert` from following an address that has been freed; `size` decides
whether it follows it; and the empty list is built without writing `next`
(`pqueue.c:51-52`), which closes the list only because `queue_pop` left NULL
there (line 113). The refinement needs closed forms of the recursive functions of the
model (`Reached`, the walk along `next`, and `SizeSum`): they are proved by the
least number at which they would fail, which the library's theorem on
well-founded orders gives without an operator for a parameter.

`SchedKernelProofs` proves of the list operators that an element that enters
goes somewhere and disturbs nothing, that popping removes exactly the front, and
that a lift keeps all; and from these that one call of `scheduler()` keeps
`KernelTypeOK`, `OneElement` and `QueuedExact`, gives no task an element but a
new one, takes it from blocked ones only, leaves none to a task that ends, and
dispatches nobody that is blocked. The order of the list plays no
part in these, so that the inverted priorities of section 5 do not weaken them.
On the order are the lemmas on `Reaching`: inserting, popping and lifting keep
the back of each level in the list and behind all of its level.

`SchedulerProofs` is about every set of tasks, number of levels, choice of calls
and of preemption points. Most of its theorems have one of two hypotheses.
`CleanUse`: the program stops no task but its own, unblocks neither itself nor a
task that has ended, and no signal is late. `SafeReuse` is weaker: either that, or
no structure whose task has ended is given to `create_task` again and no task
unblocks itself; then the program may stop and unblock whom else it likes, and
signals may be late.

Under `SafeReuse` hold `TypeOK`, `QueueAccounting`, `BlockedStaysOut`, `BacksReach`
and `OnlyQuantumDemotes`. They rest on `AccountInv`: types, one element for each
task, exact queued bits, and no element left for a task that is not alive and may
be created (`create_task` enters one without a look at the queued bit). It comes
from two inductive invariants. In a clean program from `SchedInv`, which joins
`QueueAccounting` and `ContextsAlive`: the first is not inductive alone, since
`create_task` needs a dead structure to have no element (`ContextsAlive`), nor the
second, since a task that ends leaves nothing behind only because it had one
element. In a program that uses no structure twice, from `OnceInv`: only tasks
that were created have an element. So what `scheduler_misuse` checks, and
`scheduler_safety` too, holds for all constants. The hypothesis cannot go
altogether: TLC shows that a program which stops a task that waits in the queue
and then creates it again gets two elements for it.

What a program that is not clean does lose are `ContextsAlive` (`stop_task` and
`unblock_task` leave the queue an element of a freed context, `scheduler.c:218`),
`NoTaskLost`, `OneActive` and `ZombieIsFinal`: TLC refutes each of them there, also
with structures used once, and they are proved from `CleanUse`. On `SchedInv` rest
`ContextsAlive`, `NoTaskLost` and `OneActive` (`TaskInv`: a caller of `scheduler()`
leaves each live task with an element or blocked, and at most its own ACTIVE),
and `ZombieIsFinal` (`ZombieInv`: no ended task waits in the queue). The last needs
`SafePreemption` too, that the quantum does not run out in the windows of
`block_task` and `stop_task`; without it `zombie_preempted` refutes the property.

`BacksReach` (`BacksInv`, `AccountInv` with `Reaching`) is the promise on which the
inverted priorities do no further harm: the code's own error in line 68 of
`pqueue.c` makes a back belong to two levels, and still every element is reached.
`OnlyQuantumDemotes` is proved as an action property of `BacksInv`: what each call
of `scheduler()` does to the level of a task is read from the list before and
after it.

`JoinGetsResult` needs that no structure is used again while a task is inside a
join on it (`JoinedLast`), and `SafePreemption`, since the result that `join_task`
reads after its test must not be taken back by a `ZOMBIE` that runs again.
`JoinInv` says that a task between the test and the read has in `arg` a `ZOMBIE` with
its result (`ResultInv`, that every `ZOMBIE` has one, holds for every program).

Two theorems need no clean use. `SectionsAtomic`, for every program and with late
signals: who is inside a section runs with the timer disarmed, and in a nested one
what `block_sched` saved is a disarmed timer (`SectionInv`), so that the inner
`unblock_sched` does not arm it. The exception for `unblock_task` is in the property:
a section that has given the processor away is open with its timer armed, and
says nothing more (`"torn"`). `QuantumArmed`, for programs that do not nest sections
and without late signals (`FlatSections`): what `block_sched` saves is then always an
armed timer. With nesting it is false, since the outer `unblock_sched` restores
the disarmed timer the inner one saved: `static old` has room for one (line 388; the
hazard at `scheduler.c:231`).

`LocksProofs` proves that each lock implements `Mutex`, for every set of tasks,
number of levels and preemption points. The inductive invariant `KeyInv` says
that the word is 1 exactly when there is no owner, and that two owners are the
same task; what this proof needs of the scheduler is only that it leaves the lock
alone, so that nothing about its queue has to be assumed.

The waiters need the scheduler. `WaitInv` joins `SchedInv` and `KeyInv` with
`WaitersExact` and with where a blocked task is: it is alive, does not run, and
its next step is the one after `task_q_blocker`'s call. From it follow
`WaitersExact`, `LocksTypeOK`, and that under the locks the scheduler's
`QueueAccounting` and `ContextsAlive` still hold (`LocksKeepTheScheduler`),
although `task_q_unlock` may call `scheduler()` from inside a section. No `CleanUse`
is assumed: the lock's own calls of `unblock_task` are shown to be on tasks that
are alive and blocked.

`ShmemProofs` is about every set of tasks and names, every growth and size. Its
invariants build on each other, and each layer names what it asks of the program.

* `AnyInv`, for every program and every preemption point: `TypeOK` and
  `NamesDistinct`. What a statement writes depends on what the call read before
  only within bounds that hold for every place.
* `CarefulInv`, for programs that close a region only as its last user, open none
  that another task is closing and use no connection they have closed
  (`CarefulUse`): `TableSound` and `ConnectionServed`. It adds where each task is in
  `shmem_close`: two tasks that close have different places, and a place that has
  lost its name is given to nobody before its task has passed line 82. Without
  `CarefulUse` both are false (section 5).
* `BoundsInv`, if the quantum does not end between the test of line 135 and the
  write of 136 (`MarkAtomic`): `InBounds`. What a call still has to do fits the
  region, and `writen` does not fall behind a test already made. In the window the
  write may lower another task's `writen`, and a read that passed its test by the
  higher one counts below zero, in an unsigned char.
* `FilledInv`, if the program reads and seeks only where something has been written
  (`ReadsBegun`): `ReadsWritten`. The bytes written to a region are those up to the
  last one, and a call that reads has something to read.

The run `shmem` checks them under these hypotheses.

`JmpContextProofs` proves that the switches implement `Processors`, `ResumesOnce` and
`StackPointerFalls`, for every set of tasks and words and every depth of stack. The
invariant `ContextInv` says that the context of a task that does not run holds,
where `rdi` was saved, the address of that same context: the reloaded `rdi` is why
it is needed. And it says that the flag is zero from the test of `timer_settime`'s
answer (`scheduler.c:302`) on: no instruction of `longjmp2` sets it, so that its
branch is right because of the caller.

`RoutinesProofs` proves `SearchFinds`, and that the search does not read outside its
strings, for every alphabet and all strings the search may be called with; the
invariant `SearchInv` says that the places passed hold no occurrence and that the
places left and passed are all there are.

It also proves `RoutinesExact`, for numbers of any number of words (at least the
three places of `swap`) of any width, and so for the sixteen words of sixteen bits
of `long_numbers.c`, which are far beyond TLC (`RoutinesAlwaysExact`; its parts,
`LongNumbersExact` and `WordsExact`, for one or two words as well, and `SwapRotates`
and `CypherUndone` for any memory and text). The argument for the arithmetic:

* A recursive function of TLA+ is a chosen solution of its equation, and the
  provers know nothing of powers. `FixpointExists` shows that an equation which
  looks only at arguments of a smaller measure has a solution; it is instantiated
  for `Pow2`, `Prefix`, `Carries`, `Counting`, `mult` and `mult_word`, and in the
  last two asks that the recursion of the code terminates: `rshift` makes a number
  that is not zero smaller.
* A number is what its words write and what its bits write (`BlockSum`), whatever
  the width of a word, so that `sum` may be followed bit by bit.
* `sum`: up to bit k, the two numbers together are the result and the carry times
  2^k (`SumPrefix`), across the ends of words. The shifts: the same with the bit
  that leaves a word. `mult`: by induction on the second number, from the two.
* `print` is the value less 2^(NW) if the sign is set; two's complement depends
  only on the remainder, which is why sum and product are right on negative
  numbers although they do not look at the sign.
* `contar_uno`: after k turns the low W - k bits are above the k that went round
  (`TurnLeft`), and `rax` counts the latter.

Only model-checked: the liveness properties (`NoStarvation`, `JoinReturns`,
`WokenRuns`, `FreeLockTaken`), since fairness is out of the prover's reach, and
`NamesHeld` and `WrittenWhole`. Every other property of a passing run is a theorem,
under the hypotheses named above. `OneActive`, `BlockedStaysOut` and
`GrowsOnlyWhenFull` are proved and in no run: each follows from what one function
does, and the parts of it that a run could find wrong are in `NoTaskLost`,
`QueueAccounting` and `LowestFree`.

## 5. Where the code and its documents disagree

* `src/pqueue.c:68` makes a new element the back of its *neighbour's* level too.
  The next element of that level enters behind it, and the list is no longer
  sorted by level: a task of a worse level is dispatched before one of a better
  level (`priority_inverted`; `inf/inf.tex:78` describes a priority queue). What
  keeps the library going is that the back still reaches every element of its
  level (`BacksReach`) and that the lift repairs the levels (`NoStarvation`).
* `src/scheduler.c:169` marks a task `ZOMBIE` with the quantum's timer armed. If
  it fires before line 179, the ended task is enqueued and made `ACTIVE` again,
  `stop_task` throws its result away and a join on it never returns
  (`zombie_preempted`; `inf/inf.tex:103`).
* `src/locks2.c:77` wakes the first waiter before line 81 writes the key. If the
  waiter's element has left the run queue, `unblock_task` switches to it at once;
  it finds the key 0, queues itself again and blocks, and then the key is
  written, with nobody awake to take the lock until another task locks and
  unlocks it (`lock_lost_wakeup`; the comment at lines 69-72 promises the
  opposite). Mutual exclusion is not touched (`MutexSpec`), nor is the waiter's
  place lost (`WaitersExact`).

The three are runs. The following came out of the same models, as traces of TLC
under the parameters named; the passing runs and the theorems exclude them by
hypotheses that have a name.

* `src/scheduler.c:209`: preempted between the test of line 208 and the write,
  `block_task` overwrites the `ZOMBIE` of a target that has ended meanwhile, and a
  join on it never returns. `inf.tex:225-228`: the state becomes `BLOCKED` "siempre que
  el estado anterior no sea ZOMBIE". (`PreemptPoints` with `"block"`.)
* `src/scheduler.c:218`: unblocking an ended task queues a freed context, against
  `ContextsAlive`; `examples/sched_example1.c:45` may do it. (`"unblock_ended"`.)
* `src/scheduler.c:225`: a task that unblocks itself gets two elements, against
  `QueueAccounting` and `inf.tex:111-112` on the bit `queued`. (`"unblock_self"`.)
* `src/scheduler.c:189`: `stop_task` on another task loses the caller, against
  `NoTaskLost` and the comment at lines 187-188. (`"stop"`.)
* `src/scheduler.c:390`: a quantum that runs out inside the call that disarms its
  timer leaves 0 to be restored, and the task runs without a quantum when its
  section is over, against `QuantumArmed` and `inf.tex:133-137`. (`"late"`.)
* `src/locks2.c:38`: a waiter that finds the key taken by a task that came in
  between goes to the end of the queue, and so for ever, although every owner
  gives the lock back; `inf.tex:280-284` promises that the queue solves the
  starvation of the spin locks. (Fairness as in `locks`, one level.)
* `src/shmem.c:41`: connecting to an existing region does not count, so that the
  first close ends it for all and the others' connections lead to a free place,
  later to another region; against `ConnectionServed` and lines 73-74, "Si no hay
  mas conexiones se marca la region como libre". (`"close_shared"`.)
* `src/shmem.c:83`: a task that connects to a region while another is between lines
  78 and 79 of its close, closes it and opens a new one has its place offered
  again by the first: the next region overwrites it, against `TableSound`.
  (`"open_closing"`.)
* `src/shmem.c:136`: preempted after the test of line 135, a task sets `writen` back
  to a smaller value than another has set: a written byte can no longer be read,
  against `WrittenWhole`, and a read in progress counts below zero, against
  `InBounds`. (`PreemptPoints` with `"mark"`.)
* `src/shmem.c:205`: `writen` is 0 both for no byte and for one, so that `shmem_poll`
  answers `SHMEM_OK` on a new region and `shmem_block_read` returns a byte nobody
  wrote, against lines 200-201 and `inf.tex:344-347`. (`"read_empty"`.)
* `src/shmem.c:153`: the count is computed again after the test of line 152; if
  another task writes in between, it exceeds what was asked for, and the loop
  writes past the caller's buffer. Line 151: "setear n en el minimo". (The careful
  programs of `shmem`.)
* `src/jmp.s:49`: `longjmp2` loads the `rsp` of the inside of `setjmp2`'s call and
  jumps, where `setjmp2` itself pops the return address (line 23): a resumed task
  is one word lower, against "todos los registros" of `inf.tex:96-98`.
  `StackPointerFalls` says by how much.

## 6. What is left

1. Proofs: whether `ContextsAlive` and `NoTaskLost` need less than `CleanUse`, say
   that a program stops another task only while that one is blocked; `Ops` would
   have to tell the two kinds of stop apart. And `NamesHeld` and `WrittenWhole`,
   which need more of the closes and writes under way than the invariants say now.
2. A run of `Shmem` with three tasks and one region, and one of `Locks` with four
   tasks, if their state spaces allow.

Not modelled, and not planned: the IEEE arithmetic of `plancha3` (its values are
out of TLC's reach, and `ej6.c` does not compile); `tpbinario` (listings of a
foreign binary); `gerror.c` (prints and exits); `plancha1/Ej1.c` and the `main`
functions of the exercises (they read and print); `plancha2/ej4.s` (a jump table
over three calls of `printf`), `plancha2/ej1.s` (it prints addresses and
words) and `plancha2/ej5.s` (a draft of `jmp.s`).
