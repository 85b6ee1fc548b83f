---------------------------- MODULE LocksProofs ----------------------------
(***************************************************************************)
(* The locks for every set of tasks, number of levels and choice of places *)
(* where the quantum runs out: mutual exclusion, as the refinement of      *)
(* Mutex, which needs of the scheduler only that it leaves the lock alone, *)
(* and the waiters of the queued lock, which needs of it what              *)
(* SchedulerProofs shows a call of scheduler() to do.                      *)
(***************************************************************************)
EXTENDS Locks, SchedulerProofs

\* The inductive invariant: the word says whether the lock has an owner, and
\* no two tasks are owners.
KeyInv ==
    /\ key \in {0, 1}
    /\ loc \in [Task -> Location]
    /\ key = 1 <=> Holders = {}
    /\ \A t, u \in Holders : t = u

\* A step that moves one task inside the lock's functions.
LEMMA GoesMoves ==
    ASSUME NEW t \in Task, NEW p \in Location, KeyInv, Goes(t, p)
    PROVE  /\ loc' \in [Task -> Location]
           /\ p \in {"holds", "wake", "give"} => Holders' = Holders \cup {t}
           /\ p \notin {"holds", "wake", "give"} => Holders' = Holders \ {t}
  BY DEF KeyInv, Goes, Holders

\* Who is at a label past the taking of the lock is its only holder.
LEMMA AtIsHolder ==
    ASSUME NEW t \in Task, KeyInv
    PROVE  loc[t] \in {"holds", "wake", "give"} =>
               Holders = {t} /\ key = 0
  BY DEF KeyInv, Holders

\* Taking: the exchange succeeds only on a free lock, and fails without a
\* trace.
LEMMA TryStep ==
    ASSUME NEW t \in Task, KeyInv, SpinTry(t) \/ QueueTry(t)
    PROVE  KeyInv' /\ (LockPromise!Acquire(t) \/ UNCHANGED Holders)
<1>1. PICK p \in {"yield", "enter", "holds"} :
          Goes(t, p) /\ (p = "holds" <=> key = 1)
  BY DEF SpinTry, QueueTry, Obtained
<1>2. key' = 0 /\ loc[t] = "try"
  BY DEF SpinTry, QueueTry, CmpXchg, Xchg, KeyInv, At
<1>3. t \notin Holders
  BY <1>2 DEF Holders
<1>4. p \in Location
  BY DEF Location
<1>5. loc' \in [Task -> Location]
  BY <1>1, <1>4, GoesMoves
<1>6. CASE key = 1
  <2>1. Holders = {} /\ Holders' = {t}
    BY <1>1, <1>4, <1>6, GoesMoves DEF KeyInv
  <2> QED
    BY <2>1, <1>2, <1>5 DEF KeyInv, LockPromise!Acquire
<1>7. CASE key = 0
  <2>1. Holders' = Holders
    BY <1>1, <1>3, <1>4, <1>7, GoesMoves
  <2> QED
    BY <2>1, <1>2, <1>5, <1>7 DEF KeyInv
<1> QED
  BY <1>6, <1>7 DEF KeyInv

\* Giving back.
LEMMA GiveStep ==
    ASSUME NEW t \in Task, KeyInv,
           SpinUnlock(t) \/ UnlockFree(t) \/ UnlockGive(t)
    PROVE  KeyInv' /\ LockPromise!Release(t)
<1>1. key' = 1 /\ Goes(t, "out") /\ loc[t] \in {"holds", "give"}
  BY DEF SpinUnlock, UnlockFree, UnlockGive, At, Given
<1>2. Holders = {t}
  BY <1>1, AtIsHolder
<1>3. loc' \in [Task -> Location] /\ Holders' = {}
  BY <1>1, <1>2, GoesMoves DEF Location
<1> QED
  BY <1>1, <1>2, <1>3 DEF KeyInv, LockPromise!Release

\* Everything else that moves a task in the lock's functions: the owners stay
\* the same and so does the word.
LEMMA MoveStep ==
    ASSUME NEW t \in Task, KeyInv,
           \/ LockCall(t) \/ SpinTest(t) \/ SpinYield(t)
           \/ BlockerReturns(t) \/ UnlockPop(t) \/ UnlockWake(t)
    PROVE  KeyInv' /\ UNCHANGED Holders
<1>1. key' = key
  BY DEF LockCall, SpinTest, SpinYield, BlockerReturns, UnlockPop, UnlockWake
<1>2. PICK p \in Location :
          /\ Goes(t, p)
          /\ p \in {"holds", "wake", "give"}
                <=> loc[t] \in {"holds", "wake", "give"}
  <2>1. CASE LockCall(t)
    BY <2>1 DEF LockCall, Location
  <2>2. CASE SpinTest(t)
    BY <2>2 DEF SpinTest, At, Location
  <2>3. CASE SpinYield(t)
    BY <2>3 DEF SpinYield, At, Location
  <2>4. CASE BlockerReturns(t)
    BY <2>4 DEF BlockerReturns, At, Location
  <2>5. CASE UnlockPop(t)
    BY <2>5 DEF UnlockPop, Location
  <2>6. CASE UnlockWake(t)
    BY <2>6 DEF UnlockWake, At, Location
  <2> QED
    BY <2>1, <2>2, <2>3, <2>4, <2>5, <2>6
<1>3. loc' \in [Task -> Location]
  BY <1>2, GoesMoves
<1>4. Holders' = Holders
  <2>1. t \in Holders <=> loc[t] \in {"holds", "wake", "give"}
    BY DEF Holders
  <2> QED
    BY <1>2, <2>1, GoesMoves
<1> QED
  BY <1>1, <1>3, <1>4 DEF KeyInv

\* What leaves the word and the places of all tasks alone.
LEMMA IdleStep ==
    ASSUME KeyInv, UNCHANGED <<key, loc>>
    PROVE  KeyInv' /\ UNCHANGED Holders
  BY DEF KeyInv, Holders

\* One step: the invariant again, and a step of the promise or none.
LEMMA LockStepSound ==
    ASSUME KeyInv, [LocksNext]_allVars
    PROVE  KeyInv' /\ [LockPromise!Next]_Holders
<1>1. CASE UNCHANGED <<key, loc>>
  BY <1>1, IdleStep
<1>2. ASSUME NEW t \in Task, SpinTry(t) \/ QueueTry(t)
      PROVE  KeyInv' /\ [LockPromise!Next]_Holders
  BY <1>2, TryStep DEF LockPromise!Next
<1>3. ASSUME NEW t \in Task, SpinUnlock(t) \/ UnlockFree(t) \/ UnlockGive(t)
      PROVE  KeyInv' /\ [LockPromise!Next]_Holders
  BY <1>3, GiveStep DEF LockPromise!Next
<1>4. ASSUME NEW t \in Task,
             \/ LockCall(t) \/ SpinTest(t) \/ SpinYield(t)
             \/ BlockerReturns(t) \/ UnlockPop(t) \/ UnlockWake(t)
      PROVE  KeyInv' /\ [LockPromise!Next]_Holders
  BY <1>4, MoveStep
<1>5. ASSUME NEW t \in Task, BlockerWaits(t) \/ LockDestroy(t)
      PROVE  UNCHANGED <<key, loc>>
  BY <1>5 DEF BlockerWaits, LockDestroy
<1>6. SchedulerStep => UNCHANGED <<key, loc>>
  BY DEF SchedulerStep, lockVars
<1>7. UNCHANGED allVars => UNCHANGED <<key, loc>>
  BY DEF allVars, lockVars
<1> QED
  BY <1>1, <1>2, <1>3, <1>4, <1>5, <1>6, <1>7, Zenon DEF LocksNext, LockStep

\* Before the first call the lock is free.
LEMMA InitEstablishesKeyInv == LocksInit => KeyInv /\ LockPromise!Init
  BY DEF LocksInit, KeyInv, Holders, Location, LockPromise!Init

\* Mutual exclusion: whatever the kind of lock, the tasks and the places where
\* the quantum runs out, the library's locks implement the promise of Mutex.
\* In locks2.c this holds although task_q_unlock gives the processor away with
\* the key still 0.
THEOREM LocksAreMutexes == LocksSpec => MutexSpec
<1>1. LocksInit => KeyInv /\ LockPromise!Init
  BY InitEstablishesKeyInv
<1>2. KeyInv /\ [LocksNext]_allVars => KeyInv' /\ [LockPromise!Next]_Holders
  BY LockStepSound
<1> QED
  BY <1>1, <1>2, PTL DEF LocksSpec, MutexSpec, LockPromise!Spec

-----------------------------------------------------------------------------
(* Whom the lock's queue holds                                             *)

Blocked(t) == st[t] = "BLOCKED"

\* The inductive invariant of the waiters.  WaitersExact alone is not: that a
\* task which queues itself is not there already rests on the one that runs
\* not being blocked, that a destroyed lock leaves nobody behind on the
\* blocked ones being inside task_q_blocker, and that a new task may become
\* READY on the blocked ones being alive.
WaitInv ==
    /\ SchedInv
    /\ KeyInv
    /\ kind \in Kinds \cup {"destroyed"}
    /\ lock_queue \in Seq(Task)
    /\ WaitersExact
    /\ \A t \in Task : Blocked(t) => loc[t] = "enter" /\ t \in live /\ t \notin Current
    /\ \A t \in Task : loc[t] = "wake" => arg[t] \in Task

\* WaitersExact, task by task.
LEMMA WaitersPointwise ==
    ASSUME SchedInv, lock_queue \in Seq(Task),
           \A t \in Task : loc[t] = "wake" => arg[t] \in Task
    PROVE  WaitersExact <=>
              /\ \A i, j \in DOMAIN lock_queue : lock_queue[i] = lock_queue[j] => i = j
              /\ \A t \in Task : ~(t \in Range(lock_queue) /\ t \in InHand)
              /\ \A t \in Task : Blocked(t) <=> t \in Range(lock_queue) \/ t \in InHand
<1>1. Range(lock_queue) \subseteq Task
  BY DEF Range
<1>2. InHand \subseteq Task
  BY DEF InHand
<1> QED
  BY <1>1, <1>2 DEF WaitersExact, Blocked

\* What a call of scheduler() does to the blocked ones: nothing, and none of
\* them gets the processor.
LEMMA CallBlocks ==
    ASSUME NEW signum, NEW data, NEW s \in [Task -> TaskState], KernelTypeOK,
           scheduler(signum, data, s)
    PROVE  /\ \A t \in Task : Blocked(t)' <=> s[t] = "BLOCKED"
           /\ \A t \in Current' : s[t] # "BLOCKED"
<1>1. /\ \A t \in Current' : t \in InQueue /\ s[t] # "BLOCKED"
      /\ \A t \in Task :
            st'[t] = IF t \in Current' THEN "ACTIVE"
                     ELSE IF /\ signum # "SIG_TASK_END" /\ t \in Current
                             /\ s[t] = "ACTIVE"
                          THEN "READY"
                          ELSE s[t]
  BY SchedulerDispatches, Zenon
<1>2. ASSUME NEW t \in Task PROVE Blocked(t)' <=> s[t] = "BLOCKED"
  BY <1>1 DEF Blocked
<1> QED
  BY <1>1, <1>2

\* A task inside the lock's functions that does not move from or to "wake".
LEMMA WaitersKept ==
    ASSUME WaitInv, SchedInv', KeyInv', kind' = kind, lock_queue' = lock_queue,
           live \subseteq live',
           \A t \in Task : Blocked(t)' <=> Blocked(t),
           \A t \in Current' : st'[t] # "BLOCKED",
           \A t \in Task : loc'[t] = "wake" <=> loc[t] = "wake",
           \A t \in Task : loc[t] = "wake" => arg'[t] = arg[t],
           \A t \in Task : Blocked(t) => loc'[t] = loc[t]
    PROVE  WaitInv'
<1>1. \A t \in Task : loc'[t] = "wake" => arg'[t] \in Task
  BY DEF WaitInv
<1>2. InHand' = InHand
  BY DEF InHand
<1>3. /\ \A i, j \in DOMAIN lock_queue : lock_queue[i] = lock_queue[j] => i = j
      /\ \A t \in Task : ~(t \in Range(lock_queue) /\ t \in InHand)
      /\ \A t \in Task : Blocked(t) <=> t \in Range(lock_queue) \/ t \in InHand
  BY WaitersPointwise DEF WaitInv
<1>4. WaitersExact'
  <2>1. Range(lock_queue)' = Range(lock_queue)
    OBVIOUS
  <2>2. Range(lock_queue) \subseteq Task /\ InHand \subseteq Task
    BY DEF WaitInv, Range, InHand
  <2>3. \A t \in Task : st'[t] = "BLOCKED" <=> t \in Range(lock_queue) \/ t \in InHand
    BY <1>3 DEF Blocked
  <2> QED
    BY <1>2, <1>3, <2>1, <2>2, <2>3 DEF WaitersExact
<1>5. \A t \in Task : Blocked(t)' => loc'[t] = "enter" /\ t \in live' /\ t \notin Current'
  BY DEF WaitInv, Blocked
<1> QED
  BY <1>1, <1>4, <1>5 DEF WaitInv

\* task_q_blocker sets the state of its caller before it gives the processor
\* away: the scheduler's invariant holds after a call with any states.
LEMMA CallKeepsSched ==
    ASSUME SchedInv, phase = "on", phase' = "on", live' = live, ClientTypes',
           NEW s \in [Task -> TaskState], scheduler("SIG_TASK_YIELD", NULL, s)
    PROVE  SchedInv'
<1>1. KernelInv /\ Held \subseteq live
  BY DEF SchedInv, KernelInv
<1> DEFINE sig == "SIG_TASK_YIELD"
<1>2. /\ sig = "SIG_TASK_YIELD" /\ sig # "SIG_TASK_NEW"
      /\ sig \in {"SIG_TASK_NEW", "SIG_TASK_YIELD", "SIG_TASK_END"}
      /\ scheduler(sig, NULL, s)
  OBVIOUS
<1> HIDE DEF sig
<1>3. KernelInv' /\ Held' \subseteq Held
  BY <1>1, <1>2, SchedulerPreserves, Zenon
<1> QED
  BY <1>1, <1>3 DEF SchedInv, KernelInv

\* A step of a task inside the lock's functions leaves well-typed what
\* scheduler() does not own.
LEMMA GoesTypes ==
    ASSUME SchedInv, NEW t \in Task, NEW p, Goes(t, p), live' = live, res' = res,
           arg' \in [Task -> Task \cup {NULL}], old_armed' \in BOOLEAN
    PROVE  ClientTypes'
<1>1. \/ pc' = [pc EXCEPT ![t] = "user"]
      \/ pc' = [pc EXCEPT ![t] = "lock"]
  BY DEF Goes
<1> QED
  BY <1>1 DEF SchedInv, ClientTypes, ProgramCounter

\* The steps that do not call scheduler().
LEMMA LockQuietSched ==
    ASSUME WaitInv, NEW t \in Task,
           \/ LockCall(t) \/ SpinTest(t) \/ SpinTry(t) \/ QueueTry(t)
           \/ SpinUnlock(t) \/ BlockerReturns(t) \/ UnlockFree(t)
           \/ UnlockPop(t) \/ UnlockGive(t) \/ LockDestroy(t)
    PROVE  /\ SchedInv' /\ live' = live /\ st' = st /\ Current' = Current
           /\ UNCHANGED <<qelem_current, phase>>
<1>1. /\ UNCHANGED <<st, queued, queues, qelem_current, lift_expired>>
      /\ UNCHANGED <<live, res, phase>>
  BY DEF LockCall, SpinTest, SpinTry, QueueTry, SpinUnlock, BlockerReturns,
         UnlockFree, UnlockPop, UnlockGive, LockDestroy, kernelVars, stackVars,
         clientVars
<1>2. SchedInv
  BY DEF WaitInv
<1>3. armed \in BOOLEAN /\ old_armed \in BOOLEAN /\ st \in [Task -> TaskState]
      /\ lift_expired \in BOOLEAN /\ arg \in [Task -> Task \cup {NULL}]
  BY <1>2 DEF SchedInv, KernelTypeOK, ClientTypes
<1>4. (armed' = armed \/ armed' = FALSE \/ armed' = old_armed)
  BY DEF LockCall, SpinTest, SpinTry, QueueTry, SpinUnlock, BlockerReturns,
         UnlockFree, UnlockPop, UnlockGive, LockDestroy, kernelVars, TimerToRestore
<1>5. old_armed' = old_armed \/ old_armed' = armed
  BY DEF LockCall, SpinTest, SpinTry, QueueTry, SpinUnlock, BlockerReturns,
         UnlockFree, UnlockPop, UnlockGive, LockDestroy, kernelVars
<1>6. old_armed' \in BOOLEAN /\ armed' \in BOOLEAN
  BY <1>3, <1>4, <1>5
<1>7. arg' \in [Task -> Task \cup {NULL}]
  <2>1. CASE arg' = arg
    BY <2>1, <1>3
  <2>2. CASE UnlockPop(t)
    <3>1. Head(lock_queue) \in Task
      BY <2>2 DEF UnlockPop, WaitInv
    <3> QED
      BY <3>1, <2>2, <1>3 DEF UnlockPop
  <2>3. CASE UnlockGive(t)
    BY <2>3, <1>3 DEF UnlockGive
  <2> QED
    BY <2>1, <2>2, <2>3 DEF LockCall, SpinTest, SpinTry, QueueTry, SpinUnlock,
         BlockerReturns, UnlockFree, LockDestroy, clientVars
<1>8. ClientTypes'
  <2>1. CASE LockDestroy(t)
    BY <2>1, <1>1, <1>2, <1>6, <1>7 DEF LockDestroy, clientVars, SchedInv, ClientTypes
  <2>2. CASE ~LockDestroy(t)
    <3>1. \E p \in Location : Goes(t, p)
      BY <2>2 DEF LockCall, SpinTest, SpinTry, QueueTry, SpinUnlock, BlockerReturns,
         UnlockFree, UnlockPop, UnlockGive, Location
    <3> QED
      BY <3>1, <1>1, <1>2, <1>6, <1>7, GoesTypes
  <2> QED
    BY <2>1, <2>2
<1>9. SchedInv'
  BY <1>1, <1>2, <1>3, <1>6, <1>8, QuietStep
<1> QED
  BY <1>1, <1>9 DEF Current

\* Before the first call nobody waits.
LEMMA InitEstablishesWaitInv == LocksInit => WaitInv
<1> SUFFICES ASSUME LocksInit PROVE WaitInv
  OBVIOUS
<1>1. SchedInv /\ KeyInv
  BY InitEstablishesSchedInv, InitEstablishesKeyInv DEF LocksInit
<1>2. /\ kind \in Kinds /\ lock_queue = <<>>
      /\ \A t \in Task : loc[t] = "out" /\ st[t] = "UNUSED"
  BY DEF LocksInit, Init, KernelInit
<1>3. InHand = {} /\ Range(lock_queue) = {}
  BY <1>2 DEF InHand, Range
<1>4. WaitersExact
  BY <1>2, <1>3 DEF WaitersExact
<1> QED
  BY <1>1, <1>2, <1>4 DEF WaitInv, Blocked

\* The steps that do not touch the queue nor call scheduler().
LEMMA QuietKeepsWaiters ==
    ASSUME WaitInv, KeyInv', NEW t \in Task,
           \/ LockCall(t) \/ SpinTest(t) \/ SpinTry(t) \/ QueueTry(t)
           \/ SpinUnlock(t) \/ BlockerReturns(t) \/ UnlockFree(t)
    PROVE  WaitInv'
<1>1. /\ SchedInv' /\ live' = live /\ st' = st /\ Current' = Current
  BY LockQuietSched
<1>2. kind' = kind /\ lock_queue' = lock_queue /\ arg' = arg
  BY DEF LockCall, SpinTest, SpinTry, QueueTry, SpinUnlock, BlockerReturns, UnlockFree
<1>3. PICK p \in Location : p # "wake" /\ Goes(t, p)
  BY DEF LockCall, SpinTest, SpinTry, QueueTry, SpinUnlock, BlockerReturns,
         UnlockFree, Location
<1>4. Running(t) /\ loc[t] # "wake"
  BY DEF LockCall, SpinTest, SpinTry, QueueTry, SpinUnlock, BlockerReturns,
         UnlockFree, At, Calls
<1>5. t \in Current
  BY <1>4 DEF Running, Current
<1>6. loc' = [loc EXCEPT ![t] = p] /\ loc \in [Task -> Location]
  BY <1>3 DEF Goes, WaitInv, KeyInv
<1>7. \A u \in Task : Blocked(u)' <=> Blocked(u)
  BY <1>1 DEF Blocked
<1>8. \A u \in Task : Blocked(u) => u # t
  BY <1>5 DEF WaitInv
<1>9. \A u \in Current' : st'[u] # "BLOCKED"
  <2>1. Current \subseteq Task
    BY DEF WaitInv, SchedInv, KernelTypeOK, Current, QElem
  <2> QED
    BY <1>1, <2>1 DEF WaitInv, Blocked
<1>10. /\ \A u \in Task : loc'[u] = "wake" <=> loc[u] = "wake"
       /\ \A u \in Task : Blocked(u) => loc'[u] = loc[u]
  BY <1>3, <1>4, <1>6, <1>8
<1> QED
  BY <1>1, <1>2, <1>7, <1>9, <1>10, WaitersKept

\* A waiter is taken out of the queue, into the hands of the caller.
LEMMA PopKeepsWaiters ==
    ASSUME WaitInv, KeyInv', NEW t \in Task, UnlockPop(t)
    PROVE  WaitInv'
<1> DEFINE q == lock_queue
           h == Head(lock_queue)
<1>1. /\ SchedInv' /\ live' = live /\ st' = st /\ Current' = Current
  BY LockQuietSched
<1>2. /\ kind' = kind /\ q # <<>> /\ lock_queue' = Tail(q) /\ loc[t] = "holds"
      /\ arg' = [arg EXCEPT ![t] = h]
      /\ loc' = [loc EXCEPT ![t] = "wake"]
  BY DEF UnlockPop, Popped, Goes
<1>3. /\ q \in Seq(Task) /\ loc \in [Task -> Location]
      /\ arg \in [Task -> Task \cup {NULL}]
  BY DEF WaitInv, KeyInv, SchedInv, ClientTypes
<1>4. /\ \A i, j \in DOMAIN q : q[i] = q[j] => i = j
      /\ \A u \in Task : ~(u \in Range(q) /\ u \in InHand)
      /\ \A u \in Task : Blocked(u) <=> u \in Range(q) \/ u \in InHand
  BY WaitersPointwise DEF WaitInv
<1>5. /\ h \in Task /\ h = q[1] /\ Tail(q) \in Seq(Task)
      /\ Len(q) \in Nat /\ Len(q) > 0 /\ DOMAIN q = 1 .. Len(q)
      /\ DOMAIN Tail(q) = 1 .. Len(q) - 1
      /\ \A i \in 1 .. Len(q) - 1 : Tail(q)[i] = q[i + 1]
  BY <1>2, <1>3
<1>6. \A u \in Task : u \in Range(Tail(q)) <=> u \in Range(q) /\ u # h
  <2>1. ASSUME NEW u \in Range(Tail(q)) PROVE u \in Range(q) /\ u # h
    <3>1. PICK i \in 1 .. Len(q) - 1 : u = q[i + 1]
      BY <1>5, <2>1 DEF Range
    <3>2. i + 1 \in DOMAIN q /\ 1 \in DOMAIN q /\ i + 1 # 1
      BY <1>5
    <3> QED
      BY <1>4, <1>5, <3>1, <3>2 DEF Range
  <2>2. ASSUME NEW u \in Range(q), u # h PROVE u \in Range(Tail(q))
    <3>1. PICK i \in 1 .. Len(q) : u = q[i]
      BY <1>5, <2>2 DEF Range
    <3>2. i - 1 \in 1 .. Len(q) - 1
      BY <1>5, <2>2, <3>1
    <3>3. Tail(q)[i - 1] = q[i]
      BY <1>5, <3>1, <3>2
    <3> QED
      BY <1>5, <3>1, <3>2, <3>3 DEF Range
  <2> QED
    BY <2>1, <2>2
<1>7. \A i, j \in DOMAIN Tail(q) : Tail(q)[i] = Tail(q)[j] => i = j
  BY <1>4, <1>5
<1>8. \A u \in Task : loc[u] # "wake"
  BY <1>2 DEF WaitInv, KeyInv, Holders
<1>9. InHand = {} /\ InHand' = {h}
  BY <1>2, <1>3, <1>5, <1>8 DEF InHand
<1>10. h \in Range(q)
  BY <1>5 DEF Range
<1> HIDE DEF q, h
<1>11. \A u \in Task : loc'[u] = "wake" => arg'[u] \in Task
  BY <1>2, <1>3, <1>5, <1>8
<1>12. \A u \in Task : Blocked(u)' <=> u \in Range(Tail(q)) \/ u \in InHand'
  BY <1>1, <1>4, <1>6, <1>9, <1>10 DEF Blocked
<1>13. \A u \in Task : ~(u \in Range(Tail(q)) /\ u \in InHand')
  BY <1>6, <1>9
<1>14. WaitersExact'
  <2>1. Range(Tail(q)) \subseteq Task /\ InHand' \subseteq Task
    BY <1>5, <1>9 DEF Range
  <2> QED
    BY <1>2, <1>7, <1>12, <1>13, <2>1 DEF WaitersExact, Blocked
<1>15. \A u \in Task : Blocked(u)' => loc'[u] = "enter" /\ u \in live' /\ u \notin Current'
  BY <1>1, <1>2, <1>3 DEF WaitInv, Blocked
<1> QED
  BY <1>1, <1>2, <1>5, <1>11, <1>14, <1>15 DEF WaitInv

\* task_q_unlock writes the key and is done; arg loses the one it woke.
LEMMA GiveKeepsWaiters ==
    ASSUME WaitInv, KeyInv', NEW t \in Task, UnlockGive(t)
    PROVE  WaitInv'
<1>1. /\ SchedInv' /\ live' = live /\ st' = st /\ Current' = Current
  BY LockQuietSched
<1>2. /\ kind' = kind /\ lock_queue' = lock_queue /\ loc[t] = "give"
      /\ arg' = [arg EXCEPT ![t] = NULL]
      /\ loc' = [loc EXCEPT ![t] = "out"]
      /\ loc \in [Task -> Location] /\ arg \in [Task -> Task \cup {NULL}]
  BY DEF UnlockGive, Goes, At, WaitInv, KeyInv, SchedInv, ClientTypes
<1>3. \A u \in Task : Blocked(u)' <=> Blocked(u)
  BY <1>1 DEF Blocked
<1>4. \A u \in Current' : st'[u] # "BLOCKED"
  <2>1. Current \subseteq Task
    BY DEF WaitInv, SchedInv, KernelTypeOK, Current, QElem
  <2> QED
    BY <1>1, <2>1 DEF WaitInv, Blocked
<1>5. /\ \A u \in Task : loc'[u] = "wake" <=> loc[u] = "wake"
      /\ \A u \in Task : loc[u] = "wake" => arg'[u] = arg[u]
      /\ \A u \in Task : Blocked(u) => loc'[u] = loc[u]
  BY <1>2 DEF WaitInv
<1> QED
  BY <1>1, <1>2, <1>3, <1>4, <1>5, WaitersKept

\* A lock is destroyed when nobody is inside its functions: nobody waits.
LEMMA DestroyKeepsWaiters ==
    ASSUME WaitInv, KeyInv', NEW t \in Task, LockDestroy(t)
    PROVE  WaitInv'
<1>1. /\ SchedInv' /\ live' = live /\ st' = st /\ Current' = Current
  BY LockQuietSched
<1>2. /\ kind' = "destroyed" /\ lock_queue' = <<>> /\ loc' = loc /\ arg' = arg
      /\ \A u \in Task : loc[u] = "out"
  BY DEF LockDestroy, clientVars
<1>3. \A u \in Task : ~Blocked(u) /\ ~Blocked(u)'
  BY <1>1, <1>2 DEF WaitInv, Blocked
<1>4. InHand' = {} /\ Range(lock_queue)' = {}
  BY <1>2 DEF InHand, Range
<1>5. WaitersExact'
  BY <1>2, <1>3, <1>4 DEF WaitersExact, Blocked
<1> QED
  BY <1>1, <1>2, <1>3, <1>5 DEF WaitInv

\* The calls of scheduler() that leave the lock's queue and the states alone:
\* yields, the timers, and the entry of a new task.
LEMMA CallKeepsWaiters ==
    ASSUME WaitInv, SchedInv', KeyInv', NEW signum, NEW data,
           NEW s \in [Task -> TaskState], scheduler(signum, data, s),
           \A t \in Task : s[t] = "BLOCKED" <=> Blocked(t),
           kind' = kind, lock_queue' = lock_queue, arg' = arg, live \subseteq live',
           \A t \in Task : loc'[t] = "wake" <=> loc[t] = "wake",
           \A t \in Task : Blocked(t) => loc'[t] = loc[t]
    PROVE  WaitInv'
<1>1. KernelTypeOK
  BY DEF WaitInv, SchedInv
<1>2. /\ \A t \in Task : Blocked(t)' <=> s[t] = "BLOCKED"
      /\ \A t \in Current' : s[t] # "BLOCKED"
  BY <1>1, CallBlocks
<1>3. Current' \subseteq Task
  BY DEF SchedInv, KernelTypeOK, Current, QElem
<1>4. \A t \in Current' : st'[t] # "BLOCKED"
  BY <1>2, <1>3 DEF Blocked
<1>5. \A t \in Task : Blocked(t)' <=> Blocked(t)
  BY <1>2
<1> QED
  BY <1>4, <1>5, WaitersKept

\* task_yield in the spin locks' loop: the caller keeps its element, no blocked
\* task gets or loses one.
LEMMA SpinYieldKeepsWaiters ==
    ASSUME WaitInv, KeyInv', NEW t \in Task, SpinYield(t)
    PROVE  WaitInv'
<1>1. /\ phase = "on" /\ phase' = "on" /\ live' = live /\ res' = res /\ arg' = arg
      /\ Running(t) /\ loc[t] = "yield" /\ old_armed' = old_armed
      /\ kind' = kind /\ lock_queue' = lock_queue
      /\ Goes(t, "test") /\ loc' = [loc EXCEPT ![t] = "test"]
      /\ scheduler("SIG_TASK_YIELD", NULL, st)
  BY DEF SpinYield, At, Running, Goes, stackVars
<1>2. SchedInv /\ st \in [Task -> TaskState] /\ loc \in [Task -> Location]
      /\ arg \in [Task -> Task \cup {NULL}] /\ old_armed \in BOOLEAN
  BY DEF WaitInv, KeyInv, SchedInv, KernelTypeOK, ClientTypes
<1>3. ClientTypes'
  BY <1>1, <1>2, GoesTypes
<1>4. SchedInv'
  BY <1>1, <1>2, <1>3, CallKeepsSched
<1>5. ~Blocked(t)
  BY <1>1, RunningFacts DEF WaitInv
<1>6. /\ \A u \in Task : st[u] = "BLOCKED" <=> Blocked(u)
      /\ \A u \in Task : loc'[u] = "wake" <=> loc[u] = "wake"
      /\ \A u \in Task : Blocked(u) => loc'[u] = loc[u]
  BY <1>1, <1>2, <1>5 DEF Blocked
<1> DEFINE sig == "SIG_TASK_YIELD"
<1>7. scheduler(sig, NULL, st)
  BY <1>1
<1> HIDE DEF sig
<1> QED
  BY <1>1, <1>2, <1>4, <1>6, <1>7, CallKeepsWaiters

\* task_q_blocker: the caller enters the queue, is blocked and loses the
\* processor.
LEMMA BlockerKeepsWaiters ==
    ASSUME WaitInv, KeyInv', NEW t \in Task, BlockerWaits(t)
    PROVE  WaitInv'
<1> DEFINE s == [st EXCEPT ![t] = "BLOCKED"]
           q == lock_queue
<1>1. /\ phase = "on" /\ phase' = "on" /\ live' = live /\ res' = res /\ arg' = arg
      /\ Running(t) /\ loc[t] = "enter" /\ old_armed' = armed
      /\ kind' = kind /\ lock_queue' = Append(q, t) /\ loc' = loc
      /\ pc' = pc
      /\ scheduler("SIG_TASK_YIELD", NULL, s)
  BY DEF BlockerWaits, At, Running, stackVars, clientVars, Waiting, task_state
<1>2. /\ SchedInv /\ st \in [Task -> TaskState] /\ KernelTypeOK
      /\ armed \in BOOLEAN /\ q \in Seq(Task)
  BY DEF WaitInv, SchedInv, KernelTypeOK
<1>3. s \in [Task -> TaskState] /\ s[t] = "BLOCKED" /\ \A u \in Task \ {t} : s[u] = st[u]
  BY <1>2 DEF TaskState
<1>4. t \in live /\ ~Blocked(t)
  BY <1>1, <1>2, RunningFacts DEF WaitInv
<1> HIDE DEF s
<1>5. ClientTypes'
  BY <1>1, <1>2 DEF SchedInv, ClientTypes
<1>6. SchedInv'
  BY <1>1, <1>2, <1>3, <1>5, CallKeepsSched
<1>7. /\ \A u \in Task : Blocked(u)' <=> s[u] = "BLOCKED"
      /\ \A u \in Current' : s[u] # "BLOCKED"
  <2> DEFINE sig == "SIG_TASK_YIELD"
  <2>1. scheduler(sig, NULL, s)
    BY <1>1
  <2> HIDE DEF sig
  <2> QED
    BY <1>2, <1>3, <2>1, CallBlocks
<1>8. \A u \in Task : Blocked(u)' <=> Blocked(u) \/ u = t
  BY <1>3, <1>7 DEF Blocked
<1>9. /\ \A i, j \in DOMAIN q : q[i] = q[j] => i = j
      /\ \A u \in Task : ~(u \in Range(q) /\ u \in InHand)
      /\ \A u \in Task : Blocked(u) <=> u \in Range(q) \/ u \in InHand
  BY WaitersPointwise DEF WaitInv
<1>10. /\ Append(q, t) \in Seq(Task)
       /\ DOMAIN q = 1 .. Len(q) /\ Len(q) \in Nat
       /\ DOMAIN Append(q, t) = 1 .. Len(q) + 1
       /\ \A i \in 1 .. Len(q) : Append(q, t)[i] = q[i]
       /\ Append(q, t)[Len(q) + 1] = t
  BY <1>2
<1>11. \A u \in Task : u \in Range(Append(q, t)) <=> u \in Range(q) \/ u = t
  <2>1. ASSUME NEW u \in Range(Append(q, t)) PROVE u \in Range(q) \/ u = t
    <3>1. PICK i \in 1 .. Len(q) + 1 : u = Append(q, t)[i]
      BY <1>10, <2>1 DEF Range
    <3>2. CASE i = Len(q) + 1
      BY <1>10, <3>1, <3>2
    <3>3. CASE i \in 1 .. Len(q)
      BY <1>10, <3>1, <3>3 DEF Range
    <3> QED
      BY <1>10, <3>1, <3>2, <3>3
  <2>2. \A u \in Range(q) : u \in Range(Append(q, t))
    BY <1>10 DEF Range
  <2>3. t \in Range(Append(q, t))
    BY <1>10 DEF Range
  <2> QED
    BY <2>1, <2>2, <2>3
<1>12. t \notin Range(q) /\ t \notin InHand
  BY <1>4, <1>9
<1>13. \A i, j \in DOMAIN Append(q, t) : Append(q, t)[i] = Append(q, t)[j] => i = j
  <2>1. \A i \in 1 .. Len(q) : q[i] # t
    BY <1>10, <1>12 DEF Range
  <2> QED
    BY <1>9, <1>10, <2>1
<1>14. InHand' = InHand /\ InHand \subseteq Task
  BY <1>1 DEF InHand, WaitInv
<1>15. Range(Append(q, t)) \subseteq Task
  BY <1>10 DEF Range
<1> HIDE DEF q
<1>16. WaitersExact'
  <2>1. \A u \in Task : st'[u] = "BLOCKED"
                          <=> u \in Range(Append(q, t)) \/ u \in InHand
    BY <1>8, <1>9, <1>11 DEF Blocked
  <2>2. Range(lock_queue)' = Range(Append(q, t))
    BY <1>1
  <2>3. Range(Append(q, t)) \cap InHand = {}
    BY <1>9, <1>11, <1>12, <1>14
  <2> QED
    BY <1>1, <1>13, <1>14, <1>15, <2>1, <2>2, <2>3 DEF WaitersExact
<1>17. \A u \in Task : Blocked(u)' => loc'[u] = "enter" /\ u \in live' /\ u \notin Current'
  BY <1>1, <1>4, <1>7, <1>8 DEF WaitInv
<1>18. \A u \in Task : loc'[u] = "wake" => arg'[u] \in Task
  BY <1>1 DEF WaitInv
<1> QED
  BY <1>1, <1>6, <1>10, <1>16, <1>17, <1>18 DEF WaitInv

\* task_q_unlock wakes the waiter it has taken out, through the scheduler if
\* its element has left the run queue.
LEMMA WakeKeepsWaiters ==
    ASSUME WaitInv, KeyInv', NEW t \in Task, UnlockWake(t)
    PROVE  WaitInv'
<1> DEFINE u == arg[t]
           s == [st EXCEPT ![u] = "READY"]
<1>1. /\ phase = "on" /\ phase' = "on" /\ live' = live /\ res' = res /\ arg' = arg
      /\ Running(t) /\ loc[t] = "wake" /\ old_armed' = old_armed
      /\ kind' = kind /\ lock_queue' = lock_queue
      /\ Goes(t, "give") /\ loc' = [loc EXCEPT ![t] = "give"]
      /\ UnblockTask(u, armed)
  BY DEF UnlockWake, At, Running, Goes, stackVars, RestoredTimer
<1>2. /\ SchedInv /\ st \in [Task -> TaskState] /\ KernelTypeOK
      /\ loc \in [Task -> Location] /\ arg \in [Task -> Task \cup {NULL}]
      /\ old_armed \in BOOLEAN /\ armed \in BOOLEAN /\ lift_expired \in BOOLEAN
  BY DEF WaitInv, KeyInv, SchedInv, KernelTypeOK, ClientTypes
<1>3. \A v \in Task : loc[v] = "wake" => v = t
  BY <1>1 DEF WaitInv, KeyInv, Holders
<1>4. u \in Task /\ InHand = {u} /\ InHand' = {}
  <2>1. u \in Task /\ InHand = {u}
    BY <1>1, <1>3 DEF WaitInv, InHand
  <2>2. \A v \in Task : loc'[v] # "wake"
    BY <1>1, <1>2, <1>3
  <2> QED
    BY <2>1, <2>2 DEF InHand
<1>5. /\ \A i, j \in DOMAIN lock_queue : lock_queue[i] = lock_queue[j] => i = j
      /\ \A v \in Task : ~(v \in Range(lock_queue) /\ v \in InHand)
      /\ \A v \in Task : Blocked(v) <=> v \in Range(lock_queue) \/ v \in InHand
  BY WaitersPointwise DEF WaitInv
<1>6. Blocked(u) /\ u \in live /\ u \notin Current /\ loc[u] = "enter"
  BY <1>4, <1>5 DEF WaitInv
<1>7. s \in [Task -> TaskState] /\ s[u] = "READY" /\ \A v \in Task \ {u} : s[v] = st[v]
  BY <1>2, <1>4 DEF TaskState
<1>8. ClientTypes'
  BY <1>1, <1>2, GoesTypes
<1>9. \/ ~queued[u] /\ scheduler("SIG_TASK_NEW", u, s)
      \/ /\ st' = s /\ armed' = armed
         /\ UNCHANGED <<queued, queues, qelem_current, lift_expired>>
  BY <1>1 DEF UnblockTask
<1> HIDE DEF s, u
<1>10. SchedInv' /\ (\A v \in Task : Blocked(v)' <=> s[v] = "BLOCKED")
                 /\ (\A v \in Current' : s[v] # "BLOCKED")
  <2>1. CASE ~queued[u] /\ scheduler("SIG_TASK_NEW", u, s)
    <3>1. u \in Task \ Held /\ Held \cup {u} \subseteq live' /\ phase # "destroyed"
      BY <1>1, <1>2, <1>4, <1>6, <2>1 DEF SchedInv, QueuedExact, Held
    <3>2. SchedInv'
      BY <1>1, <1>2, <1>7, <1>8, <2>1, <3>1, EnterStep
    <3> DEFINE sig == "SIG_TASK_NEW"
    <3>3. scheduler(sig, u, s)
      BY <2>1
    <3> HIDE DEF sig
    <3> QED
      BY <1>2, <1>7, <3>2, <3>3, CallBlocks
  <2>2. CASE /\ st' = s /\ armed' = armed
             /\ UNCHANGED <<queued, queues, qelem_current, lift_expired>>
    <3>1. SchedInv'
      BY <1>1, <1>2, <1>7, <1>8, <2>2, QuietStep
    <3>2. Current' = Current /\ Current \subseteq Task
      BY <1>2, <2>2 DEF Current, KernelTypeOK, QElem
    <3>3. \A v \in Current : s[v] # "BLOCKED"
      BY <1>7, <3>2 DEF WaitInv, Blocked
    <3> QED
      BY <2>2, <3>1, <3>2, <3>3 DEF Blocked
  <2> QED
    BY <1>9, <2>1, <2>2
<1>11. \A v \in Task : Blocked(v)' <=> Blocked(v) /\ v # u
  BY <1>7, <1>10 DEF Blocked
<1>12. \A v \in Task : Blocked(v)' <=> v \in Range(lock_queue)
  BY <1>4, <1>5, <1>11
<1>13. WaitersExact'
  <2>1. Range(lock_queue)' = Range(lock_queue) /\ Range(lock_queue) \subseteq Task
    BY <1>1 DEF WaitInv, Range
  <2> QED
    BY <1>1, <1>4, <1>5, <1>12, <2>1 DEF WaitersExact, Blocked
<1>14. \A v \in Task : Blocked(v)' => loc'[v] = "enter" /\ v \in live' /\ v \notin Current'
  <2> SUFFICES ASSUME NEW v \in Task, Blocked(v)'
               PROVE  loc'[v] = "enter" /\ v \in live' /\ v \notin Current'
    OBVIOUS
  <2>1. Blocked(v) /\ loc[v] = "enter" /\ v \in live
    BY <1>11 DEF WaitInv
  <2>2. v # t
    BY <1>1, <2>1
  <2> QED
    BY <1>1, <1>2, <1>10, <2>1, <2>2
<1>15. \A v \in Task : loc'[v] = "wake" => arg'[v] \in Task
  BY <1>1, <1>2, <1>3
<1> QED
  BY <1>1, <1>10, <1>13, <1>14, <1>15 DEF WaitInv

\* Starting, new tasks, yields and timers, wherever the tasks are in the
\* lock's functions.
LEMMA SchedulerKeepsWaiters ==
    ASSUME WaitInv, KeyInv', SchedulerStep
    PROVE  WaitInv'
<1>1. /\ SchedInv /\ st \in [Task -> TaskState] /\ KernelTypeOK
      /\ kind' = kind /\ lock_queue' = lock_queue /\ loc' = loc
  BY DEF WaitInv, SchedInv, KernelTypeOK, SchedulerStep, lockVars
<1>2. CASE Start
  <2> DEFINE sig == "SIG_TASK_NEW"
             s == [st EXCEPT ![MainTask] = "ACTIVE"]
  <2>1. /\ SchedInv' /\ scheduler(sig, MainTask, s) /\ arg' = arg
        /\ live \subseteq live' /\ MainTask \notin live
    BY <1>1, <1>2, StartPreserves DEF Start, Stack!Take
  <2>2. s \in [Task -> TaskState] /\ \A v \in Task : s[v] = "BLOCKED" <=> Blocked(v)
    BY <1>1, <2>1, MainAssumption DEF WaitInv, Blocked, TaskState
  <2> HIDE DEF sig, s
  <2> QED
    BY <1>1, <2>1, <2>2, CallKeepsWaiters
<1>3. ASSUME NEW t \in Task, NEW n \in Task, CreateTask(t, n)
      PROVE  WaitInv'
  <2> DEFINE sig == "SIG_TASK_NEW"
             s == [st EXCEPT ![n] = "READY"]
  <2>1. /\ SchedInv' /\ scheduler(sig, n, s) /\ arg' = arg
        /\ live \subseteq live' /\ n \notin live
    BY <1>1, <1>3, CreateTaskPreserves DEF CreateTask, Stack!Take
  <2>2. s \in [Task -> TaskState] /\ \A v \in Task : s[v] = "BLOCKED" <=> Blocked(v)
    BY <1>1, <2>1 DEF WaitInv, Blocked, TaskState
  <2> HIDE DEF sig, s
  <2> QED
    BY <1>1, <2>1, <2>2, CallKeepsWaiters
<1>4. ASSUME NEW data, scheduler("SIG_TASK_YIELD", data, st),
             UNCHANGED <<stackVars, clientVars>>, SchedInv'
      PROVE  WaitInv'
  <2> DEFINE sig == "SIG_TASK_YIELD"
  <2>1. scheduler(sig, data, st) /\ arg' = arg /\ live' = live
    BY <1>4 DEF stackVars, clientVars
  <2>2. \A v \in Task : st[v] = "BLOCKED" <=> Blocked(v)
    BY DEF Blocked
  <2> HIDE DEF sig
  <2> QED
    BY <1>1, <1>4, <2>1, <2>2, CallKeepsWaiters
<1>5. ASSUME NEW t \in Task, TaskYield(t) PROVE WaitInv'
  <2>1. ClientTypes' /\ phase = "on" /\ phase' = "on" /\ live' = live
    BY <1>1, <1>5 DEF TaskYield, Calls, Running, SchedInv, ClientTypes, stackVars, clientVars
  <2>2. SchedInv'
    BY <1>1, <1>5, <2>1, CallKeepsSched DEF TaskYield
  <2> QED
    BY <1>4, <1>5, <2>2 DEF TaskYield
<1>6. CASE Timer
  <2>1. SchedInv'
    BY <1>1, <1>6, TimerPreserves
  <2>2. CASE LiftExpires
    <3>1. UNCHANGED <<st, live, arg>> /\ Current' = Current
      BY <2>2 DEF LiftExpires, stackVars, clientVars, Current
    <3>2. Current \subseteq Task
      BY <1>1 DEF Current, KernelTypeOK, QElem
    <3>3. /\ \A v \in Task : Blocked(v)' <=> Blocked(v)
          /\ \A v \in Current' : st'[v] # "BLOCKED"
      BY <3>1, <3>2 DEF Blocked, WaitInv
    <3> QED
      BY <1>1, <2>1, <3>1, <3>3, WaitersKept
  <2> QED
    BY <1>4, <1>6, <2>1, <2>2 DEF Timer, IdleTick, Preempt
<1> QED
  BY <1>2, <1>3, <1>5, <1>6 DEF SchedulerStep

\* Every step of the locks and of the scheduler under them keeps WaitInv.
LEMMA WaitStep == WaitInv /\ [LocksNext]_allVars => WaitInv'
<1> SUFFICES ASSUME WaitInv, [LocksNext]_allVars PROVE WaitInv'
  OBVIOUS
<1>1. KeyInv'
  BY LockStepSound DEF WaitInv
<1>2. CASE UNCHANGED allVars
  <2>1. UNCHANGED <<kernelVars, stackVars, clientVars, phase, old_armed, lockVars>>
    BY <1>2 DEF allVars, vars
  <2>2. ClientTypes' /\ UNCHANGED <<st, armed, lift_expired>>
    BY <2>1 DEF WaitInv, SchedInv, ClientTypes, clientVars, stackVars, kernelVars
  <2>3. SchedInv'
    BY <2>1, <2>2, QuietStep DEF WaitInv, SchedInv, KernelTypeOK, kernelVars, stackVars
  <2>4. Current' = Current /\ Current \subseteq Task
    BY <2>1 DEF Current, kernelVars, WaitInv, SchedInv, KernelTypeOK, QElem
  <2>5. /\ \A v \in Task : Blocked(v)' <=> Blocked(v)
        /\ \A v \in Current' : st'[v] # "BLOCKED"
    BY <2>2, <2>4 DEF Blocked, WaitInv
  <2> QED
    BY <1>1, <2>1, <2>3, <2>5, WaitersKept DEF lockVars, clientVars, stackVars
<1>3. CASE SchedulerStep
  BY <1>1, <1>3, SchedulerKeepsWaiters
<1>4. ASSUME NEW t \in Task,
             \/ LockCall(t) \/ SpinTest(t) \/ SpinTry(t) \/ QueueTry(t)
             \/ SpinUnlock(t) \/ BlockerReturns(t) \/ UnlockFree(t)
      PROVE  WaitInv'
  BY <1>1, <1>4, QuietKeepsWaiters
<1>5. ASSUME NEW t \in Task,
             \/ SpinYield(t) \/ BlockerWaits(t) \/ UnlockPop(t) \/ UnlockWake(t)
             \/ UnlockGive(t) \/ LockDestroy(t)
      PROVE  WaitInv'
  BY <1>1, <1>5, SpinYieldKeepsWaiters, BlockerKeepsWaiters, PopKeepsWaiters,
     WakeKeepsWaiters, GiveKeepsWaiters, DestroyKeepsWaiters
<1> QED
  BY <1>2, <1>3, <1>4, <1>5, Zenon DEF LocksNext, LockStep

\* WaitInv holds in every reachable state.
LEMMA WaitInvariant == LocksSpec => []WaitInv
<1>1. LocksInit => WaitInv
  BY InitEstablishesWaitInv
<1>2. WaitInv /\ [LocksNext]_allVars => WaitInv'
  BY WaitStep
<1> QED
  BY <1>1, <1>2, PTL DEF LocksSpec

\* Every value of the locks and of the scheduler under them is one it may have.
THEOREM LocksTypeCorrect == LocksSpec => []LocksTypeOK
<1>1. WaitInv => LocksTypeOK
  BY DEF WaitInv, KeyInv, SchedInv, ClientTypes, TypeOK, LocksTypeOK
<1> QED
  BY <1>1, WaitInvariant, PTL

\* No waiter is lost and none is woken twice.
THEOREM WaitersStayExact == LocksSpec => []WaitersExact
<1>1. WaitInv => WaitersExact
  BY DEF WaitInv
<1> QED
  BY <1>1, WaitInvariant, PTL

\* Under the locks the scheduler's queue, its bits and the contexts stay
\* consistent, although task_q_unlock may call scheduler() in the middle of a
\* block_sched section and task_q_blocker always does.
THEOREM LocksKeepTheScheduler == LocksSpec => [](QueueAccounting /\ ContextsAlive)
<1>1. WaitInv => QueueAccounting /\ ContextsAlive
  BY DEF WaitInv, SchedInv, QueueAccounting, ContextsAlive, Held
<1> QED
  BY <1>1, WaitInvariant, PTL
=============================================================================
