------------------------- MODULE SchedKernelProofs -------------------------
(***************************************************************************)
(* Lemmas about the run queue's operators and about scheduler(), for any   *)
(* set of tasks and any number of levels.                                  *)
(***************************************************************************)
EXTENDS SchedKernel, SequenceTheorems, TLAPS

Queue == [list : Seq(QElem), backs : [Level -> Task \cup {NULL}]]

\* The tasks of a list, and that none has two elements in it.
Datas(list) == {list[i].data : i \in DOMAIN list}
Distinct(list) == \A i, j \in DOMAIN list : list[i].data = list[j].data => i = j

-----------------------------------------------------------------------------
\* Where an element is inserted in s and where the others go.
InsertedIn(s, p, e, r) ==
    /\ r \in Seq(QElem) /\ Len(r) = Len(s) + 1
    /\ \A i \in 1 .. Len(s) + 1 :
          r[i] = IF i =< p THEN s[i] ELSE IF i = p + 1 THEN e ELSE s[i - 1]

LEMMA InsertedPlaces ==
    ASSUME NEW s \in Seq(QElem), NEW e \in QElem, NEW p \in 0 .. Len(s),
           NEW r, r = InsertAt(s, p + 1, e)
    PROVE  InsertedIn(s, p, e, r)
<1> DEFINE a == SubSeq(s, 1, p)
           ae == a \o <<e>>
           b == SubSeq(s, p + 1, Len(s))
<1>1. /\ a \in Seq(QElem) /\ Len(a) = p
      /\ \A i \in 1 .. p : a[i] = s[i]
  BY SubSeqProperties
<1>2. /\ b \in Seq(QElem) /\ Len(b) = Len(s) - p
      /\ \A i \in 1 .. Len(s) - p : b[i] = s[p + i]
  BY SubSeqProperties
<1>3. r = ae \o b
  <2>1. r = SubSeq(s, 1, (p + 1) - 1) \o <<e>> \o SubSeq(s, p + 1, Len(s))
    BY Zenon DEF InsertAt
  <2>2. (p + 1) - 1 = p
    OBVIOUS
  <2> QED
    BY <2>1, <2>2, Zenon
<1>4. /\ ae \in Seq(QElem) /\ Len(ae) = p + 1
      /\ \A i \in 1 .. p + 1 : ae[i] = IF i =< p THEN s[i] ELSE e
  BY <1>1
<1> HIDE DEF a, ae, b
<1>5. /\ ae \o b \in Seq(QElem)
      /\ Len(ae \o b) = Len(ae) + Len(b)
      /\ \A i \in 1 .. Len(ae) + Len(b) :
            (ae \o b)[i] = IF i <= Len(ae) THEN ae[i] ELSE b[i - Len(ae)]
  BY <1>2, <1>4, ConcatProperties, Zenon
<1> DEFINE c == ae \o b
<1> HIDE DEF c
<1>6. /\ c \in Seq(QElem) /\ Len(c) = Len(s) + 1
      /\ \A i \in 1 .. Len(s) + 1 :
            c[i] = IF i =< p THEN s[i] ELSE IF i = p + 1 THEN e ELSE s[i - 1]
  <2>1. c \in Seq(QElem) /\ Len(c) = Len(s) + 1
    BY <1>2, <1>4, <1>5 DEF c
  <2>2. ASSUME NEW i \in 1 .. Len(s) + 1
        PROVE  c[i] = IF i =< p THEN s[i] ELSE IF i = p + 1 THEN e ELSE s[i - 1]
    <3>1. c[i] = IF i <= p + 1 THEN ae[i] ELSE b[i - (p + 1)]
      BY <1>2, <1>4, <1>5 DEF c
    <3>2. CASE i <= p + 1
      BY <3>1, <3>2, <1>4
    <3>3. CASE i > p + 1
      <4>1. i - (p + 1) \in 1 .. Len(s) - p /\ p + (i - (p + 1)) = i - 1
        BY <3>3
      <4> QED
        BY <3>1, <3>3, <4>1, <1>2
    <3> QED
      BY <3>2, <3>3
  <2> QED
    BY <2>1, <2>2
<1>7. r = c
  BY <1>3, Zenon DEF c
<1> QED
  BY <1>6, <1>7 DEF InsertedIn

\* None is lost, none doubled.
LEMMA InsertedFacts ==
    ASSUME NEW s \in Seq(QElem), NEW e \in QElem, NEW p \in 0 .. Len(s),
           Distinct(s), e.data \notin Datas(s),
           NEW r, r = InsertAt(s, p + 1, e)
    PROVE  /\ r \in Seq(QElem)
           /\ Distinct(r)
           /\ Datas(r) = Datas(s) \cup {e.data}
<1> DEFINE n == Len(s)
<1>8. n \in Nat /\ DOMAIN s = 1 .. n
  OBVIOUS
<1>9. /\ r \in Seq(QElem) /\ Len(r) = n + 1 /\ DOMAIN r = 1 .. n + 1
      /\ \A i \in 1 .. n + 1 :
            r[i] = IF i =< p THEN s[i] ELSE IF i = p + 1 THEN e ELSE s[i - 1]
  <2>1. InsertedIn(s, p, e, r)
    BY InsertedPlaces, Zenon
  <2> QED
    BY <1>8, <2>1 DEF InsertedIn
<1> HIDE DEF n
<1>10. \A i \in 1 .. n : s[i].data # e.data
  BY <1>8 DEF Datas
<1>11. p \in 0 .. n
  BY DEF n
<1>12. Distinct(r)
  <2> SUFFICES ASSUME NEW i \in 1 .. n + 1, NEW j \in 1 .. n + 1, i < j
               PROVE  r[i].data # r[j].data
    BY <1>8, <1>9 DEF Distinct
  <2>1. \A k, l \in 1 .. n : k < l => s[k].data # s[l].data
    BY <1>8, <1>11 DEF Distinct
  <2>2. CASE j =< p
    <3>1. r[i] = s[i] /\ r[j] = s[j] /\ i \in 1 .. n /\ j \in 1 .. n
      BY <2>2, <1>8, <1>9, <1>11
    <3> QED
      BY <2>1, <3>1
  <2>3. CASE j = p + 1
    <3>1. r[i] = s[i] /\ r[j] = e /\ i \in 1 .. n
      BY <2>3, <1>8, <1>9, <1>11
    <3> QED
      BY <1>10, <3>1
  <2>4. CASE j > p + 1 /\ i =< p
    <3>1. r[i] = s[i] /\ r[j] = s[j - 1] /\ i \in 1 .. n /\ j - 1 \in 1 .. n /\ i < j - 1
      BY <2>4, <1>8, <1>9, <1>11
    <3> QED
      BY <2>1, <3>1
  <2>5. CASE j > p + 1 /\ i = p + 1
    <3>1. r[i] = e /\ r[j] = s[j - 1] /\ j - 1 \in 1 .. n
      BY <2>5, <1>8, <1>9, <1>11
    <3> QED
      BY <1>10, <3>1
  <2>6. CASE j > p + 1 /\ i > p + 1
    <3>1. /\ r[i] = s[i - 1] /\ r[j] = s[j - 1]
          /\ i - 1 \in 1 .. n /\ j - 1 \in 1 .. n /\ i - 1 < j - 1
      BY <2>6, <1>8, <1>9, <1>11
    <3> QED
      BY <2>1, <3>1
  <2> QED
    BY <2>2, <2>3, <2>4, <2>5, <2>6, <1>8, <1>11
<1>13. Datas(r) = Datas(s) \cup {e.data}
  <2>1. ASSUME NEW i \in 1 .. n + 1 PROVE r[i].data \in Datas(s) \cup {e.data}
    <3>1. CASE i = p + 1
      BY <3>1, <1>9
    <3>2. CASE i # p + 1
      <4>1. PICK k \in 1 .. n : r[i] = s[k]
        BY <3>2, <1>8, <1>9, <1>11
      <4> QED
        BY <4>1, <1>8, <1>11 DEF Datas
    <3> QED
      BY <3>1, <3>2
  <2>2. ASSUME NEW i \in 1 .. n PROVE s[i].data \in Datas(r)
    <3>1. PICK k \in 1 .. n + 1 : r[k] = s[i]
      <4>1. CASE i =< p
        BY <4>1, <1>8, <1>9, <1>11
      <4>2. CASE i > p
        <5>1. i + 1 \in 1 .. n + 1 /\ r[i + 1] = s[i]
          BY <4>2, <1>8, <1>9, <1>11
        <5> QED
          BY <5>1
      <4> QED
        BY <4>1, <4>2, <1>8, <1>11
    <3> QED
      BY <3>1, <1>9 DEF Datas
  <2>3. e.data \in Datas(r)
    <3>1. p + 1 \in 1 .. n + 1 /\ r[p + 1] = e
      BY <1>8, <1>9, <1>11
    <3> QED
      BY <3>1, <1>9 DEF Datas
  <2>4. Datas(r) \subseteq Datas(s) \cup {e.data}
    BY <2>1, <1>9 DEF Datas
  <2>5. Datas(s) \subseteq Datas(r)
    <3>1. ASSUME NEW x \in Datas(s) PROVE x \in Datas(r)
      <4>1. PICK i \in 1 .. n : x = s[i].data
        BY <1>8 DEF Datas
      <4> QED
        BY <4>1, <2>2
    <3> QED
      BY <3>1
  <2> QED
    BY <2>3, <2>4, <2>5
<1> QED
  BY <1>9, <1>12, <1>13

-----------------------------------------------------------------------------
\* An element that enters stands somewhere in the list, and nothing else
\* changes: whatever place queue_insert chooses, no element is lost or doubled.
LEMMA EnqueuedBehindFacts ==
    ASSUME NEW Q \in Queue, NEW e \in QElem, NEW d, NEW L,
           Distinct(Q.list), e.data \notin Datas(Q.list),
           NEW R \in EnqueuedBehind(Q, e, d, L)
    PROVE  /\ R \in Queue
           /\ Distinct(R.list)
           /\ Datas(R.list) = Datas(Q.list) \cup {e.data}
<1>1. Q.list \in Seq(QElem) /\ Q.backs \in [Level -> Task \cup {NULL}]
  BY DEF Queue
<1>2. PICK p \in 0 .. Len(Q.list) :
        R = [list  |-> InsertAt(Q.list, p + 1, e),
             backs |-> [l \in Level |-> IF l \in L THEN e.data ELSE Q.backs[l]]]
  BY DEF EnqueuedBehind
<1>3. R.list = InsertAt(Q.list, p + 1, e)
  BY <1>2
<1>4. /\ R.list \in Seq(QElem)
      /\ Distinct(R.list)
      /\ Datas(R.list) = Datas(Q.list) \cup {e.data}
  BY <1>1, <1>3, InsertedFacts
<1>5. R \in Queue
  BY <1>1, <1>2, <1>4 DEF Queue, QElem
<1> QED
  BY <1>4, <1>5

\* The same of queue_insert and queue_new_node.
LEMMA EnqueuedFacts ==
    ASSUME NEW Q \in Queue, NEW e \in QElem,
           Distinct(Q.list), e.data \notin Datas(Q.list),
           NEW R \in Enqueued(Q, e)
    PROVE  /\ R \in Queue
           /\ Distinct(R.list)
           /\ Datas(R.list) = Datas(Q.list) \cup {e.data}
<1>1. PICK d, L : R \in EnqueuedBehind(Q, e, d, L)
  <2>1. CASE Occupied(Q.list, e.lvl)
    BY <2>1 DEF Enqueued
  <2>2. CASE ~Occupied(Q.list, e.lvl) /\ (Q.list = <<>> \/ Q.list[1].lvl > e.lvl)
    BY <2>2 DEF Enqueued
  <2>3. CASE ~Occupied(Q.list, e.lvl) /\ ~(Q.list = <<>> \/ Q.list[1].lvl > e.lvl)
    <3>1. R \in UNION {EnqueuedBehind(Q, e, Q.backs[i], {e.lvl, i}) :
                          i \in Neighbour(Q.list, e.lvl)}
      BY <2>3 DEF Enqueued
    <3>2. PICK i \in Neighbour(Q.list, e.lvl) :
            R \in EnqueuedBehind(Q, e, Q.backs[i], {e.lvl, i})
      BY <3>1
    <3> QED
      BY <3>2
  <2> QED
    BY <2>1, <2>2, <2>3
<1> QED
  BY <1>1, EnqueuedBehindFacts

\* queue_pop, k times, leaves the elements behind the first k.
LEMMA DequeuedFacts ==
    ASSUME NEW Q \in Queue, Distinct(Q.list), NEW k \in Nat
    PROVE  /\ Dequeued(Q, k) \in Queue
           /\ Distinct(Dequeued(Q, k).list)
           /\ Datas(Dequeued(Q, k).list) =
                 {Q.list[i].data : i \in {j \in DOMAIN Q.list : j > k}}
<1> DEFINE q == Q.list  n == Len(q)  rest == SubSeq(q, k + 1, n)
<1>1. q \in Seq(QElem) /\ Q.backs \in [Level -> Task \cup {NULL}]
  BY DEF Queue
<1>2. n \in Nat /\ DOMAIN q = 1 .. n /\ \A i \in 1 .. n : q[i] \in QElem
  BY <1>1
<1>3. /\ rest \in Seq(QElem)
      /\ \A i \in DOMAIN rest : i \in Nat \ {0} /\ i + k \in 1 .. n /\ rest[i] = q[i + k]
      /\ \A i \in 1 .. n : i > k => i - k \in DOMAIN rest /\ rest[i - k] = q[i]
  BY <1>1, <1>2, SubSeqProperties
<1> HIDE DEF rest, n
<1>4. Dequeued(Q, k).list = rest /\ Dequeued(Q, k) \in Queue
  <2>1. Dequeued(Q, k) = [list  |-> rest,
                          backs |-> [l \in Level |-> IF Occupied(rest, l)
                                                     THEN Q.backs[l] ELSE NoBack]]
    BY Zenon DEF Dequeued, rest, n
  <2> QED
    BY <1>1, <1>3, <2>1 DEF Queue, NULL
<1>5. Distinct(rest)
  <2> SUFFICES ASSUME NEW i \in DOMAIN rest, NEW j \in DOMAIN rest,
                      rest[i].data = rest[j].data
               PROVE  i = j
    BY DEF Distinct
  <2>1. q[i + k].data = q[j + k].data /\ i + k \in DOMAIN q /\ j + k \in DOMAIN q
    BY <1>2, <1>3
  <2>2. i + k = j + k
    BY <2>1 DEF Distinct
  <2> QED
    BY <1>3, <2>2
<1>6. Datas(rest) \subseteq {q[i].data : i \in {j \in DOMAIN q : j > k}}
  <2>1. ASSUME NEW i \in DOMAIN rest
        PROVE  rest[i].data \in {q[m].data : m \in {j \in DOMAIN q : j > k}}
    <3>1. i + k \in {j \in DOMAIN q : j > k} /\ rest[i].data = q[i + k].data
      BY <1>2, <1>3
    <3> QED
      BY <3>1
  <2> QED
    BY <2>1 DEF Datas
<1>7. {q[i].data : i \in {j \in DOMAIN q : j > k}} \subseteq Datas(rest)
  <2>1. ASSUME NEW i \in DOMAIN q, i > k PROVE q[i].data \in Datas(rest)
    <3>1. i - k \in DOMAIN rest /\ rest[i - k].data = q[i].data
      BY <1>2, <1>3, <2>1
    <3> QED
      BY <3>1 DEF Datas
  <2> QED
    BY <2>1
<1> QED
  BY <1>4, <1>5, <1>6, <1>7

\* queue_lift keeps every element and its place.
LEMMA LiftedFacts ==
    ASSUME NEW Q \in Queue, Distinct(Q.list)
    PROVE  /\ Lifted(Q) \in Queue
           /\ Distinct(Lifted(Q).list)
           /\ Datas(Lifted(Q).list) = Datas(Q.list)
<1> DEFINE q == Q.list  r == Lifted(Q).list
<1>1. q \in Seq(QElem)
  BY DEF Queue
<1>2. r = [i \in 1 .. Len(q) |-> [q[i] EXCEPT !.lvl = 0]]
  BY DEF Lifted
<1>3. 0 \in Level
  BY QueueAssumption DEF Level
<1>4. /\ r \in Seq(QElem) /\ DOMAIN r = DOMAIN q
      /\ \A i \in DOMAIN q : r[i].data = q[i].data
  <2> HIDE DEF q, r
  <2>1. Len(q) \in Nat /\ DOMAIN q = 1 .. Len(q) /\ \A i \in 1 .. Len(q) : q[i] \in QElem
    BY <1>1
  <2>2. \A i \in 1 .. Len(q) : r[i] = [q[i] EXCEPT !.lvl = 0]
    BY <1>2
  <2>3. \A i \in 1 .. Len(q) : r[i] \in QElem /\ r[i].data = q[i].data
    BY <2>1, <2>2, <1>3 DEF QElem
  <2>4. r \in [1 .. Len(q) -> QElem]
    BY <1>2, <2>2, <2>3
  <2> QED
    BY <2>1, <2>3, <2>4
<1>5. Lifted(Q) \in Queue
  <2>1. ASSUME q # <<>> PROVE Last(q).data \in Task
    <3>1. Len(q) \in Nat \ {0}
      BY <1>1, <2>1
    <3>2. q[Len(q)] \in QElem
      BY <1>1, <3>1
    <3> QED
      BY <3>2 DEF Last, QElem
  <2>2. Lifted(Q) = [list  |-> r,
                     backs |-> [l \in Level |-> IF l = 0 /\ q # <<>>
                                                THEN Last(q).data ELSE NoBack]]
    BY Zenon DEF Lifted
  <2> HIDE DEF q, r
  <2> QED
    BY <2>1, <2>2, <1>4 DEF Queue, NULL
<1> HIDE DEF r, q
<1>6. Distinct(r)
  BY <1>4 DEF Distinct, q
<1>7. Datas(r) = Datas(q)
  BY <1>4 DEF Datas
<1> QED
  BY <1>5, <1>6, <1>7 DEF r, q

-----------------------------------------------------------------------------
\* The tasks that have an element, in the queue or as the current one.
Held == InQueue \cup Current

\* What the elements of the queue and the queued bits are before a call of
\* scheduler(), and remain after it.
KernelInv == KernelTypeOK /\ OneElement /\ QueuedExact

\* One call of scheduler() on a consistent kernel: each task keeps one element
\* and a truthful bit, no task but a new one comes to have an element, a task
\* that ends no longer has one, and only a blocked one loses it.
LEMMA SchedulerPreserves ==
    ASSUME NEW signum \in {"SIG_TASK_NEW", "SIG_TASK_YIELD", "SIG_TASK_END"},
           NEW data, NEW s \in [Task -> TaskState],
           KernelInv,
           signum = "SIG_TASK_NEW" => data \in Task \ Held,
           scheduler(signum, data, s)
    PROVE  /\ KernelInv'
           /\ signum = "SIG_TASK_NEW" => Held' \subseteq Held \cup {data}
           /\ signum = "SIG_TASK_YIELD" => Held' \subseteq Held
           /\ signum = "SIG_TASK_END" => Held' \subseteq InQueue
           /\ \A t \in InQueue : t \in Held' \/ s[t] = "BLOCKED"
           /\ signum # "SIG_TASK_END" => Current \subseteq Held'
           /\ signum = "SIG_TASK_NEW" => data \in Held'
<1>1. PICK k \in BlockedPrefix(s) :
        /\ \E q1 \in Requeued(Dequeued(queues, k + 1), signum, data) :
           \E q2 \in Fed(q1, signum, data) :
              queues' = MaybeLifted(q2)
        /\ lift_expired' = FALSE
        /\ queued' = QueuedAfter(k, signum, data)
        /\ st' = StatesAfter(k, signum, s)
        /\ qelem_current' = Poped(k)
        /\ armed' = (Poped(k) # NULL)
  BY Zenon DEF scheduler
<1> DEFINE rest == Dequeued(queues, k + 1)
<1>2. PICK q1 \in Requeued(rest, signum, data) :
        \E q2 \in Fed(q1, signum, data) : queues' = MaybeLifted(q2)
  BY <1>1
<1>3. PICK q2 \in Fed(q1, signum, data) : queues' = MaybeLifted(q2)
  BY <1>2
<1>4. /\ k \in 0 .. Len(runq)
      /\ queues \in Queue /\ Distinct(runq)
      /\ runq \in Seq(QElem) /\ Len(runq) \in Nat /\ DOMAIN runq = 1 .. Len(runq)
  BY DEF BlockedPrefix, KernelInv, KernelTypeOK, OneElement, Queue, Distinct, runq
<1> DEFINE R == Datas(rest.list)
           U == Unqueued(k)
           C == IF Saves(signum) THEN Current ELSE {}
           N == IF signum = "SIG_TASK_NEW" THEN {data} ELSE {}
<1>5. /\ rest \in Queue /\ Distinct(rest.list)
      /\ R = {runq[i].data : i \in {j \in DOMAIN runq : j > k + 1}}
  <2>1. k + 1 \in Nat
    BY <1>4
  <2>2. queues \in Queue /\ Distinct(queues.list)
    BY <1>4 DEF runq
  <2>3. /\ rest \in Queue /\ Distinct(rest.list)
        /\ R = {queues.list[i].data : i \in {j \in DOMAIN queues.list : j > k + 1}}
    BY <2>1, <2>2, DequeuedFacts, Zenon
  <2> QED
    BY <2>3 DEF runq
<1> HIDE DEF rest
<1>6. InQueue = R \cup U /\ R \cap U = {}
  <2>1. U = {runq[i].data : i \in {j \in DOMAIN runq : j =< k + 1}}
    BY <1>4 DEF Unqueued
  <2>2. InQueue \subseteq R \cup U
    <3>1. ASSUME NEW i \in DOMAIN runq PROVE runq[i].data \in R \cup U
      <4>1. i > k + 1 \/ i =< k + 1
        BY <1>4
      <4> QED
        BY <4>1, <1>5, <2>1
    <3> QED
      BY <3>1 DEF InQueue
  <2>3. R \subseteq InQueue /\ U \subseteq InQueue
    BY <1>5, <2>1 DEF InQueue
  <2>4. R \cap U = {}
    <3>1. ASSUME NEW i \in DOMAIN runq, i > k + 1, NEW j \in DOMAIN runq, j =< k + 1
          PROVE  runq[i].data # runq[j].data
      BY <3>1, <1>4 DEF Distinct
    <3> QED
      BY <3>1, <1>5, <2>1
  <2> QED
    BY <2>2, <2>3, <2>4
<1>7. /\ Poped(k) \in QElem \cup {NULL}
      /\ Poped(k) # NULL => Poped(k).data \in U
  <2>1. CASE k = Len(runq)
    BY <2>1 DEF Poped
  <2>2. CASE k # Len(runq)
    <3>1. k + 1 \in 1 .. Len(runq) /\ k + 1 =< k + 1
      <4>1. \A n \in Nat : \A m \in 0 .. n :
                m # n => m + 1 \in 1 .. n /\ m + 1 =< m + 1
        OBVIOUS
      <4> QED
        BY <4>1, <2>2, <1>4, Zenon
    <3>2. runq[k + 1] \in QElem
      BY <3>1, <1>4
    <3>3. Poped(k) = runq[k + 1]
      BY <2>2, Zenon DEF Poped
    <3>4. runq[k + 1].data \in U
      BY <3>1, <1>4 DEF Unqueued
    <3> QED
      BY <3>2, <3>3, <3>4
  <2> QED
    BY <2>1, <2>2
<1>8. /\ q1 \in Queue /\ Distinct(q1.list)
      /\ Datas(q1.list) = R \cup C
  <2>1. CASE Saves(signum)
    <3>1. qelem_current \in QElem /\ Current = {qelem_current.data}
      BY <2>1 DEF Saves, KernelInv, KernelTypeOK, Current
    <3> DEFINE e == Aged(signum, data)
    <3>2. e \in QElem /\ e.data = qelem_current.data
      <4>1. qelem_current.lvl \in Level /\ qelem_current.data \in Task
        BY <3>1 DEF QElem
      <4>2. ASSUME qelem_current.lvl < QUEUE_NUMBER - 1
            PROVE  [qelem_current EXCEPT !.lvl = @ + 1] \in QElem
        BY <4>1, <4>2, <3>1, QueueAssumption DEF QElem, Level
      <4>3. [qelem_current EXCEPT !.lvl = @ + 1].data = qelem_current.data
        BY <3>1 DEF QElem
      <4> QED
        BY <3>1, <4>2, <4>3 DEF Aged
    <3> HIDE DEF e
    <3>3. e.data \notin R
      BY <3>1, <3>2, <1>6 DEF KernelInv, OneElement
    <3>4. q1 \in Enqueued(rest, e)
      BY <2>1, <1>2 DEF Requeued, e
    <3> QED
      BY <3>1, <3>2, <3>3, <3>4, <2>1, <1>5, EnqueuedFacts
  <2>2. CASE ~Saves(signum)
    BY <2>2, <1>2, <1>5 DEF Requeued
  <2> QED
    BY <2>1, <2>2
<1>9. /\ q2 \in Queue /\ Distinct(q2.list)
      /\ Datas(q2.list) = R \cup C \cup N
  <2>1. CASE signum = "SIG_TASK_NEW"
    <3> DEFINE e == [data |-> data, lvl |-> 0]
    <3>1. e \in QElem /\ e.data = data
      BY <2>1, QueueAssumption DEF QElem, Level
    <3>2. q2 \in Enqueued(q1, e)
      BY <2>1, <1>3 DEF Fed
    <3>3. e.data \notin Datas(q1.list)
      BY <2>1, <3>1, <1>6, <1>8 DEF Held
    <3> HIDE DEF e
    <3>4. q2 \in Queue /\ Distinct(q2.list) /\ Datas(q2.list) = Datas(q1.list) \cup {e.data}
      BY <3>1, <3>2, <3>3, <1>8, EnqueuedFacts
    <3> QED
      BY <2>1, <3>1, <3>4, <1>8
  <2>2. CASE signum # "SIG_TASK_NEW"
    BY <2>2, <1>3, <1>8 DEF Fed
  <2> QED
    BY <2>1, <2>2
<1>10. queues' \in Queue /\ Distinct(runq') /\ InQueue' = R \cup C \cup N
  <2>1. queues' \in Queue /\ Distinct(queues'.list) /\ Datas(queues'.list) = R \cup C \cup N
    BY <1>3, <1>9, LiftedFacts DEF MaybeLifted
  <2> QED
    BY <2>1 DEF runq, InQueue, Datas
<1>11. Current' \subseteq U
  BY <1>1, <1>7 DEF Current
<1>12. C \subseteq Current /\ N \cap Held = {} /\ InQueue \cap Current = {}
  BY DEF KernelInv, OneElement
<1> HIDE DEF R, U, C, N
<1>13. OneElement'
  BY <1>6, <1>10, <1>11, <1>12 DEF OneElement, Distinct, Held
<1>14. QueuedExact'
  <2>1. ASSUME NEW t \in Task PROVE queued'[t] <=> t \in InQueue'
    <3>1. queued[t] <=> t \in InQueue
      BY DEF KernelInv, QueuedExact
    <3>2. Saves(signum) /\ t = qelem_current.data <=> t \in C
      BY DEF C, Saves, Current
    <3>3. signum = "SIG_TASK_NEW" /\ t = data <=> t \in N
      BY DEF N
    <3>4. queued'[t] <=> \/ Saves(signum) /\ t = qelem_current.data
                         \/ signum = "SIG_TASK_NEW" /\ t = data
                         \/ queued[t] /\ t \notin U
      BY <1>1, Zenon DEF QueuedAfter, U
    <3> QED
      BY <3>1, <3>2, <3>3, <3>4, <1>6, <1>10, Zenon
  <2> QED
    BY <2>1 DEF QueuedExact
<1>15. KernelTypeOK'
  <2>1. st' \in [Task -> TaskState]
    BY <1>1 DEF StatesAfter, TaskState
  <2>2. queued' \in [Task -> BOOLEAN]
    BY <1>1, Zenon DEF QueuedAfter, KernelInv, KernelTypeOK
  <2> QED
    BY <2>1, <2>2, <1>1, <1>7, <1>10 DEF KernelTypeOK, Queue
<1>16. Held' \subseteq Held \cup N
  BY <1>6, <1>10, <1>11, <1>12 DEF Held
<1>17. ASSUME signum = "SIG_TASK_END" PROVE Held' \subseteq InQueue
  <2>1. C = {} /\ N = {}
    BY <1>17 DEF C, N, Saves
  <2> QED
    BY <2>1, <1>6, <1>10, <1>11 DEF Held
<1>18. signum # "SIG_TASK_END" => Current \subseteq Held'
  BY <1>10 DEF C, Saves, Current, Held
<1>19. ASSUME NEW i \in DOMAIN runq
       PROVE  runq[i].data \in Held' \/ s[runq[i].data] = "BLOCKED"
  <2>1. CASE i =< k
    BY <2>1, <1>4 DEF BlockedPrefix
  <2>2. CASE i = k + 1
    <3>1. k # Len(runq)
      <4> DEFINE n == Len(runq)
      <4>1. n \in Nat /\ i \in 1 .. n /\ k \in 0 .. n
        BY <1>4
      <4> HIDE DEF n
      <4>2. k # n
        BY <2>2, <4>1
      <4> QED
        BY <4>2 DEF n
    <3>2. Poped(k) = runq[i]
      BY <2>2, <3>1, Zenon DEF Poped
    <3>3. runq[i] # NULL
      BY <1>4, NullAssumption
    <3> QED
      BY <3>2, <3>3, <1>1 DEF Current, Held
  <2>3. CASE i > k + 1
    BY <2>3, <1>5, <1>10 DEF R, Held
  <2> QED
    BY <2>1, <2>2, <2>3, <1>4
<1>20. signum = "SIG_TASK_NEW" => data \in Held'
  BY <1>10 DEF N, Held
<1> QED
  BY <1>13, <1>14, <1>15, <1>16, <1>17, <1>18, <1>19, <1>20 DEF KernelInv, N, InQueue

\* Whom it dispatches, and the states it leaves.
LEMMA SchedulerDispatches ==
    ASSUME NEW signum, NEW data, NEW s, KernelTypeOK, scheduler(signum, data, s)
    PROVE  /\ \A t \in Current' : t \in InQueue /\ s[t] # "BLOCKED"
           /\ \A t, u \in Current' : t = u
           /\ \A t \in Task :
                 st'[t] = IF t \in Current' THEN "ACTIVE"
                          ELSE IF /\ signum # "SIG_TASK_END" /\ t \in Current
                                  /\ s[t] = "ACTIVE"
                               THEN "READY"
                               ELSE s[t]
<1>1. PICK k \in BlockedPrefix(s) :
        /\ st' = StatesAfter(k, signum, s)
        /\ qelem_current' = Poped(k)
  BY Zenon DEF scheduler
<1>2. \A t : t \in Current' <=> Poped(k) # NULL /\ t = Poped(k).data
  BY <1>1 DEF Current
<1>3. runq \in Seq(QElem) /\ k \in 0 .. Len(runq)
  BY DEF KernelTypeOK, BlockedPrefix, runq
<1>4. ASSUME Poped(k) # NULL
      PROVE  Poped(k).data \in InQueue /\ s[Poped(k).data] # "BLOCKED"
  <2>1. k < Len(runq) /\ Poped(k) = runq[k + 1] /\ k + 1 \in DOMAIN runq
    BY <1>3, <1>4 DEF Poped
  <2> QED
    BY <2>1 DEF BlockedPrefix, InQueue
<1>5. \A t \in Task : st'[t] =
        IF t \in Current' THEN "ACTIVE"
        ELSE IF Saves(signum) /\ t = qelem_current.data /\ s[t] = "ACTIVE"
             THEN "READY" ELSE s[t]
  BY <1>1, <1>2, Zenon DEF StatesAfter
<1>6. \A t : Saves(signum) /\ t = qelem_current.data
                <=> signum # "SIG_TASK_END" /\ t \in Current
  BY DEF Saves, Current
<1>7. \A t \in Task :
        st'[t] = IF t \in Current' THEN "ACTIVE"
                 ELSE IF signum # "SIG_TASK_END" /\ t \in Current /\ s[t] = "ACTIVE"
                      THEN "READY"
                      ELSE s[t]
  BY <1>5, <1>6, Zenon
<1>8. \A t \in Current' : t \in InQueue /\ s[t] # "BLOCKED"
  BY <1>2, <1>4, Zenon
<1>9. ASSUME NEW t \in Current', NEW u \in Current' PROVE t = u
  <2>1. t = Poped(k).data /\ u = Poped(k).data
    BY <1>2, Zenon
  <2> QED
    BY <2>1, Zenon
<1> QED
  BY <1>7, <1>8, <1>9, Zenon

-----------------------------------------------------------------------------
\* The elements of a list, and that the back of each level stands in it behind
\* every element of that level.
Elements(list) == {list[i] : i \in DOMAIN list}
BackOf(Q, i) ==
    \E j \in DOMAIN Q.list : j >= i /\ Q.list[j].data = Q.backs[Q.list[i].lvl]
Reaching(Q) == \A i \in DOMAIN Q.list : BackOf(Q, i)

\* An element that enters behind the back of the levels it becomes the back of.
LEMMA EnqueuedBehindReaches ==
    ASSUME NEW Q \in Queue, NEW e \in QElem, NEW d, NEW L,
           Distinct(Q.list), Reaching(Q), e.lvl \in L,
           \A i \in DOMAIN Q.list : Q.list[i].lvl \in L => d = Q.backs[Q.list[i].lvl],
           NEW R \in EnqueuedBehind(Q, e, d, L)
    PROVE  /\ Reaching(R)
           /\ Elements(R.list) = Elements(Q.list) \cup {e}
<1> DEFINE q == Q.list
           n == Len(q)
           r == R.list
<1>1. /\ q \in Seq(QElem) /\ n \in Nat /\ DOMAIN q = 1 .. n
      /\ \A i \in 1 .. n : q[i] \in QElem
  BY DEF Queue
<1>2. PICK p \in 0 .. n :
        /\ R = [list  |-> InsertAt(q, p + 1, e),
                backs |-> [l \in Level |-> IF l \in L THEN e.data ELSE Q.backs[l]]]
        /\ IF d = NoBack THEN p = 0 ELSE p > 0 /\ q[p].data = d
  BY DEF EnqueuedBehind
<1>3. r = InsertAt(q, p + 1, e)
  BY <1>2
<1>4. /\ r \in Seq(QElem) /\ Len(r) = n + 1
      /\ \A i \in 1 .. n + 1 :
            r[i] = IF i =< p THEN q[i] ELSE IF i = p + 1 THEN e ELSE q[i - 1]
  <2>1. q \in Seq(QElem) /\ p \in 0 .. Len(q)
    BY <1>1
  <2> HIDE DEF q, r
  <2>2. InsertedIn(q, p, e, r)
    BY <1>3, <2>1, InsertedPlaces, Zenon
  <2> QED
    BY <2>2 DEF InsertedIn
<1>5. \A l \in Level : R.backs[l] = IF l \in L THEN e.data ELSE Q.backs[l]
  BY <1>2
<1>6. \A i \in 1 .. n : \E j \in 1 .. n : j >= i /\ q[j].data = Q.backs[q[i].lvl]
  BY <1>1 DEF Reaching, BackOf
<1>7. \A i \in 1 .. n : q[i].lvl \in L =>
         \E j \in 1 .. n : j >= i /\ q[j].data = d /\ d # NoBack
  <2> SUFFICES ASSUME NEW i \in 1 .. n, q[i].lvl \in L
               PROVE  \E j \in 1 .. n : j >= i /\ q[j].data = d /\ d # NoBack
    OBVIOUS
  <2>1. PICK j \in 1 .. n : j >= i /\ q[j].data = Q.backs[q[i].lvl]
    BY <1>6
  <2>2. q[j].data \in Task /\ d = Q.backs[q[i].lvl]
    BY <1>1 DEF QElem
  <2> QED
    BY <2>1, <2>2, NullAssumption DEF NULL
<1>8. \A i, j \in 1 .. n : q[i].data = q[j].data => i = j
  BY <1>1 DEF Distinct
<1>9. DOMAIN r = 1 .. n + 1 /\ r[p + 1] = e /\ p + 1 \in 1 .. n + 1
  BY <1>1, <1>4
<1>10. e.lvl \in Level /\ \A i \in 1 .. n : q[i].lvl \in Level
  BY <1>1 DEF QElem
<1> HIDE DEF q, n, r
<1>11. \A i \in 1 .. n + 1 : \E j \in 1 .. n + 1 :
          j >= i /\ r[j].data = R.backs[r[i].lvl]
  <2> SUFFICES ASSUME NEW i \in 1 .. n + 1
               PROVE  \E j \in 1 .. n + 1 : j >= i /\ r[j].data = R.backs[r[i].lvl]
    OBVIOUS
  <2>1. CASE i = p + 1
    <3>1. r[p + 1].data = R.backs[r[i].lvl]
      BY <1>5, <1>9, <1>10, <2>1
    <3> QED
      BY <1>9, <2>1, <3>1
  <2>2. CASE i =< p
    <3>1. r[i] = q[i] /\ i \in 1 .. n /\ p + 1 >= i
      BY <1>1, <1>4, <2>2
    <3>2. CASE q[i].lvl \in L
      <4>1. r[p + 1].data = R.backs[r[i].lvl]
        BY <1>5, <1>9, <1>10, <3>1, <3>2
      <4> QED
        BY <1>9, <3>1, <4>1
    <3>3. CASE q[i].lvl \notin L
      <4>1. R.backs[r[i].lvl] = Q.backs[q[i].lvl]
        BY <1>5, <1>10, <3>1, <3>3
      <4>2. PICK j \in 1 .. n : j >= i /\ q[j].data = Q.backs[q[i].lvl]
        BY <1>6, <3>1
      <4>3. CASE j =< p
        <5>1. r[j] = q[j] /\ j \in 1 .. n + 1
          BY <1>1, <1>4, <4>3
        <5> QED
          BY <4>1, <4>2, <5>1
      <4>4. CASE j > p
        <5>1. r[j + 1] = q[j] /\ j + 1 \in 1 .. n + 1 /\ j + 1 >= i
          BY <1>1, <1>4, <4>2, <4>4
        <5> QED
          BY <4>1, <4>2, <5>1
      <4> QED
        BY <4>3, <4>4, <1>1
    <3> QED
      BY <3>2, <3>3
  <2>3. CASE i > p + 1
    <3> DEFINE h == i - 1
    <3>1. r[i] = q[h] /\ h \in 1 .. n /\ h > p /\ h + 1 = i
      BY <1>1, <1>4, <2>3
    <3> HIDE DEF h
    <3>2. CASE q[h].lvl \in L
      <4>1. PICK j \in 1 .. n : j >= h /\ q[j].data = d /\ d # NoBack
        BY <1>7, <3>1, <3>2
      <4>2. p \in 1 .. n /\ q[p].data = d
        BY <1>1, <1>2, <4>1 DEF q
      <4>3. p = j
        BY <1>8, <4>1, <4>2
      <4> QED
        BY <1>1, <3>1, <4>1, <4>3
    <3>3. CASE q[h].lvl \notin L
      <4>1. R.backs[r[i].lvl] = Q.backs[q[h].lvl]
        BY <1>5, <1>10, <3>1, <3>3
      <4>2. PICK j \in 1 .. n : j >= h /\ q[j].data = Q.backs[q[h].lvl]
        BY <1>6, <3>1
      <4>3. r[j + 1] = q[j] /\ j + 1 \in 1 .. n + 1 /\ j + 1 >= i
        BY <1>1, <1>4, <3>1, <4>2
      <4> QED
        BY <4>1, <4>2, <4>3
    <3> QED
      BY <3>2, <3>3
  <2> QED
    BY <2>1, <2>2, <2>3, <1>1
<1>12. Reaching(R)
  BY <1>9, <1>11 DEF Reaching, BackOf, r
<1>13. \A i \in 1 .. n + 1 : r[i] = e \/ \E j \in 1 .. n : r[i] = q[j]
  <2> SUFFICES ASSUME NEW i \in 1 .. n + 1, i # p + 1
               PROVE  \E j \in 1 .. n : r[i] = q[j]
    BY <1>9
  <2>1. CASE i =< p
    BY <1>1, <1>4, <2>1
  <2>2. CASE i > p + 1
    <3>1. r[i] = q[i - 1] /\ i - 1 \in 1 .. n
      BY <1>1, <1>4, <2>2
    <3> QED
      BY <3>1
  <2> QED
    BY <2>1, <2>2, <1>1
<1>14. \A j \in 1 .. n : \E i \in 1 .. n + 1 : r[i] = q[j]
  <2> SUFFICES ASSUME NEW j \in 1 .. n PROVE \E i \in 1 .. n + 1 : r[i] = q[j]
    OBVIOUS
  <2>1. CASE j =< p
    BY <1>1, <1>4, <2>1
  <2>2. CASE j > p
    <3>1. r[j + 1] = q[j] /\ j + 1 \in 1 .. n + 1
      BY <1>1, <1>4, <2>2
    <3> QED
      BY <3>1
  <2> QED
    BY <2>1, <2>2, <1>1
<1>15. Elements(r) = Elements(q) \cup {e}
  <2>1. Elements(r) = {r[i] : i \in 1 .. n + 1} /\ Elements(q) = {q[i] : i \in 1 .. n}
    BY <1>1, <1>9 DEF Elements
  <2>2. {r[i] : i \in 1 .. n + 1} \subseteq {q[i] : i \in 1 .. n} \cup {e}
    BY <1>13
  <2>3. {q[i] : i \in 1 .. n} \cup {e} \subseteq {r[i] : i \in 1 .. n + 1}
    BY <1>9, <1>14
  <2> QED
    BY <2>1, <2>2, <2>3
<1> QED
  BY <1>12, <1>15 DEF q, r

\* queue_insert and queue_new_node, whichever level they find elements at.
LEMMA EnqueuedReaches ==
    ASSUME NEW Q \in Queue, NEW e \in QElem,
           Distinct(Q.list), Reaching(Q), NEW R \in Enqueued(Q, e)
    PROVE  /\ Reaching(R)
           /\ Elements(R.list) = Elements(Q.list) \cup {e}
<1>1. CASE Occupied(Q.list, e.lvl)
  <2>1. R \in EnqueuedBehind(Q, e, Q.backs[e.lvl], {e.lvl})
    BY <1>1 DEF Enqueued
  <2>2. \A i \in DOMAIN Q.list :
           Q.list[i].lvl \in {e.lvl} => Q.backs[e.lvl] = Q.backs[Q.list[i].lvl]
    OBVIOUS
  <2> QED
    BY <2>1, <2>2, EnqueuedBehindReaches
<1>2. CASE ~Occupied(Q.list, e.lvl) /\ (Q.list = <<>> \/ Q.list[1].lvl > e.lvl)
  <2>1. R \in EnqueuedBehind(Q, e, NoBack, {e.lvl})
    BY <1>2 DEF Enqueued
  <2>2. \A i \in DOMAIN Q.list :
           Q.list[i].lvl \in {e.lvl} => NoBack = Q.backs[Q.list[i].lvl]
    BY <1>2 DEF Occupied
  <2> QED
    BY <2>1, <2>2, EnqueuedBehindReaches
<1>3. CASE ~Occupied(Q.list, e.lvl) /\ ~(Q.list = <<>> \/ Q.list[1].lvl > e.lvl)
  <2>1. R \in UNION {EnqueuedBehind(Q, e, Q.backs[l], {e.lvl, l}) :
                        l \in Neighbour(Q.list, e.lvl)}
    BY <1>3 DEF Enqueued
  <2>2. PICK l \in Neighbour(Q.list, e.lvl) :
          R \in EnqueuedBehind(Q, e, Q.backs[l], {e.lvl, l})
    BY <2>1
  <2>3. \A i \in DOMAIN Q.list :
           Q.list[i].lvl \in {e.lvl, l} => Q.backs[l] = Q.backs[Q.list[i].lvl]
    BY <1>3 DEF Occupied
  <2> QED
    BY <2>2, <2>3, EnqueuedBehindReaches
<1> QED
  BY <1>1, <1>2, <1>3

\* queue_pop takes the front, so that the backs it leaves still stand behind.
LEMMA DequeuedReaches ==
    ASSUME NEW Q \in Queue, Reaching(Q), NEW k \in Nat
    PROVE  /\ Reaching(Dequeued(Q, k))
           /\ Elements(Dequeued(Q, k).list) \subseteq Elements(Q.list)
<1> DEFINE q == Q.list  n == Len(q)  rest == SubSeq(q, k + 1, n)
           R == Dequeued(Q, k)
<1>1. q \in Seq(QElem) /\ n \in Nat /\ DOMAIN q = 1 .. n /\ \A i \in 1 .. n : q[i] \in QElem
  BY DEF Queue
<1>2. /\ \A i \in DOMAIN rest : i \in Nat \ {0} /\ i + k \in 1 .. n /\ rest[i] = q[i + k]
      /\ \A i \in 1 .. n : i > k => i - k \in DOMAIN rest /\ rest[i - k] = q[i]
  <2>1. /\ k + 1 \in Int /\ \A i \in k + 1 .. n : q[i] \in QElem
    BY <1>1
  <2>2. /\ rest \in Seq(QElem)
        /\ Len(rest) = IF k + 1 <= n THEN n - (k + 1) + 1 ELSE 0
        /\ \A i \in 1 .. n - (k + 1) + 1 : rest[i] = q[(k + 1) + i - 1]
    BY <1>1, <2>1, SubSeqProperties
  <2> HIDE DEF rest, q, n
  <2>3. ASSUME NEW i \in DOMAIN rest
        PROVE  i \in Nat \ {0} /\ i + k \in 1 .. n /\ rest[i] = q[i + k]
    <3>1. i \in 1 .. Len(rest)
      BY <2>2
    <3>2. k + 1 <= n /\ i \in 1 .. n - (k + 1) + 1
      BY <1>1, <2>2, <3>1
    <3>3. rest[i] = q[(k + 1) + i - 1]
      BY <2>2, <3>2
    <3>4. i \in Nat \ {0} /\ (k + 1) + i - 1 = i + k /\ i + k \in 1 .. n
      BY <1>1, <3>2
    <3> QED
      BY <3>3, <3>4
  <2>4. ASSUME NEW i \in 1 .. n, i > k
        PROVE  i - k \in DOMAIN rest /\ rest[i - k] = q[i]
    <3>1. /\ k + 1 <= n /\ i - k \in 1 .. n - (k + 1) + 1
          /\ (k + 1) + (i - k) - 1 = i
      BY <1>1, <2>4
    <3>2. rest[i - k] = q[(k + 1) + (i - k) - 1]
      BY <2>2, <3>1
    <3>3. DOMAIN rest = 1 .. n - (k + 1) + 1
      BY <2>2, <3>1
    <3> QED
      BY <3>1, <3>2, <3>3
  <2> QED
    BY <2>3, <2>4
<1>3. R = [list  |-> rest,
           backs |-> [l \in Level |-> IF Occupied(rest, l)
                                      THEN Q.backs[l] ELSE NoBack]]
  BY Zenon DEF Dequeued
<1>4. \A i \in 1 .. n : \E j \in 1 .. n : j >= i /\ q[j].data = Q.backs[q[i].lvl]
  BY <1>1 DEF Reaching, BackOf
<1>5. \A i \in 1 .. n : q[i].lvl \in Level
  BY <1>1 DEF QElem
<1> HIDE DEF rest, q, n, R
<1>6. /\ R.list = rest
      /\ \A l \in Level : R.backs[l] = IF Occupied(rest, l) THEN Q.backs[l] ELSE NoBack
  BY <1>3
<1>7. ASSUME NEW i \in DOMAIN rest PROVE BackOf(R, i)
  <2>1. i + k \in 1 .. n /\ rest[i] = q[i + k] /\ i \in Nat
    BY <1>2
  <2>2. PICK j \in 1 .. n : j >= i + k /\ q[j].data = Q.backs[rest[i].lvl]
    BY <1>4, <2>1
  <2>3. R.backs[rest[i].lvl] = Q.backs[rest[i].lvl]
    BY <1>5, <1>6, <2>1 DEF Occupied
  <2>4. j > k /\ j - k >= i
    BY <1>2, <2>1, <2>2
  <2>5. j - k \in DOMAIN rest /\ rest[j - k] = q[j]
    BY <1>2, <2>4
  <2> QED
    BY <1>6, <2>2, <2>3, <2>4, <2>5 DEF BackOf
<1>8. Elements(rest) \subseteq Elements(q)
  BY <1>1, <1>2 DEF Elements
<1> QED
  BY <1>6, <1>7, <1>8 DEF Reaching, R, q

\* queue_lift makes the last element the back of level 0, where all are.
LEMMA LiftedReaches ==
    ASSUME NEW Q \in Queue
    PROVE  /\ Reaching(Lifted(Q))
           /\ \A x \in Elements(Lifted(Q).list) : x.lvl = 0
<1> DEFINE q == Q.list  n == Len(q)  R == Lifted(Q)
<1>1. q \in Seq(QElem) /\ n \in Nat /\ DOMAIN q = 1 .. n /\ \A i \in 1 .. n : q[i] \in QElem
  BY DEF Queue
<1>2. R = [list  |-> [i \in 1 .. n |-> [q[i] EXCEPT !.lvl = 0]],
           backs |-> [l \in Level |-> IF l = 0 /\ q # <<>>
                                      THEN Last(q).data ELSE NoBack]]
  BY Zenon DEF Lifted
<1>3. 0 \in Level
  BY QueueAssumption DEF Level
<1> HIDE DEF q, n, R
<1>4. /\ DOMAIN R.list = 1 .. n
      /\ \A i \in 1 .. n : R.list[i] = [q[i] EXCEPT !.lvl = 0]
      /\ R.backs[0] = IF q # <<>> THEN Last(q).data ELSE NoBack
  BY <1>2, <1>3
<1>5. \A i \in 1 .. n : R.list[i].lvl = 0 /\ R.list[i].data = q[i].data
  BY <1>1, <1>4 DEF QElem
<1>6. ASSUME NEW i \in 1 .. n PROVE BackOf(R, i)
  <2>1. n \in 1 .. n /\ n >= i
    BY <1>1
  <2>2. q # <<>> /\ Last(q) = q[n]
    BY <1>1, <2>1 DEF Last, n
  <2>3. R.list[n].data = R.backs[R.list[i].lvl]
    BY <1>4, <1>5, <2>1, <2>2
  <2> QED
    BY <1>4, <2>1, <2>3 DEF BackOf
<1> QED
  BY <1>4, <1>5, <1>6 DEF Reaching, Elements, R

\* The element that goes back to the queue is still its task's.
LEMMA AgedFacts ==
    ASSUME NEW signum, NEW data, qelem_current \in QElem
    PROVE  /\ Aged(signum, data) \in QElem
           /\ Aged(signum, data).data = qelem_current.data
           /\ \/ Aged(signum, data) = qelem_current
              \/ /\ signum # "SIG_TASK_NEW" /\ data # NULL
                 /\ Aged(signum, data).lvl = qelem_current.lvl + 1
<1>1. qelem_current.lvl \in Level /\ qelem_current.data \in Task
  BY DEF QElem
<1> DEFINE e == [qelem_current EXCEPT !.lvl = @ + 1]
<1>2. e.data = qelem_current.data /\ e.lvl = qelem_current.lvl + 1
  BY DEF QElem
<1>3. ASSUME qelem_current.lvl < QUEUE_NUMBER - 1 PROVE e \in QElem
  BY <1>1, <1>3, QueueAssumption DEF QElem, Level
<1>4. \/ Aged(signum, data) = qelem_current
      \/ /\ signum # "SIG_TASK_NEW" /\ data # NULL
         /\ qelem_current.lvl < QUEUE_NUMBER - 1 /\ Aged(signum, data) = e
  BY DEF Aged
<1> HIDE DEF e
<1> QED
  BY <1>2, <1>3, <1>4

\* One call of scheduler() keeps the backs behind their levels, and what it
\* leaves in the queue is what was there, the element of the caller's task and
\* elements at level 0; the one it dispatches it has taken from the queue.
LEMMA SchedulerQueue ==
    ASSUME NEW signum, NEW data, NEW s,
           KernelInv, Reaching(queues),
           signum = "SIG_TASK_NEW" => data \in Task \ Held,
           scheduler(signum, data, s)
    PROVE  /\ Reaching(queues')
           /\ \A x \in Elements(runq') :
                 \/ x.lvl = 0
                 \/ x \in Elements(runq)
                 \/ qelem_current # NULL /\ x = Aged(signum, data)
           /\ qelem_current' = NULL \/ qelem_current' \in Elements(runq)
<1>1. PICK k \in BlockedPrefix(s) :
        /\ \E q1 \in Requeued(Dequeued(queues, k + 1), signum, data) :
           \E q2 \in Fed(q1, signum, data) :
              queues' = MaybeLifted(q2)
        /\ qelem_current' = Poped(k)
  BY Zenon DEF scheduler
<1> DEFINE rest == Dequeued(queues, k + 1)
<1>2. PICK q1 \in Requeued(rest, signum, data) :
        \E q2 \in Fed(q1, signum, data) : queues' = MaybeLifted(q2)
  BY <1>1
<1>3. PICK q2 \in Fed(q1, signum, data) : queues' = MaybeLifted(q2)
  BY <1>2
<1>4. /\ k \in 0 .. Len(runq) /\ k + 1 \in Nat
      /\ queues \in Queue /\ Distinct(queues.list)
      /\ runq \in Seq(QElem) /\ Len(runq) \in Nat /\ DOMAIN runq = 1 .. Len(runq)
      /\ queues.list = runq
  BY DEF BlockedPrefix, KernelInv, KernelTypeOK, OneElement, Queue, Distinct, runq
<1>5. /\ rest \in Queue /\ Distinct(rest.list)
      /\ Datas(rest.list) = {queues.list[i].data : i \in {j \in DOMAIN queues.list : j > k + 1}}
      /\ Reaching(rest) /\ Elements(rest.list) \subseteq Elements(queues.list)
  BY <1>4, DequeuedFacts, DequeuedReaches, Zenon
<1>6. Datas(rest.list) \subseteq InQueue
  BY <1>4, <1>5 DEF InQueue
<1> HIDE DEF rest
<1>7. /\ q1 \in Queue /\ Distinct(q1.list) /\ Reaching(q1)
      /\ Datas(q1.list) \subseteq Held
      /\ \A x \in Elements(q1.list) : \/ x \in Elements(runq)
                                      \/ qelem_current # NULL /\ x = Aged(signum, data)
  <2>1. CASE Saves(signum)
    <3>1. qelem_current \in QElem /\ qelem_current # NULL /\ Current = {qelem_current.data}
      BY <2>1 DEF Saves, KernelInv, KernelTypeOK, Current
    <3> DEFINE e == Aged(signum, data)
    <3>2. e \in QElem /\ e.data = qelem_current.data
      BY <3>1, AgedFacts
    <3>3. q1 \in Enqueued(rest, e)
      BY <2>1, <1>2 DEF Requeued
    <3> HIDE DEF e
    <3>4. e.data \notin Datas(rest.list)
      BY <3>1, <3>2, <1>6 DEF KernelInv, OneElement
    <3>5. /\ q1 \in Queue /\ Distinct(q1.list)
          /\ Datas(q1.list) = Datas(rest.list) \cup {e.data}
      BY <1>5, <3>2, <3>3, <3>4, EnqueuedFacts
    <3>6. Reaching(q1) /\ Elements(q1.list) = Elements(rest.list) \cup {e}
      BY <1>5, <3>2, <3>3, EnqueuedReaches
    <3> QED
      BY <1>4, <1>5, <1>6, <3>1, <3>2, <3>5, <3>6 DEF Held, e
  <2>2. CASE ~Saves(signum)
    <3>1. q1 = rest
      BY <2>2, <1>2 DEF Requeued
    <3> QED
      BY <3>1, <1>4, <1>5, <1>6 DEF Held
  <2> QED
    BY <2>1, <2>2
<1>8. /\ q2 \in Queue /\ Reaching(q2)
      /\ \A x \in Elements(q2.list) : \/ x.lvl = 0
                                      \/ x \in Elements(runq)
                                      \/ qelem_current # NULL /\ x = Aged(signum, data)
  <2>1. CASE signum = "SIG_TASK_NEW"
    <3> DEFINE e == [data |-> data, lvl |-> 0]
    <3>1. e \in QElem /\ e.data = data /\ e.lvl = 0
      BY <2>1, QueueAssumption DEF QElem, Level
    <3>2. q2 \in Enqueued(q1, e)
      BY <2>1, <1>3 DEF Fed
    <3>3. e.data \notin Datas(q1.list)
      BY <2>1, <3>1, <1>7
    <3> HIDE DEF e
    <3>4. q2 \in Queue
      BY <3>1, <3>2, <3>3, <1>7, EnqueuedFacts
    <3>5. Reaching(q2) /\ Elements(q2.list) = Elements(q1.list) \cup {e}
      BY <3>1, <3>2, <1>7, EnqueuedReaches
    <3> QED
      BY <3>1, <3>4, <3>5, <1>7
  <2>2. CASE signum # "SIG_TASK_NEW"
    <3>1. q2 = q1
      BY <2>2, <1>3 DEF Fed
    <3> QED
      BY <3>1, <1>7
  <2> QED
    BY <2>1, <2>2
<1>9. /\ Reaching(queues')
      /\ \A x \in Elements(queues'.list) :
            \/ x.lvl = 0
            \/ x \in Elements(runq)
            \/ qelem_current # NULL /\ x = Aged(signum, data)
  <2>1. CASE lift_expired
    <3>1. queues' = Lifted(q2)
      BY <2>1, <1>3 DEF MaybeLifted
    <3> QED
      BY <3>1, <1>8, LiftedReaches
  <2>2. CASE ~lift_expired
    <3>1. queues' = q2
      BY <2>2, <1>3 DEF MaybeLifted
    <3> QED
      BY <3>1, <1>8
  <2> QED
    BY <2>1, <2>2
<1>10. qelem_current' = NULL \/ qelem_current' \in Elements(runq)
  <2>1. CASE k = Len(runq)
    BY <1>1, <2>1 DEF Poped
  <2>2. CASE k # Len(runq)
    <3> DEFINE n == Len(runq)
    <3>1. n \in Nat /\ k \in 0 .. n /\ k # n
      BY <1>4, <2>2
    <3>2. Poped(k) = runq[k + 1]
      BY <2>2, Zenon DEF Poped
    <3> HIDE DEF n
    <3>3. k + 1 \in 1 .. n
      BY <3>1
    <3> QED
      BY <1>1, <1>4, <3>2, <3>3 DEF Elements, n
  <2> QED
    BY <2>1, <2>2
<1> QED
  BY <1>9, <1>10 DEF runq
=============================================================================
