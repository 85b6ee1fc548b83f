---------------------------- MODULE PQueueProofs ----------------------------
(***************************************************************************)
(* pqueue.c for any heap and any number of levels.  The pointers always    *)
(* form one list L of N nodes (Linked), size counts its levels (Counted)   *)
(* and the back of a level in use stands behind all nodes of the level     *)
(* (BacksIn); a popped node's next is NULL, which queue_insert relies on:  *)
(* ListInv.  From it follow the four invariants of PQueue, and that every  *)
(* operation changes the list as RunQueueOps says.                         *)
(*                                                                         *)
(* The walks (Reached) and the sum of the sizes (SizeSum) are recursive    *)
(* functions.  That each equals a closed form is shown with LeastNumber:   *)
(* the set of arguments where they differ has no least member.             *)
(***************************************************************************)
EXTENDS PQueue, FiniteSetTheorems, SequenceTheorems, TLAPS

\* Every set of natural numbers that is not empty has a least member.
LEMMA LeastNumber ==
    ASSUME NEW T \in SUBSET Nat, T # {}
    PROVE  \E m \in T : \A k \in T : m =< k
<1>1. PICK x \in T : \A y \in T : ~ (<<y, x>> \in OpToRel(<, Nat))
  BY NatLessThanWellFounded, WFMin
<1>2. \A y \in T : ~ (y < x)
  BY <1>1 DEF OpToRel
<1> QED
  BY <1>2

\* The nodes L[1], ..., L[N], one behind the other, are the queue.
Linked(N, L) ==
    /\ N \in Nat /\ N = Cardinality(queued)
    /\ L \in [1 .. N -> Node]
    /\ \A i, j \in 1 .. N : L[i] = L[j] => i = j
    /\ \A i \in 1 .. N : L[i] \in queued
    /\ \A n \in queued : \E i \in 1 .. N : L[i] = n
    /\ front = IF N = 0 THEN NULL ELSE L[1]
    /\ \A i \in 1 .. N : next[L[i]] = IF i = N THEN NULL ELSE L[i + 1]

\* The back of a level with elements stands behind all of them.
BacksIn(N, L) ==
    \A l \in Level : size[l] # 0 =>
        \E j \in 1 .. N :
            /\ backs[l] = L[j]
            /\ \A i \in 1 .. N : lvl[L[i]] = l => i =< j

\* The level l in the queue, found by level alone.
AtLevel(l) == {n \in queued : lvl[n] = l}

\* size counts the nodes of each level.
Counted == \A l \in Level : size[l] = Cardinality(AtLevel(l))

\* What k steps from the front lead to in such a list.
LEMMA ReachedOf ==
    ASSUME NEW N \in Nat, NEW L, Linked(N, L)
    PROVE  \A k \in Nat : Reached[k] = IF k < N THEN {L[k + 1]} ELSE {}
<1> DEFINE S(f) == [k \in Nat |->
                      IF k = 0 THEN {front} \ {NULL}
                      ELSE {next[n] : n \in f[k - 1]} \ {NULL}]
           G == [k \in Nat |-> IF k < N THEN {L[k + 1]} ELSE {}]
<1>1. G = S(G)
  <2> SUFFICES ASSUME NEW k \in Nat
               PROVE  G[k] = IF k = 0 THEN {front} \ {NULL}
                             ELSE {next[n] : n \in G[k - 1]} \ {NULL}
    BY Zenon
  <2>1. CASE k = 0
    BY <2>1, HeapAssumption DEF Linked
  <2>2. CASE k # 0 /\ k - 1 < N
    <3>1. G[k - 1] = {L[k]} /\ k \in 1 .. N
      BY <2>2
    <3>2. {next[n] : n \in G[k - 1]} = {next[L[k]]}
      BY <3>1
    <3> QED
      BY <3>1, <3>2, <2>2, HeapAssumption DEF Linked
  <2>3. CASE k # 0 /\ ~(k - 1 < N)
    <3>1. G[k - 1] = {} /\ ~(k < N)
      BY <2>3
    <3> QED
      BY <3>1, <2>3
  <2> QED
    BY <2>1, <2>2, <2>3
<1>2. Reached = S(Reached)
  <2>1. \E f : f = S(f)
    BY <1>1
  <2> QED
    BY <2>1, Zenon DEF Reached
<1>3. \A k \in Nat : Reached[k] = G[k]
  <2> DEFINE T == {k \in Nat : Reached[k] # G[k]}
  <2>1. T \in SUBSET Nat
    OBVIOUS
  <2>2. ASSUME T # {}
        PROVE  FALSE
    <3>1. PICK m \in T : \A k \in T : m =< k
      <4> HIDE DEF T
      <4> QED
        BY <2>1, <2>2, LeastNumber
    <3>2. m \in Nat /\ Reached[m] # G[m]
      BY <3>1
    <3>3. m # 0
      <4>1. Reached[0] = {front} \ {NULL} /\ G[0] = {front} \ {NULL}
        BY <1>1, <1>2, Zenon
      <4> QED
        BY <3>2, <4>1
    <3>4. m - 1 \in Nat /\ m - 1 \notin T
      <4>1. m - 1 \in Nat /\ ~(m =< m - 1)
        BY <3>2, <3>3
      <4> QED
        BY <3>1, <4>1
    <3>5. Reached[m - 1] = G[m - 1]
      BY <3>4
    <3>6. Reached[m] = {next[n] : n \in Reached[m - 1]} \ {NULL}
      BY <1>2, <3>2, <3>3
    <3>7. G[m] = {next[n] : n \in G[m - 1]} \ {NULL}
      BY <1>1, <3>2, <3>3
    <3> QED
      BY <3>2, <3>5, <3>6, <3>7
  <2> QED
    BY <2>2
<1> QED
  BY <1>3

\* The walk from the front meets every queued node, and ends.
LEMMA ChainOf ==
    ASSUME TypeOK, NEW N \in Nat, NEW L, Linked(N, L)
    PROVE  /\ Chain = queued
           /\ Reached[Cardinality(Node)] = {}
           /\ N =< Cardinality(Node)
           /\ Cardinality(Node) \in Nat
<1>1. Cardinality(Node) \in Nat /\ N =< Cardinality(Node)
  <2>1. IsFiniteSet(Node) /\ queued \in SUBSET Node
    BY HeapAssumption DEF TypeOK
  <2>2. Cardinality(Node) \in Nat
    BY <2>1, FS_CardinalityType
  <2>3. Cardinality(queued) =< Cardinality(Node)
    BY <2>1, FS_Subset
  <2> QED
    BY <2>2, <2>3 DEF Linked
<1>2. Reached[Cardinality(Node)] = {}
  <2> DEFINE c == Cardinality(Node)
  <2>1. c \in Nat /\ ~(c < N)
    BY <1>1
  <2>2. Reached[c] = IF c < N THEN {L[c + 1]} ELSE {}
    <3> HIDE DEF c
    <3> QED
      BY <2>1, ReachedOf
  <2> QED
    BY <2>1, <2>2
<1>3. \A n : n \in Chain <=> \E k \in 0 .. Cardinality(Node) : n \in Reached[k]
  BY DEF Chain
<1>4. ASSUME NEW n \in Chain
      PROVE  n \in queued
  <2>1. PICK k \in 0 .. Cardinality(Node) : n \in Reached[k]
    BY <1>3
  <2>2. k \in Nat /\ k < N /\ n = L[k + 1]
    <3>1. k \in Nat
      BY <1>1
    <3>2. Reached[k] = IF k < N THEN {L[k + 1]} ELSE {}
      BY <3>1, ReachedOf
    <3> QED
      BY <2>1, <3>1, <3>2
  <2> QED
    BY <2>2 DEF Linked
<1>5. ASSUME NEW n \in queued
      PROVE  n \in Chain
  <2>1. PICK i \in 1 .. N : L[i] = n
    BY DEF Linked
  <2>2. i - 1 \in Nat /\ i - 1 \in 0 .. Cardinality(Node) /\ i - 1 < N /\ (i - 1) + 1 = i
    BY <1>1
  <2>3. Reached[i - 1] = {L[i]}
    <3>1. Reached[i - 1] = IF i - 1 < N THEN {L[(i - 1) + 1]} ELSE {}
      BY <2>2, ReachedOf
    <3> QED
      BY <3>1, <2>2
  <2> QED
    BY <1>3, <2>1, <2>2, <2>3
<1> QED
  BY <1>1, <1>2, <1>4, <1>5

-----------------------------------------------------------------------------
\* The list L with n behind its first j nodes.
Placed(N, L, j, n) ==
    [i \in 1 .. N + 1 |-> IF i =< j THEN L[i] ELSE IF i = j + 1 THEN n ELSE L[i - 1]]

\* What that list holds where.
IsPlaced(N, L, j, n, M) ==
    /\ M \in [1 .. N + 1 -> Node]
    /\ j + 1 \in 1 .. N + 1 /\ M[j + 1] = n
    /\ \A i \in 1 .. N : i =< j => i \in 1 .. N + 1 /\ M[i] = L[i]
    /\ \A i \in 1 .. N : ~(i =< j) => i + 1 \in 1 .. N + 1 /\ M[i + 1] = L[i]
    /\ \A i \in 1 .. N + 1 :
          \/ i =< j /\ i \in 1 .. N /\ M[i] = L[i]
          \/ i = j + 1 /\ M[i] = n
          \/ i > j + 1 /\ i - 1 \in 1 .. N /\ M[i] = L[i - 1]

\* Every place of the new list is one of three: before the newcomer, its own,
\* behind it.
LEMMA PlacedFacts ==
    ASSUME NEW N \in Nat, NEW L \in [1 .. N -> Node], NEW j \in 0 .. N, NEW n \in Node
    PROVE  IsPlaced(N, L, j, n, Placed(N, L, j, n))
<1> DEFINE M == Placed(N, L, j, n)
<1>1. M = [i \in 1 .. N + 1 |-> IF i =< j THEN L[i] ELSE IF i = j + 1 THEN n ELSE L[i - 1]]
  BY DEF Placed
<1>2. j \in Nat /\ j =< N /\ j + 1 \in 1 .. N + 1
  OBVIOUS
<1>3. \A i \in 1 .. N + 1 :
         \/ i =< j /\ i \in 1 .. N /\ M[i] = L[i]
         \/ i = j + 1 /\ M[i] = n
         \/ i > j + 1 /\ i - 1 \in 1 .. N /\ M[i] = L[i - 1]
  <2> HIDE DEF M
  <2> QED
    BY <1>1, <1>2
<1>4. M \in [1 .. N + 1 -> Node]
  <2>1. \A i \in 1 .. N + 1 : M[i] \in Node
    <3> HIDE DEF M
    <3> QED
      BY <1>3
  <2>2. M = [i \in 1 .. N + 1 |-> M[i]]
    BY <1>1, Zenon
  <2> HIDE DEF M
  <2> QED
    BY <2>1, <2>2
<1>5. \A i \in 1 .. N : ~(i =< j) => i + 1 \in 1 .. N + 1 /\ (i + 1) - 1 = i /\ i + 1 > j + 1
  BY <1>2
<1>6. \A i \in 1 .. N : ~(i =< j) => i + 1 \in 1 .. N + 1 /\ M[i + 1] = L[i]
  <2> SUFFICES ASSUME NEW i \in 1 .. N, ~(i =< j)
               PROVE  i + 1 \in 1 .. N + 1 /\ M[i + 1] = L[i]
    OBVIOUS
  <2> DEFINE k == i + 1
  <2>1. k \in 1 .. N + 1 /\ k - 1 = i /\ k > j + 1 /\ ~(k =< j) /\ k # j + 1
    BY <1>2
  <2>2. M[k] = L[k - 1]
    <3> HIDE DEF M, k
    <3> QED
      BY <1>3, <2>1
  <2> QED
    BY <2>1, <2>2
<1>7. \A i \in 1 .. N : i =< j => i \in 1 .. N + 1 /\ M[i] = L[i]
  <2> HIDE DEF M
  <2> QED
    BY <1>1, <1>2
<1>8. M[j + 1] = n
  <2> HIDE DEF M
  <2> QED
    BY <1>1, <1>2
<1> QED
  BY <1>2, <1>3, <1>4, <1>6, <1>7, <1>8 DEF IsPlaced

\* A node linked behind the j-th, or in front of all.
Entering(N, L, j, n) ==
    /\ front' = IF j = 0 THEN n ELSE front
    /\ next' = IF j = 0 THEN [next EXCEPT ![n] = front]
               ELSE [next EXCEPT ![n] = next[L[j]], ![L[j]] = n]
    /\ queued' = queued \cup {n}

\* Two assignments to next and one to front make the chain of the longer list.
LEMMA EnteringLinked ==
    ASSUME TypeOK, NEW N \in Nat, NEW L, Linked(N, L),
           NEW j \in 0 .. N, NEW n \in Node \ queued, Entering(N, L, j, n)
    PROVE  Linked(N + 1, Placed(N, L, j, n))'
<1> DEFINE M == Placed(N, L, j, n)
<1>1. L \in [1 .. N -> Node] /\ n \in Node /\ j \in 0 .. N
  BY DEF Linked
<1>2. IsPlaced(N, L, j, n, M)
  BY <1>1, PlacedFacts
<1> HIDE DEF M
<1> USE DEF Linked, IsPlaced
<1>3. N + 1 \in Nat /\ N + 1 = Cardinality(queued')
  <2>1. IsFiniteSet(queued)
    BY HeapAssumption, FS_Subset DEF TypeOK
  <2>2. Cardinality(queued \cup {n}) = Cardinality(queued) + 1
    BY <2>1, FS_AddElement
  <2> QED
    BY <2>2 DEF Entering
<1>4. \A a, b \in 1 .. N + 1 : M[a] = M[b] => a = b
  <2>1. \A i \in 1 .. N : L[i] # n
    OBVIOUS
  <2> SUFFICES ASSUME NEW a \in 1 .. N + 1, NEW b \in 1 .. N + 1, M[a] = M[b]
               PROVE  a = b
    OBVIOUS
  <2>2. \/ a =< j /\ a \in 1 .. N /\ M[a] = L[a]
        \/ a = j + 1 /\ M[a] = n
        \/ a > j + 1 /\ a - 1 \in 1 .. N /\ M[a] = L[a - 1]
    BY <1>2
  <2>3. \/ b =< j /\ b \in 1 .. N /\ M[b] = L[b]
        \/ b = j + 1 /\ M[b] = n
        \/ b > j + 1 /\ b - 1 \in 1 .. N /\ M[b] = L[b - 1]
    BY <1>2
  <2>4. a \in Int /\ b \in Int
    OBVIOUS
  <2>5. \A x, y \in 1 .. N : L[x] = L[y] => x = y
    OBVIOUS
  <2>6. CASE a =< j /\ a \in 1 .. N /\ M[a] = L[a]
    <3>1. CASE b =< j /\ b \in 1 .. N /\ M[b] = L[b]
      BY <2>5, <2>6, <3>1
    <3>2. CASE b = j + 1 /\ M[b] = n
      BY <2>1, <2>6, <3>2
    <3>3. CASE b > j + 1 /\ b - 1 \in 1 .. N /\ M[b] = L[b - 1]
      <4>1. a = b - 1
        BY <2>5, <2>6, <3>3
      <4> QED
        BY <4>1, <2>4, <2>6, <3>3
    <3> QED
      BY <2>3, <3>1, <3>2, <3>3
  <2>7. CASE a = j + 1 /\ M[a] = n
    BY <2>1, <2>3, <2>7
  <2>8. CASE a > j + 1 /\ a - 1 \in 1 .. N /\ M[a] = L[a - 1]
    <3>1. CASE b =< j /\ b \in 1 .. N /\ M[b] = L[b]
      <4>1. b = a - 1
        BY <2>5, <2>8, <3>1
      <4> QED
        BY <4>1, <2>4, <2>8, <3>1
    <3>2. CASE b = j + 1 /\ M[b] = n
      BY <2>1, <2>8, <3>2
    <3>3. CASE b > j + 1 /\ b - 1 \in 1 .. N /\ M[b] = L[b - 1]
      <4>1. a - 1 = b - 1
        BY <2>5, <2>8, <3>3
      <4> QED
        BY <4>1, <2>4
    <3> QED
      BY <2>3, <3>1, <3>2, <3>3
  <2> QED
    BY <2>2, <2>6, <2>7, <2>8
<1>5. \A i \in 1 .. N + 1 : M[i] \in queued'
  BY <1>2 DEF Entering
<1>6. \A m \in queued' : \E i \in 1 .. N + 1 : M[i] = m
  <2> SUFFICES ASSUME NEW m \in queued'
               PROVE  \E i \in 1 .. N + 1 : M[i] = m
    OBVIOUS
  <2>1. CASE m = n
    BY <1>2, <2>1
  <2>2. CASE m \in queued
    <3>1. PICK i \in 1 .. N : L[i] = m
      BY <2>2
    <3> QED
      BY <1>2, <3>1
  <2> QED
    BY <2>1, <2>2 DEF Entering
<1>7. front' = IF N + 1 = 0 THEN NULL ELSE M[1]
  <2>1. CASE j = 0
    BY <1>2, <2>1 DEF Entering
  <2>2. CASE j # 0
    <3>1. 1 \in 1 .. N /\ 1 =< j
      BY <2>2
    <3>2. M[1] = L[1]
      BY <1>2, <3>1
    <3> QED
      BY <2>2, <3>1, <3>2 DEF Entering
  <2> QED
    BY <2>1, <2>2
<1>8. \A i \in 1 .. N + 1 : next'[M[i]] = IF i = N + 1 THEN NULL ELSE M[i + 1]
  <2>1. /\ next \in [Node -> Node \cup {NULL}] /\ n \in Node
        /\ \A i \in 1 .. N : L[i] \in Node /\ L[i] # n
    BY DEF TypeOK
  <2> SUFFICES ASSUME NEW i \in 1 .. N + 1
               PROVE  next'[M[i]] = IF i = N + 1 THEN NULL ELSE M[i + 1]
    OBVIOUS
  <2>2. i \in Nat /\ j \in Nat /\ j =< N
    OBVIOUS
  <2>3. \A a \in 1 .. N : a # j => next'[L[a]] = next[L[a]]
    <3> SUFFICES ASSUME NEW a \in 1 .. N, a # j
                 PROVE  next'[L[a]] = next[L[a]]
      OBVIOUS
    <3>1. j # 0 => j \in 1 .. N /\ L[a] # L[j]
      BY <2>2
    <3> QED
      BY <2>1, <3>1 DEF Entering
  <2>4. CASE i =< j /\ i \in 1 .. N /\ M[i] = L[i]
    <3>1. CASE i = j
      <4>1. next'[L[j]] = n
        BY <2>1, <2>4, <3>1 DEF Entering
      <4>2. i # N + 1 /\ M[i + 1] = n
        BY <1>2, <2>4, <3>1
      <4> QED
        BY <2>4, <3>1, <4>1, <4>2
    <3>2. CASE i # j
      <4>1. i + 1 \in 1 .. N /\ i + 1 =< j /\ i # N + 1 /\ i # N
        BY <2>2, <2>4, <3>2
      <4>2. next'[L[i]] = L[i + 1]
        BY <2>3, <2>4, <3>2, <4>1
      <4>3. M[i + 1] = L[i + 1]
        BY <1>2, <4>1
      <4> QED
        BY <2>4, <4>1, <4>2, <4>3
    <3> QED
      BY <3>1, <3>2
  <2>5. CASE i = j + 1 /\ M[i] = n
    <3>1. CASE j = 0
      <4>1. next'[n] = front
        BY <2>1, <3>1 DEF Entering
      <4>2. CASE N = 0
        BY <2>5, <3>1, <4>1, <4>2
      <4>3. CASE N # 0
        <5>1. 1 \in 1 .. N /\ ~(1 =< j) /\ i = 1 /\ i # N + 1
          BY <2>5, <3>1, <4>3
        <5>2. M[1 + 1] = L[1]
          BY <1>2, <5>1
        <5> QED
          BY <2>5, <4>1, <4>3, <5>1, <5>2
      <4> QED
        BY <4>2, <4>3
    <3>2. CASE j # 0
      <4>1. next'[n] = next[L[j]] /\ j \in 1 .. N
        BY <2>1, <2>2, <3>2 DEF Entering
      <4>2. CASE j = N
        BY <2>5, <4>1, <4>2
      <4>3. CASE j # N
        <5>1. j + 1 \in 1 .. N /\ ~(j + 1 =< j) /\ i # N + 1
          BY <2>2, <2>5, <4>1, <4>3
        <5>2. M[(j + 1) + 1] = L[j + 1]
          BY <1>2, <5>1
        <5>3. next[L[j]] = L[j + 1]
          BY <4>1, <4>3
        <5> QED
          BY <2>5, <4>1, <5>1, <5>2, <5>3
      <4> QED
        BY <4>2, <4>3
    <3> QED
      BY <3>1, <3>2
  <2>6. CASE i > j + 1 /\ i - 1 \in 1 .. N /\ M[i] = L[i - 1]
    <3> DEFINE a == i - 1
    <3>1. a \in 1 .. N /\ a # j /\ a + 1 = i /\ (a = N <=> i = N + 1) /\ ~(a =< j)
      BY <2>2, <2>6, SMTT(30)
    <3>2. next'[L[a]] = IF a = N THEN NULL ELSE L[a + 1]
      <4> HIDE DEF a
      <4> QED
        BY <2>3, <3>1
    <3>3. i # N + 1 => i \in 1 .. N /\ ~(i =< j)
      <4> HIDE DEF Linked, a
      <4>1. i >= 1 /\ i =< N + 1 /\ N \in Nat
        OBVIOUS
      <4> QED
        BY <4>1, <2>2, <2>6
    <3>4. i # N + 1 => M[i + 1] = L[i]
      BY <1>2, <3>3
    <3> QED
      BY <2>6, <3>1, <3>2, <3>4
  <2> QED
    BY <1>2, <2>4, <2>5, <2>6
<1> HIDE DEF Linked
<1>9. Linked(N + 1, M)'
  BY <1>2, <1>3, <1>4, <1>5, <1>6, <1>7, <1>8 DEF Linked
<1> QED
  BY <1>9 DEF M

\* Its level l, the count of l and the backs of the levels S.
Leveling(n, l, S) ==
    /\ lvl' = [lvl EXCEPT ![n] = l]
    /\ size' = [size EXCEPT ![l] = @ + 1]
    /\ backs' = [k \in Level |-> IF k \in S THEN n ELSE backs[k]]

\* Backs that stood behind all of their level still do, and the newcomer does
\* for the levels it becomes the back of.
LEMMA EnteringBacks ==
    ASSUME TypeOK, NEW N \in Nat, NEW L, Linked(N, L), BacksIn(N, L),
           NEW j \in 0 .. N, NEW n \in Node \ queued,
           NEW l \in Level, NEW S, l \in S, Leveling(n, l, S),
           \A i \in 1 .. N : lvl[L[i]] \in S => i =< j
    PROVE  BacksIn(N + 1, Placed(N, L, j, n))'
<1> DEFINE M == Placed(N, L, j, n)
<1>1. /\ L \in [1 .. N -> Node] /\ n \in Node /\ \A i \in 1 .. N : L[i] # n
      /\ j \in Nat
  BY DEF Linked
<1>2. IsPlaced(N, L, j, n, M)
  BY <1>1, PlacedFacts
<1> HIDE DEF M
<1>3. /\ lvl'[n] = l
      /\ \A i \in 1 .. N : lvl'[L[i]] = lvl[L[i]]
  BY <1>1 DEF Leveling, TypeOK
<1> SUFFICES ASSUME NEW k \in Level, size'[k] # 0
             PROVE  \E p \in 1 .. N + 1 :
                       /\ backs'[k] = M[p]
                       /\ \A i \in 1 .. N + 1 : lvl'[M[i]] = k => i =< p
  BY Zenon DEF BacksIn, M, Level
<1>4. CASE k \in S
  <2>1. j + 1 \in 1 .. N + 1 /\ backs'[k] = M[j + 1]
    BY <1>2, <1>4 DEF IsPlaced, Leveling
  <2>2. ASSUME NEW i \in 1 .. N + 1, lvl'[M[i]] = k
        PROVE  i =< j + 1
    <3>1. CASE i =< j
      BY <1>1, <3>1
    <3>2. CASE i = j + 1
      BY <1>1, <3>2
    <3>3. CASE i > j + 1 /\ i - 1 \in 1 .. N /\ M[i] = L[i - 1]
      <4>1. lvl[L[i - 1]] \in S
        BY <1>3, <1>4, <2>2, <3>3
      <4>2. i - 1 =< j
        BY <3>3, <4>1
      <4> QED
        BY <1>1, <4>2
    <3> QED
      BY <1>2, <3>1, <3>2, <3>3 DEF IsPlaced
  <2> QED
    BY <2>1, <2>2
<1>5. CASE k \notin S
  <2>1. k # l /\ size[k] # 0 /\ backs'[k] = backs[k]
    BY <1>5 DEF Leveling, TypeOK
  <2>2. PICK p \in 1 .. N : backs[k] = L[p] /\ \A i \in 1 .. N : lvl[L[i]] = k => i =< p
    BY <2>1 DEF BacksIn
  <2>3. ASSUME NEW i \in 1 .. N + 1, lvl'[M[i]] = k
        PROVE  \/ i =< j /\ i \in 1 .. N /\ i =< p
               \/ i > j + 1 /\ i - 1 \in 1 .. N /\ i - 1 =< p
    <3>1. CASE i =< j /\ i \in 1 .. N /\ M[i] = L[i]
      BY <1>3, <2>2, <2>3, <3>1
    <3>2. CASE i = j + 1 /\ M[i] = n
      BY <1>3, <2>1, <2>3, <3>2
    <3>3. CASE i > j + 1 /\ i - 1 \in 1 .. N /\ M[i] = L[i - 1]
      <4>1. lvl[L[i - 1]] = k
        BY <1>3, <2>3, <3>3
      <4> QED
        BY <2>2, <3>3, <4>1
    <3> QED
      BY <1>2, <3>1, <3>2, <3>3 DEF IsPlaced
  <2>4. CASE p =< j
    <3>1. p \in 1 .. N + 1 /\ M[p] = L[p]
      BY <1>2, <2>4 DEF IsPlaced
    <3>2. \A i \in 1 .. N + 1 : lvl'[M[i]] = k => i =< p
      BY <1>1, <2>3, <2>4
    <3> QED
      BY <2>1, <2>2, <3>1, <3>2
  <2>5. CASE ~(p =< j)
    <3>1. p + 1 \in 1 .. N + 1 /\ M[p + 1] = L[p]
      BY <1>2, <2>5 DEF IsPlaced
    <3>2. \A i \in 1 .. N + 1 : lvl'[M[i]] = k => i =< p + 1
      BY <1>1, <2>3, <2>5
    <3> QED
      BY <2>1, <2>2, <3>1, <3>2
  <2> QED
    BY <2>4, <2>5
<1> QED
  BY <1>4, <1>5

\* Only the count of the level entered changes, by one.
LEMMA EnteringCounted ==
    ASSUME TypeOK, Counted, NEW n \in Node \ queued, NEW l \in Level, NEW S,
           Leveling(n, l, S), queued' = queued \cup {n}
    PROVE  Counted'
<1>1. /\ lvl'[n] = l /\ \A m \in queued : lvl'[m] = lvl[m]
      /\ size'[l] = size[l] + 1 /\ \A k \in Level : k # l => size'[k] = size[k]
  BY DEF Leveling, TypeOK
<1>2. IsFiniteSet(queued) /\ \A k : AtLevel(k) \in SUBSET queued
  BY HeapAssumption, FS_Subset DEF TypeOK, AtLevel
<1>3. AtLevel(l)' = AtLevel(l) \cup {n} /\ n \notin AtLevel(l)
  BY <1>1 DEF AtLevel
<1>4. \A k \in Level : k # l => AtLevel(k)' = AtLevel(k)
  BY <1>1 DEF AtLevel
<1>5. Cardinality(AtLevel(l) \cup {n}) = Cardinality(AtLevel(l)) + 1
  <2>1. IsFiniteSet(AtLevel(l))
    BY <1>2, FS_Subset
  <2> QED
    BY <1>3, <2>1, FS_AddElement
<1>6. \A k \in Level : size'[k] = Cardinality(AtLevel(k)')
  BY <1>1, <1>3, <1>4, <1>5 DEF Counted
<1> QED
  BY <1>6, Zenon DEF Counted, Level

\* A list the queue's pointers stand for.
IsList(N, L) ==
    Linked(N, L) /\ BacksIn(N, L)

\* There is such a list.
Listed == \E N \in Nat : \E L \in [1 .. N -> Node] : IsList(N, L)

\* queue_new_node and queue_insert: whatever the place found, behind all the
\* nodes of the levels whose back changes, the queue stays a list.
LEMMA EnteringKeeps ==
    ASSUME TypeOK, Counted, NEW N \in Nat, NEW L, IsList(N, L),
           NEW j \in 0 .. N, NEW n \in Node \ queued,
           NEW l \in Level, NEW S, l \in S,
           \A i \in 1 .. N : lvl[L[i]] \in S => i =< j,
           Entering(N, L, j, n), Leveling(n, l, S)
    PROVE  /\ Counted' /\ Listed'
           /\ IsList(N + 1, Placed(N, L, j, n))'
           /\ Placed(N, L, j, n) \in [1 .. N + 1 -> Node]
<1> DEFINE M == Placed(N, L, j, n)
<1>1. Linked(N, L) /\ BacksIn(N, L)
  BY DEF IsList
<1>2. Counted'
  BY EnteringCounted DEF Entering
<1>3. Linked(N + 1, M)'
  BY <1>1, EnteringLinked
<1>4. BacksIn(N + 1, M)'
  BY <1>1, EnteringBacks
<1>5. N + 1 \in Nat /\ M \in [1 .. N + 1 -> Node]
  BY <1>3 DEF Linked
<1> HIDE DEF M
<1>6. IsList(N + 1, M)'
  BY <1>3, <1>4 DEF IsList
<1>7. Listed'
  BY <1>5, <1>6 DEF Listed
<1> QED
  BY <1>2, <1>5, <1>6, <1>7 DEF M

-----------------------------------------------------------------------------
\* size tells whether a level has a node in the list.
LEMMA SizeTells ==
    ASSUME TypeOK, Counted, NEW N \in Nat, NEW L, IsList(N, L), NEW l \in Level
    PROVE  /\ size[l] \in Nat
           /\ size[l] # 0 <=> \E i \in 1 .. N : lvl[L[i]] = l
<1>1. IsFiniteSet(AtLevel(l))
  <2>1. AtLevel(l) \in SUBSET queued /\ queued \in SUBSET Node
    BY DEF TypeOK, AtLevel
  <2>2. AtLevel(l) \in SUBSET Node
    BY <2>1
  <2> QED
    BY <2>2, HeapAssumption, FS_Subset
<1>2. size[l] # 0 <=> AtLevel(l) # {}
  BY <1>1, FS_EmptySet DEF Counted
<1>3. AtLevel(l) # {} <=> \E i \in 1 .. N : lvl[L[i]] = l
  BY DEF AtLevel, IsList, Linked
<1>4. size[l] \in Nat
  BY DEF TypeOK
<1> QED
  BY <1>2, <1>3, <1>4

\* The place where n enters at level l, and the levels whose back it becomes.
Place(N, L, j, l, S) ==
    \/ size[l] # 0 /\ S = {l} /\ j \in 1 .. N /\ backs[l] = L[j]
    \/ size[l] = 0 /\ (front = NULL \/ lvl[front] > l) /\ S = {l} /\ j = 0
    \/ /\ size[l] = 0 /\ front # NULL /\ lvl[front] =< l
       /\ \E i \in NearestLevel(l) : S = {l, i} /\ j \in 1 .. N /\ backs[i] = L[j]

\* Wherever queue_insert finds its place, no node of a level whose back changes
\* stands behind it.
LEMMA PlaceIsBehind ==
    ASSUME TypeOK, Counted, NEW N \in Nat, NEW L, IsList(N, L), NEW l \in Level,
           NEW j \in 0 .. N, NEW S, Place(N, L, j, l, S)
    PROVE  l \in S /\ \A i \in 1 .. N : lvl[L[i]] \in S => i =< j
<1>1. ASSUME NEW k \in Level, size[k] # 0, j \in 1 .. N, backs[k] = L[j]
      PROVE  \A i \in 1 .. N : lvl[L[i]] = k => i =< j
  <2>1. PICK p \in 1 .. N : backs[k] = L[p] /\ \A i \in 1 .. N : lvl[L[i]] = k => i =< p
    BY <1>1 DEF IsList, BacksIn
  <2>2. p = j
    BY <1>1, <2>1 DEF IsList, Linked
  <2> QED
    BY <2>1, <2>2
<1>2. size[l] = 0 => \A i \in 1 .. N : lvl[L[i]] # l
  BY SizeTells
<1>3. CASE size[l] # 0 /\ S = {l} /\ j \in 1 .. N /\ backs[l] = L[j]
  BY <1>1, <1>3
<1>4. CASE size[l] = 0 /\ S = {l}
  BY <1>2, <1>4
<1>5. ASSUME size[l] = 0, NEW i \in NearestLevel(l), S = {l, i}, j \in 1 .. N, backs[i] = L[j]
      PROVE  l \in S /\ \A x \in 1 .. N : lvl[L[x]] \in S => x =< j
  <2>1. i \in Level /\ size[i] # 0
    BY LevelsAssumption DEF NearestLevel, Level
  <2> QED
    BY <1>1, <1>2, <1>5, <2>1
<1> QED
  BY <1>3, <1>4, <1>5 DEF Place

\* The loop of line 64 finds a neighbour whenever the front is of a better
\* level.
LEMMA NeighbourFound ==
    ASSUME TypeOK, Counted, NEW N \in Nat, NEW L, IsList(N, L), NEW l \in Level,
           size[l] = 0, front # NULL, lvl[front] =< l
    PROVE  NearestLevel(l) # {}
<1>1. N # 0 /\ front = L[1] /\ 1 \in 1 .. N
  BY DEF IsList, Linked
<1>2. lvl[front] \in Level /\ size[lvl[front]] # 0
  <2>1. front \in Node
    BY DEF TypeOK
  <2>2. lvl[front] \in Level
    BY <2>1 DEF TypeOK
  <2> QED
    BY <1>1, <2>2, SizeTells
<1>3. l \in Nat /\ lvl[front] \in Nat /\ lvl[front] < l
  <2>1. lvl[front] # l
    BY <1>2
  <2> QED
    BY <1>2, <2>1, LevelsAssumption DEF Level
<1> DEFINE T == {d \in Nat : d < l /\ size[l - 1 - d] # 0}
<1>4. l - 1 - lvl[front] \in T
  <2>1. l - 1 - lvl[front] \in Nat /\ l - 1 - lvl[front] < l
        /\ l - 1 - (l - 1 - lvl[front]) = lvl[front]
    BY <1>3
  <2> QED
    BY <1>2, <2>1
<1>5. PICK m \in T : \A k \in T : m =< k
  <2>1. T \in SUBSET Nat /\ T # {}
    BY <1>4
  <2> HIDE DEF T
  <2> QED
    BY <2>1, LeastNumber
<1> DEFINE i == l - 1 - m
<1>6. i \in 0 .. (l - 1) /\ size[i] # 0
  BY <1>3, <1>5
<1>7. ASSUME NEW j \in (i + 1) .. (l - 1)
      PROVE  size[j] = 0
  <2>1. /\ l - 1 - j \in Nat /\ l - 1 - j < l /\ l - 1 - (l - 1 - j) = j
        /\ ~(m =< l - 1 - j)
    BY <1>3, <1>5
  <2>2. l - 1 - j \notin T
    BY <1>5, <2>1
  <2> QED
    BY <2>1, <2>2
<1>8. i \in NearestLevel(l)
  BY <1>6, <1>7 DEF NearestLevel
<1> QED
  BY <1>8

\* What queue_insert does with a node whose next is NULL, and queue_new_node
\* with any.
Links(n, l) ==
    \/ size[l] # 0 /\ LinkBehind(l, n, {l})
    \/ size[l] = 0 /\ (front = NULL \/ lvl[front] > l) /\ LinkFront(n, l)
    \/ /\ size[l] = 0 /\ front # NULL /\ lvl[front] =< l
       /\ IF NearestLevel(l) = {}
          THEN backs' = [backs EXCEPT ![l] = n] /\ UNCHANGED <<front, next>>
          ELSE \E i \in NearestLevel(l) : LinkBehind(i, n, {l, i})

\* queue_pop has left the NULL that ends an empty list.
LEMMA InsertLinksIsLinks ==
    ASSUME TypeOK, NEW n \in Node, NEW l \in Level, next[n] = NULL, InsertLinks(n, l)
    PROVE  Links(n, l)
<1>1. CASE /\ size[l] = 0 /\ front = NULL
           /\ front' = n /\ backs' = [backs EXCEPT ![l] = n] /\ UNCHANGED next
  <2>1. next' = [next EXCEPT ![n] = front]
    BY <1>1 DEF TypeOK
  <2> QED
    BY <1>1, <2>1 DEF Links, LinkFront
<1>2. CASE size[l] = 0 /\ front # NULL /\ lvl[front] > l /\ LinkFront(n, l)
  BY <1>2 DEF Links
<1> QED
  BY <1>1, <1>2, Zenon DEF InsertLinks, Links

\* Each case of queue_insert has a place: the backs it follows are in the list
\* and its search for a neighbour succeeds.
LEMMA InsertFindsPlace ==
    ASSUME TypeOK, Counted, NEW N \in Nat, NEW L, IsList(N, L),
           NEW n \in Node \ queued, NEW l \in Level,
           Links(n, l), queued' = queued \cup {n}
    PROVE  \E j \in 0 .. N : \E S : /\ Place(N, L, j, l, S) /\ Entering(N, L, j, n)
                                    /\ backs' = [k \in Level |-> IF k \in S THEN n ELSE backs[k]]
<1>1. ASSUME NEW k \in Level, size[k] # 0, NEW S, LinkBehind(k, n, S)
      PROVE  \E j \in 1 .. N : /\ backs[k] = L[j] /\ Entering(N, L, j, n)
                               /\ backs' = [x \in Level |-> IF x \in S THEN n ELSE backs[x]]
  <2>1. PICK j \in 1 .. N : backs[k] = L[j]
    BY <1>1 DEF IsList, BacksIn
  <2>2. Entering(N, L, j, n)
    BY <1>1, <2>1 DEF LinkBehind, Entering
  <2> QED
    BY <1>1, <2>1, <2>2 DEF LinkBehind
<1>2. \A j \in 1 .. N : j \in 0 .. N
  OBVIOUS
<1>3. CASE size[l] # 0 /\ LinkBehind(l, n, {l})
  <2>1. PICK j \in 1 .. N : /\ backs[l] = L[j] /\ Entering(N, L, j, n)
                            /\ backs' = [x \in Level |-> IF x \in {l} THEN n ELSE backs[x]]
    BY <1>1, <1>3
  <2>2. Place(N, L, j, l, {l})
    BY <1>3, <2>1 DEF Place
  <2> QED
    BY <1>2, <2>1, <2>2
<1>4. CASE size[l] = 0 /\ (front = NULL \/ lvl[front] > l) /\ LinkFront(n, l)
  <2>1. Place(N, L, 0, l, {l})
    BY <1>4 DEF Place
  <2>2. Entering(N, L, 0, n)
    BY <1>4 DEF LinkFront, Entering
  <2>3. backs' = [k \in Level |-> IF k \in {l} THEN n ELSE backs[k]]
    BY <1>4 DEF LinkFront, TypeOK
  <2> QED
    BY <2>1, <2>2, <2>3
<1>5. CASE /\ size[l] = 0 /\ front # NULL /\ lvl[front] =< l
           /\ IF NearestLevel(l) = {}
              THEN backs' = [backs EXCEPT ![l] = n] /\ UNCHANGED <<front, next>>
              ELSE \E i \in NearestLevel(l) : LinkBehind(i, n, {l, i})
  <2>1. PICK i \in NearestLevel(l) : LinkBehind(i, n, {l, i})
    BY <1>5, NeighbourFound
  <2>2. i \in Level /\ size[i] # 0
    BY LevelsAssumption DEF NearestLevel, Level
  <2>3. PICK j \in 1 .. N : /\ backs[i] = L[j] /\ Entering(N, L, j, n)
                            /\ backs' = [x \in Level |-> IF x \in {l, i} THEN n ELSE backs[x]]
    BY <1>1, <2>1, <2>2
  <2>4. Place(N, L, j, l, {l, i})
    BY <1>5, <2>3 DEF Place
  <2> QED
    BY <1>2, <2>3, <2>4
<1> QED
  BY <1>3, <1>4, <1>5 DEF Links

-----------------------------------------------------------------------------
\* queue_lift counts the nodes of all levels.
LEMMA SumOf ==
    ASSUME TypeOK, Counted
    PROVE  SizeSum[QUEUE_NUMBER - 1] = Cardinality(queued)
<1> DEFINE Top == QUEUE_NUMBER - 1
           Upto(l) == {n \in queued : lvl[n] =< l}
           S(f) == [l \in -1 .. (QUEUE_NUMBER - 1) |-> IF l = -1 THEN 0 ELSE f[l - 1] + size[l]]
           G == [l \in -1 .. (QUEUE_NUMBER - 1) |-> Cardinality(Upto(l))]
<1>1. Top \in Nat /\ Level = 0 .. Top
  BY LevelsAssumption DEF Level
<1>2. /\ IsFiniteSet(queued) /\ queued \subseteq Node
      /\ \A n \in queued : lvl[n] \in Level
      /\ \A l \in Level : size[l] \in Nat
  BY HeapAssumption, FS_Subset DEF TypeOK
<1>3. ASSUME NEW l \in Level
      PROVE  Cardinality(Upto(l)) = Cardinality(Upto(l - 1)) + size[l]
  <2>1. \A n \in queued : lvl[n] \in Int /\ l \in Int
    BY <1>1, <1>2
  <2>2. Upto(l) = Upto(l - 1) \cup AtLevel(l)
    BY <2>1 DEF AtLevel
  <2>3. Upto(l - 1) \cap AtLevel(l) = {}
    BY <2>1 DEF AtLevel
  <2>4. IsFiniteSet(Upto(l - 1)) /\ IsFiniteSet(AtLevel(l))
    BY <1>2, FS_Subset DEF AtLevel
  <2> HIDE DEF Upto
  <2>5. Cardinality(Upto(l)) = Cardinality(Upto(l - 1)) + Cardinality(AtLevel(l)) - 0
    BY <2>2, <2>3, <2>4, FS_Union, FS_EmptySet
  <2>6. size[l] = Cardinality(AtLevel(l)) /\ size[l] \in Nat /\ Cardinality(Upto(l - 1)) \in Nat
    BY <1>2, <2>4, FS_CardinalityType DEF Counted
  <2> QED
    BY <2>5, <2>6
<1>4. Upto(-1) = {} /\ Upto(Top) = queued
  BY <1>1, <1>2
<1>5. G = S(G)
  <2> SUFFICES ASSUME NEW l \in -1 .. (QUEUE_NUMBER - 1)
               PROVE  G[l] = IF l = -1 THEN 0 ELSE G[l - 1] + size[l]
    BY Zenon
  <2>1. CASE l = -1
    <3>1. G[l] = Cardinality(Upto(-1))
      BY <2>1
    <3> QED
      BY <1>4, <2>1, <3>1, FS_EmptySet
  <2>2. CASE l # -1
    <3>1. l \in Level /\ l - 1 \in -1 .. (QUEUE_NUMBER - 1)
      BY <1>1, <2>2
    <3>2. G[l] = Cardinality(Upto(l)) /\ G[l - 1] = Cardinality(Upto(l - 1))
      BY <3>1
    <3> QED
      BY <1>3, <2>2, <3>1, <3>2
  <2> QED
    BY <2>1, <2>2
<1>6. SizeSum = S(SizeSum)
  <2>1. \E f : f = S(f)
    BY <1>5
  <2> QED
    BY <2>1, Zenon DEF SizeSum
<1>7. \A l \in -1 .. (QUEUE_NUMBER - 1) : SizeSum[l] = G[l]
  <2> DEFINE T == {d \in Nat : d =< QUEUE_NUMBER /\ SizeSum[d - 1] # G[d - 1]}
  <2>1. ASSUME T # {}
        PROVE  FALSE
    <3>1. PICK m \in T : \A d \in T : m =< d
      <4>1. T \in SUBSET Nat
        OBVIOUS
      <4> HIDE DEF T
      <4> QED
        BY <2>1, <4>1, LeastNumber
    <3>2. m \in Nat /\ m =< QUEUE_NUMBER /\ SizeSum[m - 1] # G[m - 1]
      BY <3>1
    <3>3. m # 0
      <4>1. SizeSum[-1] = 0 /\ G[-1] = 0
        <5>1. -1 \in -1 .. (QUEUE_NUMBER - 1)
          BY LevelsAssumption
        <5>2. SizeSum[-1] = IF -1 = -1 THEN 0 ELSE SizeSum[-1 - 1] + size[-1]
          BY <1>6, <5>1, Zenon
        <5>3. G[-1] = IF -1 = -1 THEN 0 ELSE G[-1 - 1] + size[-1]
          BY <1>5, <5>1, Zenon
        <5> QED
          BY <5>2, <5>3
      <4>2. 0 - 1 = -1
        OBVIOUS
      <4> QED
        BY <3>2, <4>1, <4>2
    <3> DEFINE k == m - 1
    <3>4. /\ k \in -1 .. (QUEUE_NUMBER - 1) /\ k # -1
          /\ m - 1 \in Nat /\ m - 1 =< QUEUE_NUMBER /\ ~(m =< m - 1)
      BY <3>2, <3>3, LevelsAssumption
    <3>5. SizeSum[k - 1] = G[k - 1]
      BY <3>1, <3>4
    <3>6. SizeSum[k] = SizeSum[k - 1] + size[k]
      <4> HIDE DEF k
      <4> QED
        BY <1>6, <3>4, Zenon
    <3>7. G[k] = G[k - 1] + size[k]
      <4> HIDE DEF k, G
      <4> QED
        BY <1>5, <3>4, Zenon
    <3> QED
      BY <3>2, <3>5, <3>6, <3>7
  <2>2. ASSUME NEW l \in -1 .. (QUEUE_NUMBER - 1), SizeSum[l] # G[l]
        PROVE  FALSE
    <3>1. l + 1 \in Nat /\ l + 1 =< QUEUE_NUMBER /\ (l + 1) - 1 = l
      BY LevelsAssumption
    <3>2. l + 1 \in T
      BY <2>2, <3>1
    <3> QED
      BY <2>1, <3>2
  <2> QED
    BY <2>2
<1>8. QUEUE_NUMBER - 1 \in -1 .. (QUEUE_NUMBER - 1)
  BY LevelsAssumption
<1>9. G[QUEUE_NUMBER - 1] = Cardinality(queued)
  BY <1>4, <1>8
<1> QED
  BY <1>7, <1>8, <1>9

-----------------------------------------------------------------------------
\* A popped node points nowhere: queue_insert relies on it when the list is
\* empty.
HeldUnlinked == \A n \in held : next[n] = NULL

\* The inductive invariant.
ListInv ==
    /\ TypeOK
    /\ held \cap queued = {}
    /\ HeldUnlinked
    /\ Counted
    /\ Listed

\* One node enters: what NewNode and Insert do.
Enters(N, L, j, n, l, S) ==
    /\ j \in 0 .. N /\ n \in Node \ queued /\ l \in Level
    /\ Place(N, L, j, l, S)
    /\ Entering(N, L, j, n) /\ Leveling(n, l, S)

\* queue_new_node enters at level 0 where queue_insert would.
LEMMA NewNodeEnters ==
    ASSUME ListInv, NEW N \in Nat, NEW L, IsList(N, L), NEW n \in Node, NewNode(n)
    PROVE  \E j \in 0 .. N : \E S : Enters(N, L, j, n, 0, S)
<1>1. TypeOK /\ Counted /\ n \in Node \ queued /\ 0 \in Level /\ queued' = queued \cup {n}
  BY LevelsAssumption DEF ListInv, NewNode, Level
<1>2. Links(n, 0)
  <2>1. size[0] \in Nat
    BY <1>1 DEF TypeOK
  <2>2. CASE size[0] > 0 /\ LinkBehind(0, n, {0})
    BY <2>1, <2>2 DEF Links
  <2>3. CASE size[0] =< 0 /\ LinkFront(n, 0)
    <3>1. size[0] = 0
      BY <2>1, <2>3
    <3>2. front # NULL => lvl[front] > 0
      <4>1. SUFFICES ASSUME front # NULL
                     PROVE  lvl[front] > 0
        OBVIOUS
      <4>2. 1 \in 1 .. N /\ front = L[1]
        BY <4>1 DEF IsList, Linked
      <4>3. lvl[front] # 0
        BY <1>1, <3>1, <4>2, SizeTells
      <4>4. lvl[front] \in Level
        BY <1>1, <4>1 DEF TypeOK
      <4> QED
        BY <4>3, <4>4, LevelsAssumption DEF Level
    <3> QED
      BY <2>3, <3>1, <3>2 DEF Links
  <2> QED
    BY <2>2, <2>3 DEF NewNode
<1>3. PICK j \in 0 .. N : \E S : /\ Place(N, L, j, 0, S) /\ Entering(N, L, j, n)
                                 /\ backs' = [k \in Level |-> IF k \in S THEN n ELSE backs[k]]
  BY <1>1, <1>2, InsertFindsPlace
<1>4. PICK S : /\ Place(N, L, j, 0, S) /\ Entering(N, L, j, n)
               /\ backs' = [k \in Level |-> IF k \in S THEN n ELSE backs[k]]
  BY <1>3
<1>5. Leveling(n, 0, S)
  BY <1>4 DEF NewNode, Leveling
<1>6. Enters(N, L, j, n, 0, S)
  BY <1>1, <1>4, <1>5 DEF Enters
<1> QED
  BY <1>6

\* queue_insert enters a node that was popped.
LEMMA InsertEnters ==
    ASSUME ListInv, NEW N \in Nat, NEW L, IsList(N, L),
           NEW n \in Node, NEW l \in Level, Insert(n, l)
    PROVE  \E j \in 0 .. N : \E S : Enters(N, L, j, n, l, S)
<1>1. /\ TypeOK /\ Counted /\ n \in Node \ queued /\ queued' = queued \cup {n}
      /\ Links(n, l)
  <2>1. /\ TypeOK /\ Counted /\ n \in Node \ queued /\ queued' = queued \cup {n}
        /\ InsertLinks(n, l) /\ next[n] = NULL
    BY DEF ListInv, HeldUnlinked, Insert
  <2> QED
    BY <2>1, InsertLinksIsLinks
<1>2. PICK j \in 0 .. N : \E S : /\ Place(N, L, j, l, S) /\ Entering(N, L, j, n)
                                 /\ backs' = [k \in Level |-> IF k \in S THEN n ELSE backs[k]]
  BY <1>1, InsertFindsPlace
<1>3. PICK S : /\ Place(N, L, j, l, S) /\ Entering(N, L, j, n)
               /\ backs' = [k \in Level |-> IF k \in S THEN n ELSE backs[k]]
  BY <1>2
<1>4. Leveling(n, l, S)
  BY <1>3 DEF Insert, Leveling
<1>5. Enters(N, L, j, n, l, S)
  BY <1>1, <1>3, <1>4 DEF Enters
<1> QED
  BY <1>5

\* After a node entered, the queue is the list with the node in its place.
LEMMA EntersKeeps ==
    ASSUME ListInv, NEW N \in Nat, NEW L, IsList(N, L),
           NEW j, NEW n, NEW l, NEW S, Enters(N, L, j, n, l, S),
           held' \subseteq held \ {n}, UNCHANGED alive
    PROVE  ListInv' /\ IsList(N + 1, Placed(N, L, j, n))'
<1>1. /\ TypeOK /\ Counted /\ Listed /\ n \in Node \ queued /\ l \in Level /\ j \in 0 .. N
      /\ Place(N, L, j, l, S) /\ Entering(N, L, j, n) /\ Leveling(n, l, S)
      /\ held \cap queued = {}
  BY DEF ListInv, Enters
<1>2. l \in S /\ \A i \in 1 .. N : lvl[L[i]] \in S => i =< j
  BY <1>1, PlaceIsBehind
<1>3. Counted' /\ Listed' /\ IsList(N + 1, Placed(N, L, j, n))'
  BY <1>1, <1>2, EnteringKeeps
<1>4. TypeOK'
  <2>1. L \in [1 .. N -> Node]
    BY DEF IsList, Linked
  <2>2. /\ front' \in Node \cup {NULL} /\ next' \in [Node -> Node \cup {NULL}]
        /\ queued' \in SUBSET Node
    <3>1. CASE j = 0
      BY <1>1, <3>1 DEF TypeOK, Entering
    <3>2. CASE j # 0
      <4>1. L[j] \in Node
        BY <1>1, <2>1, <3>2
      <4> QED
        BY <1>1, <3>2, <4>1 DEF TypeOK, Entering
    <3> QED
      BY <3>1, <3>2
  <2>3. /\ lvl' \in [Node -> Level] /\ size' \in [Level -> Nat]
        /\ backs' \in [Level -> Node \cup {NULL}]
    BY <1>1 DEF TypeOK, Leveling
  <2>4. held' \in SUBSET Node /\ alive' \in BOOLEAN
    BY <1>1 DEF TypeOK
  <2> QED
    BY <2>2, <2>3, <2>4 DEF TypeOK, Level
<1>5. (held \cap queued = {})'
  BY <1>1 DEF Entering
<1>6. HeldUnlinked'
  <2> SUFFICES ASSUME NEW m \in held'
               PROVE  next'[m] = NULL
    BY DEF HeldUnlinked
  <2>1. m \in Node /\ m # n /\ m \notin queued /\ next[m] = NULL
    BY <1>1 DEF ListInv, HeldUnlinked, TypeOK
  <2>2. j # 0 => L[j] \in queued
    BY <1>1 DEF IsList, Linked
  <2> QED
    BY <1>1, <2>1, <2>2 DEF Entering, TypeOK
<1>7. ListInv'
  BY <1>3, <1>4, <1>5, <1>6 DEF ListInv
<1> QED
  BY <1>3, <1>7

\* The list without its first node.
WithoutFirst(N, L) == [i \in 1 .. N - 1 |-> L[i + 1]]

\* queue_pop leaves the list without its first node.  No back of a level that
\* keeps a node pointed to the one popped.
LEMMA PopKeeps ==
    ASSUME ListInv, NEW N \in Nat, NEW L, IsList(N, L), Pop
    PROVE  ListInv' /\ N - 1 \in Nat /\ IsList(N - 1, WithoutFirst(N, L))'
<1> DEFINE M == WithoutFirst(N, L)
<1>1. /\ TypeOK /\ Counted /\ held \cap queued = {}
      /\ Linked(N, L) /\ BacksIn(N, L) /\ front # NULL
  BY DEF ListInv, IsList, Pop
<1>2. /\ front' = next[front] /\ next' = [next EXCEPT ![front] = NULL]
      /\ size' = [size EXCEPT ![lvl[front]] = @ - 1]
      /\ held' = held \cup {front} /\ queued' = queued \ {front}
      /\ UNCHANGED <<backs, lvl, alive>>
  BY DEF Pop, SizeAfterPop
<1>3. N # 0 /\ N - 1 \in Nat /\ front = L[1] /\ 1 \in 1 .. N
  BY <1>1 DEF Linked
<1>4. /\ L \in [1 .. N -> Node] /\ \A i, j \in 1 .. N : L[i] = L[j] => i = j
      /\ \A i \in 1 .. N : L[i] \in queued
      /\ \A n \in queued : \E i \in 1 .. N : L[i] = n
      /\ \A i \in 1 .. N : next[L[i]] = IF i = N THEN NULL ELSE L[i + 1]
      /\ N = Cardinality(queued)
  BY <1>1 DEF Linked
<1>5. \A i \in 1 .. N - 1 : i + 1 \in 1 .. N /\ M[i] = L[i + 1] /\ L[i + 1] # L[1]
  <2>1. \A i \in 1 .. N - 1 : i + 1 \in 1 .. N /\ i + 1 # 1 /\ M[i] = L[i + 1]
    BY <1>3 DEF WithoutFirst
  <2> HIDE DEF M
  <2> QED
    BY <1>3, <1>4, <2>1
<1>6. M \in [1 .. N - 1 -> Node]
  BY <1>4, <1>5 DEF WithoutFirst
<1> HIDE DEF M
<1>7. IsFiniteSet(queued) /\ L[1] \in queued
  BY <1>1, <1>3, <1>4, HeapAssumption, FS_Subset DEF TypeOK
<1>8. Linked(N - 1, M)'
  <2>1. N - 1 = Cardinality(queued')
    BY <1>2, <1>3, <1>4, <1>7, FS_RemoveElement
  <2>2. \A i, j \in 1 .. N - 1 : M[i] = M[j] => i = j
    <3> SUFFICES ASSUME NEW i \in 1 .. N - 1, NEW j \in 1 .. N - 1, M[i] = M[j]
                 PROVE  i = j
      OBVIOUS
    <3>1. i + 1 = j + 1
      BY <1>4, <1>5
    <3> QED
      BY <3>1
  <2>3. \A i \in 1 .. N - 1 : M[i] \in queued'
    BY <1>2, <1>3, <1>4, <1>5
  <2>4. ASSUME NEW n \in queued'
        PROVE  \E i \in 1 .. N - 1 : M[i] = n
    <3>1. PICK i \in 1 .. N : L[i] = n
      BY <1>2, <1>4
    <3>2. i # 1
      BY <1>2, <1>3, <3>1
    <3>3. i - 1 \in 1 .. N - 1 /\ (i - 1) + 1 = i
      BY <1>3, <3>2
    <3>4. M[i - 1] = L[i]
      BY <1>5, <3>3
    <3> QED
      BY <3>1, <3>3, <3>4
  <2>5. front' = IF N - 1 = 0 THEN NULL ELSE M[1]
    <3>1. next[L[1]] = IF 1 = N THEN NULL ELSE L[1 + 1]
      BY <1>3, <1>4
    <3>2. CASE N = 1
      BY <1>2, <1>3, <3>1, <3>2
    <3>3. CASE N # 1
      <4>1. 1 \in 1 .. N - 1
        BY <1>3, <3>3
      <4>2. M[1] = L[1 + 1]
        BY <1>5, <4>1
      <4> QED
        BY <1>2, <1>3, <3>1, <3>3, <4>2
    <3> QED
      BY <3>2, <3>3
  <2>6. ASSUME NEW i \in 1 .. N - 1
        PROVE  next'[M[i]] = IF i = N - 1 THEN NULL ELSE M[i + 1]
    <3>1. i + 1 \in 1 .. N /\ M[i] = L[i + 1] /\ L[i + 1] # L[1]
      BY <1>5
    <3>2. next'[M[i]] = next[L[i + 1]]
      BY <1>1, <1>2, <1>3, <1>4, <3>1 DEF TypeOK
    <3>3. next[L[i + 1]] = IF i + 1 = N THEN NULL ELSE L[(i + 1) + 1]
      BY <1>4, <3>1
    <3>4. CASE i = N - 1
      BY <1>3, <3>2, <3>3, <3>4
    <3>5. CASE i # N - 1
      <4>1. i + 1 \in 1 .. N - 1 /\ i + 1 # N
        BY <1>3, <3>5
      <4>2. M[i + 1] = L[(i + 1) + 1]
        BY <1>5, <4>1
      <4> QED
        BY <3>2, <3>3, <3>5, <4>1, <4>2
    <3> QED
      BY <3>4, <3>5
  <2> QED
    BY <1>3, <1>6, <2>1, <2>2, <2>3, <2>4, <2>5, <2>6 DEF Linked
<1>9. lvl[front] \in Level /\ front \in Node /\ front \in queued
  BY <1>1, <1>3, <1>7 DEF TypeOK
<1>10. Counted'
  <2>1. /\ \A k : AtLevel(k)' = AtLevel(k) \ {front}
        /\ \A k : k # lvl[front] => front \notin AtLevel(k)
        /\ front \in AtLevel(lvl[front])
    BY <1>2, <1>9 DEF AtLevel
  <2>2. \A k : IsFiniteSet(AtLevel(k))
    <3>1. \A k : AtLevel(k) \in SUBSET queued
      BY DEF AtLevel
    <3> QED
      BY <1>7, <3>1, FS_Subset
  <2>3. \A k \in Level : Cardinality(AtLevel(k) \ {front}) =
           IF front \in AtLevel(k) THEN Cardinality(AtLevel(k)) - 1 ELSE Cardinality(AtLevel(k))
    BY <2>2, FS_RemoveElement
  <2>4. ASSUME NEW k \in Level
        PROVE  size'[k] = Cardinality(AtLevel(k)')
    <3>1. size \in [Level -> Nat] /\ size[k] = Cardinality(AtLevel(k))
      BY <1>1 DEF TypeOK, Counted
    <3>2. size'[k] = IF k = lvl[front] THEN size[k] - 1 ELSE size[k]
      BY <1>2, <1>9, <3>1
    <3> QED
      BY <2>1, <2>3, <3>1, <3>2
  <2> QED
    BY <2>4, Zenon DEF Counted, Level
<1>11. \A k \in Level : size'[k] # 0 => size[k] # 0 /\ \E i \in 1 .. N - 1 : lvl[M[i]] = k
  <2> SUFFICES ASSUME NEW k \in Level, size'[k] # 0
               PROVE  size[k] # 0 /\ \E i \in 1 .. N - 1 : lvl[M[i]] = k
    OBVIOUS
  <2>1. AtLevel(k)' # {}
    BY <1>10, FS_EmptySet DEF Counted
  <2>2. PICK n \in queued' : lvl[n] = k
    BY <1>2, <2>1 DEF AtLevel
  <2>3. PICK i \in 1 .. N - 1 : M[i] = n
    BY <1>8 DEF Linked
  <2>4. n \in AtLevel(k) /\ IsFiniteSet(AtLevel(k))
    <3>1. AtLevel(k) \in SUBSET queued
      BY DEF AtLevel
    <3>2. n \in AtLevel(k)
      BY <1>2, <2>2 DEF AtLevel
    <3> QED
      BY <1>7, <3>1, <3>2, FS_Subset
  <2>5. size[k] # 0
    BY <1>1, <2>4, FS_EmptySet DEF Counted
  <2> QED
    BY <2>2, <2>3, <2>5
<1>12. BacksIn(N - 1, M)'
  <2> SUFFICES ASSUME NEW k \in Level, size'[k] # 0
               PROVE  \E p \in 1 .. N - 1 :
                         /\ backs'[k] = M[p]
                         /\ \A i \in 1 .. N - 1 : lvl'[M[i]] = k => i =< p
    BY Zenon DEF BacksIn, Level
  <2>1. size[k] # 0
    BY <1>11
  <2>2. PICK p \in 1 .. N : backs[k] = L[p] /\ \A i \in 1 .. N : lvl[L[i]] = k => i =< p
    BY <1>1, <2>1 DEF BacksIn
  <2>3. PICK i \in 1 .. N - 1 : lvl[M[i]] = k
    BY <1>11
  <2>4. i + 1 =< p
    BY <1>5, <2>2, <2>3
  <2>5. p - 1 \in 1 .. N - 1 /\ (p - 1) + 1 = p
    BY <1>3, <2>4
  <2>6. M[p - 1] = L[p]
    BY <1>5, <2>5
  <2>7. ASSUME NEW x \in 1 .. N - 1, lvl'[M[x]] = k
        PROVE  x =< p - 1
    <3>1. x + 1 \in 1 .. N /\ lvl[L[x + 1]] = k
      BY <1>2, <1>5, <2>7
    <3>2. x + 1 =< p
      BY <2>2, <3>1
    <3> QED
      BY <3>2
  <2> QED
    BY <1>2, <2>2, <2>5, <2>6, <2>7
<1>13. TypeOK'
  <2>1. front' \in Node \cup {NULL} /\ next' \in [Node -> Node \cup {NULL}]
    BY <1>1, <1>2, <1>9 DEF TypeOK
  <2>2. size' \in [Level -> Nat]
    <3>1. size[lvl[front]] # 0
      BY <1>1, <1>3, <1>9, SizeTells DEF IsList
    <3>2. size[lvl[front]] \in Nat
      BY <1>1, <1>9 DEF TypeOK
    <3>3. size[lvl[front]] - 1 \in Nat
      BY <3>1, <3>2
    <3> QED
      BY <1>1, <1>2, <3>3 DEF TypeOK
  <2> QED
    BY <1>1, <1>2, <1>9, <2>1, <2>2 DEF TypeOK, Level
<1>14. Listed'
  BY <1>3, <1>6, <1>8, <1>12 DEF Listed, IsList
<1>15. (held \cap queued = {})' /\ HeldUnlinked'
  BY <1>1, <1>2, <1>9 DEF ListInv, HeldUnlinked, TypeOK
<1>16. ListInv'
  BY <1>10, <1>13, <1>14, <1>15 DEF ListInv
<1>17. IsList(N - 1, M)'
  BY <1>8, <1>12 DEF IsList
<1> QED
  BY <1>3, <1>16, <1>17 DEF M

\* Freeing a popped node does not touch the list.
LEMMA FreeKeeps ==
    ASSUME ListInv, NEW n \in Node, Free(n)
    PROVE  ListInv' /\ \A N \in Nat : \A L : IsList(N, L) => IsList(N, L)'
<1>1. /\ TypeOK /\ Counted /\ Listed /\ n \notin queued /\ n \in held
      /\ held \cap queued = {}
  BY DEF ListInv, Free
<1>2. /\ next' = [next EXCEPT ![n] = NULL] /\ lvl' = [lvl EXCEPT ![n] = 0]
      /\ held' = held \ {n} /\ UNCHANGED <<front, backs, size, queued, alive>>
  BY DEF Free
<1>3. \A m \in queued : m \in Node /\ next'[m] = next[m] /\ lvl'[m] = lvl[m]
  BY <1>1, <1>2 DEF TypeOK
<1>4. TypeOK'
  <2>1. 0 \in Level
    BY LevelsAssumption DEF Level
  <2> QED
    BY <1>1, <1>2, <2>1 DEF TypeOK, Level
<1>5. Counted'
  <2>1. \A k : AtLevel(k)' = AtLevel(k)
    BY <1>2, <1>3 DEF AtLevel
  <2>2. \A k \in Level : size'[k] = Cardinality(AtLevel(k)')
    BY <1>1, <1>2, <2>1 DEF Counted
  <2> QED
    BY <2>2, Zenon DEF Counted, Level
<1>6. ASSUME NEW N \in Nat, NEW L, IsList(N, L)
      PROVE  IsList(N, L)'
  <2>1. Linked(N, L) /\ BacksIn(N, L)
    BY <1>6 DEF IsList
  <2>2. Linked(N, L)'
    BY <1>2, <1>3, <2>1 DEF Linked
  <2>3. \A i \in 1 .. N : lvl'[L[i]] = lvl[L[i]]
    BY <1>3, <2>1 DEF Linked
  <2>4. ASSUME NEW k \in Level, size'[k] # 0
        PROVE  \E j \in 1 .. N :
                   /\ backs'[k] = L[j]
                   /\ \A i \in 1 .. N : lvl'[L[i]] = k => i =< j
    BY <1>2, <2>1, <2>3, <2>4 DEF BacksIn
  <2>5. BacksIn(N, L)'
    BY <2>4, Zenon DEF BacksIn, Level
  <2> QED
    BY <2>2, <2>5 DEF IsList
<1>7. Listed'
  BY <1>1, <1>6 DEF Listed
<1>8. (held \cap queued = {})' /\ HeldUnlinked'
  BY <1>1, <1>2 DEF ListInv, HeldUnlinked, TypeOK
<1> QED
  BY <1>4, <1>5, <1>6, <1>7, <1>8 DEF ListInv

\* queue_lift leaves the order alone and makes the last node the only back.
LEMMA LastOf ==
    ASSUME TypeOK, NEW N \in Nat, NEW L, Linked(N, L), N # 0
    PROVE  (CHOOSE n \in Chain : next[n] = NULL) = L[N]
<1>1. Chain = queued
  BY ChainOf
<1>2. N \in 1 .. N /\ L[N] \in queued /\ next[L[N]] = NULL
  BY DEF Linked
<1>3. ASSUME NEW n \in queued, next[n] = NULL
      PROVE  n = L[N]
  <2>1. PICK i \in 1 .. N : L[i] = n
    BY DEF Linked
  <2>2. CASE i # N
    <3>1. next[L[i]] = L[i + 1] /\ i + 1 \in 1 .. N /\ L[i + 1] \in Node
      BY <2>2 DEF Linked
    <3> QED
      BY <1>3, <2>1, <3>1, HeapAssumption
  <2> QED
    BY <2>1, <2>2
<1> DEFINE e == CHOOSE n \in Chain : next[n] = NULL
<1>4. e \in Chain /\ next[e] = NULL
  BY <1>1, <1>2
<1> QED
  BY <1>1, <1>3, <1>4

\* queue_lift keeps the list, sends every node to level 0 and makes the last
\* one the back.
LEMMA LiftKeeps ==
    ASSUME ListInv, NEW N \in Nat, NEW L, IsList(N, L), Lift
    PROVE  /\ ListInv' /\ IsList(N, L)'
           /\ UNCHANGED <<front, next, held, queued, alive>>
           /\ \A i \in 1 .. N : lvl'[L[i]] = 0
           /\ \A n \in Node \ queued : lvl'[n] = lvl[n]
           /\ size' = [l \in Level |-> IF l = 0 THEN N ELSE 0]
           /\ N # 0 => backs' = [l \in Level |-> IF l = 0 THEN L[N] ELSE NULL]
<1>1. /\ TypeOK /\ Counted /\ Linked(N, L) /\ BacksIn(N, L) /\ held \cap queued = {}
  BY DEF ListInv, IsList
<1>2. SizeSum[QUEUE_NUMBER - 1] = N
  BY <1>1, SumOf DEF Linked
<1>3. Chain = queued
  BY <1>1, ChainOf
<1>4. /\ UNCHANGED <<front, next, held, queued, alive>>
      /\ size' = [l \in Level |-> IF l = 0 THEN N ELSE 0]
      /\ \/ N = 0 /\ UNCHANGED <<lvl, backs>>
         \/ /\ N > 0 /\ lvl' = [n \in Node |-> IF n \in queued THEN 0 ELSE lvl[n]]
            /\ backs' = BacksLifted
  BY <1>2, <1>3 DEF Lift
<1>5. /\ \A i \in 1 .. N : L[i] \in queued /\ L[i] \in Node
      /\ N # 0 => N \in 1 .. N
  BY <1>1 DEF Linked
<1>6. N # 0 => backs' = [l \in Level |-> IF l = 0 THEN L[N] ELSE NULL]
  BY <1>1, <1>4, LastOf DEF BacksLifted
<1>7. /\ \A i \in 1 .. N : lvl'[L[i]] = 0
      /\ \A n \in Node \ queued : lvl'[n] = lvl[n]
  <2>1. CASE N = 0
    BY <1>4, <2>1
  <2>2. CASE N > 0
    BY <1>4, <1>5, <2>2
  <2> QED
    BY <2>1, <2>2
<1>8. 0 \in Level
  BY LevelsAssumption DEF Level
<1>9. Linked(N, L)'
  BY <1>1, <1>4 DEF Linked
<1>10. BacksIn(N, L)'
  <2> SUFFICES ASSUME NEW k \in Level, size'[k] # 0
               PROVE  \E j \in 1 .. N :
                         /\ backs'[k] = L[j]
                         /\ \A i \in 1 .. N : lvl'[L[i]] = k => i =< j
    BY Zenon DEF BacksIn, Level
  <2>1. k = 0 /\ N # 0
    BY <1>4
  <2>2. N \in 1 .. N /\ backs'[k] = L[N] /\ \A i \in 1 .. N : i =< N
    BY <1>5, <1>6, <1>8, <2>1
  <2> QED
    BY <2>2
<1>11. Counted'
  <2>1. CASE N = 0
    <3>1. queued = {}
      <4>1. IsFiniteSet(queued) /\ Cardinality(queued) = 0
        BY <1>1, <2>1, HeapAssumption, FS_Subset DEF TypeOK, Linked
      <4> QED
        BY <4>1, FS_EmptySet
    <3>2. \A k : AtLevel(k)' = {}
      BY <1>4, <3>1 DEF AtLevel
    <3>3. \A k \in Level : size'[k] = Cardinality(AtLevel(k)')
      BY <1>4, <2>1, <3>2, FS_EmptySet
    <3> QED
      BY <3>3, Zenon DEF Counted, Level
  <2>2. CASE N # 0
    <3>1. \A n \in queued : lvl'[n] = 0
      <4>1. \A n \in queued : \E i \in 1 .. N : L[i] = n
        BY <1>1 DEF Linked
      <4> QED
        BY <1>7, <4>1
    <3>2. AtLevel(0)' = queued /\ \A k \in Level : k # 0 => AtLevel(k)' = {}
      BY <1>4, <3>1 DEF AtLevel
    <3>3. N = Cardinality(queued)
      BY <1>1 DEF Linked
    <3>4. \A k \in Level : size'[k] = Cardinality(AtLevel(k)')
      BY <1>4, <1>8, <3>2, <3>3, FS_EmptySet
    <3> QED
      BY <3>4, Zenon DEF Counted, Level
  <2> QED
    BY <2>1, <2>2
<1>12. TypeOK'
  <2>1. size' \in [Level -> Nat]
    BY <1>4
  <2>2. CASE N = 0
    BY <1>1, <1>4, <2>1, <2>2 DEF TypeOK, Level
  <2>3. CASE N > 0
    <3>1. lvl' \in [Node -> Level]
      BY <1>1, <1>4, <1>8, <2>3 DEF TypeOK
    <3>2. backs' \in [Level -> Node \cup {NULL}]
      BY <1>5, <1>6, <2>3
    <3> QED
      BY <1>1, <1>4, <2>1, <3>1, <3>2 DEF TypeOK, Level
  <2> QED
    BY <2>2, <2>3
<1>13. Listed' /\ (held \cap queued = {})' /\ HeldUnlinked'
  <2>1. L \in [1 .. N -> Node]
    BY <1>1 DEF Linked
  <2>2. HeldUnlinked'
    BY <1>4 DEF ListInv, HeldUnlinked
  <2> QED
    BY <1>1, <1>4, <1>9, <1>10, <2>1, <2>2 DEF Listed, IsList
<1>14. ListInv'
  BY <1>11, <1>12, <1>13 DEF ListInv
<1>15. IsList(N, L)'
  BY <1>9, <1>10 DEF IsList
<1> QED
  BY <1>4, <1>6, <1>7, <1>14, <1>15

\* An empty queue.
LEMMA EmptyIsListed ==
    ASSUME TypeOK, front = NULL, queued = {}, size = [l \in Level |-> 0]
    PROVE  Counted /\ Listed /\ IsList(0, <<>>)
<1>1. Counted
  <2>1. \A l : AtLevel(l) = {}
    BY DEF AtLevel
  <2> QED
    BY <2>1, FS_EmptySet DEF Counted
<1>2. IsList(0, <<>>) /\ <<>> \in [1 .. 0 -> Node]
  <2>1. <<>> \in [1 .. 0 -> Node]
    OBVIOUS
  <2>2. 1 .. 0 = {}
    OBVIOUS
  <2>3. Linked(0, <<>>)
    BY <2>1, <2>2, FS_EmptySet DEF Linked
  <2>4. BacksIn(0, <<>>)
    BY DEF BacksIn
  <2> QED
    BY <2>1, <2>3, <2>4 DEF IsList
<1>3. Listed
  BY <1>2 DEF Listed
<1> QED
  BY <1>1, <1>2, <1>3

\* queue_destroy leaves the empty list.
LEMMA DestroyKeeps ==
    ASSUME ListInv, Destroy
    PROVE  /\ ListInv' /\ IsList(0, <<>>)'
           /\ \A n \in Node \ queued : lvl'[n] = lvl[n]
<1>1. TypeOK /\ Listed /\ held \cap queued = {}
  BY DEF ListInv
<1>2. Chain = queued
  <2>1. PICK N \in Nat : \E L \in [1 .. N -> Node] : IsList(N, L)
    BY <1>1 DEF Listed
  <2>2. PICK L \in [1 .. N -> Node] : IsList(N, L)
    BY <2>1
  <2> QED
    BY <1>1, <2>2, ChainOf DEF IsList
<1>3. /\ front' = NULL /\ queued' = {} /\ size' = [l \in Level |-> 0]
      /\ next' = [n \in Node |-> IF n \in queued THEN NULL ELSE next[n]]
      /\ lvl' = [n \in Node |-> IF n \in queued THEN 0 ELSE lvl[n]]
      /\ backs' = [l \in Level |-> NULL] /\ held' = held /\ alive' = FALSE
  BY <1>2 DEF Destroy
<1>4. TypeOK'
  <2>1. 0 \in Level
    BY LevelsAssumption DEF Level
  <2> QED
    BY <1>1, <1>3, <2>1 DEF TypeOK, Level
<1>5. TypeOK /\ front = NULL /\ queued = {} /\ size = [l \in Level |-> 0]
         => Counted /\ Listed /\ IsList(0, <<>>)
  BY EmptyIsListed
<1>6. (TypeOK /\ front = NULL /\ queued = {} /\ size = [l \in Level |-> 0])'
  BY <1>3, <1>4, Zenon DEF Level
<1>7. (Counted /\ Listed /\ IsList(0, <<>>))'
  BY <1>6, EmptyIsListed, PTL
<1>8. (held \cap queued = {})' /\ HeldUnlinked'
  BY <1>1, <1>3 DEF ListInv, HeldUnlinked, TypeOK
<1>9. \A n \in Node \ queued : lvl'[n] = lvl[n]
  BY <1>3
<1> QED
  BY <1>4, <1>7, <1>8, <1>9 DEF ListInv

\* queue_create makes the empty list.
LEMMA InitIsListed == Init => ListInv
<1> SUFFICES ASSUME Init
             PROVE  ListInv
  OBVIOUS
<1>1. TypeOK /\ held \cap queued = {} /\ HeldUnlinked
  <2>1. 0 \in Level
    BY LevelsAssumption DEF Level
  <2> QED
    BY <2>1 DEF Init, TypeOK, HeldUnlinked
<1>2. Counted /\ Listed
  BY <1>1, EmptyIsListed DEF Init
<1> QED
  BY <1>1, <1>2 DEF ListInv

\* ListInv is inductive.
LEMMA StepKeepsList == ListInv /\ [Next]_vars => ListInv'
<1> SUFFICES ASSUME ListInv, [Next]_vars
             PROVE  ListInv'
  OBVIOUS
<1>1. PICK N \in Nat : \E L \in [1 .. N -> Node] : IsList(N, L)
  BY DEF ListInv, Listed
<1>2. PICK L \in [1 .. N -> Node] : IsList(N, L)
  BY <1>1
<1>3. ASSUME NEW n \in Node, NewNode(n)
      PROVE  ListInv'
  <2>1. PICK j \in 0 .. N : \E S : Enters(N, L, j, n, 0, S)
    BY <1>2, <1>3, NewNodeEnters
  <2>2. PICK S : Enters(N, L, j, n, 0, S)
    BY <2>1
  <2>3. held' \subseteq held \ {n} /\ UNCHANGED alive
    BY <1>3 DEF NewNode
  <2> QED
    BY <1>2, <2>2, <2>3, EntersKeeps
<1>4. ASSUME NEW n \in Node, NEW l \in Level, Insert(n, l)
      PROVE  ListInv'
  <2>1. PICK j \in 0 .. N : \E S : Enters(N, L, j, n, l, S)
    BY <1>2, <1>4, InsertEnters
  <2>2. PICK S : Enters(N, L, j, n, l, S)
    BY <2>1
  <2>3. held' \subseteq held \ {n} /\ UNCHANGED alive
    BY <1>4 DEF Insert
  <2> QED
    BY <1>2, <2>2, <2>3, EntersKeeps
<1>5. CASE Pop
  BY <1>2, <1>5, PopKeeps
<1>6. ASSUME NEW n \in Node, Free(n)
      PROVE  ListInv'
  BY <1>6, FreeKeeps
<1>7. CASE Lift
  BY <1>2, <1>7, LiftKeeps
<1>8. CASE Destroy
  BY <1>8, DestroyKeeps
<1>9. CASE UNCHANGED vars
  <2>1. UNCHANGED <<front, backs, size, next, lvl, held, queued, alive>>
    BY <1>9 DEF vars
  <2>2. TypeOK' /\ (held \cap queued = {})' /\ HeldUnlinked'
    BY <2>1 DEF ListInv, TypeOK, Level, HeldUnlinked
  <2>3. Counted'
    BY <2>1 DEF ListInv, Counted, AtLevel, Level
  <2>4. IsList(N, L)'
    BY <1>2, <2>1 DEF IsList, Linked, BacksIn, Level
  <2>5. Listed'
    <3>1. L \in [1 .. N -> Node]
      BY <1>2 DEF IsList, Linked
    <3> QED
      BY <2>4, <3>1 DEF Listed
  <2> QED
    BY <2>2, <2>3, <2>5 DEF ListInv
<1> QED
  BY <1>3, <1>4, <1>5, <1>6, <1>7, <1>8, <1>9 DEF Next

\* At every step the pointers of pqueue.c form one finite list, size counts its
\* levels and the back of a level in use stands behind all of its level.
THEOREM QueueIsList == Spec => []ListInv
  BY InitIsListed, StepKeepsList, PTL DEF Spec

\* The fields of pqueue and q_elem keep their types: size never becomes
\* negative and no pointer leaves the heap (pqueue.c:32-152).
THEOREM QueueTypeCorrect == Spec => []TypeOK
<1>1. ListInv => TypeOK
  BY DEF ListInv
<1> QED
  BY <1>1, QueueIsList, PTL

\* What the invariant says of a walk from the front.
LEMMA ListedFacts ==
    ASSUME ListInv
    PROVE  NothingLost /\ SizeExact /\ NoDanglingBack
<1>1. PICK N \in Nat : \E L \in [1 .. N -> Node] : IsList(N, L)
  BY DEF ListInv, Listed
<1>2. PICK L \in [1 .. N -> Node] : IsList(N, L)
  BY <1>1
<1>3. TypeOK /\ Counted /\ Linked(N, L) /\ BacksIn(N, L)
  BY <1>2 DEF ListInv, IsList
<1>4. Chain = queued /\ Reached[Cardinality(Node)] = {}
  BY <1>3, ChainOf
<1>5. SizeExact
  BY <1>3, <1>4 DEF SizeExact, Counted, AtLevel
<1>6. NoDanglingBack
  BY <1>3, <1>4 DEF NoDanglingBack, BacksIn, Linked
<1> QED
  BY <1>4, <1>5, <1>6 DEF NothingLost

\* Every node that entered and was not popped is met by a walk from the front,
\* and the walk ends (queue_pop, queue_lift and queue_destroy walk it).
THEOREM QueueLosesNothing == Spec => []NothingLost
<1>1. ListInv => NothingLost
  BY ListedFacts
<1> QED
  BY <1>1, QueueIsList, PTL

\* size counts the nodes of each level that are in the list: queue_insert
\* decides by it whether a back may be followed (pqueue.c:48-68).
THEOREM QueueCountsExactly == Spec => []SizeExact
<1>1. ListInv => SizeExact
  BY ListedFacts
<1> QED
  BY <1>1, QueueIsList, PTL

\* A back is followed only while its node is in the list: lines 48-68 never
\* write through the address of a popped or freed node.
THEOREM QueueBacksInList == Spec => []NoDanglingBack
<1>1. ListInv => NoDanglingBack
  BY ListedFacts
<1> QED
  BY <1>1, QueueIsList, PTL

-----------------------------------------------------------------------------
\* The elements of RunQueue.
Element == [data : Node, lvl : Level]

\* The element a node is.
Elem(n) == [data |-> n, lvl |-> lvl[n]]

\* The list of RunQueue that the pointers stand for.
ListFrom(N, L) == [k \in 1 .. N |-> Elem(L[k])]

\* The values that the refinement gives to queues and held.
AbsQueue == [list  |-> List,
             backs |-> [l \in Level |-> IF size[l] # 0 THEN backs[l] ELSE NULL]]

AbsHeld == {Elem(n) : n \in held}

\* The list the pointers stand for is the one of the nodes L.
LEMMA ListOf ==
    ASSUME TypeOK, NEW N \in Nat, NEW L, Linked(N, L)
    PROVE  List = ListFrom(N, L)
<1>1. /\ Chain = queued /\ N =< Cardinality(Node) /\ Cardinality(Node) \in Nat
      /\ Cardinality(Chain) = N
  <2>1. Chain = queued /\ N =< Cardinality(Node) /\ Cardinality(Node) \in Nat
    BY ChainOf
  <2> QED
    BY <2>1 DEF Linked
<1>2. \A i \in 1 .. N : L[i] \in Chain
  BY <1>1 DEF Linked
<1>3. ASSUME NEW i \in 1 .. N
      PROVE  PosOf(L[i]) = i - 1
  <2>1. \A k \in 0 .. Cardinality(Node) : Reached[k] = IF k < N THEN {L[k + 1]} ELSE {}
    <3>1. \A k \in Nat : Reached[k] = IF k < N THEN {L[k + 1]} ELSE {}
      BY ReachedOf
    <3>2. 0 .. Cardinality(Node) \subseteq Nat
      BY <1>1
    <3> QED
      BY <3>1, <3>2
  <2>2. i - 1 \in 0 .. Cardinality(Node) /\ i - 1 < N /\ (i - 1) + 1 = i
    BY <1>1
  <2>3. L[i] \in Reached[i - 1]
    <3>1. Reached[i - 1] = {L[(i - 1) + 1]}
      BY <2>1, <2>2
    <3> QED
      BY <2>2, <3>1
  <2>4. ASSUME NEW k \in 0 .. Cardinality(Node), L[i] \in Reached[k]
        PROVE  k = i - 1
    <3>1. k < N /\ L[i] = L[k + 1]
      BY <2>1, <2>4
    <3>2. k + 1 \in 1 .. N
      BY <1>1, <3>1
    <3>3. i = k + 1
      BY <3>1, <3>2 DEF Linked
    <3> QED
      BY <1>1, <3>3
  <2> QED
    BY <2>2, <2>3, <2>4 DEF PosOf
<1>4. ASSUME NEW k \in 1 .. N
      PROVE  (CHOOSE n \in Chain : PosOf(n) = k - 1) = L[k]
  <2>1. L[k] \in Chain /\ PosOf(L[k]) = k - 1
    BY <1>2, <1>3
  <2>2. ASSUME NEW n \in Chain, PosOf(n) = k - 1
        PROVE  n = L[k]
    <3>1. PICK i \in 1 .. N : L[i] = n
      BY <1>1 DEF Linked
    <3>2. i - 1 = k - 1
      BY <1>3, <2>2, <3>1
    <3>3. i = k
      BY <3>2
    <3> QED
      BY <3>1, <3>3
  <2> QED
    BY <2>1, <2>2
<1>5. List = [k \in 1 .. N |-> [data |-> L[k], lvl |-> lvl[L[k]]]]
  <2>1. List = [k \in 1 .. N |->
                  LET n == CHOOSE n \in Chain : PosOf(n) = k - 1
                  IN  [data |-> n, lvl |-> lvl[n]]]
    BY <1>1, Zenon DEF List
  <2> QED
    BY <1>4, <2>1
<1> QED
  BY <1>5, Zenon DEF ListFrom, Elem

\* The list of n nodes as a sequence.
LEMMA ListFromFacts ==
    ASSUME TypeOK, NEW N \in Nat, NEW L \in [1 .. N -> Node]
    PROVE  /\ ListFrom(N, L) \in Seq(Element)
           /\ Len(ListFrom(N, L)) = N
           /\ DOMAIN ListFrom(N, L) = 1 .. N
           /\ \A i \in 1 .. N : /\ ListFrom(N, L)[i].data = L[i]
                                /\ ListFrom(N, L)[i].lvl = lvl[L[i]]
                                /\ ListFrom(N, L)[i] = Elem(L[i])
<1> DEFINE s == ListFrom(N, L)
<1>1. \A i \in 1 .. N : Elem(L[i]) \in Element
  BY DEF Elem, Element, TypeOK
<1>2. s = [k \in 1 .. N |-> Elem(L[k])]
  BY DEF ListFrom
<1> HIDE DEF s
<1>3. s \in [1 .. N -> Element]
  BY <1>1, <1>2
<1>4. s \in Seq(Element)
  BY <1>3, SeqDef
<1>5. Len(s) = N /\ DOMAIN s = 1 .. N
  BY <1>3, <1>4
<1>6. \A i \in 1 .. N : s[i] = Elem(L[i])
  BY <1>2
<1> QED
  BY <1>4, <1>5, <1>6 DEF s, Elem

\* Where an element is inserted in s and where the others go.
IsInserted(s, p, e, r) ==
    /\ r \in Seq(Element) /\ Len(r) = Len(s) + 1
    /\ \A i \in 1 .. Len(s) + 1 :
          r[i] = IF i =< p THEN s[i] ELSE IF i = p + 1 THEN e ELSE s[i - 1]

\* InsertAt puts e at p + 1 and moves the rest.
LEMMA InsertAtPlaces ==
    ASSUME NEW s \in Seq(Element), NEW e \in Element, NEW p \in 0 .. Len(s)
    PROVE  IsInserted(s, p, e, Abstract!InsertAt(s, p + 1, e))
<1> DEFINE a == SubSeq(s, 1, p)
           ae == a \o <<e>>
           b == SubSeq(s, p + 1, Len(s))
           r == Abstract!InsertAt(s, p + 1, e)
<1>1. /\ a \in Seq(Element) /\ Len(a) = p
      /\ \A i \in 1 .. p : a[i] = s[i]
  BY SubSeqProperties
<1>2. /\ b \in Seq(Element) /\ Len(b) = Len(s) - p
      /\ \A i \in 1 .. Len(s) - p : b[i] = s[p + i]
  BY SubSeqProperties
<1>3. r = ae \o b
  <2>1. r = SubSeq(s, 1, (p + 1) - 1) \o <<e>> \o SubSeq(s, p + 1, Len(s))
    BY Zenon DEF Abstract!InsertAt
  <2>2. (p + 1) - 1 = p
    OBVIOUS
  <2> QED
    BY <2>1, <2>2, Zenon
<1>4. /\ ae \in Seq(Element) /\ Len(ae) = p + 1
      /\ \A i \in 1 .. p + 1 : ae[i] = IF i =< p THEN s[i] ELSE e
  BY <1>1
<1> HIDE DEF a, ae, b, r
<1> DEFINE c == ae \o b
<1>5. /\ c \in Seq(Element)
      /\ Len(c) = Len(ae) + Len(b)
      /\ \A i \in 1 .. Len(ae) + Len(b) :
            c[i] = IF i <= Len(ae) THEN ae[i] ELSE b[i - Len(ae)]
  BY <1>2, <1>4, ConcatProperties, Zenon
<1> HIDE DEF c
<1>6. c \in Seq(Element) /\ Len(c) = Len(s) + 1
  BY <1>2, <1>4, <1>5
<1>7. ASSUME NEW i \in 1 .. Len(s) + 1
      PROVE  c[i] = IF i =< p THEN s[i] ELSE IF i = p + 1 THEN e ELSE s[i - 1]
  <2>1. c[i] = IF i <= p + 1 THEN ae[i] ELSE b[i - (p + 1)]
    BY <1>2, <1>4, <1>5
  <2>2. CASE i <= p + 1
    BY <2>1, <2>2, <1>4
  <2>3. CASE i > p + 1
    <3>1. i - (p + 1) \in 1 .. Len(s) - p /\ p + (i - (p + 1)) = i - 1
      BY <2>3
    <3> QED
      BY <2>1, <2>3, <3>1, <1>2, SMTT(30)
  <2> QED
    BY <2>2, <2>3
<1>8. r = c
  BY <1>3, Zenon DEF c
<1> QED
  BY <1>6, <1>7, <1>8 DEF IsInserted, r

\* The list with a node placed in it is the sequence with the element inserted.
LEMMA PlacedIsInserted ==
    ASSUME TypeOK, NEW N \in Nat, NEW L \in [1 .. N -> Node],
           NEW j \in 0 .. N, NEW n \in Node, NEW l \in Level,
           TypeOK', lvl'[n] = l, \A i \in 1 .. N : lvl'[L[i]] = lvl[L[i]],
           NEW M, M = Placed(N, L, j, n)
    PROVE  ListFrom(N + 1, M)' =
              Abstract!InsertAt(ListFrom(N, L), j + 1, [data |-> n, lvl |-> l])
<1> DEFINE s == ListFrom(N, L)
           e == [data |-> n, lvl |-> l]
           r == Abstract!InsertAt(s, j + 1, e)
           t == ListFrom(N + 1, M)'
<1>1. s \in Seq(Element) /\ Len(s) = N /\ \A i \in 1 .. N : s[i] = Elem(L[i])
  BY ListFromFacts
<1>2. e \in Element
  BY DEF Element
<1>3. IsPlaced(N, L, j, n, M)
  BY PlacedFacts
<1>4. t = [i \in 1 .. N + 1 |-> Elem(M[i])']
  BY Zenon DEF ListFrom
<1>5. \A m : Elem(m)' = [data |-> m, lvl |-> lvl'[m]]
  BY DEF Elem
<1> HIDE DEF s, e, t
<1>6. IsInserted(s, j, e, r)
  BY <1>1, <1>2, InsertAtPlaces
<1> HIDE DEF r
<1>7. M \in [1 .. N + 1 -> Node]
  BY <1>3 DEF IsPlaced
<1>8. \A i \in 1 .. N + 1 : Elem(M[i])' \in Element
  <2>1. lvl' \in [Node -> Level]
    BY DEF TypeOK, Level
  <2> QED
    BY <1>5, <1>7, <2>1 DEF Element
<1>9. t \in Seq(Element) /\ Len(t) = N + 1
  <2>1. t \in [1 .. N + 1 -> Element]
    BY <1>4, <1>8
  <2>2. t \in Seq(Element)
    BY <2>1, SeqDef
  <2> QED
    BY <2>1, <2>2
<1>10. ASSUME NEW i \in 1 .. N + 1
       PROVE  t[i] = r[i]
  <2>1. t[i] = [data |-> M[i], lvl |-> lvl'[M[i]]]
    BY <1>4, <1>5
  <2>2. r[i] = IF i =< j THEN s[i] ELSE IF i = j + 1 THEN e ELSE s[i - 1]
    BY <1>1, <1>6 DEF IsInserted
  <2>3. CASE i =< j /\ i \in 1 .. N /\ M[i] = L[i]
    BY <1>1, <2>1, <2>2, <2>3 DEF Elem
  <2>4. CASE i = j + 1 /\ M[i] = n
    BY <2>1, <2>2, <2>4 DEF e
  <2>5. CASE i > j + 1 /\ i - 1 \in 1 .. N /\ M[i] = L[i - 1]
    <3>1. r[i] = s[i - 1]
      BY <2>2, <2>5
    <3> QED
      BY <1>1, <2>1, <2>5, <3>1 DEF Elem
  <2> QED
    BY <1>3, <2>3, <2>4, <2>5 DEF IsPlaced
<1>11. t = r
  <2>1. r \in Seq(Element) /\ Len(r) = N + 1
    BY <1>1, <1>6 DEF IsInserted
  <2> QED
    BY <1>9, <1>10, <2>1, SeqEqual
<1> QED
  BY <1>11 DEF t, r, s, e

\* What the abstract list shows of the levels.
LEMMA OccupiedOf ==
    ASSUME TypeOK, Counted, NEW N \in Nat, NEW L, IsList(N, L), NEW l \in Level
    PROVE  Abstract!Occupied(ListFrom(N, L), l) <=> size[l] # 0
<1>1. L \in [1 .. N -> Node]
  BY DEF IsList, Linked
<1>2. /\ DOMAIN ListFrom(N, L) = 1 .. N
      /\ \A i \in 1 .. N : ListFrom(N, L)[i].lvl = lvl[L[i]]
  BY <1>1, ListFromFacts
<1>3. size[l] # 0 <=> \E i \in 1 .. N : lvl[L[i]] = l
  BY SizeTells
<1> QED
  BY <1>2, <1>3 DEF Abstract!Occupied

\* ListOf and OccupiedOf for the state after a step.
Shown ==
    /\ \A N \in Nat : \A L : Linked(N, L) => List = ListFrom(N, L)
    /\ \A N \in Nat : \A L : IsList(N, L) =>
          \A l \in Level : Abstract!Occupied(ListFrom(N, L), l) <=> size[l] # 0

\* Both in any state of the invariant.
LEMMA ListShows == ListInv => Shown
<1> SUFFICES ASSUME ListInv
             PROVE  Shown
  OBVIOUS
<1>1. TypeOK /\ Counted
  BY DEF ListInv
<1>2. \A N \in Nat : \A L : Linked(N, L) => List = ListFrom(N, L)
  BY <1>1, ListOf
<1>3. \A N \in Nat : \A L : IsList(N, L) =>
         \A l \in Level : Abstract!Occupied(ListFrom(N, L), l) <=> size[l] # 0
  BY <1>1, OccupiedOf
<1> QED
  BY <1>2, <1>3 DEF Shown

\* And in the state a step leads to.
LEMMA ListShowsNext == ListInv' => Shown'
  BY ListShows, PTL

\* The abstract queue after a node entered.
LEMMA EntersQueue ==
    ASSUME ListInv, NEW N \in Nat, NEW L, IsList(N, L),
           NEW j, NEW n, NEW l, NEW S, Enters(N, L, j, n, l, S),
           held' \subseteq held \ {n}, UNCHANGED alive
    PROVE  AbsQueue' = [list  |-> Abstract!InsertAt(ListFrom(N, L), j + 1, [data |-> n, lvl |-> l]),
                        backs |-> [k \in Level |-> IF k \in S THEN n ELSE AbsQueue.backs[k]]]
<1> DEFINE M == Placed(N, L, j, n)
<1>1. /\ TypeOK /\ Counted /\ n \in Node \ queued /\ l \in Level /\ j \in 0 .. N
      /\ Place(N, L, j, l, S) /\ Leveling(n, l, S)
      /\ L \in [1 .. N -> Node] /\ Linked(N, L)
  BY DEF ListInv, Enters, IsList, Linked
<1>2. ListInv' /\ IsList(N + 1, M)'
  BY EntersKeeps
<1>3. TypeOK' /\ Linked(N + 1, M)' /\ N + 1 \in Nat
  BY <1>2 DEF ListInv, IsList
<1>4. List' = ListFrom(N + 1, M)'
  <2> HIDE DEF M
  <2>1. Shown'
    BY <1>2, ListShowsNext
  <2> QED
    BY <1>3, <2>1 DEF Shown
<1>5. ListFrom(N + 1, M)' = Abstract!InsertAt(ListFrom(N, L), j + 1, [data |-> n, lvl |-> l])
  <2>1. \A i \in 1 .. N : L[i] # n
    BY <1>1 DEF Linked
  <2>2. lvl'[n] = l /\ \A i \in 1 .. N : lvl'[L[i]] = lvl[L[i]]
    BY <1>1, <2>1 DEF Leveling, TypeOK
  <2> QED
    BY <1>1, <1>3, <2>2, PlacedIsInserted
<1>6. ASSUME NEW k \in Level
      PROVE  (IF size'[k] # 0 THEN backs'[k] ELSE NULL)
                = IF k \in S THEN n ELSE IF size[k] # 0 THEN backs[k] ELSE NULL
  <2>1. /\ size'[k] = IF k = l THEN size[k] + 1 ELSE size[k]
        /\ backs'[k] = IF k \in S THEN n ELSE backs[k]
        /\ size[k] \in Nat
    BY <1>1 DEF Leveling, TypeOK
  <2>2. k \in S => k = l \/ size[k] # 0
    BY <1>1 DEF Place, NearestLevel
  <2>3. l \in S
    BY <1>1 DEF Place
  <2>4. size'[k] # 0 <=> k = l \/ size[k] # 0
    BY <2>1
  <2> QED
    BY <2>1, <2>2, <2>3, <2>4, Zenon
<1>7. AbsQueue' = [list |-> List',
                   backs |-> [k \in Level |-> IF size'[k] # 0 THEN backs'[k] ELSE NULL]]
  BY Zenon DEF AbsQueue, Level
<1>8. AbsQueue.backs = [k \in Level |-> IF size[k] # 0 THEN backs[k] ELSE NULL]
  BY DEF AbsQueue
<1>9. [k \in Level |-> IF size'[k] # 0 THEN backs'[k] ELSE NULL]
         = [k \in Level |-> IF k \in S THEN n ELSE AbsQueue.backs[k]]
  BY <1>6, <1>8, Zenon
<1> QED
  BY <1>4, <1>5, <1>7, <1>9, Zenon

\* A node enters the abstract queue where RunQueueOps has it enter.
LEMMA EntersAbstract ==
    ASSUME ListInv, NEW N \in Nat, NEW L, IsList(N, L),
           NEW j, NEW n, NEW l, NEW S, Enters(N, L, j, n, l, S),
           held' \subseteq held \ {n}, UNCHANGED alive
    PROVE  AbsQueue' \in Abstract!Enqueued(AbsQueue, [data |-> n, lvl |-> l])
<1> DEFINE e == [data |-> n, lvl |-> l]
           s == ListFrom(N, L)
           R == [list  |-> Abstract!InsertAt(s, j + 1, e),
                 backs |-> [k \in Level |-> IF k \in S THEN n ELSE AbsQueue.backs[k]]]
           B(d, X) == Abstract!EnqueuedBehind(AbsQueue, e, d, X)
<1>1. /\ TypeOK /\ Counted /\ n \in Node \ queued /\ l \in Level /\ j \in 0 .. N
      /\ Place(N, L, j, l, S) /\ Leveling(n, l, S)
      /\ L \in [1 .. N -> Node] /\ Linked(N, L)
  BY DEF ListInv, Enters, IsList, Linked
<1>2. AbsQueue' = R
  BY EntersQueue
<1>3. AbsQueue.list = s
  BY <1>1, ListOf DEF AbsQueue
<1>4. /\ Len(s) = N /\ DOMAIN s = 1 .. N
      /\ \A i \in 1 .. N : s[i].data = L[i] /\ s[i].lvl = lvl[L[i]]
  BY <1>1, ListFromFacts
<1>5. e.data = n /\ e.lvl = l
  OBVIOUS
<1>6. Level = Abstract!Level
  BY DEF Level, Abstract!Level
<1>7. \A k \in Level : Abstract!Occupied(AbsQueue.list, k) <=> size[k] # 0
  BY <1>1, <1>3, OccupiedOf
<1>8. \A k \in Level : size[k] # 0 => AbsQueue.backs[k] = backs[k]
  BY DEF AbsQueue
<1> HIDE DEF e, s
<1>9. ASSUME NEW d, IF d = NULL THEN j = 0 ELSE j \in 1 .. N /\ L[j] = d
      PROVE  R \in B(d, S)
  <2>1. j \in {i \in 0 .. Len(AbsQueue.list) :
                  IF d = NULL THEN i = 0 ELSE i > 0 /\ AbsQueue.list[i].data = d}
    BY <1>1, <1>3, <1>4, <1>9
  <2>2. B(d, S) = {[list  |-> Abstract!InsertAt(AbsQueue.list, p + 1, e),
                    backs |-> [k \in Level |-> IF k \in S THEN e.data ELSE AbsQueue.backs[k]]] :
                      p \in {i \in 0 .. Len(AbsQueue.list) :
                               IF d = NULL THEN i = 0 ELSE i > 0 /\ AbsQueue.list[i].data = d}}
    BY <1>6, Zenon DEF Abstract!EnqueuedBehind
  <2>3. R = [list  |-> Abstract!InsertAt(AbsQueue.list, j + 1, e),
             backs |-> [k \in Level |-> IF k \in S THEN e.data ELSE AbsQueue.backs[k]]]
    BY <1>3, <1>5, Zenon
  <2> QED
    BY <2>1, <2>2, <2>3, Zenon
<1> HIDE DEF R, B
<1>10. Abstract!Enqueued(AbsQueue, e) =
          IF Abstract!Occupied(AbsQueue.list, l) THEN B(AbsQueue.backs[l], {l})
          ELSE IF AbsQueue.list = <<>> \/ AbsQueue.list[1].lvl > l THEN B(NULL, {l})
          ELSE UNION {B(AbsQueue.backs[i], {l, i}) : i \in Abstract!Neighbour(AbsQueue.list, l)}
  BY <1>5, Zenon DEF Abstract!Enqueued, B
<1>11. ASSUME NEW k \in Level, size[k] # 0, j \in 1 .. N, backs[k] = L[j]
       PROVE  R \in B(AbsQueue.backs[k], S)
  <2>1. AbsQueue.backs[k] = L[j] /\ L[j] # NULL
    BY <1>1, <1>8, <1>11, HeapAssumption
  <2> QED
    BY <1>9, <1>11, <2>1
<1>12. AbsQueue.list = <<>> \/ AbsQueue.list[1].lvl > l <=> front = NULL \/ lvl[front] > l
  <2>1. CASE N = 0
    <3>1. s = <<>>
      <4>1. s \in Seq(Element) /\ Len(s) = 0
        BY <1>1, <2>1, ListFromFacts DEF s
      <4> HIDE DEF s
      <4> QED
        BY <4>1, EmptySeq
    <3> QED
      BY <1>1, <1>3, <2>1, <3>1 DEF Linked
  <2>2. CASE N # 0
    <3>1. 1 \in 1 .. N /\ front = L[1] /\ front # NULL /\ s[1].lvl = lvl[front]
      BY <1>1, <1>4, <2>2, HeapAssumption DEF Linked
    <3>2. s # <<>>
      BY <1>4, <2>2
    <3> QED
      BY <1>3, <3>1, <3>2
  <2> QED
    BY <2>1, <2>2
<1>13. CASE size[l] # 0 /\ S = {l} /\ j \in 1 .. N /\ backs[l] = L[j]
  <2>1. R \in B(AbsQueue.backs[l], {l})
    BY <1>1, <1>11, <1>13
  <2> QED
    BY <1>1, <1>2, <1>7, <1>10, <1>13, <2>1, Zenon DEF e, R, s
<1>14. CASE size[l] = 0 /\ (front = NULL \/ lvl[front] > l) /\ S = {l} /\ j = 0
  <2>1. R \in B(NULL, {l})
    BY <1>9, <1>14
  <2>2. ~Abstract!Occupied(AbsQueue.list, l)
    BY <1>1, <1>7, <1>14
  <2> QED
    BY <1>2, <1>10, <1>12, <1>14, <2>1, <2>2, Zenon DEF e, R, s
<1>15. ASSUME size[l] = 0, front # NULL, lvl[front] =< l,
              NEW i \in NearestLevel(l), S = {l, i}, j \in 1 .. N, backs[i] = L[j]
       PROVE  AbsQueue' \in Abstract!Enqueued(AbsQueue, e)
  <2>1. i \in Level /\ size[i] # 0
    BY <1>1, LevelsAssumption DEF NearestLevel, Level
  <2>2. R \in B(AbsQueue.backs[i], {l, i})
    BY <1>11, <1>15, <2>1
  <2>3. ~Abstract!Occupied(AbsQueue.list, l)
    BY <1>1, <1>7, <1>15
  <2>4. ~(AbsQueue.list = <<>> \/ AbsQueue.list[1].lvl > l)
    <3>1. front \in Node /\ lvl[front] \in Int /\ l \in Int
      BY <1>1, <1>15, LevelsAssumption DEF TypeOK, Level
    <3> QED
      BY <1>12, <1>15, <3>1
  <2>5. i \in Abstract!Neighbour(AbsQueue.list, l)
    <3>1. /\ i \in 0 .. (l - 1) /\ size[i] # 0
          /\ \A k \in (i + 1) .. (l - 1) : size[k] = 0
      BY DEF NearestLevel
    <3>2. \A k \in (i + 1) .. (l - 1) : k \in Level
      BY <1>1, <3>1, LevelsAssumption DEF Level
    <3> QED
      BY <1>7, <2>1, <3>1, <3>2 DEF Abstract!Neighbour
  <2>6. R \in UNION {B(AbsQueue.backs[x], {l, x}) : x \in Abstract!Neighbour(AbsQueue.list, l)}
    BY <2>2, <2>5
  <2> QED
    BY <1>2, <1>10, <2>3, <2>4, <2>6, Zenon DEF R, s, e
<1>16. AbsQueue' \in Abstract!Enqueued(AbsQueue, e)
  BY <1>1, <1>13, <1>14, <1>15 DEF Place, e
<1> QED
  BY <1>16 DEF e

\* The nodes the abstract queue uses.
LEMMA InUseOf ==
    ASSUME ListInv
    PROVE  Abstract!InUse = held \cup queued
<1>1. PICK N \in Nat : \E L \in [1 .. N -> Node] : IsList(N, L)
  BY DEF ListInv, Listed
<1>2. PICK L \in [1 .. N -> Node] : IsList(N, L)
  BY <1>1
<1>3. TypeOK /\ Linked(N, L)
  BY <1>2 DEF ListInv, IsList
<1>4. List = ListFrom(N, L)
  BY <1>3, ListOf
<1>5. DOMAIN List = 1 .. N /\ \A i \in 1 .. N : List[i].data = L[i]
  BY <1>3, <1>4, ListFromFacts
<1>6. {List[i].data : i \in DOMAIN List} = queued
  BY <1>3, <1>5 DEF Linked
<1>7. {e.data : e \in AbsHeld} = held
  <2>1. \A m \in held : Elem(m) \in AbsHeld /\ Elem(m).data = m
    BY DEF AbsHeld, Elem
  <2>2. \A e \in AbsHeld : \E m \in held : e = Elem(m)
    BY DEF AbsHeld
  <2> QED
    BY <2>1, <2>2
<1>8. Abstract!InUse = {e.data : e \in AbsHeld} \cup {List[i].data : i \in DOMAIN List}
  BY Zenon DEF Abstract!InUse, AbsHeld, Elem
<1> QED
  BY <1>6, <1>7, <1>8

\* queue_new_node is RunQueue's.
LEMMA AbstractNewNode ==
    ASSUME ListInv, NEW n \in Node, NewNode(n)
    PROVE  Abstract!NewNode(n)
<1>1. PICK N \in Nat : \E L \in [1 .. N -> Node] : IsList(N, L)
  BY DEF ListInv, Listed
<1>2. PICK L \in [1 .. N -> Node] : IsList(N, L)
  BY <1>1
<1>3. PICK j \in 0 .. N : \E S : Enters(N, L, j, n, 0, S)
  BY <1>2, NewNodeEnters
<1>4. PICK S : Enters(N, L, j, n, 0, S)
  BY <1>3
<1>5. alive /\ n \notin held \cup queued /\ held' = held /\ alive' = alive
  BY DEF NewNode
<1>6. AbsQueue' \in Abstract!Enqueued(AbsQueue, [data |-> n, lvl |-> 0])
  BY <1>2, <1>4, <1>5, EntersAbstract
<1>7. AbsHeld' = AbsHeld
  <2>1. \A m \in held : lvl'[m] = lvl[m]
    BY <1>5 DEF NewNode, ListInv, TypeOK
  <2> QED
    BY <1>5, <2>1, Zenon DEF AbsHeld, Elem
<1>8. n \notin Abstract!InUse
  BY <1>5, InUseOf
<1> QED
  BY <1>5, <1>6, <1>7, <1>8, Zenon DEF Abstract!NewNode, AbsQueue, AbsHeld, Elem

\* queue_insert is RunQueue's, for the element the node is.
LEMMA AbstractInsert ==
    ASSUME ListInv, NEW n \in Node, NEW l \in Level, Insert(n, l),
           NEW e, e = Elem(n)
    PROVE  e \in AbsHeld /\ Abstract!Insert(e, l)
<1>1. PICK N \in Nat : \E L \in [1 .. N -> Node] : IsList(N, L)
  BY DEF ListInv, Listed
<1>2. PICK L \in [1 .. N -> Node] : IsList(N, L)
  BY <1>1
<1>3. PICK j \in 0 .. N : \E S : Enters(N, L, j, n, l, S)
  BY <1>2, InsertEnters
<1>4. PICK S : Enters(N, L, j, n, l, S)
  BY <1>3
<1>5. alive /\ n \in held /\ held' = held \ {n} /\ alive' = alive
  BY DEF Insert
<1>6. AbsQueue' \in Abstract!Enqueued(AbsQueue, [data |-> n, lvl |-> l])
  BY <1>2, <1>4, <1>5, EntersAbstract
<1>7. [e EXCEPT !.lvl = l] = [data |-> n, lvl |-> l]
  BY DEF Elem
<1>8. AbsHeld' = AbsHeld \ {e}
  <2>1. \A m \in held : m # n => lvl'[m] = lvl[m]
    BY <1>5 DEF Insert, ListInv, TypeOK
  <2>2. AbsHeld' = {[data |-> m, lvl |-> lvl[m]] : m \in held \ {n}}
    <3>1. AbsHeld' = {[data |-> m, lvl |-> lvl'[m]] : m \in held \ {n}}
      BY <1>5, Zenon DEF AbsHeld, Elem
    <3>2. \A m \in held \ {n} : [data |-> m, lvl |-> lvl'[m]] = [data |-> m, lvl |-> lvl[m]]
      BY <2>1
    <3> QED
      BY <3>1, <3>2
  <2> QED
    BY <2>2 DEF AbsHeld, Elem
<1>9. e \in AbsHeld
  BY <1>5 DEF AbsHeld
<1>10. AbsQueue' \in Abstract!Enqueued(AbsQueue, [e EXCEPT !.lvl = l])
  BY <1>6, <1>7
<1>11. Abstract!Insert(e, l) <=>
          /\ alive /\ e \in AbsHeld
          /\ AbsQueue' \in Abstract!Enqueued(AbsQueue, [e EXCEPT !.lvl = l])
          /\ AbsHeld' = AbsHeld \ {e}
          /\ alive' = alive
  BY Zenon DEF Abstract!Insert, AbsQueue, AbsHeld, Elem
<1> QED
  BY <1>5, <1>8, <1>9, <1>10, <1>11

\* So is the caller's free.
LEMMA AbstractFree ==
    ASSUME ListInv, NEW n \in Node, Free(n), NEW e, e = Elem(n)
    PROVE  e \in AbsHeld /\ Abstract!Free(e)
<1>1. PICK N \in Nat : \E L \in [1 .. N -> Node] : IsList(N, L)
  BY DEF ListInv, Listed
<1>2. PICK L \in [1 .. N -> Node] : IsList(N, L)
  BY <1>1
<1>3. /\ n \in held /\ held' = held \ {n} /\ alive' = alive
      /\ UNCHANGED <<size, backs, queued>>
      /\ \A m \in held : m # n => lvl'[m] = lvl[m]
      /\ \A m \in queued : lvl'[m] = lvl[m]
      /\ TypeOK /\ Linked(N, L) /\ L \in [1 .. N -> Node]
  BY <1>2 DEF Free, ListInv, TypeOK, IsList
<1>4. ListInv' /\ IsList(N, L)'
  BY <1>2, FreeKeeps
<1>5. List' = ListFrom(N, L)' /\ List = ListFrom(N, L)
  <2>1. Shown' /\ Linked(N, L)'
    BY <1>4, ListShowsNext DEF IsList
  <2>2. List' = ListFrom(N, L)'
    BY <2>1 DEF Shown
  <2> QED
    BY <1>3, <2>2, ListOf
<1>6. ListFrom(N, L)' = ListFrom(N, L)
  <2>1. \A i \in 1 .. N : lvl'[L[i]] = lvl[L[i]]
    BY <1>3 DEF Linked
  <2> QED
    BY <2>1, Zenon DEF ListFrom, Elem
<1>7. AbsQueue' = AbsQueue
  BY <1>3, <1>5, <1>6, Zenon DEF AbsQueue, Level
<1>8. AbsHeld' = AbsHeld \ {e}
  <2>1. AbsHeld' = {[data |-> m, lvl |-> lvl'[m]] : m \in held \ {n}}
    BY <1>3, Zenon DEF AbsHeld, Elem
  <2>2. \A m \in held \ {n} : [data |-> m, lvl |-> lvl'[m]] = [data |-> m, lvl |-> lvl[m]]
    BY <1>3
  <2>3. AbsHeld' = {[data |-> m, lvl |-> lvl[m]] : m \in held \ {n}}
    BY <2>1, <2>2
  <2> QED
    BY <2>3 DEF AbsHeld, Elem
<1>9. e \in AbsHeld
  BY <1>3 DEF AbsHeld
<1>10. Abstract!Free(e) <=>
          /\ e \in AbsHeld /\ AbsHeld' = AbsHeld \ {e}
          /\ UNCHANGED <<AbsQueue, alive>>
  BY Zenon DEF Abstract!Free, AbsQueue, AbsHeld, Elem
<1> QED
  BY <1>3, <1>7, <1>8, <1>9, <1>10

\* queue_pop is RunQueue's.
LEMMA AbstractPop ==
    ASSUME ListInv, Pop
    PROVE  Abstract!Pop
<1>1. PICK N \in Nat : \E L \in [1 .. N -> Node] : IsList(N, L)
  BY DEF ListInv, Listed
<1>2. PICK L \in [1 .. N -> Node] : IsList(N, L)
  BY <1>1
<1> DEFINE M == WithoutFirst(N, L)
           s == ListFrom(N, L)
           rest == SubSeq(s, 1 + 1, Len(s))
<1>3. ListInv' /\ N - 1 \in Nat /\ IsList(N - 1, M)'
  BY <1>2, PopKeeps
<1>4. /\ TypeOK /\ Linked(N, L) /\ front # NULL /\ alive /\ alive' = alive
      /\ held' = held \cup {front} /\ lvl' = lvl /\ backs' = backs
      /\ Counted
  BY <1>2 DEF ListInv, IsList, Pop
<1>5. N # 0 /\ 1 \in 1 .. N /\ front = L[1] /\ front \in Node
  BY <1>4 DEF Linked
<1>6. List = s
  BY <1>4, ListOf
<1>7. /\ s \in Seq(Element) /\ Len(s) = N /\ DOMAIN s = 1 .. N
      /\ \A i \in 1 .. N : s[i] = Elem(L[i])
  BY <1>4, ListFromFacts
<1>8. Shown' /\ Linked(N - 1, M)'
  BY <1>3, ListShowsNext DEF IsList
<1> DEFINE t == ListFrom(N - 1, M)'
<1>9. List' = t
  <2> HIDE DEF M
  <2> QED
    BY <1>3, <1>8 DEF Shown
<1>10. t = rest
  <2>1. /\ rest \in Seq(Element) /\ Len(rest) = N - 1
        /\ \A i \in 1 .. N - 1 : rest[i] = s[i + 1]
    <3>1. \A i \in 1 + 1 .. Len(s) : s[i] \in Element
      BY <1>7
    <3> HIDE DEF s
    <3>2. /\ rest \in Seq(Element)
          /\ Len(rest) = IF 1 + 1 <= Len(s) THEN Len(s) - (1 + 1) + 1 ELSE 0
          /\ \A i \in 1 .. Len(s) - (1 + 1) + 1 : rest[i] = s[1 + 1 + i - 1]
      BY <1>7, <3>1, SubSeqProperties
    <3> HIDE DEF rest
    <3> QED
      BY <1>3, <1>5, <1>7, <3>2
  <2>2. t = [i \in 1 .. N - 1 |-> Elem(M[i])']
    BY Zenon DEF ListFrom
  <2>3. \A m : Elem(m)' = Elem(m)
    BY <1>4, Zenon DEF Elem
  <2>4. \A i \in 1 .. N - 1 : i + 1 \in 1 .. N /\ M[i] = L[i + 1]
    BY <1>5 DEF WithoutFirst
  <2> HIDE DEF t, rest, s, M
  <2>5. \A i \in 1 .. N - 1 : t[i] = rest[i] /\ t[i] = Elem(L[i + 1])
    BY <1>7, <2>1, <2>2, <2>3, <2>4
  <2>6. t \in Seq(Element) /\ Len(t) = N - 1
    <3>1. \A i \in 1 .. N - 1 : t[i] \in Element
      <4>1. \A i \in 1 .. N : Elem(L[i]) \in Element
        BY <1>4 DEF Elem, Element, TypeOK
      <4> QED
        BY <2>4, <2>5, <4>1
    <3>2. t \in [1 .. N - 1 -> Element]
      BY <2>2, <3>1
    <3>3. t \in Seq(Element)
      BY <1>3, <3>2, SeqDef
    <3> QED
      BY <1>3, <3>2, <3>3
  <2> QED
    BY <2>1, <2>5, <2>6, SeqEqual
<1>11. \A k \in Level : size'[k] # 0 <=> Abstract!Occupied(rest, k)
  <2>1. \A k \in Level : Abstract!Occupied(t, k) <=> size'[k] # 0
    <3> HIDE DEF M
    <3>1. \A k \in Level : (Abstract!Occupied(ListFrom(N - 1, M), k) <=> size[k] # 0)'
      BY <1>3, <1>8, Zenon DEF Shown, Level
    <3> QED
      BY <3>1, Zenon DEF Abstract!Occupied
  <2> QED
    BY <1>10, <2>1
<1>12. \A k \in Level : size'[k] # 0 => size[k] # 0
  <2>1. size' = [size EXCEPT ![lvl[front]] = @ - 1] /\ size \in [Level -> Nat]
    BY <1>4 DEF Pop, SizeAfterPop, TypeOK
  <2>2. lvl[front] \in Level /\ size[lvl[front]] # 0
    <3>1. lvl[front] \in Level
      BY <1>4, <1>5 DEF TypeOK
    <3> QED
      BY <1>2, <1>4, <1>5, <3>1, SizeTells
  <2> QED
    BY <2>1, <2>2
<1>13. AbsQueue' = Abstract!Dequeued(AbsQueue, 1)
  <2> HIDE DEF rest, t
  <2>1. AbsQueue' = [list |-> rest,
                     backs |-> [k \in Level |-> IF size'[k] # 0 THEN backs'[k] ELSE NULL]]
    BY <1>9, <1>10, Zenon DEF AbsQueue, Level
  <2>2. Abstract!Dequeued(AbsQueue, 1) =
           [list |-> rest,
            backs |-> [k \in Level |-> IF Abstract!Occupied(rest, k) THEN AbsQueue.backs[k] ELSE NULL]]
    <3>1. AbsQueue.list = s /\ Level = Abstract!Level
      BY <1>6 DEF AbsQueue, Level, Abstract!Level
    <3> HIDE DEF s
    <3> QED
      BY <3>1, Zenon DEF Abstract!Dequeued, rest
  <2>3. \A k \in Level : (IF size'[k] # 0 THEN backs'[k] ELSE NULL)
           = IF Abstract!Occupied(rest, k) THEN AbsQueue.backs[k] ELSE NULL
    <3>1. \A k \in Level : size[k] # 0 => AbsQueue.backs[k] = backs[k]
      BY DEF AbsQueue
    <3> QED
      BY <1>4, <1>11, <1>12, <3>1, Zenon
  <2> QED
    BY <2>1, <2>2, <2>3, Zenon
<1>14. AbsHeld' = AbsHeld \cup {Head(List)}
  <2>1. Head(s) = Elem(front)
    <3>1. Head(s) = s[1]
      BY <1>7
    <3> QED
      BY <1>5, <1>7, <3>1
  <2>2. AbsHeld' = {Elem(m) : m \in held \cup {front}}
    BY <1>4, Zenon DEF AbsHeld, Elem
  <2> QED
    BY <1>6, <2>1, <2>2 DEF AbsHeld
<1>15. List # <<>>
  BY <1>5, <1>6, <1>7
<1>16. Abstract!Pop <=>
          /\ alive /\ AbsQueue.list # <<>>
          /\ AbsQueue' = Abstract!Dequeued(AbsQueue, 1)
          /\ AbsHeld' = AbsHeld \cup {Head(AbsQueue.list)}
          /\ alive' = alive
  BY Zenon DEF Abstract!Pop, AbsQueue, AbsHeld, Elem
<1>17. AbsQueue.list = List
  BY DEF AbsQueue
<1> QED
  BY <1>4, <1>13, <1>14, <1>15, <1>16, <1>17, Zenon

\* queue_lift is RunQueue's.
LEMMA AbstractLift ==
    ASSUME ListInv, Lift
    PROVE  Abstract!Lift
<1>1. PICK N \in Nat : \E L \in [1 .. N -> Node] : IsList(N, L)
  BY DEF ListInv, Listed
<1>2. PICK L \in [1 .. N -> Node] : IsList(N, L)
  BY <1>1
<1> DEFINE s == ListFrom(N, L)
           t == ListFrom(N, L)'
           u == [i \in 1 .. Len(s) |-> [s[i] EXCEPT !.lvl = 0]]
<1>3. /\ ListInv' /\ IsList(N, L)'
      /\ UNCHANGED <<front, next, held, queued, alive>>
      /\ \A i \in 1 .. N : lvl'[L[i]] = 0
      /\ \A n \in Node \ queued : lvl'[n] = lvl[n]
      /\ size' = [l \in Level |-> IF l = 0 THEN N ELSE 0]
      /\ N # 0 => backs' = [l \in Level |-> IF l = 0 THEN L[N] ELSE NULL]
  BY <1>2, LiftKeeps
<1>4. /\ TypeOK /\ Linked(N, L) /\ alive /\ held \cap queued = {} /\ held \subseteq Node
  BY <1>2 DEF ListInv, IsList, Lift, TypeOK
<1>5. List = s
  BY <1>4, ListOf
<1>6. List' = t
  <2>1. Shown' /\ Linked(N, L)'
    BY <1>3, ListShowsNext DEF IsList
  <2> QED
    BY <2>1 DEF Shown
<1>7. /\ s \in Seq(Element) /\ Len(s) = N /\ DOMAIN s = 1 .. N
      /\ \A i \in 1 .. N : s[i] = Elem(L[i]) /\ s[i].data = L[i]
  BY <1>4, ListFromFacts
<1>8. t = u
  <2>1. t = [i \in 1 .. N |-> [data |-> L[i], lvl |-> lvl'[L[i]]]]
    BY Zenon DEF ListFrom, Elem
  <2>2. \A i \in 1 .. N : [s[i] EXCEPT !.lvl = 0] = [data |-> L[i], lvl |-> 0]
    BY <1>7 DEF Elem
  <2> HIDE DEF s
  <2> QED
    BY <1>3, <1>7, <2>1, <2>2
<1>9. AbsQueue' = [list |-> u,
                   backs |-> [k \in Level |-> IF size'[k] # 0 THEN backs'[k] ELSE NULL]]
  BY <1>6, <1>8, Zenon DEF AbsQueue, Level
<1>10. ASSUME NEW k \in Level
       PROVE  (IF size'[k] # 0 THEN backs'[k] ELSE NULL)
                 = IF k = 0 /\ s # <<>> THEN s[Len(s)].data ELSE NULL
  <2>1. s # <<>> <=> N # 0
    BY <1>7, EmptySeq
  <2>2. CASE k = 0 /\ N # 0
    <3>1. size'[k] # 0 /\ backs'[k] = L[N]
      BY <1>3, <2>2
    <3>2. s[Len(s)].data = L[N]
      BY <1>7, <2>2
    <3> QED
      BY <2>1, <2>2, <3>1, <3>2
  <2>3. CASE ~(k = 0 /\ N # 0)
    <3>1. size'[k] = 0
      BY <1>3, <2>3
    <3> QED
      BY <2>1, <2>3, <3>1
  <2> QED
    BY <2>2, <2>3
<1>11. Abstract!Lifted(AbsQueue) =
          [list |-> u,
           backs |-> [k \in Level |-> IF k = 0 /\ s # <<>> THEN s[Len(s)].data ELSE NULL]]
  <2>1. AbsQueue.list = s /\ Level = Abstract!Level
    BY <1>5 DEF AbsQueue, Level, Abstract!Level
  <2> HIDE DEF s
  <2> QED
    BY <2>1, Zenon DEF Abstract!Lifted, Abstract!Last
<1>12. AbsQueue' = Abstract!Lifted(AbsQueue)
  <2> HIDE DEF u, s
  <2> QED
    BY <1>9, <1>10, <1>11, Zenon
<1>13. AbsHeld' = AbsHeld
  <2>1. \A m \in held : lvl'[m] = lvl[m]
    BY <1>3, <1>4
  <2>2. held' = held
    BY <1>3
  <2> QED
    BY <2>1, <2>2, Zenon DEF AbsHeld, Elem
<1>14. Abstract!Lift <=>
          alive /\ AbsQueue' = Abstract!Lifted(AbsQueue) /\ UNCHANGED <<AbsHeld, alive>>
  BY Zenon DEF Abstract!Lift, AbsQueue, AbsHeld, Elem
<1> QED
  BY <1>3, <1>4, <1>12, <1>13, <1>14

\* An empty queue is RunQueue's.
LEMMA EmptyShows ==
    TypeOK /\ IsList(0, <<>>) /\ size = [l \in Level |-> 0] => AbsQueue = Abstract!EmptyQueue
<1> SUFFICES ASSUME TypeOK, IsList(0, <<>>), size = [l \in Level |-> 0]
             PROVE  AbsQueue = Abstract!EmptyQueue
  OBVIOUS
<1>1. List = ListFrom(0, <<>>)
  BY ListOf DEF IsList
<1>2. ListFrom(0, <<>>) = <<>>
  <2>1. <<>> \in [1 .. 0 -> Node]
    BY DEF IsList, Linked
  <2> QED
    BY <2>1, ListFromFacts, EmptySeq
<1>3. Level = Abstract!Level
  BY DEF Level, Abstract!Level
<1> QED
  BY <1>1, <1>2, <1>3 DEF AbsQueue, Abstract!EmptyQueue

\* queue_destroy is RunQueue's.
LEMMA AbstractDestroy ==
    ASSUME ListInv, Destroy
    PROVE  Abstract!Destroy
<1>1. /\ ListInv' /\ IsList(0, <<>>)'
      /\ \A n \in Node \ queued : lvl'[n] = lvl[n]
  BY DestroyKeeps
<1>2. /\ alive /\ alive' = FALSE /\ held' = held /\ size' = [l \in Level |-> 0]
      /\ held \subseteq Node /\ held \cap queued = {}
  BY DEF Destroy, ListInv, TypeOK
<1>3. AbsQueue' = Abstract!EmptyQueue
  <2>1. (TypeOK /\ IsList(0, <<>>) /\ size = [l \in Level |-> 0])'
    BY <1>1, <1>2, Zenon DEF ListInv, Level
  <2>2. (AbsQueue = Abstract!EmptyQueue)'
    BY <2>1, EmptyShows, PTL
  <2>3. Abstract!EmptyQueue' = Abstract!EmptyQueue
    BY DEF Abstract!EmptyQueue, Abstract!Level
  <2> QED
    BY <2>2, <2>3
<1>4. AbsHeld' = AbsHeld
  <2>1. \A m \in held : lvl'[m] = lvl[m]
    BY <1>1, <1>2
  <2> QED
    BY <1>2, <2>1, Zenon DEF AbsHeld, Elem
<1>5. Abstract!Destroy <=>
         alive /\ alive' = FALSE /\ AbsQueue' = Abstract!EmptyQueue /\ UNCHANGED AbsHeld
  BY Zenon DEF Abstract!Destroy, AbsQueue, AbsHeld, Elem
<1> QED
  BY <1>2, <1>3, <1>4, <1>5

-----------------------------------------------------------------------------
\* queue_create makes RunQueue's empty queue.
LEMMA AbstractInit == Init => Abstract!Init
<1> SUFFICES ASSUME Init
             PROVE  Abstract!Init
  OBVIOUS
<1>1. TypeOK
  BY InitIsListed DEF ListInv
<1>2. IsList(0, <<>>) /\ size = [l \in Level |-> 0]
  BY <1>1, EmptyIsListed DEF Init
<1>3. AbsQueue = Abstract!EmptyQueue
  BY <1>1, <1>2, EmptyShows
<1>4. AbsHeld = {} /\ alive = TRUE
  BY DEF Init, AbsHeld
<1> QED
  BY <1>3, <1>4, Zenon DEF Abstract!Init, AbsQueue, AbsHeld, Elem

\* The abstract queue depends on the pointers alone.
LEMMA AbstractStutter ==
    ASSUME ListInv, UNCHANGED vars
    PROVE  UNCHANGED Abstract!vars
<1>1. PICK N \in Nat : \E L \in [1 .. N -> Node] : IsList(N, L)
  BY DEF ListInv, Listed
<1>2. PICK L \in [1 .. N -> Node] : IsList(N, L)
  BY <1>1
<1>3. UNCHANGED <<front, backs, size, next, lvl, held, queued, alive>>
  BY DEF vars
<1>4. ListInv'
  BY StepKeepsList
<1>5. TypeOK /\ Linked(N, L) /\ Linked(N, L)'
  <2>1. Linked(N, L)
    BY <1>2 DEF IsList
  <2> QED
    BY <1>3, <2>1 DEF ListInv, Linked
<1>6. List = ListFrom(N, L) /\ List' = ListFrom(N, L)'
  <2>1. Shown'
    BY <1>4, ListShowsNext
  <2>2. List' = ListFrom(N, L)'
    BY <1>5, <2>1 DEF Shown
  <2> QED
    BY <1>5, <2>2, ListOf
<1>7. ListFrom(N, L)' = ListFrom(N, L)
  BY <1>3, Zenon DEF ListFrom, Elem
<1>8. AbsQueue' = AbsQueue
  BY <1>3, <1>6, <1>7, Zenon DEF AbsQueue, Level
<1>9. AbsHeld' = AbsHeld
  BY <1>3, Zenon DEF AbsHeld, Elem
<1> QED
  BY <1>3, <1>8, <1>9, Zenon DEF Abstract!vars, AbsQueue, AbsHeld, Elem

\* Every step of the pointers is one of RunQueue or leaves it as it is.
LEMMA AbstractStep == ListInv /\ [Next]_vars => [Abstract!Next]_(Abstract!vars)
<1> SUFFICES ASSUME ListInv, [Next]_vars
             PROVE  [Abstract!Next]_(Abstract!vars)
  OBVIOUS
<1> DEFINE A == [Abstract!Next]_(Abstract!vars)
<1>1. ASSUME NEW n \in Node, NewNode(n)
      PROVE  A
  <2>1. Abstract!NewNode(n)
    BY <1>1, AbstractNewNode
  <2> QED
    BY <2>1 DEF Abstract!Next
<1>2. ASSUME NEW n \in Node, NEW l \in Level, Insert(n, l)
      PROVE  A
  <2>1. PICK e : e = Elem(n)
    OBVIOUS
  <2>2. e \in AbsHeld /\ Abstract!Insert(e, l) /\ l \in Abstract!Level
    BY <1>2, <2>1, AbstractInsert DEF Level, Abstract!Level
  <2>3. e \in {[data |-> m, lvl |-> lvl[m]] : m \in held}
    BY <2>2, Zenon DEF AbsHeld, Elem
  <2> QED
    BY <2>2, <2>3, Zenon DEF Abstract!Next
<1>3. ASSUME NEW n \in Node, Free(n)
      PROVE  A
  <2>1. PICK e : e = Elem(n)
    OBVIOUS
  <2>2. e \in AbsHeld /\ Abstract!Free(e)
    BY <1>3, <2>1, AbstractFree
  <2>3. e \in {[data |-> m, lvl |-> lvl[m]] : m \in held}
    BY <2>2, Zenon DEF AbsHeld, Elem
  <2> QED
    BY <2>2, <2>3, Zenon DEF Abstract!Next
<1>4. CASE Pop
  BY <1>4, AbstractPop DEF Abstract!Next
<1>5. CASE Lift
  BY <1>5, AbstractLift DEF Abstract!Next
<1>6. CASE Destroy
  BY <1>6, AbstractDestroy DEF Abstract!Next
<1>7. CASE UNCHANGED vars
  BY <1>7, AbstractStutter
<1> QED
  BY <1>1, <1>2, <1>3, <1>4, <1>5, <1>6, <1>7, Zenon DEF Next

\* pqueue.c implements RunQueue for any heap and any number of levels: its
\* operations change the list as RunQueueOps says, which is what the scheduler's
\* model and its proofs build on.
THEOREM QueueImplementsList == Spec => RunQueueSpec
<1>1. Init => Abstract!Init
  BY AbstractInit
<1>2. ListInv /\ [Next]_vars => [Abstract!Next]_(Abstract!vars)
  BY AbstractStep
<1> QED
  BY <1>1, <1>2, QueueIsList, PTL DEF Spec, RunQueueSpec, Abstract!Spec
=============================================================================
