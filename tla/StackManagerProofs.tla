------------------------- MODULE StackManagerProofs -------------------------
(***************************************************************************)
(* Theorems about StackManager for any set of tasks, any size of segment   *)
(* and any number of takes and releases.                                   *)
(***************************************************************************)
EXTENDS StackManager, FiniteSetTheorems, TLAPS

\* The sentinel at index spots_count, and whatever lies beyond, is free.
SentinelFree == \A i \in reserved : i < spots_count

\* SpotsExclusive needs to know that the spot about to be taken is free
\* (LowestFree), that needs a free spot for the scan to find (SentinelFree),
\* and that in turn that a take grows the array in time (LowestFree again).
StackInv == TypeOK /\ SpotsExclusive /\ LowestFree /\ SentinelFree

LEMMA InitEstablishesStackInv == Init => StackInv
<1> SUFFICES ASSUME Init PROVE StackInv
  OBVIOUS
<1>1. TypeOK
  BY DEF Init, TypeOK
<1>2. SpotsExclusive
  BY DEF Init, SpotsExclusive
<1>3. LowestFree /\ SentinelFree
  BY DEF Init, LowestFree, SentinelFree
<1> QED
  BY <1>1, <1>2, <1>3 DEF StackInv

\* What a take leaves: the old marks, one more, and a next free spot.
LEMMA TakeFacts ==
    ASSUME StackInv, NEW t \in Task, Take(t)
    PROVE  /\ reserved' = reserved \cup {next_free_spot}
           /\ spots_count' \in Nat /\ spots_count =< spots_count'
           /\ next_free_spot < spots_count'
           /\ next_free_spot' \in 0 .. spots_count'
           /\ next_free_spot' \notin reserved'
           /\ 0 .. (next_free_spot' - 1) \subseteq reserved'
<1> USE SegmentAssumption
<1>1. /\ GrownCount \in Nat /\ spots_count =< GrownCount
      /\ next_free_spot < GrownCount
  BY DEF StackInv, TypeOK, LowestFree, GrownCount
<1>2. reserved \ ZeroedSpots = reserved
  BY <1>1 DEF StackInv, TypeOK, SentinelFree, ZeroedSpots
<1>3. reserved' = reserved \cup {next_free_spot} /\ spots_count' = GrownCount
  BY <1>2 DEF Take
<1>4. GrownCount \notin reserved'
  BY <1>1, <1>3 DEF StackInv, TypeOK, SentinelFree
<1>5. ~(0 .. GrownCount \subseteq reserved')
  BY <1>1, <1>4
<1>6. next_free_spot' \in
        {i \in 0 .. GrownCount : i \notin reserved' /\ 0 .. (i - 1) \subseteq reserved'}
  BY <1>5 DEF Take, FirstFree
<1> QED
  BY <1>1, <1>3, <1>6

LEMMA TakePreservesStackInv ==
    ASSUME StackInv, NEW t \in Task, Take(t)
    PROVE  StackInv'
<1>1. /\ reserved' = reserved \cup {next_free_spot}
      /\ spots_count' \in Nat /\ spots_count =< spots_count'
      /\ next_free_spot < spots_count'
      /\ next_free_spot' \in 0 .. spots_count'
      /\ next_free_spot' \notin reserved'
      /\ 0 .. (next_free_spot' - 1) \subseteq reserved'
  BY TakeFacts
<1>2. /\ mem_position' = [mem_position EXCEPT ![t] = next_free_spot]
      /\ live' = live \cup {t} /\ t \notin live
  BY DEF Take
<1>3. TypeOK'
  <2>1. reserved' \in SUBSET Nat /\ next_free_spot' \in Nat
    BY <1>1 DEF StackInv, TypeOK
  <2>2. mem_position' \in [Task -> Nat \cup {NoSpot}]
    BY <1>2 DEF StackInv, TypeOK
  <2>3. live' \in SUBSET Task /\ destroyed' \in BOOLEAN
    BY <1>2 DEF StackInv, TypeOK, Take
  <2> QED
    BY <1>1, <2>1, <2>2, <2>3 DEF TypeOK
<1>4. \A u \in live : mem_position[u] \in reserved /\ mem_position'[u] = mem_position[u]
  BY <1>2 DEF StackInv, TypeOK, SpotsExclusive
<1>5. mem_position'[t] = next_free_spot /\ next_free_spot \notin reserved
  BY <1>2 DEF StackInv, TypeOK, LowestFree
<1>6. SpotsExclusive'
  <2>1. ASSUME NEW u \in live', NEW v \in live', u # v
        PROVE  mem_position'[u] # mem_position'[v]
    BY <2>1, <1>2, <1>4, <1>5 DEF StackInv, SpotsExclusive
  <2>2. reserved' = {mem_position'[u] : u \in live'}
    BY <1>1, <1>2, <1>4, <1>5 DEF StackInv, SpotsExclusive
  <2> QED
    BY <2>1, <2>2 DEF SpotsExclusive
<1>7. LowestFree'
  <2>1. next_free_spot' =< spots_count'
    BY <1>1
  <2> QED
    BY <1>1, <2>1 DEF LowestFree
<1>8. SentinelFree'
  BY <1>1 DEF StackInv, TypeOK, SentinelFree
<1> QED
  BY <1>3, <1>6, <1>7, <1>8 DEF StackInv

LEMMA ReleasePreservesStackInv ==
    ASSUME StackInv, NEW t \in Task, Release(t)
    PROVE  StackInv'
<1> DEFINE index == mem_position[t]
<1>1. /\ reserved' = reserved \ {index}
      /\ next_free_spot' = (IF index < next_free_spot THEN index ELSE next_free_spot)
      /\ live' = live \ {t} /\ t \in live
      /\ UNCHANGED <<spots_count, mem_position, destroyed>>
  BY DEF Release, LoweredNext
<1>2. index \in reserved /\ index \in Nat /\ index # next_free_spot
  BY <1>1 DEF StackInv, TypeOK, SpotsExclusive, LowestFree
<1>3. TypeOK'
  BY <1>1, <1>2 DEF StackInv, TypeOK
<1>4. SpotsExclusive'
  BY <1>1 DEF StackInv, SpotsExclusive
<1>5. LowestFree'
  <2>1. CASE index < next_free_spot
    <3>1. next_free_spot' = index
      BY <2>1, <1>1
    <3>2. 0 .. (index - 1) \subseteq reserved \ {index}
      BY <2>1, <1>2 DEF StackInv, TypeOK, LowestFree
    <3> QED
      BY <3>1, <3>2, <1>1, <1>2, <2>1 DEF StackInv, TypeOK, LowestFree
  <2>2. CASE ~(index < next_free_spot)
    <3>1. next_free_spot' = next_free_spot
      BY <2>2, <1>1
    <3>2. index \notin 0 .. (next_free_spot - 1)
      BY <2>2, <1>2 DEF StackInv, TypeOK
    <3> QED
      BY <3>1, <3>2, <1>1 DEF StackInv, TypeOK, LowestFree
  <2> QED
    BY <2>1, <2>2
<1>6. SentinelFree'
  BY <1>1 DEF StackInv, SentinelFree
<1> QED
  BY <1>3, <1>4, <1>5, <1>6 DEF StackInv

LEMMA NextPreservesStackInv == StackInv /\ [Next]_stackVars => StackInv'
<1> SUFFICES ASSUME StackInv, [Next]_stackVars PROVE StackInv'
  OBVIOUS
<1>1. ASSUME NEW t \in Task, Take(t) PROVE StackInv'
  BY <1>1, TakePreservesStackInv
<1>2. ASSUME NEW t \in Task, Release(t) PROVE StackInv'
  BY <1>2, ReleasePreservesStackInv
<1>3. CASE Destroy
  BY <1>3 DEF Destroy, StackInv, TypeOK, SpotsExclusive, LowestFree, SentinelFree
<1>4. CASE UNCHANGED stackVars
  BY <1>4 DEF stackVars, StackInv, TypeOK, SpotsExclusive, LowestFree, SentinelFree
<1> QED
  BY <1>1, <1>2, <1>3, <1>4 DEF Next

LEMMA StackInvariant == Spec => []StackInv
<1> QED
  BY InitEstablishesStackInv, NextPreservesStackInv, PTL DEF Spec

-----------------------------------------------------------------------------
\* The manager's variables keep their types: next_free_spot stays an index.
THEOREM StackTypeCorrect == Spec => []TypeOK
<1>1. StackInv => TypeOK
  BY DEF StackInv
<1> QED
  BY <1>1, StackInvariant, PTL

\* Two live tasks never share a spot of the process stack, and no spot is
\* leaked.
THEOREM SpotsAreExclusive == Spec => []SpotsExclusive
<1>1. StackInv => SpotsExclusive
  BY DEF StackInv
<1> QED
  BY <1>1, StackInvariant, PTL

\* next_free_spot is the lowest free spot after any history of calls.
THEOREM NextIsLowestFree == Spec => []LowestFree
<1>1. StackInv => LowestFree
  BY DEF StackInv
<1> QED
  BY <1>1, StackInvariant, PTL

\* The array grows only when it is full, and keeps the marks of live tasks.
THEOREM ArrayGrowsOnlyWhenFull == Spec => GrowsOnlyWhenFull
<1> DEFINE Step == /\ spots_count' > spots_count =>
                         0 .. (spots_count - 1) \subseteq reserved
                   /\ \A t \in live \cap live' : mem_position'[t] \in reserved'
<1>1. ASSUME StackInv, StackInv', [Next]_stackVars PROVE [Step]_stackVars
  <2>1. \A t \in live \cap live' : mem_position'[t] \in reserved'
    BY <1>1 DEF StackInv, SpotsExclusive
  <2>2. ASSUME spots_count' > spots_count
        PROVE  0 .. (spots_count - 1) \subseteq reserved
    <3>1. PICK t \in Task : Take(t)
      BY <2>2, <1>1 DEF Next, Release, Destroy, stackVars, StackInv, TypeOK
    <3>2. next_free_spot >= spots_count
      BY <3>1, <2>2, <1>1 DEF Take, GrownCount, StackInv, TypeOK
    <3> QED
      BY <3>2, <1>1 DEF StackInv, TypeOK, LowestFree
  <2> QED
    BY <2>1, <2>2
<1> QED
  BY <1>1, StackInvariant, PTL DEF Spec, GrowsOnlyWhenFull

-----------------------------------------------------------------------------
\* Each live task stands below the number of tasks.
DepthInv ==
    /\ StackInv
    /\ \A t \in live : mem_position[t] < Cardinality(Task)

\* The spots below next_free_spot are all taken, each by another live task, and
\* the task that takes now is not among those: there are more tasks than spots.
LEMMA NextBelowTasks ==
    ASSUME IsFiniteSet(Task), StackInv, NEW t \in Task \ live
    PROVE  next_free_spot < Cardinality(Task)
<1> DEFINE S == 0 .. (next_free_spot - 1)
           f == [i \in S |-> CHOOSE u \in live : mem_position[u] = i]
           Others == Task \ {t}
<1>1. next_free_spot \in Nat /\ live \subseteq Others
  BY DEF StackInv, TypeOK
<1>2. ASSUME NEW i \in S PROVE \E u \in live : mem_position[u] = i
  BY DEF StackInv, LowestFree, SpotsExclusive
<1>3. \A i \in S : f[i] \in live /\ mem_position[f[i]] = i
  BY <1>2
<1>4. /\ IsFiniteSet(S)
      /\ Cardinality(S) = IF 0 > next_free_spot - 1
                          THEN 0 ELSE (next_free_spot - 1) - 0 + 1
  BY <1>1, FS_Interval
<1>5. Cardinality(S) = next_free_spot
  BY <1>1, <1>4
<1> HIDE DEF f, Others
<1>6. f \in Injection(S, Others)
  <2>1. f \in [S -> Others]
    BY <1>1, <1>3 DEF f
  <2>2. \A i, j \in S : f[i] = f[j] => i = j
    BY <1>3
  <2> QED
    BY <2>1, <2>2 DEF Injection, IsInjective
<1>7. /\ IsFiniteSet(Others) /\ Cardinality(Others) = Cardinality(Task) - 1
      /\ Cardinality(Task) \in Nat
  BY FS_RemoveElement, FS_CardinalityType DEF Others
<1>8. Cardinality(S) =< Cardinality(Others)
  BY <1>6, <1>7, FS_Injection
<1> QED
  BY <1>1, <1>5, <1>7, <1>8

\* The process stack never reaches deeper than one spot for each task, and the
\* sentinel is never reserved.
THEOREM StackDepthBounded == IsFiniteSet(Task) => (Spec => []StackDepth)
<1> SUFFICES ASSUME IsFiniteSet(Task) PROVE Spec => []StackDepth
  OBVIOUS
<1>1. Init => DepthInv
  BY InitEstablishesStackInv DEF Init, DepthInv
<1>2. ASSUME DepthInv, [Next]_stackVars PROVE DepthInv'
  <2>1. StackInv /\ StackInv'
    BY <1>2, NextPreservesStackInv DEF DepthInv
  <2>2. ASSUME NEW t \in Task, Take(t) PROVE DepthInv'
    <3>1. /\ mem_position' = [mem_position EXCEPT ![t] = next_free_spot]
          /\ live' = live \cup {t} /\ t \in Task \ live
      BY <2>2 DEF Take
    <3>2. mem_position \in [Task -> Nat \cup {NoSpot}] /\ live \subseteq Task
      BY <2>1 DEF StackInv, TypeOK
    <3>3. next_free_spot < Cardinality(Task)
      BY <2>1, <3>1, NextBelowTasks
    <3> QED
      BY <1>2, <2>1, <3>1, <3>2, <3>3 DEF DepthInv
  <2>3. ASSUME NEW t \in Task, Release(t) PROVE DepthInv'
    BY <1>2, <2>1, <2>3 DEF Release, DepthInv
  <2>4. CASE Destroy \/ UNCHANGED stackVars
    BY <1>2, <2>1, <2>4 DEF Destroy, stackVars, DepthInv
  <2> QED
    BY <1>2, <2>2, <2>3, <2>4 DEF Next
<1>3. DepthInv => StackDepth
  BY DEF DepthInv, StackInv, SentinelFree, StackDepth
<1> QED
  BY <1>1, <1>2, <1>3, PTL DEF Spec
=============================================================================
