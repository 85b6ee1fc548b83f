---------------------------- MODULE StackManager ----------------------------
(***************************************************************************)
(* memory_manager() of scheduler.c: the allocator that cuts the process    *)
(* stack into spots of MEM_TASK_SIZE bytes, one for each task whose        *)
(* context exists.  Spot i starts at initial_rsp - MEM_TASK_SIZE * i; the  *)
(* model keeps the index i, which is all the manager's code looks at.      *)
(***************************************************************************)
EXTENDS Integers, FiniteSets

CONSTANTS
    Task,              \* the Task structures of the program
    MEM_TASKS_PER_SEG  \* spots added each time the array is enlarged

\* A segment with no spot would make the array never large enough.
ASSUME SegmentAssumption == MEM_TASKS_PER_SEG \in Nat \ {0}

VARIABLES
    reserved,        \* the indices of mm_free_spots that hold 1
    spots_count,     \* static: spots the array has; index spots_count is a
                     \* sentinel that always holds 0
    next_free_spot,  \* static: the first free spot
    mem_position,    \* the mem_position field of each Task
    live,            \* tasks between create_task/start_sched and stop_task:
                     \* their context and their spot are allocated
    destroyed        \* MM_DESTROY has freed the array

stackVars == <<reserved, spots_count, next_free_spot, mem_position, live,
               destroyed>>

NoSpot == -1

-----------------------------------------------------------------------------
Init ==
    /\ reserved = {}
    /\ spots_count = 0
    /\ next_free_spot = 0
    /\ mem_position = [t \in Task |-> NoSpot]
    /\ live = {}
    /\ destroyed = FALSE

\* The test and the growth at the head of MM_TAKE.
GrownCount ==
    IF next_free_spot >= spots_count
    THEN spots_count + MEM_TASKS_PER_SEG
    ELSE spots_count

\* Mutant of ZeroedSpots: the loop of lines 72-73 started at spot 0.
ZeroedAll ==
    IF next_free_spot >= spots_count THEN 0 .. GrownCount ELSE {}

\* Growing writes 0 from the old sentinel up to the new one.
ZeroedSpots ==
    IF next_free_spot >= spots_count THEN spots_count .. GrownCount ELSE {}

\* Mutant of FirstFree: the scan leaves the sentinel out (i < spots_count).
FirstFreeNoSentinel(R, n) ==
    IF 0 .. (n - 1) \subseteq R
    THEN {next_free_spot}
    ELSE {i \in 0 .. (n - 1) : i \notin R /\ 0 .. (i - 1) \subseteq R}

\* The scan for the first 0 among spots 0 .. n, which finds none only if
\* the sentinel were taken: then next_free_spot keeps its value.
FirstFree(R, n) ==
    IF 0 .. n \subseteq R
    THEN {next_free_spot}
    ELSE {i \in 0 .. n : i \notin R /\ 0 .. (i - 1) \subseteq R}

\* take_stack(), called by create_task and start_sched for a task t that
\* holds no spot.
Take(t) ==
    /\ ~destroyed
    /\ t \notin live
    /\ reserved' = (reserved \ ZeroedSpots) \cup {next_free_spot}
    /\ spots_count' = GrownCount
    /\ mem_position' = [mem_position EXCEPT ![t] = next_free_spot]
    /\ next_free_spot' \in FirstFree(reserved', GrownCount)
    /\ live' = live \cup {t}
    /\ UNCHANGED destroyed

\* Mutant of LoweredNext: a release that does not look at next_free_spot.
UnloweredNext(index) == next_free_spot

\* Mutant of LoweredNext: the spot before the released one.
LoweredTooFar(index) ==
    IF index < next_free_spot THEN index - 1 ELSE next_free_spot

\* Lines 92-93: a spot released below next_free_spot becomes the next one.
LoweredNext(index) ==
    IF index < next_free_spot THEN index ELSE next_free_spot

\* release_stack(t), called by stop_task.  mem_position keeps the address.
Release(t) ==
    /\ ~destroyed
    /\ t \in live
    /\ reserved' = reserved \ {mem_position[t]}
    /\ next_free_spot' = LoweredNext(mem_position[t])
    /\ live' = live \ {t}
    /\ UNCHANGED <<spots_count, mem_position, destroyed>>

\* destroy_stack(), called once by destroy_sched: free(mm_free_spots) leaves
\* the two statics as they are, so that nothing may be taken afterwards.
Destroy ==
    /\ ~destroyed
    /\ destroyed' = TRUE
    /\ UNCHANGED <<reserved, spots_count, next_free_spot, mem_position, live>>

Next ==
    \/ \E t \in Task : Take(t) \/ Release(t)
    \/ Destroy

Spec == Init /\ [][Next]_stackVars

-----------------------------------------------------------------------------
TypeOK ==
    /\ reserved \in SUBSET Nat
    /\ spots_count \in Nat
    /\ next_free_spot \in Nat
    /\ mem_position \in [Task -> Nat \cup {NoSpot}]
    /\ live \in SUBSET Task
    /\ destroyed \in BOOLEAN

\* No two tasks that can still run share a piece of the process stack, and
\* the array reserves exactly the spots those tasks stand on: none is leaked
\* by a release and none is handed out twice by a take.
SpotsExclusive ==
    /\ \A t, u \in live : t # u => mem_position[t] # mem_position[u]
    /\ reserved = {mem_position[t] : t \in live}

\* The comment on next_free_spot, "primer lugar en el array libre": it is
\* the lowest free spot whatever the order of takes and releases, and it
\* never runs past the sentinel.
LowestFree ==
    /\ next_free_spot \notin reserved
    /\ 0 .. (next_free_spot - 1) \subseteq reserved
    /\ next_free_spot =< spots_count

\* The stack of the process never reaches deeper than one spot for each task
\* there is, however often they have come and gone, and the array never
\* reserves its sentinel.
StackDepth ==
    /\ \A i \in reserved : i < spots_count
    /\ \A t \in live : mem_position[t] < Cardinality(Task)

\* memory_manager enlarges its array only when every spot is in use, and
\* doing so never clears the mark of a spot some task still stands on.
GrowsOnlyWhenFull ==
    [][ /\ spots_count' > spots_count => 0 .. (spots_count - 1) \subseteq reserved
        /\ \A t \in live \cap live' : mem_position'[t] \in reserved' ]_stackVars
=============================================================================
