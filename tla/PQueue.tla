------------------------------- MODULE PQueue -------------------------------
(***************************************************************************)
(* pqueue.c: one singly linked list for all levels, an array of pointers   *)
(* into it (backs) and the number of elements of each level (size).        *)
(* A pointer may dangle: backs keeps the address of an element that was    *)
(* popped, and only size tells whether it may be followed.                 *)
(***************************************************************************)
EXTENDS Integers, Sequences, FiniteSets

CONSTANTS
    Node,           \* the q_elem structures the heap can give
    QUEUE_NUMBER,   \* the argument of queue_create; maxlevel is one less
    NULL

ASSUME LevelsAssumption == QUEUE_NUMBER \in Nat \ {0}

ASSUME HeapAssumption == IsFiniteSet(Node) /\ NULL \notin Node

Level == 0 .. (QUEUE_NUMBER - 1)

VARIABLES
    front, backs, size,   \* the fields of pqueue
    next, lvl,            \* the fields of each q_elem
    held,                 \* nodes popped and not yet freed or reinserted
    queued,               \* nodes allocated and not held (history: the nodes
                          \* that must be found in the list)
    alive                 \* between queue_create and queue_destroy

vars == <<front, backs, size, next, lvl, held, queued, alive>>

Init ==
    /\ front = NULL
    /\ backs = [l \in Level |-> NULL]
    /\ size = [l \in Level |-> 0]
    /\ next = [n \in Node |-> NULL]
    /\ lvl = [n \in Node |-> 0]
    /\ held = {}
    /\ queued = {}
    /\ alive = TRUE

-----------------------------------------------------------------------------
\* n enters behind the back of level i and becomes the back of the levels L.
LinkBehind(i, n, L) ==
    /\ next' = [next EXCEPT ![n] = next[backs[i]], ![backs[i]] = n]
    /\ backs' = [l \in Level |-> IF l \in L THEN n ELSE backs[l]]
    /\ UNCHANGED front

\* n enters at the front and becomes the back of its level l.
LinkFront(n, l) ==
    /\ next' = [next EXCEPT ![n] = front]
    /\ front' = n
    /\ backs' = [backs EXCEPT ![l] = n]

\* The first level the loop of line 64 finds with elements.
NearestLevel(l) ==
    {i \in 0 .. (l - 1) : /\ size[i] # 0
                          /\ \A j \in (i + 1) .. (l - 1) : size[j] = 0}

\* queue_new_node, after malloc returned n.
NewNode(n) ==
    /\ alive /\ n \notin held \cup queued
    /\ lvl' = [lvl EXCEPT ![n] = 0]
    /\ \/ size[0] > 0 /\ LinkBehind(0, n, {0})
       \/ size[0] =< 0 /\ LinkFront(n, 0)
    /\ size' = [size EXCEPT ![0] = @ + 1]
    /\ queued' = queued \cup {n}
    /\ UNCHANGED <<held, alive>>

\* The cases of queue_insert: a level with elements; an empty one of an empty
\* list, which leaves n->next as it is; an empty one in front of all; one
\* behind a neighbour, or nowhere if the loop of line 64 finds no neighbour.
InsertLinks(n, l) ==
    \/ size[l] # 0 /\ LinkBehind(l, n, {l})
    \/ /\ size[l] = 0 /\ front = NULL
       /\ front' = n /\ backs' = [backs EXCEPT ![l] = n] /\ UNCHANGED next
    \/ size[l] = 0 /\ front # NULL /\ lvl[front] > l /\ LinkFront(n, l)
    \/ /\ size[l] = 0 /\ front # NULL /\ lvl[front] =< l
       /\ IF NearestLevel(l) = {}
          THEN backs' = [backs EXCEPT ![l] = n] /\ UNCHANGED <<front, next>>
          ELSE \E i \in NearestLevel(l) : LinkBehind(i, n, {l, i})

\* queue_insert of an element the caller holds, at the level it chooses.
Insert(n, l) ==
    /\ alive /\ n \in held
    /\ lvl' = [lvl EXCEPT ![n] = l]
    /\ InsertLinks(n, l)
    /\ size' = [size EXCEPT ![l] = @ + 1]
    /\ held' = held \ {n}
    /\ queued' = queued \cup {n}
    /\ UNCHANGED alive

\* Mutants of SizeAfterPop: line 111 is missing, or counts for level 0.
SizeKept == size
SizeOfLevel0 == [size EXCEPT ![0] = @ - 1]

\* Line 111.
SizeAfterPop == [size EXCEPT ![lvl[front]] = @ - 1]

\* queue_pop on a queue that is not empty; otherwise it changes nothing.
Pop ==
    /\ alive /\ front # NULL
    /\ size' = SizeAfterPop
    /\ front' = next[front]
    /\ next' = [next EXCEPT ![front] = NULL]
    /\ held' = held \cup {front}
    /\ queued' = queued \ {front}
    /\ UNCHANGED <<backs, lvl, alive>>

\* The caller frees an element it popped.  The fields of a freed node have no
\* value: the model gives them the initial one.
Free(n) ==
    /\ n \in held
    /\ held' = held \ {n}
    /\ next' = [next EXCEPT ![n] = NULL]
    /\ lvl' = [lvl EXCEPT ![n] = 0]
    /\ UNCHANGED <<front, backs, size, queued, alive>>

\* The nodes that k steps along next lead to from the front.
Reached[k \in Nat] ==
    IF k = 0 THEN {front} \ {NULL}
    ELSE {next[n] : n \in Reached[k - 1]} \ {NULL}

\* The nodes a walk from the front meets.
Chain == UNION {Reached[k] : k \in 0 .. Cardinality(Node)}

\* Mutant of BacksLifted: line 142 is missing.
BacksNotLifted ==
    [l \in Level |-> IF l = 0 THEN backs[0] ELSE NULL]

\* Lines 142 and 146-147.
BacksLifted ==
    [l \in Level |-> IF l = 0 THEN CHOOSE n \in Chain : next[n] = NULL ELSE NULL]

SizeSum[l \in -1 .. (QUEUE_NUMBER - 1)] ==
    IF l = -1 THEN 0 ELSE SizeSum[l - 1] + size[l]

\* queue_lift.  An empty queue keeps its backs.
Lift ==
    /\ alive
    /\ LET total_size == SizeSum[QUEUE_NUMBER - 1]
       IN  /\ size' = [l \in Level |-> IF l = 0 THEN total_size ELSE 0]
           /\ \/ total_size = 0 /\ UNCHANGED <<lvl, backs>>
              \/ /\ total_size > 0
                 /\ lvl' = [n \in Node |-> IF n \in Chain THEN 0 ELSE lvl[n]]
                 /\ backs' = BacksLifted
    /\ UNCHANGED <<front, next, held, queued, alive>>

\* queue_destroy frees the nodes of the list and the queue itself.
Destroy ==
    /\ alive
    /\ alive' = FALSE
    /\ front' = NULL
    /\ queued' = queued \ Chain
    /\ next' = [n \in Node |-> IF n \in Chain THEN NULL ELSE next[n]]
    /\ lvl' = [n \in Node |-> IF n \in Chain THEN 0 ELSE lvl[n]]
    /\ backs' = [l \in Level |-> NULL]
    /\ size' = [l \in Level |-> 0]
    /\ UNCHANGED held

Next ==
    \/ \E n \in Node :
          \/ NewNode(n) \/ Free(n)
          \/ \E l \in Level : Insert(n, l)
    \/ Pop \/ Lift \/ Destroy

Spec == Init /\ [][Next]_vars

-----------------------------------------------------------------------------
TypeOK ==
    /\ front \in Node \cup {NULL}
    /\ backs \in [Level -> Node \cup {NULL}]
    /\ size \in [Level -> Nat]
    /\ next \in [Node -> Node \cup {NULL}]
    /\ lvl \in [Node -> Level]
    /\ held \in SUBSET Node
    /\ queued \in SUBSET Node
    /\ alive \in BOOLEAN

\* Every element that entered the queue and was not popped is found by a walk
\* from the front, and the walk ends: the list has no cycle and meets no
\* freed or popped element.
NothingLost ==
    /\ Chain = queued
    /\ Reached[Cardinality(Node)] = {}

\* size, on which queue_insert decides whether a back may be followed, counts
\* the elements of each level that are in the list.
SizeExact ==
    \A l \in Level : size[l] = Cardinality({n \in Chain : lvl[n] = l})

\* A back is followed only while it is in the list, although backs keeps the
\* addresses of popped elements and lines 48-68 make one element the back of
\* two levels.
NoDanglingBack == \A l \in Level : size[l] # 0 => backs[l] \in Chain

-----------------------------------------------------------------------------
\* The list the pointers stand for.
PosOf(n) == CHOOSE k \in 0 .. Cardinality(Node) : n \in Reached[k]

List ==
    [k \in 1 .. Cardinality(Chain) |->
        LET n == CHOOSE n \in Chain : PosOf(n) = k - 1
        IN  [data |-> n, lvl |-> lvl[n]]]

Abstract == INSTANCE RunQueue WITH
    NoBack <- NULL,
    queues <- [list  |-> List,
               backs |-> [l \in Level |-> IF size[l] # 0 THEN backs[l] ELSE NULL]],
    held   <- {[data |-> n, lvl |-> lvl[n]] : n \in held}

\* The pointers implement the list of RunQueue, which is the one SchedKernel's
\* scheduler works on: each operation has the effect on the list that its
\* operator in RunQueueOps computes.
RunQueueSpec == Abstract!Spec
=============================================================================
