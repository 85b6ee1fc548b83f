---------------------------- MODULE RunQueueOps ----------------------------
(***************************************************************************)
(* pqueue.c on sequences.  A queue is one list of elements with the fields *)
(* data and lvl, front first, and for each level the data of the element   *)
(* behind which the next one of that level enters: the pointer backs[lvl]. *)
(* That pointer is only followed when the level has elements (size[lvl]    *)
(* not 0); NoBack stands for it otherwise.  An element is told by its data *)
(* alone, which no two elements of a queue share.                          *)
(***************************************************************************)
EXTENDS Naturals, SequencesExt

CONSTANTS
    QUEUE_NUMBER,   \* levels of priority, 0 the best
    NoBack

ASSUME QueueAssumption == QUEUE_NUMBER \in Nat \ {0}

Level == 0 .. (QUEUE_NUMBER - 1)

EmptyQueue == [list |-> <<>>, backs |-> [l \in Level |-> NoBack]]

\* size[l] # 0
Occupied(list, l) == \E i \in DOMAIN list : list[i].lvl = l

\* queue_insert and queue_new_node: element e comes to stand behind the
\* element of d (or in front of all, if d is NoBack), and becomes the back of
\* the levels L.
EnqueuedBehind(Q, e, d, L) ==
    {[list  |-> InsertAt(Q.list, p + 1, e),
      backs |-> [l \in Level |-> IF l \in L THEN e.data ELSE Q.backs[l]]] :
        p \in {i \in 0 .. Len(Q.list) :
                  IF d = NoBack THEN i = 0 ELSE i > 0 /\ Q.list[i].data = d}}

\* The nearest level with elements among those better than l.
Neighbour(list, l) ==
    {i \in 0 .. (l - 1) : /\ Occupied(list, i)
                          /\ \A j \in (i + 1) .. (l - 1) : ~Occupied(list, j)}

\* The queue (as the only member of a set) after e entered.  In the last case
\* e becomes the back of its neighbour's level as well as of its own.
Enqueued(Q, e) ==
    IF Occupied(Q.list, e.lvl)
    THEN EnqueuedBehind(Q, e, Q.backs[e.lvl], {e.lvl})
    ELSE IF Q.list = <<>> \/ Q.list[1].lvl > e.lvl
    THEN EnqueuedBehind(Q, e, NoBack, {e.lvl})
    ELSE UNION {EnqueuedBehind(Q, e, Q.backs[i], {e.lvl, i}) :
                    i \in Neighbour(Q.list, e.lvl)}

\* queue_pop, k times.
Dequeued(Q, k) ==
    LET rest == SubSeq(Q.list, k + 1, Len(Q.list))
    IN  [list  |-> rest,
         backs |-> [l \in Level |->
                       IF Occupied(rest, l) THEN Q.backs[l] ELSE NoBack]]

\* Mutant of Lifted: line 142 is missing.
LiftedKeepsBack(Q) ==
    [list  |-> [i \in 1 .. Len(Q.list) |-> [Q.list[i] EXCEPT !.lvl = 0]],
     backs |-> [l \in Level |-> IF l = 0 THEN Q.backs[0] ELSE NoBack]]

\* queue_lift: every element goes to level 0, in the order of the list.
Lifted(Q) ==
    [list  |-> [i \in 1 .. Len(Q.list) |-> [Q.list[i] EXCEPT !.lvl = 0]],
     backs |-> [l \in Level |->
                   IF l = 0 /\ Q.list # <<>> THEN Last(Q.list).data ELSE NoBack]]
=============================================================================
