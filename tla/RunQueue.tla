------------------------------ MODULE RunQueue ------------------------------
(***************************************************************************)
(* The interface of pqueue.h as the scheduler relies on it: a list of      *)
(* elements whose order is the one RunQueueOps computes, and the elements  *)
(* that queue_pop has handed out.  PQueue implements it with pointers.     *)
(***************************************************************************)
EXTENDS RunQueueOps

CONSTANTS Node      \* the q_elem structures the heap can give

VARIABLES
    queues,   \* a record of RunQueueOps, its elements [data, lvl]
    held,     \* the elements popped and not yet freed or reinserted
    alive     \* between queue_create and queue_destroy

vars == <<queues, held, alive>>

InUse == {e.data : e \in held} \cup
         {queues.list[i].data : i \in DOMAIN queues.list}

Init ==
    /\ queues = EmptyQueue
    /\ held = {}
    /\ alive = TRUE

\* queue_new_node: malloc gives a node nobody uses.
NewNode(n) ==
    /\ alive /\ n \notin InUse
    /\ queues' \in Enqueued(queues, [data |-> n, lvl |-> 0])
    /\ UNCHANGED <<held, alive>>

\* queue_pop on a queue that is not empty.
Pop ==
    /\ alive /\ queues.list # <<>>
    /\ queues' = Dequeued(queues, 1)
    /\ held' = held \cup {Head(queues.list)}
    /\ UNCHANGED alive

\* queue_insert of a popped element, whose level the caller may have changed.
Insert(e, l) ==
    /\ alive /\ e \in held
    /\ queues' \in Enqueued(queues, [e EXCEPT !.lvl = l])
    /\ held' = held \ {e}
    /\ UNCHANGED alive

\* The caller frees a popped element.
Free(e) ==
    /\ e \in held
    /\ held' = held \ {e}
    /\ UNCHANGED <<queues, alive>>

Lift ==
    /\ alive
    /\ queues' = Lifted(queues)
    /\ UNCHANGED <<held, alive>>

Destroy ==
    /\ alive
    /\ alive' = FALSE
    /\ queues' = EmptyQueue
    /\ UNCHANGED held

Next ==
    \/ \E n \in Node : NewNode(n)
    \/ \E e \in held : Free(e) \/ \E l \in Level : Insert(e, l)
    \/ Pop \/ Lift \/ Destroy

Spec == Init /\ [][Next]_vars
=============================================================================
