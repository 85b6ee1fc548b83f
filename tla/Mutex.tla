------------------------------- MODULE Mutex -------------------------------
(***************************************************************************)
(* What a lock promises its tasks (section Locks of inf.tex): it is taken  *)
(* by one task at a time, and comes back from the one that took it.        *)
(***************************************************************************)
CONSTANT Task

VARIABLE holders    \* the tasks that own the lock

Init == holders = {}

Acquire(t) == holders = {} /\ holders' = {t}

Release(t) == holders = {t} /\ holders' = {}

Next == \E t \in Task : Acquire(t) \/ Release(t)

Spec == Init /\ [][Next]_holders
=============================================================================
