------------------------------ MODULE MCLocks ------------------------------
(* Locks with main and two tasks, all of which use the lock.               *)
EXTENDS Locks

CONSTANTS m, a, b

MCTask == {m, a, b}

LockOps == {"create", "yield", "lock"}

LockPoints == {"user", "lock"}

AnyKind == KindSet

QueuedOnly == {"queued"}
=============================================================================
