----------------------------- MODULE Processors -----------------------------
(***************************************************************************)
(* What the switch of contexts promises: every task has a processor of its *)
(* own, whose registers only that task's steps change.                     *)
(***************************************************************************)
CONSTANTS
    Task,
    NoTask,     \* the scheduler runs
    Kept,       \* the registers a task may rely on
    Value

VARIABLES
    alive,      \* the tasks created and not ended
    running,    \* the task that runs, or NoTask
    file        \* the registers of each task alive

vars == <<alive, running, file>>

Init ==
    \E t \in Task :
        /\ alive = {t} /\ running = t
        /\ file \in [{t} -> [Kept -> Value]]

Files == [alive -> [Kept -> Value]]

\* Nobody but t has its registers changed.
OnlyFileOf(t) == \A u \in alive \ {t} : file'[u] = file[u]

Work ==
    /\ running # NoTask
    /\ file' \in Files /\ OnlyFileOf(running)
    /\ UNCHANGED <<alive, running>>

\* A new task starts with its own address in r15.
Create(t) ==
    /\ running # NoTask /\ t \notin alive
    /\ alive' = alive \cup {t}
    /\ file' \in Files' /\ OnlyFileOf(t)
    /\ file'[t]["r15"] = t
    /\ UNCHANGED running

\* The scheduler takes the processor, or gives it to a task.
Switch ==
    /\ running' \in alive \cup {NoTask}
    /\ UNCHANGED <<alive, file>>

End ==
    /\ running # NoTask
    /\ alive' = alive \ {running}
    /\ running' = NoTask
    /\ file' = [u \in alive' |-> file[u]]

Next == Work \/ (\E t \in Task : Create(t)) \/ Switch \/ End

Spec == Init /\ [][Next]_vars
=============================================================================
