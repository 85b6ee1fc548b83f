---------------------------- MODULE MCScheduler ----------------------------
(* Scheduler with main and a few tasks.  Tasks other than main are         *)
(* interchangeable in the runs that check safety only.                     *)
EXTENDS Scheduler, TLC

CONSTANTS m, a, b, c

MCTask == {m, a, b}
MCTask4 == {m, a, b, c}

\* Every call a client can make on the tasks it knows, used as documented.
ClientOps == {"create", "return", "exit", "yield", "join", "block",
              "unblock", "critical"}

\* The calls of a program that never stops.
LiveOps == {"create", "return", "yield", "join"}

\* The calls that move elements of the run queue and nothing else.
QueueOps == {"create", "yield"}

\* With the calls and liberties whose use the documents leave open.
AllOps == ClientOps \cup {"stop", "nested", "poll", "destroy", "unblock_ended"}

\* The program's own code, inside and outside sections, and the parts of the
\* library that run with the quantum's timer armed, but for two windows that
\* are a few instructions wide: between the test and the write of block_task,
\* and between the end of a task's function and stop_task.
SafePoints == {"user", "join", "result", "critical", "torn"}
EndingPoints == SafePoints \cup {"ending"}
AllPoints == (ProgramCounter \ {"gone"}) \cup {"late"}

AnyPair == {p \in Task \X Task : p[1] # p[2] /\ p[2] # MainTask}

MainJoins == {p \in AnyPair : p[1] = MainTask}

TasksJoin == {p \in AnyPair : p[1] # MainTask}

MainJoinsOne == {<<m, a>>}

TaskSymmetry == Permutations(Task \ {MainTask})
=============================================================================
