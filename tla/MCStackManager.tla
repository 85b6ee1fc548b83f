--------------------------- MODULE MCStackManager ---------------------------
(* StackManager for model checking: the tasks are interchangeable.         *)
EXTENDS StackManager, TLC

TaskSymmetry == Permutations(Task)
=============================================================================
