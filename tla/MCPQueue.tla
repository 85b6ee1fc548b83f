------------------------------ MODULE MCPQueue ------------------------------
(* PQueue with a small heap: the nodes are interchangeable.                *)
EXTENDS PQueue, TLC

NodeSymmetry == Permutations(Node)
=============================================================================
