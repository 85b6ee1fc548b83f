------------------------------ MODULE MCShmem ------------------------------
(* Shmem with a few tasks and regions of a few bytes.                      *)
EXTENDS Shmem, TLC

CONSTANTS c1, c2, a, b

MCClient == {c1, c2}

MCAlias == {a, b}

\* A program that allows itself nothing.
Careful == {}

\* Everywhere but between the test of line 135 and the write of line 136.
WritenAtomic == ProgramCounter \ {"mark"}

ClientSymmetry == Permutations(Client) \cup Permutations(Alias)
=============================================================================
