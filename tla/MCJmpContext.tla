---------------------------- MODULE MCJmpContext ----------------------------
(* Tasks that write a callee-saved register and a caller-saved one.        *)
EXTENDS JmpContext

CONSTANTS t1, t2, none

MCTask == {t1, t2}
MCWritten == {"r12", "rcx"}
=============================================================================
