------------------------------ MODULE FindStr ------------------------------
(***************************************************************************)
(* plancha2/ej3.s: fuerzabruta looks for the first place where one string  *)
(* holds another, with findstr (repne scasb) for the first character and   *)
(* cmpstr (repe cmpsb) for the rest.  A register that points into the      *)
(* first string holds the offset from its start; the character at offset k *)
(* is str[k + 1].                                                          *)
(***************************************************************************)
EXTENDS Integers, Sequences

CONSTANTS
    Char,
    Searches    \* the pairs of strings that fuerzabruta is called with

\* An empty second string, or one longer than the first, makes the count of
\* places zero or less: the scan then runs past the strings or tests stale
\* flags.
ASSUME SearchesAssumption ==
    \A q \in Searches :
        /\ q[1] \in Seq(Char) /\ q[2] \in Seq(Char)
        /\ 1 =< Len(q[2]) /\ Len(q[2]) =< Len(q[1])

VARIABLES
    str, sub,   \* the arguments, kept in r10 and r8, and sub's length in r9
    rdi,        \* where the next scan starts, or the last one stopped
    rax,        \* what findstr answered, and in the end fuerzabruta
    r12,        \* the places left where sub may start
    r13,        \* how many have been passed
    at          \* the label reached

findVars == <<str, sub, rdi, rax, r12, r13, at>>

FindInit ==
    \E q \in Searches :
        /\ str = q[1] /\ sub = q[2]
        /\ rdi = 0 /\ rax = 0
        /\ r12 = Len(q[1]) - Len(q[2]) + 1
        /\ r13 = 0
        /\ at = "find"

\* Where the scan of r12 characters meets the first one of sub, counted from 1.
Hits == {k \in 1 .. r12 : str[rdi + k] = sub[1]}

IsFirst(k, S) == k \in S /\ \A j \in S : k =< j

findstr ==
    /\ at = "find"
    /\ \/ /\ Hits = {}
          /\ rax' = -1 /\ at' = "failed"
          /\ UNCHANGED rdi
       \/ \E k \in Hits :
             /\ IsFirst(k, Hits)
             /\ rax' = k /\ rdi' = rdi + k /\ at' = "compare"
    /\ UNCHANGED <<str, sub, r12, r13>>

\* Mutant of cmpstr: the last character is not compared.
cmpstrShort(o) == \A k \in 1 .. Len(sub) - 1 : str[o + k] = sub[k]

\* Whether sub stands at offset o.
cmpstr(o) == \A k \in 1 .. Len(sub) : str[o + k] = sub[k]

\* Lines 41-54: a match, or the next scan.
Compare ==
    /\ at = "compare"
    /\ r13' = r13 + rax /\ r12' = r12 - rax
    /\ at' = IF r12 - rax < 0 THEN "failed"
             ELSE IF cmpstr(rdi - 1) THEN "done" ELSE "find"
    /\ rax' = IF at' = "done" THEN r13' - 1 ELSE rax
    /\ rdi' = IF at' = "find" THEN r13' ELSE rdi
    /\ UNCHANGED <<str, sub>>

Failed ==
    /\ at = "failed"
    /\ rax' = -1 /\ at' = "done"
    /\ UNCHANGED <<str, sub, rdi, r12, r13>>

FindNext == findstr \/ Compare \/ Failed

FindSpec == FindInit /\ [][FindNext]_findVars

-----------------------------------------------------------------------------
\* The offsets where sub stands in str.
Occurrences ==
    {o \in 0 .. Len(str) - Len(sub) : \A k \in 1 .. Len(sub) : str[o + k] = sub[k]}

\* fuerzabruta answers the first of them, or -1 when there is none, though a
\* failed comparison goes back behind what cmpsb has read.
SearchFinds ==
    at = "done" =>
        IF Occurrences = {} THEN rax = -1 ELSE IsFirst(rax, Occurrences)
=============================================================================
