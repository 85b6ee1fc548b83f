---------------------------- MODULE MCRoutines ----------------------------
(* The exercises.  A behaviour is one call: of the search, which takes     *)
(* steps, or of routines that are functions of their arguments.            *)
EXTENDS LongNumbers, FindStr, XorRoutines

VARIABLE call

Strings(m) == UNION {[1 .. n -> Char] : n \in 1 .. m}

MCSearches == {q \in Strings(5) \X Strings(3) : Len(q[2]) =< Len(q[1])}

Call == LongNumber \X LongNumber
NoCall == <<>>

Idle ==
    /\ str = <<>> /\ sub = <<>> /\ at = "idle"
    /\ rdi = 0 /\ rax = 0 /\ r12 = 0 /\ r13 = 0

Init == (FindInit /\ call = NoCall) \/ (Idle /\ call \in Call)

Next == FindNext /\ UNCHANGED call

Spec == Init /\ [][Next]_<<findVars, call>>

\* The words of the first number as characters, with the second's last one as
\* the key, and as the three places that swap exchanges.
WordBits(x) == [b \in Bit |-> bit(x, b) = 1]
Characters(n) == [i \in 1 .. N |-> WordBits(n[i - 1])]

\* The arithmetic is that of the integers, modulo the width of the numbers; the
\* exclusive ors move and encipher without loss.
RoutinesExact ==
    call # NoCall =>
        LET a == call[1]
            b == call[2]
        IN  /\ LongExact(a, b)
            /\ WordExact(a[0], b[0])
            /\ Rotated(Characters(a), 1, 2, 3)
            /\ Deciphered(Characters(a), WordBits(b[0]))
=============================================================================
