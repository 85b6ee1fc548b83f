---------------------------- MODULE XorRoutines ----------------------------
(***************************************************************************)
(* plancha1: swap.c, cypher.c and encode.c, which are built on exclusive   *)
(* or.  A word is a function on the positions of its bits.                 *)
(***************************************************************************)
EXTENDS Naturals, Sequences

CONSTANT Bit

Bits == [Bit -> BOOLEAN]

Xor(x, y) == [b \in Bit |-> x[b] # y[b]]

\* *p ^= *q, in the memory m.
XorInto(m, p, q) == [m EXCEPT ![p] = Xor(m[p], m[q])]

\* The six assignments of swap.
swap(m, a, b, c) ==
    LET m1 == XorInto(m, b, c)
        m2 == XorInto(m1, c, b)
        m3 == XorInto(m2, b, c)
        m4 == XorInto(m3, a, b)
        m5 == XorInto(m4, b, a)
    IN  XorInto(m5, a, b)

cypher(word, size, key) ==
    [i \in DOMAIN word |-> IF i =< size THEN Xor(word[i], key) ELSE word[i]]

\* The end of a string: strlen counts what comes before the first Nul.
Nul == [b \in Bit |-> FALSE]

strlen(word) ==
    CHOOSE n \in 0 .. Len(word) :
        /\ \A i \in 1 .. n : word[i] # Nul
        /\ n < Len(word) => word[n + 1] = Nul

\* Mutant of cypher_main: the second call takes the length of what the first
\* one made, where a character equal to the key has become the end.
cypher_remeasured(word, key) ==
    LET once == cypher(word, strlen(word), key)
    IN  cypher(once, strlen(once), key)

\* main of cypher.c: both calls take the length of the argument.
cypher_main(word, key) ==
    cypher(cypher(word, strlen(word), key), strlen(word), key)

\* encode.c's loop: putchar keeps the low byte of c ^ key, and key is taken
\* as that byte.
encode(text, key) == [i \in DOMAIN text |-> Xor(text[i], key)]

-----------------------------------------------------------------------------
\* swap, on three different places, gives a the value of c, b that of a and c
\* that of b.
Rotated(m, a, b, c) ==
    swap(m, a, b, c) = [m EXCEPT ![a] = m[c], ![b] = m[a], ![c] = m[b]]

\* Ciphering twice with one key gives back the word, whatever characters the
\* first pass makes.
Deciphered(word, key) ==
    /\ cypher_main(word, key) = word
    /\ encode(encode(word, key), key) = word
=============================================================================
