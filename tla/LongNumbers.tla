---------------------------- MODULE LongNumbers ----------------------------
(***************************************************************************)
(* Arithmetic on words: long_numbers.c of plancha1 (numbers of N words of  *)
(* W bits, least significant first; 16 and 16 there), mult.c of plancha1   *)
(* and the count of bits of ej2.s of plancha2.                             *)
(***************************************************************************)
EXTENDS Integers, Sequences, FiniteSets

CONSTANTS N, W

ASSUME WidthAssumption == N \in Nat \ {0} /\ W \in Nat \ {0}

Pow2[k \in Nat] == IF k = 0 THEN 1 ELSE 2 * Pow2[k - 1]

WordIndex == 0 .. N - 1
Word == 0 .. Pow2[W] - 1
LongNumber == [WordIndex -> Word]

\* The number that digits of w bits write, the first i of them: for each i.
Prefix(digit, m, w) ==
    LET upto[i \in 0 .. m] ==
            IF i = 0 THEN 0 ELSE upto[i - 1] + digit[i - 1] * Pow2[(i - 1) * w]
    IN  upto

\* The number without sign.
Value(n) == Prefix(n, N, W)[N]

bit(x, j) == (x \div Pow2[j]) % 2

\* print, up to the text: the value without the sign bit, less the sign bit.
print(n) ==
    LET low == [n EXCEPT ![N - 1] = @ % Pow2[W - 1]]
        sign == [i \in WordIndex |-> IF i = N - 1 THEN n[i] - low[i] ELSE 0]
    IN  Value(low) - Value(sign)

is_zero(n) == \A i \in WordIndex : n[i] = 0
is_one(n) == n[0] = 1 /\ \A i \in 1 .. N - 1 : n[i] = 0
is_even(n) == n[0] % 2 = 0

rshift(n) ==
    [i \in WordIndex |->
        n[i] \div 2 + (IF i < N - 1 THEN bit(n[i + 1], 0) * Pow2[W - 1] ELSE 0)]

\* Mutant of lshift: the bit that leaves a word is lost.
lshiftWords(n) == [i \in WordIndex |-> (2 * n[i]) % Pow2[W]]

lshift(n) ==
    [i \in WordIndex |->
        ((2 * n[i]) % Pow2[W]) + (IF i > 0 THEN bit(n[i - 1], W - 1) ELSE 0)]

\* Bit k of a number.
bitOf(n, k) == bit(n[k \div W], k % W)

\* Mutant of CarryOut: the carry stops at the end of a word.
CarryWithin(a, b, carry, k) ==
    IF k % W = W - 1 THEN 0 ELSE IF a = b THEN a ELSE carry

\* The three cases of sum: the carry that bits a and b leave at position k.
CarryOut(a, b, carry, k) == IF a = b THEN a ELSE carry

\* sum, one bit of the result after another: carry is 1 or 0 here, and the
\* mask of the bit it goes to, or 0, there.
Carries(a, b) ==
    LET carry[k \in 0 .. N * W] ==
            IF k = 0 THEN 0
            ELSE CarryOut(bitOf(a, k - 1), bitOf(b, k - 1), carry[k - 1], k - 1)
    IN  carry

SumBit(a, b, k) ==
    IF bitOf(a, k) = bitOf(b, k) THEN Carries(a, b)[k] ELSE 1 - Carries(a, b)[k]

sum(a, b) ==
    [i \in WordIndex |->
        Prefix([j \in 0 .. W - 1 |-> SumBit(a, b, i * W + j)], W, 1)[W]]

mult[p \in LongNumber \X LongNumber] ==
    LET a == p[1]
        b == p[2]
    IN  IF is_zero(b) THEN b
        ELSE IF is_one(b) THEN a
        ELSE IF is_even(b) THEN mult[<<lshift(a), rshift(b)>>]
        ELSE sum(mult[<<lshift(a), rshift(b)>>], a)

-----------------------------------------------------------------------------
\* mult.c, on one unsigned word.
mult_word[p \in Word \X Word] ==
    LET a == p[1]
        b == p[2]
    IN  IF b = 0 THEN 0
        ELSE IF b = 1 THEN a
        ELSE (mult_word[<<(2 * a) % Pow2[W], b \div 2>>] + mult_word[<<a, b % 2>>])
                % Pow2[W]

\* ej2.s: rolq puts the highest bit in the carry and at the bottom, adcq adds
\* it to rax.
contar_uno(r) ==
    [rbx |-> ((2 * r.rbx) % Pow2[W]) + bit(r.rbx, W - 1),
     rax |-> r.rax + bit(r.rbx, W - 1)]

Counting(x) ==
    LET after[k \in 0 .. W] ==
            IF k = 0 THEN [rbx |-> x, rax |-> 0] ELSE contar_uno(after[k - 1])
    IN  after

CountOnes(x) == Counting(x)[W]

-----------------------------------------------------------------------------
\* What the routines on two's complement numbers should return.
TwosComplement(v) ==
    LET r == v % Pow2[N * W]
    IN  IF r < Pow2[N * W - 1] THEN r ELSE r - Pow2[N * W]

\* Sum and product are exact modulo 2^(N W), also on negative numbers, as print
\* shows them; the shifts double and halve.
LongExact(a, b) ==
    /\ print(sum(a, b)) = TwosComplement(print(a) + print(b))
    /\ print(mult[<<a, b>>]) = TwosComplement(print(a) * print(b))
    /\ Value(lshift(a)) = (2 * Value(a)) % Pow2[N * W]
    /\ Value(rshift(a)) = Value(a) \div 2

\* mult.c is exact modulo 2^W; the count is that of the bits set, and the word
\* comes back to where it was.
WordExact(x, y) ==
    /\ mult_word[<<x, y>>] = (x * y) % Pow2[W]
    /\ CountOnes(x) =
          [rbx |-> x, rax |-> Cardinality({j \in 0 .. W - 1 : bit(x, j) = 1})]
=============================================================================
