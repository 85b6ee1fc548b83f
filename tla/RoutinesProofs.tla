--------------------------- MODULE RoutinesProofs ---------------------------
(***************************************************************************)
(* The exercises.  fuerzabruta of plancha2/ej3.s answers the first         *)
(* occurrence, and reads inside its strings, for every alphabet and every  *)
(* pair of strings of which the second is neither empty nor the longer     *)
(* one.  The exclusive ors of plancha1 lose nothing, for words of any      *)
(* width, any memory and any text.  The sum, the product, the shifts and   *)
(* print of long_numbers.c are those of the integers, and so are mult.c    *)
(* and the count of bits, for numbers of any number of words of any width. *)
(***************************************************************************)
EXTENDS MCRoutines, WellFoundedInduction, FiniteSetTheorems, TLAPS

\* The inductive invariant: the places passed hold no occurrence, and the
\* places left and passed are all there are.
SearchInv ==
    /\ str \in Seq(Char) /\ sub \in Seq(Char)
    /\ 1 =< Len(sub) /\ Len(sub) =< Len(str)
    /\ rdi \in Int /\ rax \in Int /\ r12 \in Int /\ r13 \in Int
    /\ at \in {"find", "compare", "failed", "done"}
    /\ at \in {"find", "compare"} =>
          r13 >= 0 /\ r12 >= 0 /\ r12 + r13 = Len(str) - Len(sub) + 1
    /\ at = "find" => rdi = r13 /\ \A o \in Occurrences : o >= r13
    /\ at = "compare" =>
          /\ rax \in 1 .. r12 /\ rdi = r13 + rax
          /\ \A o \in Occurrences : o >= rdi - 1
    /\ at = "failed" => Occurrences = {}
    /\ SearchFinds

\* The offsets that findstr and cmpstr read are offsets of str.
ReadsInside ==
    /\ at = "find" => \A k \in 1 .. r12 : rdi + k \in 1 .. Len(str)
    /\ at = "compare" => \A k \in 1 .. Len(sub) : rdi - 1 + k \in 1 .. Len(str)

LEMMA LengthsAreNumbers ==
    ASSUME SearchInv
    PROVE  Len(str) \in Nat /\ Len(sub) \in Nat
  BY DEF SearchInv

\* An occurrence that is left starts with a hit of the scan.
LEMMA OccurrenceIsHit ==
    ASSUME SearchInv, at = "find", NEW o \in Occurrences
    PROVE  o - r13 + 1 \in Hits
<1>1. o \in Int /\ o >= r13 /\ o =< Len(str) - Len(sub)
  BY LengthsAreNumbers DEF SearchInv, Occurrences
<1>2. o - r13 + 1 \in 1 .. r12
  BY <1>1, LengthsAreNumbers DEF SearchInv
<1>3. str[o + 1] = sub[1]
  BY LengthsAreNumbers DEF SearchInv, Occurrences
<1>4. rdi + (o - r13 + 1) = o + 1
  BY <1>1 DEF SearchInv
<1> QED
  BY <1>2, <1>3, <1>4 DEF Hits

LEMMA ScanStep ==
    ASSUME SearchInv, findstr
    PROVE  SearchInv'
<1> USE DEF SearchInv
<1>1. at = "find" /\ UNCHANGED <<str, sub, r12, r13>>
  BY DEF findstr
<1>2. Occurrences' = Occurrences
  BY <1>1 DEF Occurrences
<1>3. CASE Hits = {} /\ rax' = -1 /\ at' = "failed" /\ UNCHANGED rdi
  <2>1. Occurrences = {}
    BY <1>1, <1>3, OccurrenceIsHit
  <2> QED
    BY <1>1, <1>2, <1>3, <2>1 DEF SearchFinds
<1>4. ASSUME NEW k \in Hits,
             IsFirst(k, Hits), rax' = k, rdi' = rdi + k, at' = "compare"
      PROVE  SearchInv'
  <2>1. k \in 1 .. r12
    BY DEF Hits
  <2>2. \A o \in Occurrences : o >= r13 + k - 1
    <3> SUFFICES ASSUME NEW o \in Occurrences
                 PROVE  o >= r13 + k - 1
      OBVIOUS
    <3>1. k =< o - r13 + 1
      BY <1>1, <1>4, OccurrenceIsHit DEF IsFirst
    <3> QED
      BY <3>1, <2>1, LengthsAreNumbers DEF Occurrences
  <2> QED
    BY <1>1, <1>2, <1>4, <2>1, <2>2 DEF SearchFinds
<1> QED
  BY <1>1, <1>3, <1>4 DEF findstr

LEMMA CompareStep ==
    ASSUME SearchInv, Compare
    PROVE  SearchInv'
<1> USE DEF SearchInv
<1>1. /\ at = "compare" /\ r13' = r13 + rax /\ r12' = r12 - rax
      /\ UNCHANGED <<str, sub>> /\ r12 - rax >= 0
  BY DEF Compare
<1>2. Occurrences' = Occurrences
  BY <1>1 DEF Occurrences
<1>3. rdi - 1 \in 0 .. Len(str) - Len(sub)
  BY <1>1, LengthsAreNumbers
<1>4. rdi - 1 \in Occurrences <=> cmpstr(rdi - 1)
  BY <1>3 DEF Occurrences, cmpstr
<1>5. CASE cmpstr(rdi - 1)
  <2>1. at' = "done" /\ rax' = rdi - 1 /\ rdi' = rdi
    BY <1>1, <1>5 DEF Compare
  <2>2. IsFirst(rax', Occurrences)
    BY <1>1, <1>3, <1>4, <1>5, <2>1, LengthsAreNumbers
    DEF IsFirst, Occurrences
  <2>3. SearchFinds'
    BY <1>2, <2>1, <2>2 DEF SearchFinds, IsFirst
  <2> QED
    BY <1>1, <1>2, <1>3, <2>1, <2>3
<1>6. CASE ~cmpstr(rdi - 1)
  <2>1. at' = "find" /\ rdi' = rdi /\ rax' = rax
    BY <1>1, <1>6 DEF Compare
  <2>2. \A o \in Occurrences : o >= rdi
    <3>1. rdi - 1 \notin Occurrences
      BY <1>4, <1>6
    <3>2. \A o \in Occurrences : o \in Int
      BY LengthsAreNumbers DEF Occurrences
    <3>3. rdi \in Int /\ \A o \in Occurrences : o >= rdi - 1
      BY <1>1
    <3> QED
      BY <3>1, <3>2, <3>3
  <2> QED
    BY <1>1, <1>2, <2>1, <2>2, LengthsAreNumbers DEF SearchFinds
<1> QED
  BY <1>5, <1>6

LEMMA FailedStep ==
    ASSUME SearchInv, Failed
    PROVE  SearchInv'
<1>1. Occurrences' = Occurrences
  BY DEF Failed, Occurrences
<1> QED
  BY <1>1 DEF Failed, SearchInv, SearchFinds

\* The places passed hold no occurrence, at every step.
THEOREM SearchInvariant == FindSpec => []SearchInv
<1>1. FindInit => SearchInv
  <2> SUFFICES ASSUME FindInit
               PROVE  SearchInv
    OBVIOUS
  <2>1. PICK q \in Searches :
           /\ str = q[1] /\ sub = q[2]
           /\ rdi = 0 /\ rax = 0
           /\ r12 = Len(q[1]) - Len(q[2]) + 1
           /\ r13 = 0 /\ at = "find"
    BY DEF FindInit
  <2>2. /\ str \in Seq(Char) /\ sub \in Seq(Char)
        /\ 1 =< Len(sub) /\ Len(sub) =< Len(str)
    BY <2>1, SearchesAssumption
  <2>3. Len(str) \in Nat /\ Len(sub) \in Nat
    BY <2>2
  <2>4. r12 = Len(str) - Len(sub) + 1 /\ r12 \in Nat
    BY <2>1, <2>2, <2>3
  <2>5. \A o \in Occurrences : o >= 0
    BY <2>3 DEF Occurrences
  <2> QED
    BY <2>1, <2>2, <2>3, <2>4, <2>5 DEF SearchInv, SearchFinds
<1>2. SearchInv /\ [FindNext]_findVars => SearchInv'
  <2> SUFFICES ASSUME SearchInv, [FindNext]_findVars
               PROVE  SearchInv'
    OBVIOUS
  <2>1. CASE UNCHANGED findVars
    BY <2>1 DEF findVars, SearchInv, SearchFinds, Occurrences
  <2> QED
    BY <2>1, ScanStep, CompareStep, FailedStep DEF FindNext
<1> QED
  BY <1>1, <1>2, PTL DEF FindSpec

\* Whatever the strings, fuerzabruta answers the first offset where the second
\* stands in the first, or -1 when there is none.
THEOREM SearchCorrect == FindSpec => []SearchFinds
<1>1. SearchInv => SearchFinds
  BY DEF SearchInv
<1> QED
  BY <1>1, SearchInvariant, PTL

\* Neither scan leaves the first string, not even the comparison of the last
\* place.
THEOREM SearchReadsInside == FindSpec => []ReadsInside
<1>1. SearchInv => ReadsInside
  BY LengthsAreNumbers DEF SearchInv, ReadsInside
<1> QED
  BY <1>1, SearchInvariant, PTL

-----------------------------------------------------------------------------
LEMMA XorTyped ==
    ASSUME NEW x \in Bits, NEW y \in Bits
    PROVE  Xor(x, y) \in Bits
  BY DEF Xor, Bits

\* A second exclusive or with the same word undoes the first.
LEMMA XorUndone ==
    ASSUME NEW x \in Bits, NEW y \in Bits
    PROVE  Xor(Xor(x, y), y) = x
<1>1. Xor(Xor(x, y), y) \in Bits
  BY XorTyped
<1>2. \A b \in Bit : Xor(Xor(x, y), y)[b] = x[b]
  BY Zenon DEF Xor, Bits
<1> QED
  BY <1>1, <1>2 DEF Bits

LEMMA XorCommutes ==
    ASSUME NEW x \in Bits, NEW y \in Bits
    PROVE  Xor(x, y) = Xor(y, x)
  BY DEF Xor, Bits

\* Three exclusive ors exchange two places.
LEMMA TwoExchanged ==
    ASSUME NEW Cell, NEW m \in [Cell -> Bits],
           NEW p \in Cell, NEW q \in Cell, p # q
    PROVE  XorInto(XorInto(XorInto(m, p, q), q, p), p, q)
              = [m EXCEPT ![p] = m[q], ![q] = m[p]]
<1> DEFINE x == m[p]
           y == m[q]
           m1 == XorInto(m, p, q)
           m2 == XorInto(m1, q, p)
           m3 == XorInto(m2, p, q)
<1>1. x \in Bits /\ y \in Bits
  OBVIOUS
<1>2. m1 = [m EXCEPT ![p] = Xor(x, y)]
  BY DEF XorInto
<1>3. m2 = [m1 EXCEPT ![q] = x]
  <2>1. m2 = [m1 EXCEPT ![q] = Xor(y, Xor(x, y))]
    BY <1>2 DEF XorInto
  <2>2. Xor(y, Xor(x, y)) = x
    BY <1>1, XorTyped, XorCommutes, XorUndone
  <2> QED
    BY <2>1, <2>2
<1>4. m3 = [m2 EXCEPT ![p] = y]
  <2>1. m3 = [m2 EXCEPT ![p] = Xor(Xor(x, y), x)]
    BY <1>2, <1>3 DEF XorInto
  <2>2. Xor(Xor(x, y), x) = y
    BY <1>1, XorTyped, XorCommutes, XorUndone
  <2> QED
    BY <2>1, <2>2
<1> QED
  BY <1>2, <1>3, <1>4

\* swap passes three values round, whatever they are.
THEOREM SwapRotates ==
    ASSUME NEW Cell, NEW m \in [Cell -> Bits],
           NEW a \in Cell, NEW b \in Cell, NEW c \in Cell,
           a # b, b # c, a # c
    PROVE  Rotated(m, a, b, c)
<1> DEFINE k == [m EXCEPT ![b] = m[c], ![c] = m[b]]
<1>1. XorInto(XorInto(XorInto(m, b, c), c, b), b, c) = k
  BY TwoExchanged
<1>2. k \in [Cell -> Bits]
  OBVIOUS
<1>3. XorInto(XorInto(XorInto(k, a, b), b, a), a, b)
         = [k EXCEPT ![a] = k[b], ![b] = k[a]]
  <2> HIDE DEF k
  <2> QED
    BY <1>2, TwoExchanged
<1>4. swap(m, a, b, c) = XorInto(XorInto(XorInto(k, a, b), b, a), a, b)
  BY <1>1 DEF swap
<1>5. [k EXCEPT ![a] = k[b], ![b] = k[a]]
         = [m EXCEPT ![a] = m[c], ![b] = m[a], ![c] = m[b]]
  OBVIOUS
<1> QED
  BY <1>3, <1>4, <1>5 DEF Rotated

\* Ciphering twice gives the word back, for any length taken both times, and
\* so does encoding twice.
THEOREM CypherUndone ==
    ASSUME NEW word \in Seq(Bits), NEW key \in Bits
    PROVE  Deciphered(word, key)
<1>1. \A i \in DOMAIN word : word[i] \in Bits
  OBVIOUS
<1>2. word = [i \in DOMAIN word |-> word[i]]
  OBVIOUS
<1>3. \A i \in DOMAIN word : Xor(Xor(word[i], key), key) = word[i]
  BY <1>1, XorUndone
<1>4. cypher_main(word, key) = word
  <2> DEFINE n == strlen(word)
             once == cypher(word, n, key)
  <2>1. DOMAIN once = DOMAIN word
    BY DEF cypher
  <2>2. cypher(once, n, key) = [i \in DOMAIN word |-> word[i]]
    <3> HIDE DEF n
    <3> QED
      BY <1>3, <2>1 DEF cypher
  <2> QED
    BY <1>2, <2>2 DEF cypher_main
<1>5. encode(encode(word, key), key) = word
  <2>1. encode(encode(word, key), key) = [i \in DOMAIN word |-> word[i]]
    BY <1>3 DEF encode
  <2> QED
    BY <1>2, <2>1
<1> QED
  BY <1>4, <1>5 DEF Deciphered

-----------------------------------------------------------------------------
\* Functions defined by recursion.  A recursive definition stands for a chosen
\* solution of its equation: that there is one is what these lemmas show.  A
\* property is a set here, and an induction shows that the set holds all.

\* A set of numbers that is not empty has a least one.
LEMMA LeastNumber ==
    ASSUME NEW T \in SUBSET Nat, T # {}
    PROVE  \E m \in T : \A k \in T : m =< k
<1>1. PICK x \in T : \A y \in T : ~ (<<y, x>> \in OpToRel(<, Nat))
  BY NatLessThanWellFounded, WFMin
<1>2. \A y \in T : ~ (y < x)
  BY <1>1 DEF OpToRel
<1> QED
  BY <1>2

\* Induction on a measure, the property being a set.
LEMMA MeasureInduction ==
    ASSUME NEW P, NEW mu \in [P -> Nat], NEW A,
           \A p \in P : (\A q \in P : mu[q] < mu[p] => q \in A) => p \in A
    PROVE  P \subseteq A
<1> SUFFICES ASSUME NEW z \in P, z \notin A PROVE FALSE
  OBVIOUS
<1> DEFINE T == {mu[p] : p \in P \ A}
<1>1. T \in SUBSET Nat /\ T # {}
  OBVIOUS
<1>2. PICK m \in T : \A k \in T : m =< k
  <2> HIDE DEF T
  <2> QED
    BY <1>1, LeastNumber
<1>3. PICK p \in P \ A : mu[p] = m
  BY <1>2
<1>4. ASSUME NEW q \in P, mu[q] < mu[p], q \notin A PROVE FALSE
  <2>1. mu[q] \in T
    BY <1>4
  <2>2. m =< mu[q]
    BY <1>2, <2>1
  <2>3. mu[q] \in Nat /\ m \in Nat /\ mu[q] < m
    BY <1>3, <1>4
  <2> HIDE DEF T
  <2> QED
    BY <2>2, <2>3
<1> QED
  BY <1>3, <1>4

\* Induction on the natural numbers, from the one on a measure.
LEMMA NatInduct ==
    ASSUME NEW A, 0 \in A, \A k \in Nat : k \in A => k + 1 \in A
    PROVE  Nat \subseteq A
<1> DEFINE mu == [k \in Nat |-> k]
<1>1. mu \in [Nat -> Nat]
  OBVIOUS
<1>2. ASSUME NEW p \in Nat, \A q \in Nat : mu[q] < mu[p] => q \in A
      PROVE  p \in A
  <2>1. CASE p = 0
    BY <2>1
  <2>2. CASE p # 0
    <3>1. p - 1 \in Nat /\ p - 1 < p /\ (p - 1) + 1 = p
      BY <2>2
    <3>2. p - 1 \in A
      BY <1>2, <3>1
    <3> QED
      BY <3>1, <3>2
  <2> QED
    BY <2>1, <2>2
<1> HIDE DEF mu
<1> QED
  BY <1>1, <1>2, MeasureInduction

\* A definition that looks only at smaller arguments has a solution.
Recursion(P, S, mu, F) ==
    /\ S # {} /\ mu \in [P -> Nat] /\ F \in [[P -> S] -> [P -> S]]
    /\ \A f, g \in [P -> S] : \A p \in P :
          (\A q \in P : mu[q] < mu[p] => f[q] = g[q]) => F[f][p] = F[g][p]

LEMMA FixpointExists ==
    ASSUME NEW P, NEW S, NEW mu, NEW F, Recursion(P, S, mu, F)
    PROVE  \E f \in [P -> S] : F[f] = f
<1> USE DEF Recursion
<1> DEFINE Good(f, k) == \A p \in P : mu[p] < k => f[p] = F[f][p]
           A == {k \in Nat : \E f \in [P -> S] : Good(f, k)}
<1>1. 0 \in A
  <2>1. PICK s0 \in S : TRUE
    OBVIOUS
  <2>2. [p \in P |-> s0] \in [P -> S]
    OBVIOUS
  <2>3. Good([p \in P |-> s0], 0)
    OBVIOUS
  <2> HIDE DEF Good
  <2> QED
    BY <2>2, <2>3
<1>2. ASSUME NEW k \in Nat, k \in A PROVE k + 1 \in A
  <2>1. PICK f \in [P -> S] : Good(f, k)
    BY <1>2
  <2>2. F[f] \in [P -> S]
    OBVIOUS
  <2>3. ASSUME NEW p \in P, mu[p] < k + 1 PROVE F[f][p] = F[F[f]][p]
    <3>1. \A q \in P : mu[q] < mu[p] => f[q] = F[f][q]
      <4> SUFFICES ASSUME NEW q \in P, mu[q] < mu[p] PROVE f[q] = F[f][q]
        OBVIOUS
      <4>1. mu[q] < k
        BY <2>3
      <4> QED
        BY <2>1, <4>1
    <3> QED
      BY <2>2, <3>1
  <2>4. Good(F[f], k + 1)
    BY <2>3
  <2> QED
    BY <2>2, <2>4
<1> HIDE DEF A
<1>3. Nat \subseteq A
  BY <1>1, <1>2, NatInduct
<1>4. \A k \in Nat : \E f \in [P -> S] : Good(f, k)
  BY <1>3 DEF A
<1> DEFINE h(k) == CHOOSE f \in [P -> S] : Good(f, k)
           f == [p \in P |-> h(mu[p] + 1)[p]]
<1>5. \A k \in Nat : h(k) \in [P -> S] /\ Good(h(k), k)
  <2> HIDE DEF Good
  <2> QED
    BY <1>4
<1>6. f \in [P -> S]
  <2> HIDE DEF h
  <2>1. \A p \in P : mu[p] + 1 \in Nat
    OBVIOUS
  <2> QED
    BY <1>5, <2>1
<1> HIDE DEF h
<1>7. ASSUME NEW i \in Nat, NEW j \in Nat
      PROVE  \A p \in P : mu[p] < i /\ mu[p] < j => h(i)[p] = h(j)[p]
  <2> DEFINE B == {p \in P : mu[p] < i /\ mu[p] < j => h(i)[p] = h(j)[p]}
  <2>1. ASSUME NEW p \in P, \A q \in P : mu[q] < mu[p] => q \in B PROVE p \in B
    <3> SUFFICES ASSUME mu[p] < i, mu[p] < j PROVE h(i)[p] = h(j)[p]
      OBVIOUS
    <3>1. \A q \in P : mu[q] < mu[p] => h(i)[q] = h(j)[q]
      <4> SUFFICES ASSUME NEW q \in P, mu[q] < mu[p] PROVE h(i)[q] = h(j)[q]
        OBVIOUS
      <4>1. mu[q] < i /\ mu[q] < j
        OBVIOUS
      <4> QED
        BY <2>1, <4>1
    <3>2. F[h(i)][p] = F[h(j)][p]
      BY <1>5, <3>1
    <3> QED
      BY <1>5, <3>2
  <2> HIDE DEF B
  <2>2. P \subseteq B
    BY <2>1, MeasureInduction
  <2> QED
    BY <2>2 DEF B
<1>8. ASSUME NEW p \in P PROVE F[f][p] = f[p]
  <2> DEFINE k == mu[p] + 1
  <2>1. k \in Nat /\ mu[p] < k
    OBVIOUS
  <2>2. f[p] = h(k)[p]
    OBVIOUS
  <2>3. \A q \in P : mu[q] < mu[p] => f[q] = h(k)[q]
    <3> SUFFICES ASSUME NEW q \in P, mu[q] < mu[p] PROVE f[q] = h(k)[q]
      OBVIOUS
    <3>1. mu[q] + 1 \in Nat /\ mu[q] < mu[q] + 1 /\ mu[q] < k
      OBVIOUS
    <3> QED
      BY <1>7, <2>1, <3>1
  <2> HIDE DEF k, f
  <2>4. F[f][p] = F[h(k)][p]
    BY <1>5, <1>6, <2>1, <2>3
  <2> QED
    BY <1>5, <2>1, <2>2, <2>4
<1>9. F[f] \in [P -> S] /\ f \in [P -> S]
  BY <1>6
<1> HIDE DEF f
<1> QED
  BY <1>8, <1>9


-----------------------------------------------------------------------------
\* Powers of two, and division.

\* The powers of two satisfy their equation.
LEMMA Pow2Function ==
    Pow2 = [k \in Nat |-> IF k = 0 THEN 1 ELSE 2 * Pow2[k - 1]]
<1> DEFINE mu == [k \in Nat |-> k]
           F == [f \in [Nat -> Nat] |->
                    [k \in Nat |-> IF k = 0 THEN 1 ELSE 2 * f[k - 1]]]
<1>1. mu \in [Nat -> Nat]
  OBVIOUS
<1>2. F \in [[Nat -> Nat] -> [Nat -> Nat]]
  <2> SUFFICES ASSUME NEW f \in [Nat -> Nat], NEW k \in Nat
               PROVE  (IF k = 0 THEN 1 ELSE 2 * f[k - 1]) \in Nat
    OBVIOUS
  <2> QED
    OBVIOUS
<1>3. ASSUME NEW f \in [Nat -> Nat], NEW g \in [Nat -> Nat], NEW p \in Nat,
             \A q \in Nat : mu[q] < mu[p] => f[q] = g[q]
      PROVE  F[f][p] = F[g][p]
  <2>1. CASE p = 0
    BY <2>1
  <2>2. CASE p # 0
    <3>1. p - 1 \in Nat /\ p - 1 < p
      BY <2>2
    <3> QED
      BY <1>3, <2>2, <3>1
  <2> QED
    BY <2>1, <2>2
<1>4. \E f \in [Nat -> Nat] : F[f] = f
  <2> DEFINE P == Nat
  <2>1. Recursion(P, P, mu, F)
    BY <1>1, <1>2, <1>3 DEF Recursion
  <2> SUFFICES \E f \in [P -> P] : F[f] = f
    OBVIOUS
  <2> HIDE DEF F, mu, P
  <2> QED
    BY <2>1, FixpointExists
<1>5. \E f : f = [k \in Nat |-> IF k = 0 THEN 1 ELSE 2 * f[k - 1]]
  BY <1>4
<1> QED
  BY <1>5 DEF Pow2

LEMMA Pow2Step ==
    Pow2[0] = 1 /\ \A k \in Nat : Pow2[k + 1] = 2 * Pow2[k]
<1>1. Pow2[0] = 1
  BY Pow2Function
<1>2. ASSUME NEW k \in Nat PROVE Pow2[k + 1] = 2 * Pow2[k]
  <2>1. k + 1 \in Nat /\ k + 1 # 0 /\ (k + 1) - 1 = k
    OBVIOUS
  <2> QED
    BY <2>1, Pow2Function
<1> QED
  BY <1>1, <1>2

LEMMA Pow2Positive ==
    \A k \in Nat : Pow2[k] \in Nat \ {0}
<1> DEFINE G == {k \in Nat : Pow2[k] \in Nat \ {0}}
<1>1. 0 \in G
  BY Pow2Step
<1>2. ASSUME NEW k \in Nat, k \in G PROVE k + 1 \in G
  BY <1>2, Pow2Step
<1> HIDE DEF G
<1>3. Nat \subseteq G
  BY <1>1, <1>2, NatInduct
<1> QED
  BY <1>3 DEF G

\* The power of a sum is a product.
LEMMA Pow2Plus ==
    ASSUME NEW i \in Nat, NEW j \in Nat
    PROVE  Pow2[i + j] = Pow2[i] * Pow2[j]
<1> DEFINE G == {k \in Nat : Pow2[i + k] = Pow2[i] * Pow2[k]}
<1>1. 0 \in G
  BY Pow2Step, Pow2Positive
<1>2. ASSUME NEW k \in Nat, k \in G PROVE k + 1 \in G
  <2>1. Pow2[i + (k + 1)] = 2 * Pow2[i + k] /\ Pow2[k + 1] = 2 * Pow2[k]
    <3>1. i + (k + 1) = (i + k) + 1 /\ i + k \in Nat
      OBVIOUS
    <3> QED
      BY <3>1, Pow2Step
  <2>2. Pow2[i] \in Nat /\ Pow2[k] \in Nat
    BY Pow2Positive
  <2>3. Pow2[i + k] = Pow2[i] * Pow2[k]
    BY <1>2
  <2>4. Pow2[i] * (2 * Pow2[k]) = 2 * (Pow2[i] * Pow2[k])
    BY <2>2
  <2> QED
    BY <2>1, <2>2, <2>3, <2>4
<1> HIDE DEF G
<1>3. Nat \subseteq G
  BY <1>1, <1>2, NatInduct
<1> QED
  BY <1>3 DEF G

LEMMA Division ==
    ASSUME NEW x \in Int, NEW d \in Nat \ {0}
    PROVE  /\ x \div d \in Int /\ x % d \in 0 .. d - 1
           /\ x = d * (x \div d) + (x % d)
  OBVIOUS

\* Quotient and remainder are the only ones.
LEMMA DivisionUnique ==
    ASSUME NEW d \in Nat \ {0}, NEW q \in Int, NEW r \in 0 .. d - 1
    PROVE  (d * q + r) \div d = q /\ (d * q + r) % d = r
<1> DEFINE x == d * q + r
<1>1. x \in Int
  OBVIOUS
<1>2. /\ x \div d \in Int /\ x % d \in 0 .. d - 1
      /\ x = d * (x \div d) + (x % d)
  BY <1>1, Division
<1>3. ASSUME NEW s \in Int, NEW t \in 0 .. d - 1, x = d * s + t
      PROVE s = q /\ t = r
  <2>1. d * (q - s) = t - r
    BY <1>3
  <2>2. CASE q - s >= 1
    <3>1. d * (q - s) >= d
      BY <2>2
    <3> QED
      BY <2>1, <3>1
  <2>3. CASE q - s =< -1
    <3>1. d * (q - s) =< -d
      BY <2>3
    <3> QED
      BY <2>1, <3>1
  <2>4. CASE q = s
    BY <1>3, <2>4
  <2> QED
    BY <2>2, <2>3, <2>4
<1> HIDE DEF x
<1>4. (x \div d) = q /\ (x % d) = r
  BY <1>2, <1>3
<1> QED
  BY <1>4 DEF x


-----------------------------------------------------------------------------
\* Numbers written digit by digit: Prefix, and the bits of a number.

\* A sequence of values each computed from the one before it.
Computes(m, S, s0, step) ==
    m \in Nat /\ s0 \in S /\ step \in [(1 .. m) \X S -> S]

Computed(m, S, s0, step) ==
    \E f \in [0 .. m -> S] :
        f = [i \in 0 .. m |-> IF i = 0 THEN s0 ELSE step[<<i, f[i - 1]>>]]

LEMMA SegmentRecursion ==
    ASSUME NEW m, NEW S, NEW s0, NEW step, Computes(m, S, s0, step)
    PROVE  Computed(m, S, s0, step)
<1> USE DEF Computes
<1> DEFINE P == 0 .. m
           mu == [k \in P |-> k]
           F == [f \in [P -> S] |->
                   [i \in P |-> IF i = 0 THEN s0 ELSE step[<<i, f[i - 1]>>]]]
<1>1. mu \in [P -> Nat] /\ S # {}
  OBVIOUS
<1>2. F \in [[P -> S] -> [P -> S]]
  <2> SUFFICES ASSUME NEW f \in [P -> S], NEW i \in P, i # 0
               PROVE  step[<<i, f[i - 1]>>] \in S
    OBVIOUS
  <2>1. i \in 1 .. m /\ i - 1 \in P
    OBVIOUS
  <2>2. f[i - 1] \in S
    BY <2>1
  <2> QED
    BY <2>1, <2>2
<1>3. ASSUME NEW f \in [P -> S], NEW g \in [P -> S], NEW p \in P,
             \A q \in P : mu[q] < mu[p] => f[q] = g[q]
      PROVE  F[f][p] = F[g][p]
  <2>1. CASE p = 0
    BY <2>1
  <2>2. CASE p # 0
    <3>1. p - 1 \in P /\ mu[p - 1] < mu[p]
      BY <2>2
    <3>2. f[p - 1] = g[p - 1]
      BY <1>3, <3>1
    <3> QED
      BY <2>2, <3>2
  <2> QED
    BY <2>1, <2>2
<1>4. \E f \in [P -> S] : F[f] = f
  <2>1. Recursion(P, S, mu, F)
    BY <1>1, <1>2, <1>3 DEF Recursion
  <2> HIDE DEF F, mu, P
  <2> QED
    BY <2>1, FixpointExists
<1> QED
  BY <1>4 DEF Computed

\* Each digit adds its weight to what the ones before it write.
LEMMA PrefixFunction ==
    ASSUME NEW m \in Nat, NEW w \in Nat, NEW digit,
           \A i \in 0 .. m - 1 : digit[i] \in Int
    PROVE  /\ Prefix(digit, m, w) \in [0 .. m -> Int]
           /\ Prefix(digit, m, w)[0] = 0
           /\ \A i \in 0 .. m - 1 :
                Prefix(digit, m, w)[i + 1] =
                   Prefix(digit, m, w)[i] + digit[i] * Pow2[i * w]
<1> DEFINE step == [q \in (1 .. m) \X Int |->
                      q[2] + digit[q[1] - 1] * Pow2[(q[1] - 1) * w]]
           G(f) == [i \in 0 .. m |->
                      IF i = 0 THEN 0
                      ELSE f[i - 1] + digit[i - 1] * Pow2[(i - 1) * w]]
           f == Prefix(digit, m, w)
<1>1. step \in [(1 .. m) \X Int -> Int]
  <2> SUFFICES ASSUME NEW i \in 1 .. m, NEW y \in Int
               PROVE  y + digit[i - 1] * Pow2[(i - 1) * w] \in Int
    OBVIOUS
  <2>1. i - 1 \in 0 .. m - 1 /\ (i - 1) * w \in Nat
    OBVIOUS
  <2>2. digit[i - 1] \in Int /\ Pow2[(i - 1) * w] \in Int
    BY <2>1, Pow2Positive
  <2> QED
    BY <2>2
<1>2. \E g \in [0 .. m -> Int] :
         g = [i \in 0 .. m |-> IF i = 0 THEN 0 ELSE step[<<i, g[i - 1]>>]]
  <2>1. Computes(m, Int, 0, step)
    BY <1>1 DEF Computes
  <2> HIDE DEF step
  <2>2. Computed(m, Int, 0, step)
    BY <2>1, SegmentRecursion
  <2> QED
    BY <2>2 DEF Computed
<1>3. PICK g \in [0 .. m -> Int] :
         g = [i \in 0 .. m |-> IF i = 0 THEN 0 ELSE step[<<i, g[i - 1]>>]]
  BY <1>2
<1>4. g = G(g)
  <2> SUFFICES ASSUME NEW i \in 0 .. m
               PROVE  g[i] = G(g)[i]
    BY <1>3
  <2>1. CASE i = 0
    BY <1>3, <2>1
  <2>2. CASE i # 0
    <3>1. i \in 1 .. m /\ i - 1 \in 0 .. m
      BY <2>2
    <3>2. g[i - 1] \in Int
      BY <3>1
    <3>3. g[i] = step[<<i, g[i - 1]>>]
      BY <1>3, <2>2
    <3> QED
      BY <2>2, <3>1, <3>2, <3>3
  <2> QED
    BY <2>1, <2>2
<1>5. f = G(f)
  <2>1. f = CHOOSE h : h = G(h)
    BY DEF Prefix
  <2> HIDE DEF f, G
  <2> QED
    BY <1>4, <2>1
<1>6. ASSUME NEW i \in 0 .. m - 1
      PROVE  f[i + 1] = f[i] + digit[i] * Pow2[i * w]
  <2>1. i + 1 \in 0 .. m /\ i + 1 # 0 /\ (i + 1) - 1 = i
    OBVIOUS
  <2> HIDE DEF f
  <2> QED
    BY <1>5, <2>1
<1>7. f[0] = 0 /\ f = [i \in 0 .. m |-> f[i]]
  <2> HIDE DEF f
  <2> QED
    BY <1>5
<1> HIDE DEF f
<1>8. \A i \in 0 .. m : f[i] \in Int
  <2> DEFINE A == {i \in Nat : i =< m => f[i] \in Int}
  <2>1. 0 \in A
    BY <1>7
  <2>2. ASSUME NEW i \in Nat, i \in A PROVE i + 1 \in A
    <3> SUFFICES ASSUME i + 1 =< m PROVE f[i + 1] \in Int
      OBVIOUS
    <3>1. i \in 0 .. m - 1 /\ f[i] \in Int /\ i * w \in Nat
      BY <2>2
    <3>2. digit[i] \in Int /\ Pow2[i * w] \in Int
      BY <3>1, Pow2Positive
    <3> QED
      BY <1>6, <3>1, <3>2
  <2> HIDE DEF A
  <2>3. Nat \subseteq A
    BY <2>1, <2>2, NatInduct
  <2> QED
    BY <2>3 DEF A
<1>9. f \in [0 .. m -> Int]
  BY <1>7, <1>8
<1> QED
  BY <1>6, <1>7, <1>9 DEF f

\* A number with one digit more.
LEMMA OneMoreDigit ==
    ASSUME NEW q \in Nat \ {0}, NEW b \in Nat \ {0}, NEW p \in 0 .. q - 1,
           NEW d \in 0 .. b - 1
    PROVE  p + d * q \in 0 .. q * b - 1
<1>1. d * q \in Nat /\ q * b \in Nat
  OBVIOUS
<1>2. (b - 1 - d) * q >= 0
  <2>1. b - 1 - d \in Nat
    OBVIOUS
  <2> QED
    BY <2>1
<1>3. (b - 1 - d) * q = q * b - q - d * q
  OBVIOUS
<1> QED
  BY <1>1, <1>2, <1>3

\* So many digits write a number below the power of so many bits.
LEMMA PrefixBound ==
    ASSUME NEW m \in Nat, NEW w \in Nat, NEW digit,
           \A i \in 0 .. m - 1 : digit[i] \in 0 .. Pow2[w] - 1
    PROVE  \A i \in 0 .. m : Prefix(digit, m, w)[i] \in 0 .. Pow2[i * w] - 1
<1> DEFINE f == Prefix(digit, m, w)
           A == {i \in Nat : i =< m => f[i] \in 0 .. Pow2[i * w] - 1}
<1>0. Pow2[w] \in Nat \ {0}
  BY Pow2Positive
<1>1. /\ f \in [0 .. m -> Int] /\ f[0] = 0
      /\ \A i \in 0 .. m - 1 : f[i + 1] = f[i] + digit[i] * Pow2[i * w]
  <2>1. \A i \in 0 .. m - 1 : digit[i] \in Int
    BY <1>0
  <2> QED
    BY <2>1, PrefixFunction
<1> HIDE DEF f
<1>2. 0 \in A
  <2>1. Pow2[0 * w] = 1
    BY Pow2Step
  <2> QED
    BY <1>1, <2>1
<1>3. ASSUME NEW i \in Nat, i \in A PROVE i + 1 \in A
  <2> SUFFICES ASSUME i + 1 =< m PROVE f[i + 1] \in 0 .. Pow2[(i + 1) * w] - 1
    OBVIOUS
  <2>1. i \in 0 .. m - 1 /\ i * w \in Nat
    OBVIOUS
  <2>2. Pow2[i * w] \in Nat \ {0}
    BY <2>1, Pow2Positive
  <2>3. f[i] \in 0 .. Pow2[i * w] - 1
    BY <1>3
  <2>4. f[i + 1] \in 0 .. Pow2[i * w] * Pow2[w] - 1
    <3>1. f[i + 1] = f[i] + digit[i] * Pow2[i * w]
      BY <1>1, <2>1
    <3>2. digit[i] \in 0 .. Pow2[w] - 1
      BY <2>1
    <3>3. f[i] + digit[i] * Pow2[i * w] \in 0 .. Pow2[i * w] * Pow2[w] - 1
      BY <1>0, <2>2, <2>3, <3>2, OneMoreDigit
    <3> QED
      BY <3>1, <3>3
  <2>5. (i + 1) * w = i * w + w
    OBVIOUS
  <2>6. Pow2[(i + 1) * w] = Pow2[i * w] * Pow2[w]
    BY <2>1, <2>5, Pow2Plus
  <2> QED
    BY <2>4, <2>6
<1> HIDE DEF A
<1>4. Nat \subseteq A
  BY <1>2, <1>3, NatInduct
<1> QED
  BY <1>4 DEF A, f

LEMMA BitType ==
    ASSUME NEW x \in Int, NEW j \in Nat
    PROVE  bit(x, j) \in {0, 1}
<1>1. Pow2[j] \in Nat \ {0}
  BY Pow2Positive
<1>2. x \div Pow2[j] \in Int
  BY <1>1, Division
<1> DEFINE q == x \div Pow2[j]
<1> HIDE DEF q
<1>3. q % 2 \in 0 .. 1
  BY <1>2 DEF q
<1> QED
  BY <1>3 DEF bit, q

\* The bits below j + 1, and those from j + 1 on.
LEMMA BitSplit ==
    ASSUME NEW x \in Int, NEW j \in Nat
    PROVE  /\ x % Pow2[j + 1] = (x % Pow2[j]) + bit(x, j) * Pow2[j]
           /\ x \div Pow2[j + 1] = (x \div Pow2[j]) \div 2
<1> DEFINE p == Pow2[j]
           q == x \div p
           r == x % p
           h == q \div 2
           b == q % 2
<1>1. p \in Nat \ {0}
  BY Pow2Positive
<1> HIDE DEF p
<1>2. q \in Int /\ r \in 0 .. p - 1 /\ x = p * q + r
  BY <1>1, Division
<1> HIDE DEF q, r
<1>3. h \in Int /\ b \in 0 .. 1 /\ q = 2 * h + b
  <2>1. 2 \in Nat \ {0}
    OBVIOUS
  <2> QED
    BY <1>2, <2>1, Division
<1> HIDE DEF h, b
<1>4. Pow2[j + 1] = 2 * p
  BY Pow2Step DEF p
<1>5. x = (2 * p) * h + (r + b * p)
  <2>1. p * (2 * h + b) = (2 * p) * h + b * p
    BY <1>1, <1>3
  <2> QED
    BY <1>1, <1>2, <1>3, <2>1
<1>6. 2 * p \in Nat \ {0} /\ r + b * p \in 0 .. 2 * p - 1
  <2>1. b * p \in 0 .. p
    BY <1>1, <1>3
  <2> QED
    BY <1>1, <1>2, <2>1
<1>7. x \div (2 * p) = h /\ x % (2 * p) = r + b * p
  BY <1>3, <1>5, <1>6, DivisionUnique
<1> QED
  BY <1>4, <1>7 DEF bit, h, b, q, r, p

\* The bits of a number write it.
LEMMA BitsSum ==
    ASSUME NEW x \in Int, NEW m \in Nat, NEW d,
           \A j \in 0 .. m - 1 : d[j] = bit(x, j)
    PROVE  \A j \in 0 .. m : Prefix(d, m, 1)[j] = x % Pow2[j]
<1> DEFINE f == Prefix(d, m, 1)
           A == {j \in Nat : j =< m => f[j] = x % Pow2[j]}
<1>1. /\ f[0] = 0
      /\ \A i \in 0 .. m - 1 : f[i + 1] = f[i] + d[i] * Pow2[i * 1]
  <2>1. \A i \in 0 .. m - 1 : d[i] \in Int
    BY BitType
  <2> QED
    BY <2>1, PrefixFunction
<1> HIDE DEF f
<1>2. 0 \in A
  <2>1. x % 1 = 0
    OBVIOUS
  <2> QED
    BY <1>1, <2>1, Pow2Step
<1>3. ASSUME NEW j \in Nat, j \in A PROVE j + 1 \in A
  <2> SUFFICES ASSUME j + 1 =< m PROVE f[j + 1] = x % Pow2[j + 1]
    OBVIOUS
  <2>1. j \in 0 .. m - 1 /\ j * 1 = j
    OBVIOUS
  <2>2. f[j] = x % Pow2[j]
    BY <1>3
  <2>3. f[j + 1] = f[j] + bit(x, j) * Pow2[j]
    BY <1>1, <2>1
  <2> QED
    BY <2>2, <2>3, BitSplit
<1> HIDE DEF A
<1>4. Nat \subseteq A
  BY <1>2, <1>3, NatInduct
<1> QED
  BY <1>4 DEF A, f

Block(bits, i) == [j \in 0 .. W - 1 |-> bits[i * W + j]]

\* Bit j of word i is bit i W + j of the number, and every bit is one of a
\* word.
LEMMA PlaceInNumber ==
    ASSUME NEW i \in WordIndex, NEW j \in 0 .. W - 1
    PROVE  /\ i * W + j \in 0 .. N * W - 1
           /\ (i * W + j) \div W = i /\ (i * W + j) % W = j
<1>1. W \in Nat \ {0} /\ N \in Nat /\ i \in Nat /\ i =< N - 1
  BY WidthAssumption DEF WordIndex
<1>2. i * W + j \in Nat /\ N * W \in Nat
  BY <1>1
<1>3. (N - 1 - i) * W >= 0
  BY <1>1
<1>4. (N - 1 - i) * W = N * W - W - i * W
  BY <1>1
<1>5. (W * i + j) \div W = i /\ (W * i + j) % W = j
  BY <1>1, DivisionUnique
<1>6. W * i = i * W
  BY <1>1
<1> QED
  BY <1>1, <1>2, <1>3, <1>4, <1>5, <1>6

LEMMA WordStart ==
    ASSUME NEW i \in 0 .. N
    PROVE  i * W \in 0 .. N * W
<1>1. W \in Nat \ {0} /\ N \in Nat /\ i \in Nat /\ i =< N
  BY WidthAssumption
<1>2. i * W \in Nat /\ N * W \in Nat
  BY <1>1
<1>3. (N - i) * W >= 0
  BY <1>1
<1>4. (N - i) * W = N * W - i * W
  BY <1>1
<1> QED
  BY <1>2, <1>3, <1>4

LEMMA PlaceSplit ==
    ASSUME NEW k \in 0 .. N * W - 1
    PROVE  k \div W \in WordIndex /\ k % W \in 0 .. W - 1
<1>1. W \in Nat \ {0} /\ N \in Nat \ {0} /\ N * W \in Nat
  BY WidthAssumption
<1> DEFINE q == k \div W
           r == k % W
<1>2. q \in Int /\ r \in 0 .. W - 1 /\ k = W * q + r
  BY <1>1, Division
<1> HIDE DEF q, r
<1>3. q >= 0
  <2>1. ASSUME q =< -1 PROVE FALSE
    <3>1. W * (-1 - q) >= 0
      BY <1>1, <1>2, <2>1
    <3>2. W * (-1 - q) = -W - W * q
      BY <1>1, <1>2
    <3> QED
      BY <1>1, <1>2, <3>1, <3>2
  <2> QED
    BY <1>2, <2>1
<1>4. q =< N - 1
  <2>1. ASSUME q >= N PROVE FALSE
    <3>1. W * (q - N) >= 0
      BY <1>1, <1>2, <2>1
    <3>2. W * (q - N) = W * q - N * W
      BY <1>1, <1>2
    <3> QED
      BY <1>1, <1>2, <3>1, <3>2
  <2> QED
    BY <1>1, <1>2, <2>1
<1> QED
  BY <1>1, <1>2, <1>3, <1>4 DEF q, r, WordIndex

\* The number that words write is the one that their bits write.
LEMMA BlockSum ==
    ASSUME NEW bits, \A k \in 0 .. N * W - 1 : bits[k] \in 0 .. 1,
           NEW words,
           \A i \in WordIndex : words[i] = Prefix(Block(bits, i), W, 1)[W]
    PROVE  \A i \in 0 .. N :
              Prefix(words, N, W)[i] = Prefix(bits, N * W, 1)[i * W]
<1> DEFINE g == Prefix(bits, N * W, 1)
           f == Prefix(words, N, W)
           h(i) == Prefix(Block(bits, i), W, 1)
<1>0. W \in Nat \ {0} /\ N \in Nat \ {0} /\ N * W \in Nat
  BY WidthAssumption
<1>1. /\ g \in [0 .. N * W -> Int] /\ g[0] = 0
      /\ \A k \in 0 .. N * W - 1 : g[k + 1] = g[k] + bits[k] * Pow2[k * 1]
  <2>1. \A k \in 0 .. N * W - 1 : bits[k] \in Int
    OBVIOUS
  <2>2. 1 \in Nat
    OBVIOUS
  <2> QED
    BY <1>0, <2>1, <2>2, PrefixFunction
<1>2. ASSUME NEW i \in WordIndex
      PROVE  /\ h(i) \in [0 .. W -> Int] /\ h(i)[0] = 0
             /\ \A j \in 0 .. W - 1 :
                  h(i)[j + 1] = h(i)[j] + bits[i * W + j] * Pow2[j * 1]
  <2> DEFINE d == Block(bits, i)
  <2>1. \A j \in 0 .. W - 1 : d[j] = bits[i * W + j]
    BY DEF Block
  <2>2. \A j \in 0 .. W - 1 : d[j] \in Int
    BY <2>1, PlaceInNumber
  <2> HIDE DEF d
  <2>3. 1 \in Nat /\ W \in Nat
    BY <1>0
  <2>4. /\ Prefix(d, W, 1) \in [0 .. W -> Int] /\ Prefix(d, W, 1)[0] = 0
        /\ \A j \in 0 .. W - 1 :
             Prefix(d, W, 1)[j + 1] = Prefix(d, W, 1)[j] + d[j] * Pow2[j * 1]
    BY <2>2, <2>3, PrefixFunction
  <2> QED
    BY <2>1, <2>4 DEF d
<1>3. /\ f[0] = 0
      /\ \A i \in 0 .. N - 1 : f[i + 1] = f[i] + words[i] * Pow2[i * W]
  <2>1. \A i \in 0 .. N - 1 : words[i] \in Int
    <3> HIDE DEF h
    <3> QED
      BY <1>0, <1>2 DEF h, WordIndex
  <2> QED
    BY <1>0, <2>1, PrefixFunction
<1>3a. \A i \in WordIndex : words[i] = h(i)[W]
  OBVIOUS
<1> HIDE DEF f, g, h
<1>4. ASSUME NEW i \in WordIndex
      PROVE  g[i * W + W] = g[i * W] + h(i)[W] * Pow2[i * W]
  <2> DEFINE A == {j \in Nat : j =< W =>
                     g[i * W + j] = g[i * W] + h(i)[j] * Pow2[i * W]}
  <2>0. i \in Nat /\ i * W \in Nat /\ Pow2[i * W] \in Int
    BY <1>0, Pow2Positive DEF WordIndex
  <2>1. 0 \in A
    <3>1. i * W \in 0 .. N * W
      BY <1>0, WordStart DEF WordIndex
    <3>2. g[i * W] \in Int
      BY <1>1, <3>1
    <3>3. g[i * W + 0] = g[i * W]
      BY <2>0
    <3> QED
      BY <1>2, <2>0, <3>2, <3>3
  <2>2. ASSUME NEW j \in Nat, j \in A PROVE j + 1 \in A
    <3> SUFFICES ASSUME j + 1 =< W
                 PROVE  g[i * W + (j + 1)] =
                           g[i * W] + h(i)[j + 1] * Pow2[i * W]
      OBVIOUS
    <3>1. j \in 0 .. W - 1 /\ j \in 0 .. W
      BY <1>0
    <3>2. i * W + j \in 0 .. N * W - 1
      BY <3>1, PlaceInNumber
    <3>3. i * W + (j + 1) = (i * W + j) + 1 /\ (i * W + j) * 1 = i * W + j
      BY <2>0
    <3>4. g[(i * W + j) + 1] = g[i * W + j] + bits[i * W + j] * Pow2[i * W + j]
      BY <1>1, <3>2, <3>3
    <3>5. g[i * W + j] = g[i * W] + h(i)[j] * Pow2[i * W]
      BY <2>2, <3>1
    <3>6. h(i)[j + 1] = h(i)[j] + bits[i * W + j] * Pow2[j]
      <4>1. j * 1 = j
        OBVIOUS
      <4> QED
        BY <1>2, <3>1, <4>1
    <3>7. Pow2[i * W + j] = Pow2[i * W] * Pow2[j]
      BY <2>0, Pow2Plus
    <3>8. /\ h(i)[j] \in Int /\ bits[i * W + j] \in Int /\ Pow2[j] \in Int
          /\ g[i * W] \in Int
      <4>1. h(i)[j] \in Int
        BY <1>2, <3>1
      <4>2. bits[i * W + j] \in 0 .. 1
        BY <3>2
      <4>3. Pow2[j] \in Int
        BY Pow2Positive
      <4>4. i * W \in 0 .. N * W
        BY <1>0, WordStart DEF WordIndex
      <4>5. g[i * W] \in Int
        BY <1>1, <4>4
      <4> QED
        BY <4>1, <4>2, <4>3, <4>5
    <3>9. (h(i)[j] + bits[i * W + j] * Pow2[j]) * Pow2[i * W]
             = h(i)[j] * Pow2[i * W] + bits[i * W + j] * (Pow2[i * W] * Pow2[j])
      BY <2>0, <3>8
    <3>10. /\ h(i)[j] * Pow2[i * W] \in Int
           /\ bits[i * W + j] * (Pow2[i * W] * Pow2[j]) \in Int
      BY <2>0, <3>8
    <3> QED
      BY <3>3, <3>4, <3>5, <3>6, <3>7, <3>8, <3>9, <3>10
  <2> HIDE DEF A
  <2>3. Nat \subseteq A
    BY <2>1, <2>2, NatInduct
  <2> QED
    BY <1>0, <2>3 DEF A
<1> DEFINE B == {i \in Nat : i =< N => f[i] = g[i * W]}
<1>5. 0 \in B
  <2>1. 0 * W = 0
    BY <1>0
  <2> QED
    BY <1>1, <1>3, <2>1
<1>6. ASSUME NEW i \in Nat, i \in B PROVE i + 1 \in B
  <2> SUFFICES ASSUME i + 1 =< N PROVE f[i + 1] = g[(i + 1) * W]
    OBVIOUS
  <2>1. i \in WordIndex /\ i \in 0 .. N - 1
    BY <1>0 DEF WordIndex
  <2>2. (i + 1) * W = i * W + W
    BY <1>0
  <2>3. f[i] = g[i * W]
    BY <1>0, <1>6
  <2> QED
    BY <1>3, <1>3a, <1>4, <2>1, <2>2, <2>3
<1> HIDE DEF B
<1>7. Nat \subseteq B
  BY <1>5, <1>6, NatInduct
<1> QED
  BY <1>7 DEF B, f, g


-----------------------------------------------------------------------------
\* sum: one bit after another, with the carry between them.

NumberBits(n) == [k \in 0 .. N * W - 1 |-> bitOf(n, k)]

LEMMA BitOfType ==
    ASSUME NEW n \in LongNumber, NEW k \in 0 .. N * W - 1
    PROVE  bitOf(n, k) \in 0 .. 1
<1>1. k \div W \in WordIndex /\ k % W \in 0 .. W - 1
  BY PlaceSplit
<1>2. n[k \div W] \in Int /\ k % W \in Nat
  BY <1>1, Pow2Positive, WidthAssumption DEF LongNumber, Word
<1> QED
  BY <1>2, BitType DEF bitOf

\* A number of N words is below 2^(N W).
LEMMA ValueBound ==
    ASSUME NEW n \in LongNumber
    PROVE  Value(n) \in 0 .. Pow2[N * W] - 1
<1>1. \A i \in 0 .. N - 1 : n[i] \in 0 .. Pow2[W] - 1
  BY DEF LongNumber, WordIndex, Word
<1>2. N \in Nat /\ W \in Nat /\ N \in 0 .. N
  BY WidthAssumption
<1>3. Prefix(n, N, W)[N] \in 0 .. Pow2[N * W] - 1
  BY <1>1, <1>2, PrefixBound
<1> QED
  BY <1>3 DEF Value

\* A number is what its bits write.
LEMMA ValueBits ==
    ASSUME NEW n \in LongNumber
    PROVE  Value(n) = Prefix(NumberBits(n), N * W, 1)[N * W]
<1> DEFINE bits == NumberBits(n)
<1>1. \A k \in 0 .. N * W - 1 : bits[k] \in 0 .. 1
  BY BitOfType DEF NumberBits
<1>2. ASSUME NEW i \in WordIndex
      PROVE  n[i] = Prefix(Block(bits, i), W, 1)[W]
  <2> DEFINE d == Block(bits, i)
  <2>1. \A j \in 0 .. W - 1 : d[j] = bit(n[i], j)
    <3> SUFFICES ASSUME NEW j \in 0 .. W - 1 PROVE d[j] = bit(n[i], j)
      OBVIOUS
    <3>1. d[j] = bits[i * W + j]
      BY DEF Block
    <3>2. bits[i * W + j] = bitOf(n, i * W + j)
      BY PlaceInNumber DEF NumberBits
    <3> QED
      BY <3>1, <3>2, PlaceInNumber DEF bitOf
  <2> HIDE DEF d
  <2>2. n[i] \in 0 .. Pow2[W] - 1 /\ W \in Nat /\ W \in 0 .. W
    BY WidthAssumption DEF LongNumber, Word
  <2>3. n[i] \in Int /\ Pow2[W] \in Nat \ {0}
    BY <2>2, Pow2Positive
  <2>4. Prefix(d, W, 1)[W] = n[i] % Pow2[W]
    BY <2>1, <2>2, <2>3, BitsSum
  <2>5. n[i] % Pow2[W] = n[i]
    BY <2>2, <2>3
  <2> QED
    BY <2>4, <2>5 DEF d
<1> HIDE DEF bits
<1>3. N \in 0 .. N
  BY WidthAssumption
<1>4. \A i \in 0 .. N : Prefix(n, N, W)[i] = Prefix(bits, N * W, 1)[i * W]
  BY <1>1, <1>2, BlockSum
<1> QED
  BY <1>3, <1>4 DEF Value, bits

\* The carry into each bit is what the bits before left.
LEMMA CarriesFunction ==
    ASSUME NEW a \in LongNumber, NEW b \in LongNumber
    PROVE  /\ Carries(a, b) \in [0 .. N * W -> 0 .. 1]
           /\ Carries(a, b)[0] = 0
           /\ \A k \in 0 .. N * W - 1 :
                Carries(a, b)[k + 1] =
                   CarryOut(bitOf(a, k), bitOf(b, k), Carries(a, b)[k], k)
<1> DEFINE m == N * W
           C == 0 .. 1
           step == [q \in (1 .. m) \X C |->
                      CarryOut(bitOf(a, q[1] - 1), bitOf(b, q[1] - 1),
                               q[2], q[1] - 1)]
           G(f) == [k \in 0 .. m |->
                      IF k = 0 THEN 0
                      ELSE CarryOut(bitOf(a, k - 1), bitOf(b, k - 1),
                                    f[k - 1], k - 1)]
           f == Carries(a, b)
<1>0. m \in Nat
  BY WidthAssumption
<1>1. step \in [(1 .. m) \X C -> C]
  <2> SUFFICES ASSUME NEW i \in 1 .. m, NEW y \in C
               PROVE  CarryOut(bitOf(a, i - 1), bitOf(b, i - 1), y, i - 1) \in C
    OBVIOUS
  <2>1. i - 1 \in 0 .. N * W - 1
    BY <1>0
  <2> QED
    BY <2>1, BitOfType DEF CarryOut
<1>2. PICK g \in [0 .. m -> C] :
         g = [i \in 0 .. m |-> IF i = 0 THEN 0 ELSE step[<<i, g[i - 1]>>]]
  <2>1. Computes(m, C, 0, step)
    BY <1>0, <1>1 DEF Computes
  <2> HIDE DEF step, m
  <2>2. Computed(m, C, 0, step)
    BY <2>1, SegmentRecursion
  <2> QED
    BY <2>2 DEF Computed
<1>3. g = G(g)
  <2> SUFFICES ASSUME NEW i \in 0 .. m
               PROVE  g[i] = G(g)[i]
    BY <1>2
  <2>1. CASE i = 0
    BY <1>2, <2>1
  <2>2. CASE i # 0
    <3>1. i \in 1 .. m /\ i - 1 \in 0 .. m
      BY <1>0, <2>2
    <3>2. g[i - 1] \in C
      BY <3>1
    <3>3. g[i] = step[<<i, g[i - 1]>>]
      BY <1>2, <2>2
    <3> QED
      BY <2>2, <3>1, <3>2, <3>3
  <2> QED
    BY <2>1, <2>2
<1>4. f = G(f)
  <2>1. f = CHOOSE h : h = G(h)
    BY DEF Carries
  <2> HIDE DEF f, G
  <2> QED
    BY <1>3, <2>1
<1>5. ASSUME NEW k \in 0 .. m - 1
      PROVE  f[k + 1] = CarryOut(bitOf(a, k), bitOf(b, k), f[k], k)
  <2>1. k + 1 \in 0 .. m /\ k + 1 # 0 /\ (k + 1) - 1 = k
    BY <1>0
  <2> HIDE DEF f
  <2> QED
    BY <1>4, <2>1
<1>6. f[0] = 0 /\ f = [k \in 0 .. m |-> f[k]]
  <2> HIDE DEF f
  <2> QED
    BY <1>0, <1>4
<1> HIDE DEF f
<1>7. \A k \in 0 .. m : f[k] \in C
  <2> DEFINE A == {k \in Nat : k =< m => f[k] \in C}
  <2>1. 0 \in A
    BY <1>6
  <2>2. ASSUME NEW k \in Nat, k \in A PROVE k + 1 \in A
    <3> SUFFICES ASSUME k + 1 =< m PROVE f[k + 1] \in C
      OBVIOUS
    <3>1. k \in 0 .. m - 1 /\ f[k] \in C
      BY <1>0, <2>2
    <3>2. bitOf(a, k) \in C
      BY <3>1, BitOfType
    <3> QED
      BY <1>5, <3>1, <3>2 DEF CarryOut
  <2> HIDE DEF A
  <2>3. Nat \subseteq A
    BY <2>1, <2>2, NatInduct
  <2> QED
    BY <1>0, <2>3 DEF A
<1> QED
  BY <1>5, <1>6, <1>7 DEF f

LEMMA SumBitType ==
    ASSUME NEW a \in LongNumber, NEW b \in LongNumber,
           NEW k \in 0 .. N * W - 1
    PROVE  SumBit(a, b, k) \in 0 .. 1
<1>1. Carries(a, b)[k] \in 0 .. 1
  <2>1. k \in 0 .. N * W
    BY WidthAssumption
  <2> QED
    BY <2>1, CarriesFunction
<1> QED
  BY <1>1 DEF SumBit

LEMMA SumType ==
    ASSUME NEW a \in LongNumber, NEW b \in LongNumber
    PROVE  sum(a, b) \in LongNumber
<1> SUFFICES ASSUME NEW i \in WordIndex
             PROVE  Prefix([j \in 0 .. W - 1 |-> SumBit(a, b, i * W + j)],
                           W, 1)[W] \in Word
  BY DEF sum, LongNumber
<1> DEFINE d == [j \in 0 .. W - 1 |-> SumBit(a, b, i * W + j)]
<1>1. \A j \in 0 .. W - 1 : d[j] \in 0 .. 1
  BY PlaceInNumber, SumBitType
<1> HIDE DEF d
<1>2. Pow2[1] = 2
  <2>1. Pow2[0 + 1] = 2 * Pow2[0]
    BY Pow2Step
  <2> QED
    BY <2>1, Pow2Step
<1>3. /\ \A j \in 0 .. W - 1 : d[j] \in 0 .. Pow2[1] - 1
      /\ 1 \in Nat /\ W \in Nat /\ W \in 0 .. W /\ W * 1 = W
  BY <1>1, <1>2, WidthAssumption
<1>4. Prefix(d, W, 1)[W] \in 0 .. Pow2[W * 1] - 1
  BY <1>3, PrefixBound
<1> QED
  BY <1>3, <1>4 DEF d, Word

\* Bit by bit, what the sum has and the carry that is left are what the two
\* numbers have.
LEMMA SumPrefix ==
    ASSUME NEW a \in LongNumber, NEW b \in LongNumber,
           NEW s, \A k \in 0 .. N * W - 1 : s[k] = SumBit(a, b, k)
    PROVE  \A k \in 0 .. N * W :
              Prefix(NumberBits(a), N * W, 1)[k]
                 + Prefix(NumberBits(b), N * W, 1)[k] =
                 Prefix(s, N * W, 1)[k] + Carries(a, b)[k] * Pow2[k]
<1> DEFINE m == N * W
           x == Prefix(NumberBits(a), m, 1)
           y == Prefix(NumberBits(b), m, 1)
           z == Prefix(s, m, 1)
           c == Carries(a, b)
           A == {k \in Nat : k =< m => x[k] + y[k] = z[k] + c[k] * Pow2[k]}
<1>0. m \in Nat /\ 1 \in Nat
  BY WidthAssumption
<1>1. /\ x \in [0 .. m -> Int] /\ x[0] = 0
      /\ \A k \in 0 .. m - 1 : x[k + 1] = x[k] + bitOf(a, k) * Pow2[k * 1]
  <2>1. \A k \in 0 .. m - 1 :
           NumberBits(a)[k] = bitOf(a, k) /\ NumberBits(a)[k] \in Int
    BY BitOfType DEF NumberBits
  <2> DEFINE d == NumberBits(a)
  <2> HIDE DEF m, d
  <2>2. /\ Prefix(d, m, 1) \in [0 .. m -> Int] /\ Prefix(d, m, 1)[0] = 0
        /\ \A k \in 0 .. m - 1 :
             Prefix(d, m, 1)[k + 1] = Prefix(d, m, 1)[k] + d[k] * Pow2[k * 1]
    BY <1>0, <2>1, PrefixFunction DEF d
  <2> QED
    BY <2>1, <2>2 DEF d
<1>2. /\ y \in [0 .. m -> Int] /\ y[0] = 0
      /\ \A k \in 0 .. m - 1 : y[k + 1] = y[k] + bitOf(b, k) * Pow2[k * 1]
  <2>1. \A k \in 0 .. m - 1 :
           NumberBits(b)[k] = bitOf(b, k) /\ NumberBits(b)[k] \in Int
    BY BitOfType DEF NumberBits
  <2> DEFINE d == NumberBits(b)
  <2> HIDE DEF m, d
  <2>2. /\ Prefix(d, m, 1) \in [0 .. m -> Int] /\ Prefix(d, m, 1)[0] = 0
        /\ \A k \in 0 .. m - 1 :
             Prefix(d, m, 1)[k + 1] = Prefix(d, m, 1)[k] + d[k] * Pow2[k * 1]
    BY <1>0, <2>1, PrefixFunction DEF d
  <2> QED
    BY <2>1, <2>2 DEF d
<1>3. /\ z \in [0 .. m -> Int] /\ z[0] = 0
      /\ \A k \in 0 .. m - 1 : z[k + 1] = z[k] + SumBit(a, b, k) * Pow2[k * 1]
  <2>1. \A k \in 0 .. m - 1 : s[k] = SumBit(a, b, k) /\ s[k] \in Int
    BY SumBitType
  <2> HIDE DEF m
  <2> QED
    BY <1>0, <2>1, PrefixFunction
<1>4. /\ c \in [0 .. m -> 0 .. 1] /\ c[0] = 0
      /\ \A k \in 0 .. m - 1 :
           /\ c[k + 1] = IF bitOf(a, k) = bitOf(b, k) THEN bitOf(a, k) ELSE c[k]
           /\ SumBit(a, b, k) =
                IF bitOf(a, k) = bitOf(b, k) THEN c[k] ELSE 1 - c[k]
  BY CarriesFunction DEF SumBit, CarryOut
<1> HIDE DEF x, y, z, c
<1>5. 0 \in A
  BY <1>1, <1>2, <1>3, <1>4, Pow2Step
<1>6. ASSUME NEW k \in Nat, k \in A PROVE k + 1 \in A
  <2> SUFFICES ASSUME k + 1 =< m
               PROVE  x[k + 1] + y[k + 1] = z[k + 1] + c[k + 1] * Pow2[k + 1]
    OBVIOUS
  <2>1. k \in 0 .. m - 1 /\ k \in 0 .. m /\ k * 1 = k
    BY <1>0
  <2>2. x[k] + y[k] = z[k] + c[k] * Pow2[k]
    BY <1>6, <2>1
  <2> DEFINE p == Pow2[k]
             u == bitOf(a, k)
             v == bitOf(b, k)
             t == SumBit(a, b, k)
  <2>3. Pow2[k + 1] = 2 * p /\ p \in Int
    BY Pow2Step, Pow2Positive
  <2>4. u \in 0 .. 1 /\ v \in 0 .. 1 /\ c[k] \in 0 .. 1
    BY <1>4, <2>1, BitOfType
  <2>5. /\ x[k + 1] = x[k] + u * p /\ y[k + 1] = y[k] + v * p
        /\ z[k + 1] = z[k] + t * p
    BY <1>1, <1>2, <1>3, <2>1
  <2>6. /\ c[k + 1] = IF u = v THEN u ELSE c[k]
        /\ t = IF u = v THEN c[k] ELSE 1 - c[k]
    BY <1>4, <2>1
  <2>7. x[k] \in Int /\ y[k] \in Int /\ z[k] \in Int
    BY <1>1, <1>2, <1>3, <2>1
  <2> HIDE DEF p, u, v, t
  <2>8. x[k] + y[k] = z[k] + c[k] * p
    BY <2>2 DEF p
  <2>9. x[k + 1] + y[k + 1] = z[k + 1] + c[k + 1] * (2 * p)
    <3>1. CASE u = 0 /\ v = 0
      BY <2>3, <2>4, <2>5, <2>6, <2>7, <2>8, <3>1
    <3>2. CASE u = 1 /\ v = 1
      BY <2>3, <2>4, <2>5, <2>6, <2>7, <2>8, <3>2
    <3>3. CASE u # v /\ c[k] = 0
      BY <2>3, <2>4, <2>5, <2>6, <2>7, <2>8, <3>3
    <3>4. CASE u # v /\ c[k] = 1
      BY <2>3, <2>4, <2>5, <2>6, <2>7, <2>8, <3>4
    <3> QED
      BY <2>4, <3>1, <3>2, <3>3, <3>4
  <2> QED
    BY <2>3, <2>9
<1> HIDE DEF A
<1>7. Nat \subseteq A
  BY <1>5, <1>6, NatInduct
<1> QED
  BY <1>0, <1>7 DEF A, x, y, z, c

\* The sum is that of the integers, less the carry out of the last word.
LEMMA SumExact ==
    ASSUME NEW a \in LongNumber, NEW b \in LongNumber
    PROVE  Value(sum(a, b)) = (Value(a) + Value(b)) % Pow2[N * W]
<1> DEFINE m == N * W
           s == [k \in 0 .. m - 1 |-> SumBit(a, b, k)]
           n == sum(a, b)
<1>0. m \in Nat /\ m \in 0 .. m /\ N \in 0 .. N
  BY WidthAssumption
<1>1. \A k \in 0 .. N * W - 1 : s[k] = SumBit(a, b, k) /\ s[k] \in 0 .. 1
  BY SumBitType
<1>2. ASSUME NEW i \in WordIndex
      PROVE  n[i] = Prefix(Block(s, i), W, 1)[W]
  <2>1. Block(s, i) = [j \in 0 .. W - 1 |-> SumBit(a, b, i * W + j)]
    BY <1>1, PlaceInNumber DEF Block
  <2> HIDE DEF s
  <2> QED
    BY <2>1 DEF sum
<1> HIDE DEF s, n
<1>3. Value(n) = Prefix(s, m, 1)[m]
  <2>1. \A i \in 0 .. N : Prefix(n, N, W)[i] = Prefix(s, N * W, 1)[i * W]
    BY <1>1, <1>2, BlockSum
  <2> QED
    BY <1>0, <2>1 DEF Value
<1>4. Value(a) + Value(b) = Value(n) + Carries(a, b)[m] * Pow2[m]
  <2>1. Prefix(NumberBits(a), m, 1)[m] + Prefix(NumberBits(b), m, 1)[m] =
           Prefix(s, m, 1)[m] + Carries(a, b)[m] * Pow2[m]
    BY <1>0, <1>1, SumPrefix
  <2> QED
    BY <1>3, <2>1, ValueBits
<1>5. Value(n) \in 0 .. Pow2[m] - 1
  BY SumType, ValueBound DEF n
<1>6. Pow2[m] \in Nat \ {0} /\ Carries(a, b)[m] \in Int
  BY <1>0, Pow2Positive, CarriesFunction
<1> DEFINE c == Carries(a, b)[m]
           p == Pow2[m]
           v == Value(n)
<1>7. Value(a) + Value(b) = p * c + v
  <2> DEFINE w == Value(a) + Value(b)
  <2>1. w = v + c * p /\ v \in Int /\ p \in Int /\ c \in Int
    BY <1>4, <1>5, <1>6
  <2> HIDE DEF w, v, p, c
  <2> QED
    BY <2>1 DEF w
<1>8. (p * c + v) % p = v
  <2> HIDE DEF p, c, v
  <2> QED
    BY <1>5, <1>6, DivisionUnique DEF p, c, v
<1> QED
  BY <1>7, <1>8 DEF n


-----------------------------------------------------------------------------
\* The shifts, and the tests of mult.

LEMMA SmallModulo ==
    ASSUME NEW d \in Nat \ {0}, NEW x \in 0 .. d - 1
    PROVE  x % d = x
  OBVIOUS

\* The weight of the next word.
LEMMA WordPower ==
    ASSUME NEW i \in Nat
    PROVE  /\ Pow2[i * W] \in Nat \ {0} /\ Pow2[W] \in Nat \ {0}
           /\ Pow2[(i + 1) * W] = Pow2[i * W] * Pow2[W]
<1>1. W \in Nat /\ i * W \in Nat /\ (i + 1) * W = i * W + W
  BY WidthAssumption
<1>2. Pow2[i * W + W] = Pow2[i * W] * Pow2[W]
  BY <1>1, Pow2Plus
<1>3. Pow2[i * W] \in Nat \ {0} /\ Pow2[W] \in Nat \ {0}
  BY <1>1, Pow2Positive
<1> QED
  BY <1>1, <1>2, <1>3

\* PrefixFunction, for the words of a number.
LEMMA ValueSteps ==
    ASSUME NEW n, \A i \in WordIndex : n[i] \in Int
    PROVE  /\ Prefix(n, N, W) \in [0 .. N -> Int]
           /\ Prefix(n, N, W)[0] = 0
           /\ \A i \in WordIndex :
                Prefix(n, N, W)[i + 1] = Prefix(n, N, W)[i] + n[i] * Pow2[i * W]
  BY PrefixFunction, WidthAssumption DEF WordIndex

\* The halves of a word, and what its double is.
LEMMA HighBit ==
    ASSUME NEW x \in Word
    PROVE  /\ bit(x, W - 1) \in 0 .. 1 /\ Pow2[W] = 2 * Pow2[W - 1]
           /\ x % Pow2[W - 1] \in 0 .. Pow2[W - 1] - 1
           /\ x = (x % Pow2[W - 1]) + bit(x, W - 1) * Pow2[W - 1]
           /\ (2 * x) % Pow2[W] = 2 * (x % Pow2[W - 1])
<1> DEFINE p == Pow2[W - 1]
           b == bit(x, W - 1)
           r == x % p
<1>1. W - 1 \in Nat /\ (W - 1) + 1 = W
  BY WidthAssumption
<1>2. p \in Nat \ {0} /\ Pow2[W] = 2 * p
  <2>1. Pow2[(W - 1) + 1] = 2 * Pow2[W - 1]
    BY <1>1, Pow2Step
  <2> QED
    BY <1>1, <2>1, Pow2Positive
<1>3. x \in Int /\ x \in 0 .. Pow2[W] - 1
  BY <1>2 DEF Word
<1>4. b \in 0 .. 1 /\ x % Pow2[W] = r + b * p
  <2>1. x % Pow2[(W - 1) + 1] = (x % Pow2[W - 1]) + bit(x, W - 1) * Pow2[W - 1]
    BY <1>1, <1>3, BitSplit
  <2> QED
    BY <1>1, <1>3, <2>1, BitType
<1>5. x % Pow2[W] = x
  <2>1. Pow2[W] \in Nat \ {0}
    BY <1>2
  <2> QED
    BY <1>3, <2>1, SmallModulo
<1>6. r \in 0 .. p - 1
  BY <1>2, <1>3, Division
<1> HIDE DEF p, b, r
<1>7. (2 * x) % Pow2[W] = 2 * r
  <2>1. 2 * x = (2 * p) * b + 2 * r
    <3>1. 2 * x = 2 * r + 2 * (b * p) /\ b * p \in Int
      BY <1>2, <1>3, <1>4, <1>5, <1>6
    <3>2. 2 * (b * p) = (2 * p) * b
      BY <1>2, <1>4
    <3> QED
      BY <1>6, <3>1, <3>2
  <2>2. 2 * p \in Nat \ {0} /\ 2 * r \in 0 .. 2 * p - 1 /\ b \in Int
    BY <1>2, <1>4, <1>6
  <2>3. ((2 * p) * b + 2 * r) % (2 * p) = 2 * r
    BY <2>2, DivisionUnique
  <2> QED
    BY <1>2, <2>1, <2>3
<1> QED
  BY <1>2, <1>4, <1>5, <1>6, <1>7 DEF p, b, r

LEMMA LshiftType ==
    ASSUME NEW n \in LongNumber
    PROVE  lshift(n) \in LongNumber
<1> SUFFICES ASSUME NEW i \in WordIndex
             PROVE  ((2 * n[i]) % Pow2[W]) +
                       (IF i > 0 THEN bit(n[i - 1], W - 1) ELSE 0) \in Word
  BY DEF lshift, LongNumber
<1> DEFINE r == n[i] % Pow2[W - 1]
           c == IF i > 0 THEN bit(n[i - 1], W - 1) ELSE 0
           p == Pow2[W - 1]
<1>1. (2 * n[i]) % Pow2[W] = 2 * r /\ r \in 0 .. p - 1 /\ Pow2[W] = 2 * p
  BY HighBit DEF LongNumber
<1>2. c \in 0 .. 1
  <2>1. CASE i > 0
    <3>1. i - 1 \in WordIndex
      BY <2>1, WidthAssumption DEF WordIndex
    <3> QED
      BY <2>1, <3>1, HighBit DEF LongNumber
  <2> QED
    BY <2>1
<1>3. p \in Nat \ {0}
  BY Pow2Positive, WidthAssumption
<1> HIDE DEF r, c, p
<1>4. 2 * r + c \in 0 .. 2 * p - 1
  BY <1>1, <1>2, <1>3
<1> QED
  BY <1>1, <1>4 DEF Word, c

\* lshift doubles: what leaves a word enters the next.
LEMMA LshiftExact ==
    ASSUME NEW n \in LongNumber
    PROVE  Value(lshift(n)) = (2 * Value(n)) % Pow2[N * W]
<1> DEFINE l == lshift(n)
           f == Prefix(n, N, W)
           g == Prefix(l, N, W)
           c == [i \in 0 .. N |-> IF i > 0 THEN bit(n[i - 1], W - 1) ELSE 0]
           A == {i \in Nat : i =< N => 2 * f[i] = g[i] + c[i] * Pow2[i * W]}
<1>0. W \in Nat \ {0} /\ N \in Nat \ {0} /\ Pow2[W] \in Nat
  BY WidthAssumption, Pow2Positive
<1>1. /\ f \in [0 .. N -> Int] /\ f[0] = 0
      /\ \A i \in WordIndex : f[i + 1] = f[i] + n[i] * Pow2[i * W]
  <2>1. \A i \in WordIndex : n[i] \in Int
    BY <1>0 DEF LongNumber, Word
  <2> QED
    BY <2>1, ValueSteps
<1>2. /\ g \in [0 .. N -> Int] /\ g[0] = 0
      /\ \A i \in WordIndex : g[i + 1] = g[i] + l[i] * Pow2[i * W]
  <2>1. \A i \in WordIndex : l[i] \in Int
    BY <1>0, LshiftType DEF LongNumber, Word
  <2> HIDE DEF l
  <2> QED
    BY <2>1, ValueSteps
<1>3. ASSUME NEW i \in WordIndex
      PROVE  /\ c[i] \in 0 .. 1 /\ c[i + 1] \in 0 .. 1
             /\ 2 * n[i] + c[i] = l[i] + c[i + 1] * Pow2[W]
             /\ n[i] \in Int /\ l[i] \in Int
  <2>0. i \in 0 .. N /\ i + 1 \in 0 .. N /\ i + 1 > 0 /\ (i + 1) - 1 = i
    BY <1>0 DEF WordIndex
  <2>1. c[i] \in 0 .. 1
    <3>1. CASE i > 0
      <4>1. i - 1 \in WordIndex
        BY <3>1, <1>0 DEF WordIndex
      <4> QED
        BY <2>0, <3>1, <4>1, HighBit DEF LongNumber
    <3> QED
      BY <2>0, <3>1
  <2>2. c[i + 1] = bit(n[i], W - 1)
    BY <2>0
  <2>3. l[i] = ((2 * n[i]) % Pow2[W]) + c[i]
    BY <2>0 DEF lshift
  <2> DEFINE b == bit(n[i], W - 1)
             p == Pow2[W - 1]
             r == n[i] % p
  <2>4. /\ b \in 0 .. 1 /\ Pow2[W] = 2 * p /\ r \in 0 .. p - 1
        /\ n[i] = r + b * p /\ (2 * n[i]) % Pow2[W] = 2 * r
    BY HighBit DEF LongNumber
  <2>5. p \in Nat \ {0}
    BY <1>0, Pow2Positive
  <2> HIDE DEF c, l, b, p, r
  <2>6. c[i + 1] = b
    BY <2>2 DEF b
  <2>7. b * p \in Int /\ b * (2 * p) = 2 * (b * p)
    BY <2>4, <2>5
  <2> QED
    BY <2>1, <2>3, <2>4, <2>5, <2>6, <2>7
<1>4. c[0] = 0
  BY <1>0
<1> HIDE DEF f, g, c, l
<1>5. 0 \in A
  <2>1. Pow2[0 * W] \in Int
    BY <1>0, Pow2Positive
  <2> QED
    BY <1>1, <1>2, <1>4, <2>1
<1>6. ASSUME NEW i \in Nat, i \in A PROVE i + 1 \in A
  <2> SUFFICES ASSUME i + 1 =< N
               PROVE  2 * f[i + 1] = g[i + 1] + c[i + 1] * Pow2[(i + 1) * W]
    OBVIOUS
  <2>1. i \in WordIndex /\ i \in 0 .. N /\ i =< N
    BY <1>0 DEF WordIndex
  <2> DEFINE q == Pow2[i * W]
             u == n[i]
             v == l[i]
             s == c[i]
             t == c[i + 1]
  <2>2. i * W \in Nat /\ (i + 1) * W = i * W + W
    BY <1>0
  <2>3. Pow2[(i + 1) * W] = q * Pow2[W] /\ q \in Int
    BY WordPower
  <2>4. 2 * f[i] = g[i] + s * q
    BY <1>6, <2>1
  <2>5. f[i + 1] = f[i] + u * q /\ g[i + 1] = g[i] + v * q
    BY <1>1, <1>2, <2>1
  <2>6. /\ s \in 0 .. 1 /\ t \in 0 .. 1 /\ 2 * u + s = v + t * Pow2[W]
        /\ u \in Int /\ v \in Int
    BY <1>3, <2>1
  <2>7. f[i] \in Int /\ g[i] \in Int
    BY <1>1, <1>2, <2>1
  <2> HIDE DEF q, u, v, s, t
  <2>8. (2 * u + s) * q = (v + t * Pow2[W]) * q
    BY <2>6
  <2>9. (2 * u + s) * q = 2 * (u * q) + s * q
    BY <2>3, <2>6
  <2>10. (v + t * Pow2[W]) * q = v * q + t * (q * Pow2[W])
    BY <1>0, <2>3, <2>6
  <2>11. /\ u * q \in Int /\ s * q \in Int /\ v * q \in Int
         /\ t * (q * Pow2[W]) \in Int
    BY <1>0, <2>3, <2>6
  <2> DEFINE uq == u * q
             sq == s * q
             vq == v * q
             tq == t * (q * Pow2[W])
  <2>12. 2 * f[i + 1] = g[i + 1] + tq
    <3>1. 2 * uq + sq = vq + tq
      BY <2>8, <2>9, <2>10
    <3>2. /\ 2 * f[i] = g[i] + sq
          /\ f[i + 1] = f[i] + uq /\ g[i + 1] = g[i] + vq
      BY <2>4, <2>5
    <3>3. uq \in Int /\ sq \in Int /\ vq \in Int /\ tq \in Int
      BY <2>11
    <3> HIDE DEF uq, sq, vq, tq
    <3> QED
      BY <2>7, <3>1, <3>2, <3>3
  <2> QED
    BY <2>3, <2>12 DEF t
<1> HIDE DEF A
<1>7. Nat \subseteq A
  BY <1>5, <1>6, NatInduct
<1> DEFINE b == c[N]
           p == Pow2[N * W]
           v == Value(l)
<1>8. 2 * Value(n) = v + b * p
  BY <1>0, <1>7 DEF A, Value, f, g
<1>9. v \in 0 .. p - 1 /\ p \in Nat \ {0}
  BY <1>0, LshiftType, ValueBound, Pow2Positive DEF l
<1>10. b \in Int
  <2>1. N - 1 \in WordIndex /\ (N - 1) + 1 = N
    BY <1>0 DEF WordIndex
  <2>2. c[(N - 1) + 1] \in 0 .. 1
    BY <1>3, <2>1
  <2> QED
    BY <2>1, <2>2
<1> HIDE DEF b, p, v
<1>11. 2 * Value(n) = p * b + v
  BY <1>8, <1>9, <1>10
<1>12. (p * b + v) % p = v
  BY <1>9, <1>10, DivisionUnique
<1> QED
  BY <1>11, <1>12 DEF p, v, l

\* The halves of a word, and what is left of half of it.
LEMMA LowBit ==
    ASSUME NEW x \in Word
    PROVE  /\ bit(x, 0) = x % 2 /\ x % 2 \in 0 .. 1
           /\ x \div 2 \in 0 .. Pow2[W - 1] - 1 /\ x = 2 * (x \div 2) + (x % 2)
           /\ Pow2[W] = 2 * Pow2[W - 1] /\ Pow2[W - 1] \in Nat \ {0}
<1>1. W - 1 \in Nat /\ (W - 1) + 1 = W
  BY WidthAssumption
<1>2. Pow2[W] = 2 * Pow2[W - 1] /\ Pow2[W - 1] \in Nat \ {0}
  <2>1. Pow2[(W - 1) + 1] = 2 * Pow2[W - 1]
    BY <1>1, Pow2Step
  <2> QED
    BY <1>1, <2>1, Pow2Positive
<1>3. x \in 0 .. 2 * Pow2[W - 1] - 1
  BY <1>2 DEF Word
<1>4. bit(x, 0) = x % 2
  BY <1>2, <1>3, Pow2Step DEF bit
<1>5. x % 2 \in 0 .. 1 /\ x = 2 * (x \div 2) + (x % 2) /\ x \div 2 \in Int
  BY <1>2, <1>3
<1> DEFINE p == Pow2[W - 1]
           h == x \div 2
           r == x % 2
<1> HIDE DEF p, h, r
<1>6. h \in 0 .. p - 1
  BY <1>2, <1>3, <1>5 DEF p, h, r
<1> QED
  BY <1>2, <1>4, <1>5, <1>6 DEF p, h

\* A word of rshift: its half, and the low bit of the next word on top.
LEMMA RshiftWord ==
    ASSUME NEW n \in LongNumber, NEW i \in WordIndex
    PROVE  /\ rshift(n)[i] =
                (n[i] \div 2)
                  + (IF i < N - 1 THEN (n[i + 1] % 2) * Pow2[W - 1] ELSE 0)
           /\ rshift(n)[i] \in Word
<1> DEFINE p == Pow2[W - 1]
           h == n[i] \div 2
           c == IF i < N - 1 THEN n[i + 1] % 2 ELSE 0
<1>1. n[i] \in Word
  BY DEF LongNumber
<1>2. h \in 0 .. p - 1 /\ p \in Nat \ {0} /\ Pow2[W] = 2 * p
  BY <1>1, LowBit
<1>3. /\ c \in 0 .. 1
      /\ rshift(n)[i] = h + (IF i < N - 1 THEN (n[i + 1] % 2) * p ELSE 0)
  <2>1. CASE i < N - 1
    <3>1. i + 1 \in WordIndex
      BY <2>1, WidthAssumption DEF WordIndex
    <3>2. n[i + 1] \in Word
      BY <3>1 DEF LongNumber
    <3>3. bit(n[i + 1], 0) = n[i + 1] % 2 /\ n[i + 1] % 2 \in 0 .. 1
      BY <3>2, LowBit
    <3> QED
      BY <2>1, <3>3 DEF rshift
  <2>2. CASE ~ (i < N - 1)
    BY <2>2 DEF rshift
  <2> QED
    BY <2>1, <2>2
<1>4. rshift(n)[i] = h + c * p
  <2>1. 0 * p = 0
    BY <1>2
  <2> HIDE DEF h, p
  <2> QED
    BY <1>2, <1>3, <2>1
<1>5. h + c * p \in 0 .. 2 * p - 1
  <2> HIDE DEF h, p, c
  <2>1. c * p \in 0 .. p
    BY <1>2, <1>3
  <2> QED
    BY <1>2, <2>1
<1> QED
  BY <1>2, <1>3, <1>4, <1>5 DEF Word

LEMMA RshiftType ==
    ASSUME NEW n \in LongNumber
    PROVE  rshift(n) \in LongNumber
<1>1. rshift(n) = [i \in WordIndex |-> rshift(n)[i]]
  BY DEF rshift
<1> QED
  BY <1>1, RshiftWord DEF LongNumber

\* The first word tells an even number.
LEMMA RshiftDouble ==
    ASSUME NEW n \in LongNumber
    PROVE  Value(n) = 2 * Value(rshift(n)) + (n[0] % 2) /\ n[0] % 2 \in 0 .. 1
<1> DEFINE l == rshift(n)
           f == Prefix(n, N, W)
           g == Prefix(l, N, W)
           e == [i \in 0 .. N |-> IF i < N THEN n[i] % 2 ELSE 0]
           A == {i \in Nat : i =< N =>
                   2 * g[i] + e[0] = f[i] + e[i] * Pow2[i * W]}
<1>0. W \in Nat \ {0} /\ N \in Nat \ {0} /\ Pow2[W] \in Nat
  BY WidthAssumption, Pow2Positive
<1>1. /\ f \in [0 .. N -> Int] /\ f[0] = 0
      /\ \A i \in WordIndex : f[i + 1] = f[i] + n[i] * Pow2[i * W]
  <2>1. \A i \in WordIndex : n[i] \in Int
    BY <1>0 DEF LongNumber, Word
  <2> QED
    BY <2>1, ValueSteps
<1>2. /\ g \in [0 .. N -> Int] /\ g[0] = 0
      /\ \A i \in WordIndex : g[i + 1] = g[i] + l[i] * Pow2[i * W]
  <2>1. \A i \in WordIndex : l[i] \in Int
    BY <1>0, RshiftType DEF LongNumber, Word
  <2> HIDE DEF l
  <2> QED
    BY <2>1, ValueSteps
<1>3. ASSUME NEW i \in WordIndex
      PROVE  /\ e[i] \in 0 .. 1 /\ e[i + 1] \in 0 .. 1
             /\ n[i] + e[i + 1] * Pow2[W] = 2 * l[i] + e[i]
             /\ n[i] \in Int /\ l[i] \in Int
  <2>0. i \in 0 .. N /\ i + 1 \in 0 .. N /\ i < N /\ (i + 1 < N <=> i < N - 1)
    BY <1>0 DEF WordIndex
  <2>1. n[i] \in Word
    BY DEF LongNumber
  <2>2. e[i] = n[i] % 2
    BY <2>0
  <2>3. e[i + 1] = IF i < N - 1 THEN n[i + 1] % 2 ELSE 0
    BY <2>0
  <2>4. e[i + 1] \in 0 .. 1
    <3>1. CASE i < N - 1
      <4>1. i + 1 \in WordIndex
        BY <1>0, <3>1 DEF WordIndex
      <4> QED
        BY <2>3, <3>1, <4>1, LowBit DEF LongNumber
    <3> QED
      BY <2>3, <3>1
  <2> DEFINE h == n[i] \div 2
             r == n[i] % 2
             p == Pow2[W - 1]
  <2>5. /\ r \in 0 .. 1 /\ h \in 0 .. p - 1 /\ n[i] = 2 * h + r
        /\ Pow2[W] = 2 * p /\ p \in Nat \ {0}
    BY <2>1, LowBit
  <2>6. l[i] = h + (IF i < N - 1 THEN (n[i + 1] % 2) * p ELSE 0)
    BY RshiftWord
  <2>7. l[i] = h + e[i + 1] * p
    <3>1. 0 * p = 0
      BY <2>5
    <3> HIDE DEF e, l, h, p
    <3> QED
      BY <2>3, <2>6, <3>1
  <2> HIDE DEF e, l, h, r, p
  <2>8. e[i] = r
    BY <2>2 DEF r
  <2>9. e[i + 1] * p \in Int /\ e[i + 1] * (2 * p) = 2 * (e[i + 1] * p)
    BY <2>4, <2>5
  <2> DEFINE y == e[i + 1] * p
  <2>10. e[i + 1] * Pow2[W] = 2 * y /\ y \in Int /\ l[i] = h + y
    BY <2>5, <2>7, <2>9
  <2> HIDE DEF y
  <2>11. /\ h \in Int /\ r \in Int /\ n[i] = 2 * h + r
         /\ n[i] + 2 * y = 2 * l[i] + r /\ n[i] \in Int /\ l[i] \in Int
    BY <2>5, <2>10
  <2>12. e[i] \in 0 .. 1
    BY <2>5, <2>8
  <2> QED
    BY <2>4, <2>8, <2>10, <2>11, <2>12
<1>4. e[0] = n[0] % 2 /\ e[N] = 0
  BY <1>0
<1>4a. e[0] \in 0 .. 1
  <2>1. 0 \in WordIndex
    BY <1>0 DEF WordIndex
  <2> QED
    BY <1>3, <2>1
<1> HIDE DEF f, g, e, l
<1>5. 0 \in A
  <2>1. Pow2[0 * W] = 1
    BY <1>0, Pow2Step
  <2> QED
    BY <1>1, <1>2, <1>4a, <2>1
<1>6. ASSUME NEW i \in Nat, i \in A PROVE i + 1 \in A
  <2> SUFFICES ASSUME i + 1 =< N
               PROVE  2 * g[i + 1] + e[0] =
                         f[i + 1] + e[i + 1] * Pow2[(i + 1) * W]
    OBVIOUS
  <2>1. i \in WordIndex /\ i \in 0 .. N /\ i =< N
    BY <1>0 DEF WordIndex
  <2> DEFINE q == Pow2[i * W]
             u == n[i]
             v == l[i]
             s == e[i]
             t == e[i + 1]
  <2>3. Pow2[(i + 1) * W] = q * Pow2[W] /\ q \in Int
    BY WordPower
  <2>4. 2 * g[i] + e[0] = f[i] + s * q
    BY <1>6, <2>1
  <2>5. f[i + 1] = f[i] + u * q /\ g[i + 1] = g[i] + v * q
    BY <1>1, <1>2, <2>1
  <2>6. /\ s \in 0 .. 1 /\ t \in 0 .. 1 /\ u + t * Pow2[W] = 2 * v + s
        /\ u \in Int /\ v \in Int
    BY <1>3, <2>1
  <2>7. f[i] \in Int /\ g[i] \in Int
    BY <1>1, <1>2, <2>1
  <2> HIDE DEF q, u, v, s, t
  <2>8. (u + t * Pow2[W]) * q = (2 * v + s) * q
    BY <2>6
  <2>9. (2 * v + s) * q = 2 * (v * q) + s * q
    BY <2>3, <2>6
  <2>10. (u + t * Pow2[W]) * q = u * q + t * (q * Pow2[W])
    BY <1>0, <2>3, <2>6
  <2>11. /\ u * q \in Int /\ s * q \in Int /\ v * q \in Int
         /\ t * (q * Pow2[W]) \in Int
    BY <1>0, <2>3, <2>6
  <2> DEFINE uq == u * q
             sq == s * q
             vq == v * q
             tq == t * (q * Pow2[W])
  <2>12. 2 * g[i + 1] + e[0] = f[i + 1] + tq
    <3>1. uq + tq = 2 * vq + sq
      BY <2>8, <2>9, <2>10
    <3>2. /\ 2 * g[i] + e[0] = f[i] + sq
          /\ f[i + 1] = f[i] + uq /\ g[i + 1] = g[i] + vq
      BY <2>4, <2>5
    <3>3. uq \in Int /\ sq \in Int /\ vq \in Int /\ tq \in Int
      BY <2>11
    <3> HIDE DEF uq, sq, vq, tq
    <3> QED
      BY <1>4a, <2>7, <3>1, <3>2, <3>3
  <2> QED
    BY <2>3, <2>12 DEF t
<1> HIDE DEF A
<1>7. Nat \subseteq A
  BY <1>5, <1>6, NatInduct
<1>8. 2 * g[N] + e[0] = f[N] + e[N] * Pow2[N * W]
  BY <1>0, <1>7 DEF A
<1>9. g[N] \in Int /\ f[N] \in Int /\ Pow2[N * W] \in Int
  BY <1>0, <1>1, <1>2, WordPower
<1>10. 2 * g[N] + e[0] = f[N]
  BY <1>4, <1>4a, <1>8, <1>9
<1> QED
  BY <1>4, <1>4a, <1>10 DEF Value, f, g, l

\* rshift halves.
LEMMA RshiftExact ==
    ASSUME NEW n \in LongNumber
    PROVE  Value(rshift(n)) = Value(n) \div 2
<1> DEFINE h == Value(rshift(n))
           r == n[0] % 2
<1>1. Value(n) = 2 * h + r /\ r \in 0 .. 1
  BY RshiftDouble
<1>2. h \in Int
  BY RshiftType, ValueBound, Pow2Positive, WidthAssumption
<1> HIDE DEF h, r
<1>3. (2 * h + r) \div 2 = h
  BY <1>1, <1>2
<1> QED
  BY <1>1, <1>3 DEF h

\* Zeros above a digit add nothing.
LEMMA ZerosAbove ==
    ASSUME NEW n, \A i \in WordIndex : n[i] \in Int,
           NEW s \in 0 .. N, \A i \in s .. N - 1 : n[i] = 0
    PROVE  Value(n) = Prefix(n, N, W)[s]
<1> DEFINE f == Prefix(n, N, W)
           A == {i \in Nat : s =< i /\ i =< N => f[i] = f[s]}
<1>0. N \in Nat
  BY WidthAssumption
<1>1. /\ f \in [0 .. N -> Int] /\ f[0] = 0
      /\ \A i \in WordIndex : f[i + 1] = f[i] + n[i] * Pow2[i * W]
  BY ValueSteps
<1> HIDE DEF f
<1>2. 0 \in A
  OBVIOUS
<1>3. ASSUME NEW i \in Nat, i \in A PROVE i + 1 \in A
  <2> SUFFICES ASSUME s =< i + 1, i + 1 =< N PROVE f[i + 1] = f[s]
    OBVIOUS
  <2>1. CASE s = i + 1
    BY <2>1
  <2>2. CASE s =< i
    <3>1. i \in WordIndex /\ n[i] = 0 /\ i \in 0 .. N
      BY <1>0, <2>2 DEF WordIndex
    <3>2. f[i] = f[s]
      BY <1>0, <1>3, <2>2
    <3>2a. f[i] \in Int
      BY <1>1, <3>1
    <3>2b. Pow2[i * W] \in Int
      BY WordPower
    <3> QED
      BY <1>1, <3>1, <3>2, <3>2a, <3>2b
  <2> QED
    BY <2>1, <2>2
<1> HIDE DEF A
<1>4. Nat \subseteq A
  BY <1>2, <1>3, NatInduct
<1>5. f[N] = f[s]
  BY <1>0, <1>4 DEF A
<1> QED
  BY <1>5 DEF Value, f

\* is_zero tells the number zero.
LEMMA ZeroValue ==
    ASSUME NEW n \in LongNumber
    PROVE  is_zero(n) <=> Value(n) = 0
<1> DEFINE f == Prefix(n, N, W)
           A == {i \in Nat :
                   i =< N /\ (\E k \in 0 .. i - 1 : n[k] # 0) => f[i] > 0}
<1>0. /\ N \in Nat \ {0}
      /\ \A i \in WordIndex : n[i] \in Nat
  <2>1. Pow2[W] \in Nat
    BY WidthAssumption, Pow2Positive
  <2> QED
    BY <2>1, WidthAssumption DEF LongNumber, Word
<1>1. /\ f \in [0 .. N -> Int] /\ f[0] = 0
      /\ \A i \in WordIndex : f[i + 1] = f[i] + n[i] * Pow2[i * W]
  BY <1>0, ValueSteps
<1>2. ASSUME is_zero(n) PROVE Value(n) = 0
  <2>1. \A i \in 0 .. N - 1 : n[i] = 0
    BY <1>2 DEF is_zero, WordIndex
  <2>2. 0 \in 0 .. N
    BY <1>0
  <2>3. Value(n) = Prefix(n, N, W)[0]
    BY <1>0, <2>1, <2>2, ZerosAbove
  <2> QED
    BY <1>1, <2>3
<1>3. \A i \in 0 .. N : f[i] \in Nat
  <2>1. \A i \in 0 .. N : f[i] \in 0 .. Pow2[i * W] - 1
    BY WidthAssumption, PrefixBound DEF LongNumber, Word, WordIndex
  <2>2. \A i \in 0 .. N : Pow2[i * W] \in Nat
    BY <1>0, WordPower
  <2> QED
    BY <2>1, <2>2
<1> HIDE DEF f
<1>4. 0 \in A
  OBVIOUS
<1>5. ASSUME NEW i \in Nat, i \in A PROVE i + 1 \in A
  <2> SUFFICES ASSUME i + 1 =< N, NEW k \in 0 .. i, n[k] # 0 PROVE f[i + 1] > 0
    OBVIOUS
  <2>1. i \in WordIndex /\ i \in 0 .. N
    BY <1>0 DEF WordIndex
  <2> DEFINE q == Pow2[i * W]
  <2>2. /\ q \in Nat \ {0} /\ n[i] \in Nat /\ f[i] \in Nat
        /\ f[i + 1] = f[i] + n[i] * q
    BY <1>0, <1>1, <1>3, <2>1, WordPower
  <2> HIDE DEF q
  <2>3. CASE n[i] # 0
    <3>1. n[i] * q > 0
      BY <2>2, <2>3
    <3> QED
      BY <2>2, <3>1
  <2>4. CASE n[i] = 0
    <3>1. k \in 0 .. i - 1
      BY <2>4
    <3>2. f[i] > 0
      BY <1>0, <1>5, <2>1, <3>1
    <3> QED
      BY <2>2, <2>4, <3>2
  <2> QED
    BY <2>3, <2>4
<1> HIDE DEF A
<1>6. Nat \subseteq A
  BY <1>4, <1>5, NatInduct
<1>7. ASSUME ~ is_zero(n) PROVE Value(n) # 0
  <2>1. \E k \in 0 .. N - 1 : n[k] # 0
    BY <1>7 DEF is_zero, WordIndex
  <2>2. f[N] > 0
    BY <1>0, <1>6, <2>1 DEF A
  <2> QED
    BY <2>2 DEF Value, f
<1> QED
  BY <1>2, <1>7

\* is_one answers yes of the number one only.
LEMMA OneValue ==
    ASSUME NEW n \in LongNumber, is_one(n)
    PROVE  Value(n) = 1
<1>1. \A i \in WordIndex : n[i] \in Int
  <2>1. Pow2[W] \in Nat
    BY WidthAssumption, Pow2Positive
  <2> QED
    BY <2>1 DEF LongNumber, Word
<1>2. N \in Nat \ {0} /\ 1 \in 0 .. N /\ 0 \in WordIndex
  BY WidthAssumption DEF WordIndex
<1>3. n[0] = 1 /\ \A i \in 1 .. N - 1 : n[i] = 0
  BY DEF is_one
<1>4. Value(n) = Prefix(n, N, W)[1]
  BY <1>1, <1>2, <1>3, ZerosAbove
<1>5. Prefix(n, N, W)[0 + 1] = Prefix(n, N, W)[0] + n[0] * Pow2[0 * W]
  BY <1>1, <1>2, ValueSteps
<1>6. Prefix(n, N, W)[0] = 0 /\ Pow2[0 * W] = 1
  BY <1>1, ValueSteps, Pow2Step, WidthAssumption
<1> QED
  BY <1>3, <1>4, <1>5, <1>6


-----------------------------------------------------------------------------
\* mult, and what print shows.

\* Whole turns do not change a remainder.
LEMMA ModuloTurns ==
    ASSUME NEW m \in Nat \ {0}, NEW x \in Int, NEW k \in Int
    PROVE  (x + m * k) % m = x % m
<1> DEFINE q == x \div m
           r == x % m
<1>1. q \in Int /\ r \in 0 .. m - 1 /\ x = m * q + r
  BY Division
<1> HIDE DEF q, r
<1>2. x + m * k = m * (q + k) + r /\ q + k \in Int
  <2>1. m * (q + k) = m * q + m * k
    BY <1>1
  <2>2. m * q \in Int /\ m * k \in Int
    BY <1>1
  <2> QED
    BY <1>1, <2>1, <2>2
<1>3. (m * (q + k) + r) % m = r
  BY <1>1, <1>2, DivisionUnique
<1> QED
  BY <1>2, <1>3 DEF r

\* Congruent numbers have the same remainder, their products as well.
LEMMA ModuloProduct ==
    ASSUME NEW m \in Nat \ {0}, NEW x \in Int, NEW y \in Int
    PROVE  ((x % m) * y) % m = (x * y) % m
<1> DEFINE q == x \div m
           r == x % m
<1>1. q \in Int /\ r \in 0 .. m - 1 /\ x = m * q + r
  BY Division
<1> HIDE DEF q, r
<1>2. x * y = r * y + m * (q * y) /\ q * y \in Int /\ r * y \in Int
  <2>1. (m * q + r) * y = r * y + m * (q * y)
    BY <1>1
  <2> QED
    BY <1>1, <2>1
<1>3. (r * y + m * (q * y)) % m = (r * y) % m
  BY <1>2, ModuloTurns
<1> QED
  BY <1>2, <1>3 DEF r

\* A remainder may be taken before a sum.
LEMMA ModuloSum ==
    ASSUME NEW m \in Nat \ {0}, NEW x \in Int, NEW y \in Int
    PROVE  ((x % m) + y) % m = (x + y) % m
<1> DEFINE q == x \div m
           r == x % m
<1>1. q \in Int /\ r \in 0 .. m - 1 /\ x = m * q + r
  BY Division
<1> HIDE DEF q, r
<1>2. x + y = (r + y) + m * q /\ r + y \in Int
  BY <1>1
<1>3. ((r + y) + m * q) % m = (r + y) % m
  BY <1>1, <1>2, ModuloTurns
<1> QED
  BY <1>2, <1>3 DEF r

\* The definition of mult is one: the second number gets smaller.
LEMMA MultFunction ==
    /\ mult \in [LongNumber \X LongNumber -> LongNumber]
    /\ \A a, b \in LongNumber :
          mult[<<a, b>>] =
            IF is_zero(b) THEN b
            ELSE IF is_one(b) THEN a
            ELSE IF is_even(b) THEN mult[<<lshift(a), rshift(b)>>]
            ELSE sum(mult[<<lshift(a), rshift(b)>>], a)
<1> DEFINE P == LongNumber \X LongNumber
           mu == [p \in P |-> Value(p[2])]
           half(p) == <<lshift(p[1]), rshift(p[2])>>
           G(f) == [p \in P |->
                      IF is_zero(p[2]) THEN p[2]
                      ELSE IF is_one(p[2]) THEN p[1]
                      ELSE IF is_even(p[2]) THEN f[half(p)]
                      ELSE sum(f[half(p)], p[1])]
           F == [f \in [P -> LongNumber] |-> G(f)]
<1>1. mu \in [P -> Nat]
  <2> SUFFICES ASSUME NEW p \in P
               PROVE  Value(p[2]) \in Nat
    OBVIOUS
  <2>1. p[2] \in LongNumber /\ Pow2[N * W] \in Nat
    BY WidthAssumption, Pow2Positive
  <2> QED
    BY <2>1, ValueBound
<1>2. \A p \in P : half(p) \in P
  BY LshiftType, RshiftType
<1>3. ASSUME NEW p \in P, ~ is_zero(p[2])
      PROVE  half(p) \in P /\ mu[half(p)] < mu[p]
  <2>1. p[2] \in LongNumber /\ half(p) \in P
    BY <1>2
  <2>2. mu[half(p)] = Value(rshift(p[2])) /\ mu[p] = Value(p[2])
    BY <2>1
  <2>3. Value(p[2]) # 0
    BY <1>3, <2>1, ZeroValue
  <2>4. Value(rshift(p[2])) = Value(p[2]) \div 2
    BY <2>1, RshiftExact
  <2> DEFINE v == Value(p[2])
  <2>5. v \in Nat
    BY <1>1, <2>2
  <2> HIDE DEF v
  <2>6. v # 0 => v \div 2 < v
    BY <2>5
  <2> QED
    BY <2>1, <2>2, <2>3, <2>4, <2>6 DEF v
<1>4. F \in [[P -> LongNumber] -> [P -> LongNumber]]
  <2> SUFFICES ASSUME NEW f \in [P -> LongNumber]
               PROVE  G(f) \in [P -> LongNumber]
    OBVIOUS
  <2> SUFFICES ASSUME NEW p \in P
               PROVE  G(f)[p] \in LongNumber
    OBVIOUS
  <2>1. p[1] \in LongNumber /\ p[2] \in LongNumber
    OBVIOUS
  <2>2. f[half(p)] \in LongNumber
    BY <1>2
  <2>3. sum(f[half(p)], p[1]) \in LongNumber
    BY <2>1, <2>2, SumType
  <2> HIDE DEF half
  <2> QED
    BY <2>1, <2>2, <2>3
<1>5. ASSUME NEW f \in [P -> LongNumber], NEW g \in [P -> LongNumber],
             NEW p \in P,
             \A q \in P : mu[q] < mu[p] => f[q] = g[q]
      PROVE  F[f][p] = F[g][p]
  <2>1. CASE is_zero(p[2])
    BY <2>1
  <2>2. CASE ~ is_zero(p[2])
    <3>1. f[half(p)] = g[half(p)]
      <4> HIDE DEF half, mu, P
      <4> QED
        BY <1>3, <1>5, <2>2
    <3> HIDE DEF half
    <3> QED
      BY <2>2, <3>1
  <2> QED
    BY <2>1, <2>2
<1>6. \E f \in [P -> LongNumber] : F[f] = f
  <2>0. LongNumber # {}
    <3>1. [i \in WordIndex |-> 0] \in LongNumber
      BY WidthAssumption, Pow2Positive DEF LongNumber, Word
    <3> QED
      BY <3>1
  <2>1. Recursion(P, LongNumber, mu, F)
    <3> HIDE DEF P, mu, F
    <3> QED
      BY <1>1, <1>4, <1>5, <2>0 DEF Recursion
  <2> HIDE DEF F, mu, P
  <2> QED
    BY <2>1, FixpointExists
<1>7. PICK f \in [P -> LongNumber] : f = G(f)
  <2> HIDE DEF G, P
  <2> QED
    BY <1>6
<1>8. mult = G(mult)
  <2>1. mult = CHOOSE h : h = G(h)
    BY DEF mult
  <2> HIDE DEF G
  <2> QED
    BY <1>7, <2>1
<1>9. mult \in [P -> LongNumber]
  <2> HIDE DEF G, P
  <2>1. \A p \in P : mult[p] \in LongNumber
    <3> DEFINE A == {p \in P : mult[p] \in LongNumber}
    <3>1. ASSUME NEW p \in P, \A q \in P : mu[q] < mu[p] => q \in A
          PROVE  p \in A
      <4>1. p[1] \in LongNumber /\ p[2] \in LongNumber
        BY DEF P
      <4>2. mult[p] = G(mult)[p]
        BY <1>8
      <4>3. CASE is_zero(p[2])
        BY <4>1, <4>2, <4>3 DEF G
      <4>4. CASE ~ is_zero(p[2])
        <5>1. mult[half(p)] \in LongNumber
          <6> HIDE DEF half, mu
          <6> QED
            BY <1>3, <3>1, <4>4
        <5>2. sum(mult[half(p)], p[1]) \in LongNumber
          BY <4>1, <5>1, SumType
        <5> HIDE DEF half
        <5> QED
          BY <4>1, <4>2, <5>1, <5>2 DEF G
      <4> QED
        BY <4>3, <4>4
    <3> HIDE DEF A, mu
    <3>2. P \subseteq A
      BY <1>1, <3>1, MeasureInduction
    <3> QED
      BY <3>2 DEF A
  <2>2. mult = [p \in P |-> mult[p]]
    BY <1>8 DEF G
  <2> QED
    BY <2>1, <2>2
<1>10. ASSUME NEW a \in LongNumber, NEW b \in LongNumber
       PROVE  mult[<<a, b>>] =
                IF is_zero(b) THEN b
                ELSE IF is_one(b) THEN a
                ELSE IF is_even(b) THEN mult[<<lshift(a), rshift(b)>>]
                ELSE sum(mult[<<lshift(a), rshift(b)>>], a)
  <2>1. <<a, b>> \in P
    OBVIOUS
  <2>2. mult[<<a, b>>] = G(mult)[<<a, b>>]
    <3> HIDE DEF G
    <3> QED
      BY <1>8
  <2> QED
    BY <2>1, <2>2
<1> QED
  BY <1>9, <1>10

\* mult returns the product, by induction on the second number.
LEMMA MultExact ==
    ASSUME NEW a \in LongNumber, NEW b \in LongNumber
    PROVE  Value(mult[<<a, b>>]) = (Value(a) * Value(b)) % Pow2[N * W]
<1> DEFINE P == LongNumber \X LongNumber
           m == Pow2[N * W]
           mu == [p \in P |-> Value(p[2])]
           A == {p \in P : Value(mult[p]) = (Value(p[1]) * Value(p[2])) % m}
<1>1. m \in Nat \ {0}
  BY WidthAssumption, Pow2Positive
<1>2. \A n \in LongNumber : Value(n) \in 0 .. m - 1
  BY ValueBound
<1>3. mu \in [P -> Nat]
  BY <1>1, <1>2
<1>4. ASSUME NEW p \in P, \A q \in P : mu[q] < mu[p] => q \in A
      PROVE  p \in A
  <2>1. PICK x \in LongNumber, y \in LongNumber : p = <<x, y>>
    OBVIOUS
  <2> DEFINE v == Value(x)
             u == Value(y)
             h == Value(rshift(y))
             r == mult[<<lshift(x), rshift(y)>>]
             d == Value(lshift(x))
  <2>2. /\ v \in 0 .. m - 1 /\ u \in 0 .. m - 1 /\ h \in 0 .. m - 1
        /\ d \in 0 .. m - 1 /\ r \in LongNumber
        /\ lshift(x) \in LongNumber /\ rshift(y) \in LongNumber
    <3>1. lshift(x) \in LongNumber /\ rshift(y) \in LongNumber
      BY LshiftType, RshiftType
    <3>2. r \in LongNumber
      BY <3>1, MultFunction
    <3> QED
      BY <1>2, <3>1, <3>2
  <2>3. d = (2 * v) % m /\ u = 2 * h + (y[0] % 2) /\ y[0] % 2 \in 0 .. 1
    BY LshiftExact, RshiftDouble
  <2>4. mult[<<x, y>>] = IF is_zero(y) THEN y ELSE IF is_one(y) THEN x
                         ELSE IF is_even(y) THEN r ELSE sum(r, x)
    BY MultFunction
  <2>5. SUFFICES Value(mult[<<x, y>>]) = (v * u) % m
    BY <2>1
  <2>6. CASE is_zero(y)
    <3>1. u = 0
      BY <2>6, ZeroValue
    <3>2. mult[<<x, y>>] = y
      BY <2>4, <2>6
    <3>3. v * 0 = 0 /\ 0 % m = 0
      BY <1>1, <2>2
    <3> QED
      BY <3>1, <3>2, <3>3
  <2>7. CASE ~ is_zero(y) /\ is_one(y)
    <3>1. u = 1
      BY <2>7, OneValue
    <3>2. mult[<<x, y>>] = x
      BY <2>4, <2>7
    <3>3. v * 1 = v /\ v % m = v
      BY <1>1, <2>2, SmallModulo
    <3> QED
      BY <3>1, <3>2, <3>3
  <2>8. CASE ~ is_zero(y) /\ ~ is_one(y)
    <3>1. h < u
      <4>1. u # 0
        BY <2>8, ZeroValue
      <4> HIDE DEF u, h
      <4> QED
        BY <2>2, <2>3, <4>1
    <3>2. Value(r) = (d * h) % m
      <4> DEFINE q == <<lshift(x), rshift(y)>>
      <4>1. q \in P /\ q[1] = lshift(x) /\ q[2] = rshift(y)
        BY <2>2
      <4>2. mu[q] = h /\ mu[p] = u
        BY <2>1, <4>1
      <4>3. q \in A
        <5> HIDE DEF mu, A, q, h, u
        <5> QED
          BY <1>4, <3>1, <4>1, <4>2
      <4> QED
        BY <4>1, <4>3
    <3> HIDE DEF v, u, h, r, d, m
    <3>3. v \in Int /\ h \in Int /\ 2 * v \in Int
      BY <1>1, <2>2
    <3>4. Value(r) = ((2 * v) * h) % m
      BY <1>1, <2>3, <3>2, <3>3, ModuloProduct
    <3>5. CASE is_even(y)
      <4>1. u = 2 * h
        BY <2>2, <2>3, <3>3, <3>5 DEF is_even
      <4>2. v * (2 * h) = (2 * v) * h
        BY <3>3
      <4> QED
        BY <2>4, <2>8, <3>4, <3>5, <4>1, <4>2
    <3>6. CASE ~ is_even(y)
      <4>1. u = 2 * h + 1
        BY <2>2, <2>3, <3>3, <3>6 DEF is_even
      <4>2. Value(sum(r, x)) = (Value(r) + v) % m
        BY <2>2, SumExact DEF v, m
      <4>3. (2 * v) * h \in Int
        BY <3>3
      <4>4. Value(sum(r, x)) = ((2 * v) * h + v) % m
        BY <1>1, <3>3, <3>4, <4>2, <4>3, ModuloSum
      <4>5. v * (2 * h + 1) = (2 * v) * h + v
        BY <3>3
      <4> QED
        BY <2>4, <2>8, <3>6, <4>1, <4>4, <4>5
    <3> QED
      BY <3>5, <3>6
  <2> QED
    BY <2>6, <2>7, <2>8
<1> HIDE DEF A, mu
<1>5. P \subseteq A
  BY <1>3, <1>4, MeasureInduction
<1>6. <<a, b>> \in A
  BY <1>5
<1> QED
  BY <1>6 DEF A

\* Numbers with the same first words have the same prefixes.
LEMMA SamePrefix ==
    ASSUME NEW n, \A i \in WordIndex : n[i] \in Int,
           NEW l, \A i \in WordIndex : l[i] \in Int,
           NEW s \in 0 .. N, \A i \in 0 .. s - 1 : n[i] = l[i]
    PROVE  Prefix(n, N, W)[s] = Prefix(l, N, W)[s]
<1> DEFINE f == Prefix(n, N, W)
           g == Prefix(l, N, W)
           A == {i \in Nat : i =< s => f[i] = g[i]}
<1>0. N \in Nat
  BY WidthAssumption
<1>1. f[0] = 0 /\ \A i \in WordIndex : f[i + 1] = f[i] + n[i] * Pow2[i * W]
  BY ValueSteps
<1>2. g[0] = 0 /\ \A i \in WordIndex : g[i + 1] = g[i] + l[i] * Pow2[i * W]
  BY ValueSteps
<1> HIDE DEF f, g
<1>3. 0 \in A
  BY <1>1, <1>2
<1>4. ASSUME NEW i \in Nat, i \in A PROVE i + 1 \in A
  <2> SUFFICES ASSUME i + 1 =< s PROVE f[i + 1] = g[i + 1]
    OBVIOUS
  <2>1. i \in WordIndex /\ n[i] = l[i]
    BY <1>0 DEF WordIndex
  <2>2. f[i] = g[i]
    BY <1>0, <1>4
  <2> QED
    BY <1>1, <1>2, <2>1, <2>2
<1> HIDE DEF A
<1>5. Nat \subseteq A
  BY <1>3, <1>4, NatInduct
<1> QED
  BY <1>0, <1>5 DEF A, f, g

\* What print shows is the number in two's complement.
LEMMA PrintExact ==
    ASSUME NEW n \in LongNumber
    PROVE  /\ print(n) = TwosComplement(Value(n))
           /\ \E h \in 0 .. 1 : print(n) = Value(n) - h * Pow2[N * W]
<1> DEFINE p == Pow2[W - 1]
           low == [n EXCEPT ![N - 1] = @ % p]
           sign == [i \in WordIndex |-> IF i = N - 1 THEN n[i] - low[i] ELSE 0]
           q == Pow2[(N - 1) * W]
           x == Prefix(n, N, W)[N - 1]
           r == n[N - 1] % p
           h == bit(n[N - 1], W - 1)
<1>0. /\ N \in Nat \ {0} /\ N - 1 \in WordIndex /\ N - 1 \in 0 .. N
      /\ (N - 1) + 1 = N /\ N - 1 \in Nat /\ N - 1 \in 0 .. N - 1
  BY WidthAssumption DEF WordIndex
<1>1. n[N - 1] \in Word
  BY <1>0 DEF LongNumber
<1>2. /\ h \in 0 .. 1 /\ r \in 0 .. p - 1 /\ Pow2[W] = 2 * p
      /\ n[N - 1] = r + h * p
  BY <1>1, HighBit
<1>3. /\ q \in Nat \ {0} /\ Pow2[N * W] = q * Pow2[W] /\ p \in Nat \ {0}
  <2>1. /\ q \in Nat \ {0}
        /\ Pow2[((N - 1) + 1) * W] = q * Pow2[W]
    BY <1>0, WordPower
  <2>2. p \in Nat \ {0}
    BY WidthAssumption, Pow2Positive
  <2> QED
    BY <1>0, <2>1, <2>2
<1>3a. Pow2[N * W - 1] = q * p
  <2>1. /\ (N - 1) * W \in Nat /\ W - 1 \in Nat
        /\ (N - 1) * W + (W - 1) = N * W - 1
    BY WidthAssumption
  <2> QED
    BY <2>1, Pow2Plus
<1>4. \A i \in WordIndex : n[i] \in Int
  <2>1. Pow2[W] \in Nat
    BY WidthAssumption, Pow2Positive
  <2> QED
    BY <2>1 DEF LongNumber, Word
<1>5. /\ low[N - 1] = r /\ \A i \in 0 .. (N - 1) - 1 : low[i] = n[i]
      /\ \A i \in WordIndex : low[i] \in Int
  <2>1. low = [i \in WordIndex |-> IF i = N - 1 THEN r ELSE n[i]]
    BY DEF LongNumber
  <2>2. r \in Int
    BY <1>2
  <2> HIDE DEF low, r
  <2> QED
    BY <1>0, <1>4, <2>1, <2>2 DEF WordIndex
<1>6. /\ sign[N - 1] = h * p /\ \A i \in 0 .. (N - 1) - 1 : sign[i] = 0
      /\ \A i \in WordIndex : sign[i] \in Int
  <2>1. n[N - 1] - low[N - 1] = h * p /\ h * p \in Int
    <3>1. h * p \in Int /\ r \in Int
      BY <1>2, <1>3
    <3> HIDE DEF h, p, r, low
    <3> QED
      BY <1>2, <1>5, <3>1
  <2> HIDE DEF low, h, p
  <2> QED
    BY <1>0, <2>1 DEF WordIndex
<1> HIDE DEF low, sign
<1>7. x \in 0 .. q - 1
  <2>1. \A i \in 0 .. N - 1 : n[i] \in 0 .. Pow2[W] - 1
    BY DEF LongNumber, Word, WordIndex
  <2> QED
    BY <1>0, <2>1, WidthAssumption, PrefixBound
<1>8. Value(n) = x + (r + h * p) * q
  <2>1. Prefix(n, N, W)[(N - 1) + 1] = x + n[N - 1] * q
    BY <1>0, <1>4, ValueSteps
  <2> QED
    BY <1>0, <1>2, <2>1 DEF Value
<1>9. Value(low) = x + r * q
  <2>1. Prefix(low, N, W)[(N - 1) + 1] =
           Prefix(low, N, W)[N - 1] + low[N - 1] * q
    BY <1>0, <1>5, ValueSteps
  <2>2. Prefix(low, N, W)[N - 1] = x
    BY <1>0, <1>4, <1>5, SamePrefix
  <2> QED
    BY <1>0, <1>5, <2>1, <2>2 DEF Value
<1>10. Value(sign) = (h * p) * q
  <2>1. Prefix(sign, N, W)[(N - 1) + 1] =
           Prefix(sign, N, W)[N - 1] + sign[N - 1] * q
    BY <1>0, <1>6, ValueSteps
  <2>2. Prefix(sign, N, W)[N - 1] = 0
    <3> DEFINE zero == [i \in WordIndex |-> 0]
    <3>1. /\ \A i \in WordIndex : zero[i] \in Int
          /\ \A i \in 0 .. (N - 1) - 1 : sign[i] = zero[i]
      BY <1>0, <1>6 DEF WordIndex
    <3>2. Prefix(sign, N, W)[N - 1] = Prefix(zero, N, W)[N - 1]
      <4> HIDE DEF zero
      <4> QED
        BY <1>0, <1>6, <3>1, SamePrefix
    <3>3. \A i \in 0 .. N - 1 : zero[i] \in 0 .. Pow2[0] - 1
      BY Pow2Step DEF WordIndex
    <3>4. zero \in LongNumber /\ is_zero(zero)
      BY WidthAssumption, Pow2Positive DEF LongNumber, Word, is_zero
    <3>5. Value(zero) = 0
      BY <3>4, ZeroValue
    <3>6. Value(zero) = Prefix(zero, N, W)[N - 1]
      <4>1. \A i \in N - 1 .. N - 1 : zero[i] = 0
        BY <1>0
      <4> HIDE DEF zero
      <4> QED
        BY <1>0, <3>1, <4>1, ZerosAbove
    <3> QED
      BY <3>2, <3>5, <3>6
  <2>3. (h * p) * q \in Int
    BY <1>2, <1>3
  <2> QED
    BY <1>0, <1>6, <2>1, <2>2, <2>3 DEF Value
<1>11. print(n) = Value(low) - Value(sign)
  BY DEF print, low, sign
<1>12. x + r * q \in 0 .. q * p - 1
  BY <1>2, <1>3, <1>7, OneMoreDigit
<1> DEFINE y == x + r * q
           k == q * p
<1>13. /\ Pow2[N * W - 1] = k /\ Pow2[N * W] = 2 * k /\ k \in Nat \ {0}
       /\ y \in 0 .. k - 1
  <2>1. q * (2 * p) = 2 * (q * p) /\ q * p \in Nat \ {0}
    BY <1>3
  <2> QED
    BY <1>2, <1>3, <1>3a, <1>12, <2>1
<1>14. print(n) = y - h * k /\ Value(n) = y + h * k
  <2>1. x \in Int /\ r \in Int /\ h \in Int /\ p \in Int /\ q \in Int
    BY <1>2, <1>3, <1>7
  <2> HIDE DEF x, r, h, p, q
  <2>2. (h * p) * q = h * (q * p) /\ (r + h * p) * q = r * q + h * (q * p)
        /\ r * q \in Int /\ h * (q * p) \in Int
    BY <2>1
  <2> QED
    BY <1>8, <1>9, <1>10, <1>11, <2>1, <2>2
<1> HIDE DEF x, r, h, p, q, y, k
<1>15. print(n) = Value(n) - h * Pow2[N * W]
  <2>1. h * k \in Int /\ h * (2 * k) = 2 * (h * k)
    BY <1>2, <1>13
  <2> QED
    BY <1>13, <1>14, <2>1
<1>16. print(n) = TwosComplement(Value(n))
  <2>1. Value(n) \in 0 .. Pow2[N * W] - 1
    BY ValueBound
  <2>2. Value(n) % Pow2[N * W] = Value(n)
    BY <1>13, <2>1, SmallModulo
  <2>3. CASE h = 0
    <3>1. Value(n) = y /\ print(n) = y /\ y < k
      BY <1>13, <1>14, <2>3
    <3> QED
      BY <1>13, <2>2, <3>1 DEF TwosComplement
  <2>4. CASE h = 1
    <3>1. /\ Value(n) = y + k /\ print(n) = y - k
          /\ ~ (y + k < k) /\ y - k = (y + k) - 2 * k
      BY <1>13, <1>14, <2>4
    <3> QED
      BY <1>13, <2>2, <3>1 DEF TwosComplement
  <2> QED
    BY <1>2, <2>3, <2>4
<1> QED
  BY <1>2, <1>15, <1>16

\* The remainder is all that two's complement depends on.
LEMMA TwosComplementOf ==
    ASSUME NEW v \in Int, NEW w \in Int, v % Pow2[N * W] = w % Pow2[N * W]
    PROVE  TwosComplement(v) = TwosComplement(w)
  BY DEF TwosComplement

\* For numbers of any number of words of any width, sum and mult of
\* long_numbers.c return what the integers do, modulo the width and as print
\* shows them; lshift doubles and rshift halves.
THEOREM LongNumbersExact ==
    \A a, b \in LongNumber : LongExact(a, b)
<1> SUFFICES ASSUME NEW a \in LongNumber, NEW b \in LongNumber
             PROVE  LongExact(a, b)
  OBVIOUS
<1> DEFINE m == Pow2[N * W]
           x == Value(a)
           y == Value(b)
<1>1. m \in Nat \ {0}
  BY WidthAssumption, Pow2Positive
<1>2. x \in Int /\ y \in Int
  BY <1>1, ValueBound
<1>3. PICK h \in 0 .. 1 : print(a) = x - h * m
  BY PrintExact
<1>4. PICK k \in 0 .. 1 : print(b) = y - k * m
  BY PrintExact
<1>5. print(sum(a, b)) = TwosComplement(print(a) + print(b))
  <2>1. print(sum(a, b)) = TwosComplement(Value(sum(a, b)))
    BY SumType, PrintExact
  <2>2. Value(sum(a, b)) = (x + y) % m
    BY SumExact
  <2> HIDE DEF m, x, y
  <2>3. /\ (x + y) % m \in Int /\ x + y \in Int
        /\ ((x + y) % m) % m = (x + y) % m
    <3>1. x + y \in Int
      BY <1>2
    <3>2. (x + y) % m \in 0 .. m - 1
      BY <1>1, <3>1, Division
    <3> QED
      BY <1>1, <3>1, <3>2, SmallModulo
  <2>4. print(a) + print(b) = (x + y) + m * (-(h + k)) /\ -(h + k) \in Int
    <3>1. m * (-(h + k)) = -(h * m) - (k * m) /\ h * m \in Int /\ k * m \in Int
      BY <1>1
    <3> QED
      BY <1>1, <1>2, <1>3, <1>4, <3>1
  <2>5. (print(a) + print(b)) % m = (x + y) % m
    BY <1>1, <2>3, <2>4, ModuloTurns
  <2>6. print(a) + print(b) \in Int
    BY <1>1, <2>3, <2>4
  <2> QED
    BY <2>1, <2>2, <2>3, <2>5, <2>6, TwosComplementOf DEF m
<1>6. print(mult[<<a, b>>]) = TwosComplement(print(a) * print(b))
  <2>1. print(mult[<<a, b>>]) = TwosComplement(Value(mult[<<a, b>>]))
    BY MultFunction, PrintExact
  <2>2. Value(mult[<<a, b>>]) = (x * y) % m
    BY MultExact
  <2> HIDE DEF m, x, y
  <2>3. /\ (x * y) % m \in Int /\ x * y \in Int
        /\ ((x * y) % m) % m = (x * y) % m
    <3>1. x * y \in Int
      BY <1>2
    <3>2. (x * y) % m \in 0 .. m - 1
      BY <1>1, <3>1, Division
    <3> QED
      BY <1>1, <3>1, <3>2, SmallModulo
  <2> DEFINE t == (h * k) * m - h * y - k * x
  <2>4. print(a) * print(b) = x * y + m * t /\ t \in Int
    <3>1. h \in Int /\ k \in Int /\ m \in Int /\ x \in Int /\ y \in Int
      BY <1>1, <1>2
    <3>2. (x - h * m) * (y - k * m) = x * y + m * ((h * k) * m - h * y - k * x)
      BY <3>1
    <3>3. t \in Int
      BY <3>1
    <3> HIDE DEF t
    <3> QED
      BY <1>3, <1>4, <3>2, <3>3 DEF t
  <2> HIDE DEF t
  <2>5. (print(a) * print(b)) % m = (x * y) % m
    BY <1>1, <2>3, <2>4, ModuloTurns
  <2>6. print(a) * print(b) \in Int
    BY <1>1, <2>3, <2>4
  <2> QED
    BY <2>1, <2>2, <2>3, <2>5, <2>6, TwosComplementOf DEF m
<1> QED
  BY <1>5, <1>6, LshiftExact, RshiftExact DEF LongExact


-----------------------------------------------------------------------------
\* mult.c and the count of bits, on one word.

\* The definition of mult_word is one, and stays inside a word.
LEMMA MultWordFunction ==
    /\ mult_word \in [Word \X Word -> Word]
    /\ \A a, b \in Word :
          mult_word[<<a, b>>] =
            IF b = 0 THEN 0
            ELSE IF b = 1 THEN a
            ELSE (mult_word[<<(2 * a) % Pow2[W], b \div 2>>]
                    + mult_word[<<a, b % 2>>]) % Pow2[W]
<1> DEFINE P == Word \X Word
           B == Pow2[W]
           mu == [p \in P |-> p[2]]
           half(p) == <<(2 * p[1]) % B, p[2] \div 2>>
           odd(p) == <<p[1], p[2] % 2>>
           G(f) == [p \in P |->
                      IF p[2] = 0 THEN 0
                      ELSE IF p[2] = 1 THEN p[1]
                      ELSE (f[half(p)] + f[odd(p)]) % B]
           F == [f \in [P -> Word] |-> G(f)]
<1>0. B \in Nat \ {0} /\ Word = 0 .. B - 1
  BY WidthAssumption, Pow2Positive DEF Word
<1>1. mu \in [P -> Nat]
  BY <1>0
<1>2. \A x \in Int : x % B \in Word
  BY <1>0
<1>3. ASSUME NEW p \in P, p[2] # 0, p[2] # 1
      PROVE  /\ half(p) \in P /\ mu[half(p)] < mu[p]
             /\ odd(p) \in P /\ mu[odd(p)] < mu[p]
  <2>1. p[1] \in 0 .. B - 1 /\ p[2] \in 0 .. B - 1
    BY <1>0
  <2>2. (2 * p[1]) % B \in Word
    <3>1. 2 * p[1] \in Int
      BY <1>0, <2>1
    <3> HIDE DEF B
    <3> QED
      BY <1>2, <3>1
  <2>3. /\ p[2] \div 2 \in 0 .. B - 1 /\ p[2] \div 2 < p[2]
        /\ p[2] % 2 \in 0 .. B - 1 /\ p[2] % 2 < p[2]
    BY <1>0, <1>3, <2>1
  <2>4. half(p) \in P /\ odd(p) \in P
    BY <1>0, <2>2, <2>3
  <2> QED
    BY <2>3, <2>4
<1> HIDE DEF B
<1>4. F \in [[P -> Word] -> [P -> Word]]
  <2> SUFFICES ASSUME NEW f \in [P -> Word]
               PROVE  G(f) \in [P -> Word]
    OBVIOUS
  <2> SUFFICES ASSUME NEW p \in P
               PROVE  G(f)[p] \in Word
    OBVIOUS
  <2>1. CASE p[2] = 0
    BY <1>0, <2>1
  <2>2. CASE p[2] # 0 /\ p[2] = 1
    BY <2>2
  <2>3. CASE p[2] # 0 /\ p[2] # 1
    <3>1. f[half(p)] \in Word /\ f[odd(p)] \in Word
      <4>1. half(p) \in P /\ odd(p) \in P
        BY <1>3, <2>3
      <4> HIDE DEF half, odd, P
      <4> QED
        BY <4>1
    <3> HIDE DEF half, odd
    <3>2. f[half(p)] + f[odd(p)] \in Int
      BY <1>0, <3>1
    <3>3. G(f)[p] = (f[half(p)] + f[odd(p)]) % B
      BY <2>3
    <3> HIDE DEF G
    <3> QED
      BY <1>2, <3>2, <3>3
  <2> QED
    BY <2>1, <2>2, <2>3
<1>5. ASSUME NEW f \in [P -> Word], NEW g \in [P -> Word], NEW p \in P,
             \A q \in P : mu[q] < mu[p] => f[q] = g[q]
      PROVE  F[f][p] = F[g][p]
  <2>1. CASE p[2] = 0 \/ p[2] = 1
    BY <2>1
  <2>2. CASE p[2] # 0 /\ p[2] # 1
    <3>1. f[half(p)] = g[half(p)] /\ f[odd(p)] = g[odd(p)]
      <4> HIDE DEF half, odd, mu, P
      <4> QED
        BY <1>3, <1>5, <2>2
    <3> HIDE DEF half, odd
    <3> QED
      BY <2>2, <3>1
  <2> QED
    BY <2>1, <2>2
<1>6. \E f \in [P -> Word] : F[f] = f
  <2>0. Word # {}
    BY <1>0
  <2>1. Recursion(P, Word, mu, F)
    <3> HIDE DEF P, mu, F
    <3> QED
      BY <1>1, <1>4, <1>5, <2>0 DEF Recursion
  <2> HIDE DEF F, mu, P
  <2> QED
    BY <2>1, FixpointExists
<1>7. PICK f \in [P -> Word] : f = G(f)
  <2> HIDE DEF G, P
  <2> QED
    BY <1>6
<1>8. mult_word = G(mult_word)
  <2>1. mult_word = CHOOSE h : h = G(h)
    BY DEF mult_word, B
  <2> HIDE DEF G
  <2> QED
    BY <1>7, <2>1
<1>9. mult_word \in [P -> Word]
  <2> HIDE DEF G, P
  <2>1. \A p \in P : mult_word[p] \in Word
    <3> DEFINE A == {p \in P : mult_word[p] \in Word}
    <3>1. ASSUME NEW p \in P, \A q \in P : mu[q] < mu[p] => q \in A
          PROVE  p \in A
      <4>1. p[1] \in Word /\ p[2] \in Word
        BY DEF P
      <4>2. mult_word[p] = G(mult_word)[p]
        BY <1>8
      <4>3. CASE p[2] = 0
        BY <1>0, <4>2, <4>3 DEF G
      <4>4. CASE p[2] # 0 /\ p[2] = 1
        BY <4>1, <4>2, <4>4 DEF G
      <4>5. CASE p[2] # 0 /\ p[2] # 1
        <5>1. mult_word[half(p)] \in Word /\ mult_word[odd(p)] \in Word
          <6> HIDE DEF half, odd, mu
          <6> QED
            BY <1>3, <3>1, <4>5
        <5> HIDE DEF half, odd
        <5>2. mult_word[half(p)] + mult_word[odd(p)] \in Int
          BY <1>0, <5>1
        <5>3. mult_word[p] = (mult_word[half(p)] + mult_word[odd(p)]) % B
          BY <4>2, <4>5 DEF G
        <5> QED
          BY <1>2, <5>2, <5>3
      <4> QED
        BY <4>3, <4>4, <4>5
    <3> HIDE DEF A, mu
    <3>2. P \subseteq A
      BY <1>1, <3>1, MeasureInduction
    <3> QED
      BY <3>2 DEF A
  <2>2. mult_word = [p \in P |-> mult_word[p]]
    BY <1>8 DEF G
  <2> QED
    BY <2>1, <2>2
<1>10. ASSUME NEW a \in Word, NEW b \in Word
       PROVE  mult_word[<<a, b>>] =
                IF b = 0 THEN 0
                ELSE IF b = 1 THEN a
                ELSE (mult_word[<<(2 * a) % B, b \div 2>>]
                        + mult_word[<<a, b % 2>>]) % B
  <2>1. <<a, b>> \in P
    OBVIOUS
  <2>2. mult_word[<<a, b>>] = G(mult_word)[<<a, b>>]
    <3> HIDE DEF G
    <3> QED
      BY <1>8
  <2> QED
    BY <2>1, <2>2
<1> QED
  BY <1>9, <1>10 DEF B

\* mult.c returns the product, by induction on the second number.
LEMMA MultWordExact ==
    ASSUME NEW a \in Word, NEW b \in Word
    PROVE  mult_word[<<a, b>>] = (a * b) % Pow2[W]
<1> DEFINE P == Word \X Word
           m == Pow2[W]
           mu == [p \in P |-> p[2]]
           A == {p \in P : mult_word[p] = (p[1] * p[2]) % m}
<1>1. m \in Nat \ {0} /\ Word = 0 .. m - 1
  BY WidthAssumption, Pow2Positive DEF Word
<1>3. mu \in [P -> Nat]
  BY <1>1
<1>4. ASSUME NEW p \in P, \A q \in P : mu[q] < mu[p] => q \in A
      PROVE  p \in A
  <2>1. PICK x \in Word, y \in Word : p = <<x, y>>
    OBVIOUS
  <2> DEFINE d == (2 * x) % m
             h == y \div 2
             o == y % 2
  <2>2. x \in 0 .. m - 1 /\ y \in 0 .. m - 1 /\ d \in 0 .. m - 1
    BY <1>1
  <2>3. y = 2 * h + o /\ o \in 0 .. 1 /\ h \in Nat /\ h =< y /\ o =< y
    BY <1>1, <2>2
  <2>4. mult_word[<<x, y>>] =
           IF y = 0 THEN 0 ELSE IF y = 1 THEN x
           ELSE (mult_word[<<d, h>>] + mult_word[<<x, o>>]) % m
    BY MultWordFunction
  <2>5. SUFFICES mult_word[<<x, y>>] = (x * y) % m
    BY <2>1
  <2>6. CASE y = 0
    <3>1. x * 0 = 0 /\ 0 % m = 0
      BY <1>1, <2>2
    <3> QED
      BY <2>4, <2>6, <3>1
  <2>7. CASE y = 1
    <3>1. x * 1 = x /\ x % m = x
      BY <1>1, <2>2, SmallModulo
    <3> QED
      BY <2>4, <2>7, <3>1
  <2>8. CASE y # 0 /\ y # 1
    <3>1. h < y /\ o < y /\ d \in Word /\ h \in Word /\ o \in Word
      <4> HIDE DEF d, h, o
      <4> QED
        BY <1>1, <2>2, <2>3, <2>8
    <3>2. mult_word[<<d, h>>] = (d * h) % m
      <4> DEFINE q == <<d, h>>
      <4>1. q \in P /\ mu[q] = h /\ mu[p] = y /\ q[1] = d /\ q[2] = h
        BY <2>1, <3>1
      <4>2. q \in A
        <5> HIDE DEF mu, A, q, h
        <5> QED
          BY <1>4, <3>1, <4>1
      <4> QED
        BY <4>1, <4>2
    <3>3. mult_word[<<x, o>>] = (x * o) % m
      <4> DEFINE q == <<x, o>>
      <4>1. q \in P /\ mu[q] = o /\ mu[p] = y /\ q[1] = x /\ q[2] = o
        BY <2>1, <3>1
      <4>2. q \in A
        <5> HIDE DEF mu, A, q, o
        <5> QED
          BY <1>4, <3>1, <4>1
      <4> QED
        BY <4>1, <4>2
    <3>4. d = (2 * x) % m
      OBVIOUS
    <3> HIDE DEF m, d, h, o
    <3>5. x \in Int /\ 2 * x \in Int /\ h \in Int /\ o \in Int
      BY <1>1, <2>2, <2>3
    <3>6. mult_word[<<d, h>>] = ((2 * x) * h) % m
      BY <1>1, <3>2, <3>4, <3>5, ModuloProduct
    <3>7. (2 * x) * h \in Int /\ x * o \in Int /\ (x * o) % m \in Int
      <4>1. (2 * x) * h \in Int /\ x * o \in Int
        BY <3>5
      <4> QED
        BY <1>1, <4>1
    <3>8. mult_word[<<x, y>>] = ((((2 * x) * h) % m) + ((x * o) % m)) % m
      BY <2>4, <2>8, <3>3, <3>6
    <3>9. ((((2 * x) * h) % m) + ((x * o) % m)) % m
             = ((2 * x) * h + ((x * o) % m)) % m
      BY <1>1, <3>7, ModuloSum
    <3>10. (((x * o) % m) + (2 * x) * h) % m = (x * o + (2 * x) * h) % m
      BY <1>1, <3>7, ModuloSum
    <3>11. (2 * x) * h + ((x * o) % m) = ((x * o) % m) + (2 * x) * h
      BY <3>7
    <3>12. x * o + (2 * x) * h = x * y
      <4>1. x * (2 * h + o) = x * o + (2 * x) * h
        BY <3>5
      <4> QED
        BY <2>3, <4>1
    <3> QED
      BY <3>8, <3>9, <3>10, <3>11, <3>12
  <2> QED
    BY <2>6, <2>7, <2>8
<1> HIDE DEF A, mu
<1>5. P \subseteq A
  BY <1>3, <1>4, MeasureInduction
<1>6. <<a, b>> \in A
  BY <1>5
<1> QED
  BY <1>6 DEF A

OnesFrom(x, e) == {j \in e .. W - 1 : bit(x, j) = 1}

\* Each turn of the loop of ej2.s takes the registers from the one before.
LEMMA CountingFunction ==
    ASSUME NEW x \in Word
    PROVE  /\ Counting(x) \in [0 .. W -> [rbx : Int, rax : Int]]
           /\ Counting(x)[0] = [rbx |-> x, rax |-> 0]
           /\ \A k \in 0 .. W - 1 :
                Counting(x)[k + 1] = contar_uno(Counting(x)[k])
<1> DEFINE S == [rbx : Int, rax : Int]
           s0 == [rbx |-> x, rax |-> 0]
           step == [q \in (1 .. W) \X S |-> contar_uno(q[2])]
           G(f) == [k \in 0 .. W |->
                      IF k = 0 THEN s0 ELSE contar_uno(f[k - 1])]
           f == Counting(x)
<1>0. W \in Nat \ {0} /\ Pow2[W] \in Nat \ {0}
  BY WidthAssumption, Pow2Positive
<1>1. \A r \in S : contar_uno(r) \in S
  <2> SUFFICES ASSUME NEW r \in S
               PROVE  contar_uno(r) \in S
    OBVIOUS
  <2>1. r.rbx \in Int /\ r.rax \in Int /\ W - 1 \in Nat
    BY <1>0
  <2>2. bit(r.rbx, W - 1) \in Int
    BY <2>1, BitType
  <2>3. (2 * r.rbx) % Pow2[W] \in Int
    BY <1>0, <2>1
  <2> QED
    BY <2>1, <2>2, <2>3 DEF contar_uno
<1>2. step \in [(1 .. W) \X S -> S]
  <2> HIDE DEF S
  <2> QED
    BY <1>1
<1>3. s0 \in S
  BY <1>0 DEF Word
<1> HIDE DEF S, s0
<1>4. PICK g \in [0 .. W -> S] :
         g = [i \in 0 .. W |-> IF i = 0 THEN s0 ELSE step[<<i, g[i - 1]>>]]
  <2>1. Computes(W, S, s0, step)
    BY <1>0, <1>2, <1>3 DEF Computes
  <2> HIDE DEF step
  <2>2. Computed(W, S, s0, step)
    BY <2>1, SegmentRecursion
  <2> QED
    BY <2>2 DEF Computed
<1>5. g = G(g)
  <2> SUFFICES ASSUME NEW i \in 0 .. W
               PROVE  g[i] = G(g)[i]
    BY <1>4
  <2>1. CASE i = 0
    BY <1>4, <2>1
  <2>2. CASE i # 0
    <3>1. i \in 1 .. W /\ i - 1 \in 0 .. W
      BY <1>0, <2>2
    <3>2. g[i - 1] \in S
      BY <3>1
    <3>3. g[i] = step[<<i, g[i - 1]>>]
      BY <1>4, <2>2
    <3> QED
      BY <2>2, <3>1, <3>2, <3>3
  <2> QED
    BY <2>1, <2>2
<1>6. f = G(f)
  <2>1. f = CHOOSE h : h = G(h)
    BY DEF Counting, s0
  <2> HIDE DEF f, G
  <2> QED
    BY <1>5, <2>1
<1>7. ASSUME NEW k \in 0 .. W - 1
      PROVE  f[k + 1] = contar_uno(f[k])
  <2>1. k + 1 \in 0 .. W /\ k + 1 # 0 /\ (k + 1) - 1 = k
    BY <1>0
  <2> HIDE DEF f
  <2> QED
    BY <1>6, <2>1
<1>8. f[0] = s0 /\ f = [k \in 0 .. W |-> f[k]]
  <2> HIDE DEF f
  <2> QED
    BY <1>0, <1>6
<1> HIDE DEF f
<1>9. \A k \in 0 .. W : f[k] \in S
  <2> DEFINE A == {k \in Nat : k =< W => f[k] \in S}
  <2>1. 0 \in A
    BY <1>3, <1>8
  <2>2. ASSUME NEW k \in Nat, k \in A PROVE k + 1 \in A
    <3> SUFFICES ASSUME k + 1 =< W PROVE f[k + 1] \in S
      OBVIOUS
    <3>1. k \in 0 .. W - 1 /\ f[k] \in S
      BY <1>0, <2>2
    <3> QED
      BY <1>1, <1>7, <3>1
  <2> HIDE DEF A
  <2>3. Nat \subseteq A
    BY <2>1, <2>2, NatInduct
  <2> QED
    BY <1>0, <2>3 DEF A
<1> QED
  BY <1>7, <1>8, <1>9 DEF f, S, s0

\* One bit more, from the highest down.
LEMMA OneMoreBit ==
    ASSUME NEW x \in Int, NEW e \in 0 .. W - 1
    PROVE  /\ IsFiniteSet(OnesFrom(x, e))
           /\ Cardinality(OnesFrom(x, e)) =
                Cardinality(OnesFrom(x, e + 1)) + bit(x, e)
<1>0. W \in Nat /\ e \in Nat /\ e + 1 \in Nat
  BY WidthAssumption
<1>1. IsFiniteSet(OnesFrom(x, e + 1)) /\ IsFiniteSet(OnesFrom(x, e))
  <2>1. IsFiniteSet(e + 1 .. W - 1) /\ IsFiniteSet(e .. W - 1)
    BY <1>0, FS_Interval
  <2>2. /\ OnesFrom(x, e + 1) \in SUBSET (e + 1 .. W - 1)
        /\ OnesFrom(x, e) \in SUBSET (e .. W - 1)
    BY DEF OnesFrom
  <2> QED
    BY <2>1, <2>2, FS_Subset
<1>2. Cardinality(OnesFrom(x, e + 1)) \in Nat
  BY <1>1, FS_CardinalityType
<1>3. CASE bit(x, e) = 1
  <2>1. OnesFrom(x, e) = OnesFrom(x, e + 1) \cup {e}
    BY <1>0, <1>3 DEF OnesFrom
  <2>2. e \notin OnesFrom(x, e + 1)
    BY <1>0 DEF OnesFrom
  <2>3. Cardinality(OnesFrom(x, e + 1) \cup {e}) =
           Cardinality(OnesFrom(x, e + 1)) + 1
    BY <1>1, <2>2, FS_AddElement
  <2> QED
    BY <1>1, <1>3, <2>1, <2>3
<1>4. CASE bit(x, e) = 0
  <2>1. OnesFrom(x, e) = OnesFrom(x, e + 1)
    BY <1>0, <1>4 DEF OnesFrom
  <2> QED
    BY <1>1, <1>2, <1>4, <2>1
<1> QED
  BY <1>0, <1>3, <1>4, BitType

\* A word turned left: what has passed over the top is at the bottom.
LEMMA TurnLeft ==
    ASSUME NEW x \in Word, NEW k \in 0 .. W - 1, NEW r,
           r = (x % Pow2[W - k]) * Pow2[k] + (x \div Pow2[W - k])
    PROVE  /\ bit(r, W - 1) = bit(x, W - k - 1)
           /\ ((2 * r) % Pow2[W]) + bit(r, W - 1) =
                 (x % Pow2[W - k - 1]) * Pow2[k + 1] + (x \div Pow2[W - k - 1])
<1> DEFINE e == W - k - 1
           q == Pow2[k]
           p == Pow2[e]
           b == bit(x, e)
           l == x % p
           u == x \div p
           h == u \div 2
<1>0. /\ W \in Nat \ {0} /\ e \in Nat /\ k \in Nat /\ e + 1 = W - k
      /\ k + e = W - 1 /\ W - 1 \in Nat /\ (W - k) + k = W /\ W - k \in Nat
  BY WidthAssumption
<1>1. /\ Pow2[W - k] = 2 * p /\ Pow2[W - 1] = q * p /\ Pow2[k + 1] = 2 * q
      /\ p \in Nat \ {0} /\ q \in Nat \ {0} /\ Pow2[W] = (2 * p) * q
  <2>1. Pow2[e + 1] = 2 * p /\ Pow2[k + 1] = 2 * q
    BY <1>0, Pow2Step
  <2>2. Pow2[k + e] = q * p
    BY <1>0, Pow2Plus
  <2>3. Pow2[(W - k) + k] = Pow2[W - k] * q
    BY <1>0, Pow2Plus
  <2>4. p \in Nat \ {0} /\ q \in Nat \ {0}
    BY <1>0, Pow2Positive
  <2> QED
    BY <1>0, <2>1, <2>2, <2>3, <2>4
<1>2. x \in 0 .. Pow2[W] - 1 /\ x \in Int
  <2>1. Pow2[W] \in Nat
    BY <1>0, Pow2Positive
  <2> QED
    BY <2>1 DEF Word
<1>3. /\ l \in 0 .. p - 1 /\ u \in Int /\ b \in 0 .. 1 /\ h \in Int
      /\ x = p * u + l /\ u = 2 * h + b
  <2>1. l \in 0 .. p - 1 /\ u \in Int /\ x = p * u + l
    BY <1>1, <1>2, Division
  <2>2. b = u % 2
    BY DEF bit
  <2> HIDE DEF u
  <2>3. h \in Int /\ u % 2 \in 0 .. 1 /\ u = 2 * h + (u % 2)
    BY <2>1
  <2> QED
    BY <2>1, <2>2, <2>3
<1>4. x % Pow2[W - k] = l + b * p /\ x \div Pow2[W - k] = h
  BY <1>0, <1>2, BitSplit
<1> HIDE DEF e, p, q, b, l, u, h
<1>5. h \in 0 .. q - 1
  <2>0. l + b * p \in 0 .. 2 * p - 1
    <3>1. b * p \in 0 .. p
      BY <1>1, <1>3
    <3> QED
      BY <1>1, <1>3, <3>1
  <2> DEFINE t == l + b * p
             d == 2 * p
  <2>1. x = d * h + t
    <3>1. p * (2 * h + b) = (2 * p) * h + b * p
      BY <1>1, <1>3
    <3>2. b * p \in Int /\ (2 * p) * h \in Int
      BY <1>1, <1>3
    <3> QED
      BY <1>1, <1>3, <3>1, <3>2
  <2>2. d \in Nat \ {0} /\ t \in 0 .. d - 1 /\ x \in 0 .. d * q - 1
    BY <1>1, <1>2, <2>0
  <2> HIDE DEF t, d
  <2>3. ASSUME h =< -1 PROVE FALSE
    <3>1. d * (-1 - h) >= 0 /\ d * (-1 - h) = -d - d * h
      BY <1>3, <2>2, <2>3
    <3> QED
      BY <1>2, <1>3, <2>1, <2>2, <3>1
  <2>4. ASSUME h >= q PROVE FALSE
    <3>1. d * (h - q) >= 0 /\ d * (h - q) = d * h - d * q
      BY <1>1, <1>3, <2>2, <2>4
    <3> QED
      BY <1>1, <1>2, <1>3, <2>1, <2>2, <3>1
  <2> QED
    BY <1>1, <1>3, <2>3, <2>4
<1> DEFINE s == h + l * q
           m == q * p
<1>6. s \in 0 .. m - 1 /\ m \in Nat \ {0}
  BY <1>1, <1>3, <1>5, OneMoreDigit
<1>7. r = m * b + s
  <2>1. /\ (l + b * p) * q = l * q + (q * p) * b
        /\ l * q \in Int /\ (q * p) * b \in Int
    BY <1>1, <1>3
  <2> QED
    BY <1>3, <1>4, <2>1 DEF q
<1>8. Pow2[W] = 2 * m /\ Pow2[W - 1] = m
  <2>1. (2 * p) * q = 2 * (q * p)
    BY <1>1
  <2> QED
    BY <1>1, <2>1
<1>9. s * 2 + b = l * (2 * q) + (2 * h + b)
  BY <1>1, <1>3
<1> HIDE DEF s, m
<1>10. (m * b + s) \div m = b
  BY <1>3, <1>6, DivisionUnique
<1>11. bit(r, W - 1) = b
  <2>1. b % 2 = b
    BY <1>3
  <2> QED
    BY <1>7, <1>8, <1>10, <2>1 DEF bit
<1>12. (2 * r) % (2 * m) = 2 * s
  <2>1. 2 * r = (2 * m) * b + 2 * s
    <3>1. (2 * m) * b = 2 * (m * b) /\ m * b \in Int
      BY <1>3, <1>6
    <3> QED
      BY <1>6, <1>7, <3>1
  <2>2. 2 * m \in Nat \ {0} /\ 2 * s \in 0 .. 2 * m - 1
    BY <1>6
  <2> QED
    BY <1>3, <2>1, <2>2, DivisionUnique
<1>13. 2 * s + b = l * (2 * q) + u
  BY <1>3, <1>6, <1>9
<1> QED
  BY <1>1, <1>8, <1>11, <1>12, <1>13 DEF b, l, u, p, e

\* After W turns every bit has passed the carry once, and rbx is back.
LEMMA CountExact ==
    ASSUME NEW x \in Word
    PROVE  CountOnes(x) =
              [rbx |-> x,
               rax |-> Cardinality({j \in 0 .. W - 1 : bit(x, j) = 1})]
<1> DEFINE f == Counting(x)
           Turned(k) == (x % Pow2[W - k]) * Pow2[k] + (x \div Pow2[W - k])
           Count(k) == Cardinality(OnesFrom(x, W - k))
           A == {k \in Nat : k =< W =>
                   f[k] = [rbx |-> Turned(k), rax |-> Count(k)]}
<1>0. /\ W \in Nat \ {0} /\ Pow2[W] \in Nat \ {0} /\ x \in Int
      /\ x \in 0 .. Pow2[W] - 1
  BY WidthAssumption, Pow2Positive DEF Word
<1>1. /\ f[0] = [rbx |-> x, rax |-> 0]
      /\ \A k \in 0 .. W - 1 : f[k + 1] = contar_uno(f[k])
  BY CountingFunction
<1> HIDE DEF f
<1>2. 0 \in A
  <2>1. W - 0 = W
    BY <1>0
  <2>2. x % Pow2[W] = x
    BY <1>0, SmallModulo
  <2>3. x \div Pow2[W] = 0
    <3> DEFINE p == Pow2[W]
    <3>1. (p * 0 + x) \div p = 0
      <4> HIDE DEF p
      <4> QED
        BY <1>0, DivisionUnique DEF p
    <3>2. p * 0 + x = x
      BY <1>0
    <3> QED
      BY <3>1, <3>2
  <2>4. Turned(0) = x
    <3>1. x * 1 + 0 = x
      BY <1>0
    <3> QED
      BY <2>1, <2>2, <2>3, <3>1, Pow2Step
  <2>5. Count(0) = 0
    <3>1. OnesFrom(x, W) = {}
      BY <1>0 DEF OnesFrom
    <3> QED
      BY <2>1, <3>1, FS_EmptySet
  <2> HIDE DEF Turned, Count
  <2> QED
    BY <1>1, <2>4, <2>5
<1>3. ASSUME NEW k \in Nat, k \in A PROVE k + 1 \in A
  <2> SUFFICES ASSUME k + 1 =< W
               PROVE  f[k + 1] = [rbx |-> Turned(k + 1), rax |-> Count(k + 1)]
    OBVIOUS
  <2>1. k \in 0 .. W - 1 /\ k =< W
    BY <1>0
  <2>2. f[k] = [rbx |-> Turned(k), rax |-> Count(k)]
    BY <1>3, <2>1
  <2> DEFINE r == Turned(k)
             e == W - k - 1
  <2>3. W - (k + 1) = e /\ e + 1 = W - k /\ e \in 0 .. W - 1
    BY <1>0, <2>1
  <2>4. /\ bit(r, W - 1) = bit(x, e)
        /\ ((2 * r) % Pow2[W]) + bit(r, W - 1) = Turned(k + 1)
    <3>1. r = (x % Pow2[W - k]) * Pow2[k] + (x \div Pow2[W - k])
      OBVIOUS
    <3>2. Turned(k + 1) = (x % Pow2[e]) * Pow2[k + 1] + (x \div Pow2[e])
      BY <2>3
    <3> HIDE DEF r, Turned
    <3> QED
      BY <2>1, <3>1, <3>2, TurnLeft
  <2>5. Count(k + 1) = Count(k) + bit(x, e)
    <3>1. Cardinality(OnesFrom(x, e)) =
             Cardinality(OnesFrom(x, e + 1)) + bit(x, e)
      BY <1>0, <2>3, OneMoreBit
    <3> QED
      BY <2>3, <3>1
  <2>6. f[k + 1] = [rbx |-> ((2 * r) % Pow2[W]) + bit(r, W - 1),
                    rax |-> Count(k) + bit(r, W - 1)]
    <3> HIDE DEF r, Count, Turned
    <3> QED
      BY <1>1, <2>1, <2>2 DEF contar_uno, r
  <2> HIDE DEF r, Turned, Count
  <2> QED
    BY <2>4, <2>5, <2>6
<1> HIDE DEF A
<1>4. Nat \subseteq A
  BY <1>2, <1>3, NatInduct
<1>5. f[W] = [rbx |-> Turned(W), rax |-> Count(W)]
  BY <1>0, <1>4 DEF A
<1>6. W - W = 0
  BY <1>0
<1>7. Turned(W) = x
  <2>1. x % 1 = 0 /\ x \div 1 = x
    BY <1>0
  <2>2. 0 * Pow2[W] + x = x
    BY <1>0
  <2> QED
    BY <1>6, <2>1, <2>2, Pow2Step
<1>8. Count(W) = Cardinality({j \in 0 .. W - 1 : bit(x, j) = 1})
  BY <1>6 DEF OnesFrom
<1> HIDE DEF Turned, Count
<1> QED
  BY <1>5, <1>7, <1>8 DEF CountOnes, f

\* On words of any width mult.c returns the product modulo the width, and
\* ej2.s the number of the bits that are set, with the word as it was.
THEOREM WordsExact ==
    \A x, y \in Word : WordExact(x, y)
  BY MultWordExact, CountExact DEF WordExact


-----------------------------------------------------------------------------
\* The run's property.  It has swap pass round three words of a number, so that
\* the number has at least three.
WellCalled == call = NoCall \/ call \in Call

LEMMA CharactersTyped ==
    ASSUME NEW n \in LongNumber
    PROVE  Characters(n) \in [1 .. N -> Bits] /\ Characters(n) \in Seq(Bits)
<1>1. \A x : WordBits(x) \in Bits
  BY DEF WordBits, Bits
<1>2. Characters(n) \in [1 .. N -> Bits]
  BY <1>1 DEF Characters
<1> QED
  BY <1>2, WidthAssumption

\* Whatever numbers the routines are called with, what they return is exact:
\* the arithmetic, swap's three places and the two ciphers.
THEOREM RoutinesAlwaysExact ==
    ASSUME N >= 3
    PROVE  Spec => []RoutinesExact
<1>1. Init => WellCalled
  BY DEF Init, WellCalled
<1>2. WellCalled /\ [Next]_<<findVars, call>> => WellCalled'
  BY DEF WellCalled, Next, NoCall, Call
<1>3. WellCalled => RoutinesExact
  <2> SUFFICES ASSUME call \in Call
               PROVE  RoutinesExact
    BY DEF WellCalled, RoutinesExact
  <2>1. PICK a \in LongNumber, b \in LongNumber : call = <<a, b>>
    BY DEF Call
  <2>2. LongExact(a, b)
    BY LongNumbersExact
  <2>3. WordExact(a[0], b[0])
    <3>1. a[0] \in Word /\ b[0] \in Word
      BY WidthAssumption DEF LongNumber, WordIndex
    <3> QED
      BY <3>1, WordsExact
  <2>4. Rotated(Characters(a), 1, 2, 3)
    <3>1. /\ 1 \in 1 .. N /\ 2 \in 1 .. N /\ 3 \in 1 .. N
          /\ 1 # 2 /\ 2 # 3 /\ 1 # 3
      BY WidthAssumption
    <3> QED
      BY <3>1, CharactersTyped, SwapRotates
  <2>5. Deciphered(Characters(a), WordBits(b[0]))
    <3>1. WordBits(b[0]) \in Bits
      BY DEF WordBits, Bits
    <3> QED
      BY <3>1, CharactersTyped, CypherUndone
  <2>6. call[1] = a /\ call[2] = b
    BY <2>1
  <2> QED
    BY <2>2, <2>3, <2>4, <2>5, <2>6 DEF RoutinesExact
<1> QED
  BY <1>1, <1>2, <1>3, PTL DEF Spec
=============================================================================
