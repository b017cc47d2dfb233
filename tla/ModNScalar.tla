----------------------------- MODULE ModNScalar -----------------------------
(***************************************************************************)
(* xdago/secp256k1/modnscalar.go: numbers modulo the order of the group in *)
(* full machine words, always reduced.  Products are summed column by      *)
(* column in an accumulator of three words; the part above the top word is *)
(* folded in twice by multiplying it with the two's complement of the      *)
(* order, whose upper half is a single 1.                                  *)
(*                                                                         *)
(* The sizes are constants: eight words of 32 bits.  A scalar's bytes are  *)
(* the number they stand for.                                              *)
(***************************************************************************)
EXTENDS Integers, Sequences

LOCAL INSTANCE FiniteSetsExt

CONSTANTS
    ScalarWords,      \* 8
    ScalarBits,       \* bits of a word, 32
    OrderComplement,  \* 2^256 minus the order, without its highest bit, 2^128
    Scalars           \* bound: the second operands

Radix == 2^ScalarBits
Top == ScalarWords - 1
ScalarIndices == 0..Top
Half == ScalarWords \div 2

ASSUME ScalarAssumption ==
    ScalarWords > 2 /\ ScalarWords % 2 = 0 /\ OrderComplement \in 1..(Radix^Half - 1)

Capacity == Radix^ScalarWords
Order == Capacity - Radix^Half - OrderComplement
HalfOrder == Order \div 2

VARIABLES
    s,       \* the words of a ModNScalar
    scalar   \* history: the number it should stand for

scalarVars == <<s, scalar>>

-----------------------------------------------------------------------------

\* The words of a number, and the number of words.
WordsOf(x, n) == [i \in 0..(n - 1) |-> (x \div Radix^i) % Radix]
NumberOf(w) == MapThenSumSet(LAMBDA i : w[i] * Radix^i, DOMAIN w)

OrderWord == WordsOf(Order, ScalarWords)
HalfOrderWord == WordsOf(HalfOrder, ScalarWords)
ComplementWord == WordsOf(Radix^Half + OrderComplement, ScalarWords)

\* constantTimeLess: the sign of a difference in twice the bits.
ConstantTimeLess(a, b) == ((a - b) % Radix^2) \div (Radix^2 \div 2)

Flag(b) == IF b THEN 1 ELSE 0

\* overflows: the words above the middle are compared for equality only, as
\* those of the order are all ones.
Overflows(w) ==
    /\ \A i \in (Half + 1)..Top : w[i] = OrderWord[i]
    /\ \/ \E i \in 0..Half : w[i] > OrderWord[i] /\ \A j \in i..Half : j > i => w[j] = OrderWord[j]
       \/ \A i \in 0..Half : w[i] = OrderWord[i]

\* The words of t plus those of u, and the carry out of the top word.
Sum(t, u) ==
    LET carries[i \in 0..ScalarWords] ==
            IF i = 0 THEN <<0>>
            ELSE LET before == carries[i - 1]
                 IN  Append(before, (t[i - 1] + u[i - 1] + before[i]) \div Radix)
        c == carries[ScalarWords]
    IN  [words |-> [i \in ScalarIndices |-> (t[i] + u[i] + c[i + 1]) % Radix],
         carry |-> c[ScalarWords + 1]]

Scaled(m) == [i \in ScalarIndices |-> m * ComplementWord[i]]

\* reduce256: the complement is added as often as the order is exceeded.
Reduce256(w, overflows) == Sum(w, Scaled(overflows)).words

ReduceSum(r) == Reduce256(r.words, r.carry + Flag(Overflows(r.words)))

\* Mutant: the carry out of the top word is forgotten.
ScalarAdd2ForgetsCarry(v, w) ==
    LET r == Sum(v, w) IN Reduce256(r.words, Flag(Overflows(r.words)))

ScalarAdd2(v, w) == ReduceSum(Sum(v, w))

\* NegateVal: the order plus the two's complement, 0 for 0.
NegateScalar(w) ==
    LET u == [i \in ScalarIndices |-> Radix - 1 - w[i] + Flag(i = 0)]
    IN  IF NumberOf(w) = 0 THEN w ELSE Sum(OrderWord, u).words

\* accumulator96.Add
AccAdd(acc, v) ==
    LET low == v % Radix
        n0 == (acc[1] + low) % Radix
        hi == v \div Radix + ConstantTimeLess(n0, low)
        n1 == (acc[2] + hi) % Radix
    IN  <<n0, n1, acc[3] + ConstantTimeLess(n1, hi)>>

\* accumulator96.Rsh32
Rsh32(acc) == <<acc[2], acc[3], 0>>

\* n columns: those of the products of v and w, and the words of t.  The
\* accumulator of a column is that of the one before, shifted.
Columns(t, v, w, n) ==
    LET products(k) == {i \in DOMAIN v : k - i \in DOMAIN w}
        accs[k \in 0..n] ==
            IF k = 0 THEN <<<<0, 0, 0>>>>
            ELSE LET before == accs[k - 1]
                     shifted == Rsh32(before[k])
                     first == IF k - 1 \in DOMAIN t THEN AccAdd(shifted, t[k - 1]) ELSE shifted
                 IN  Append(before, FoldSet(LAMBDA i, a : AccAdd(a, v[i] * w[k - 1 - i]),
                                            first, products(k - 1)))
        columns == accs[n]
    IN  [k \in 0..(n - 1) |-> columns[k + 2][1]]

\* reduce512 and reduce385: what lies above the top word, times the complement,
\* is added to what lies below, in n columns.
FoldHigh(t, n) ==
    LET low == [i \in ScalarIndices |-> t[i]]
        high == [i \in {j - ScalarWords : j \in {k \in DOMAIN t : k > Top}} |-> t[i + ScalarWords]]
        comp == [i \in 0..Half |-> ComplementWord[i]]
    IN  Columns(low, high, comp, n)

ScalarMul2(v, w) ==
    LET product == Columns(<<>>, v, w, 2 * ScalarWords)
        t385 == FoldHigh(product, ScalarWords + Half + 1)
        t258 == FoldHigh(t385, ScalarWords + 1)
    IN  ReduceSum(Sum(t258, Scaled(t258[ScalarWords])))

\* IsOverHalfOrder: of the words from the middle to the second, which are all
\* ones in half of the order, only equality is checked.
IsOverHalfOrder(w) ==
    \/ w[Top] > HalfOrderWord[Top]
    \/ /\ \A i \in Half..Top : w[i] = HalfOrderWord[i]
       /\ \E i \in 0..(Half - 1) :
            /\ w[i] > HalfOrderWord[i]
            /\ \A j \in i..(Half - 1) : j > i => w[j] = HalfOrderWord[j]

\* SetBytes: reduced, and whether it had to be.
SetScalar(x) ==
    LET w == WordsOf(x, ScalarWords)
    IN  [words |-> Reduce256(w, Flag(Overflows(w))), overflow |-> Overflows(w)]

-----------------------------------------------------------------------------

ScalarInit ==
    \E x \in 0..(Capacity - 1) :
        /\ s = SetScalar(x).words
        /\ scalar = x % Order
        /\ SetScalar(x).overflow <=> x >= Order

DoAdd2(x) == s' = ScalarAdd2(s, WordsOf(x, ScalarWords)) /\ scalar' = (scalar + x) % Order
DoMul2(x) == s' = ScalarMul2(s, WordsOf(x, ScalarWords)) /\ scalar' = (scalar * x) % Order
DoNegateScalar == s' = NegateScalar(s) /\ scalar' = (-scalar) % Order

ScalarNext == DoNegateScalar \/ \E x \in Scalars : DoAdd2(x) \/ DoMul2(x)

ScalarSpec == ScalarInit /\ [][ScalarNext]_scalarVars

-----------------------------------------------------------------------------

\* After any operations a scalar is the number it should be, below the order,
\* and the test for a high S is true of exactly the upper half.
ScalarExact ==
    /\ NumberOf(s) = scalar
    /\ IsOverHalfOrder(s) <=> scalar > HalfOrder
=============================================================================
