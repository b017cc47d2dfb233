------------------------------ MODULE FieldVal ------------------------------
(***************************************************************************)
(* xdago/secp256k1/field.go: numbers modulo the field's prime held in      *)
(* machine words that are only partly used.  The spare bits let additions  *)
(* and negations go without carries; how many a value may have used is its *)
(* magnitude, which the caller keeps in its head.                          *)
(*                                                                         *)
(* The sizes are constants: ten words of 26 bits (the last of 22) in words *)
(* of 32 bits with products in 64, and the prime 2^256 - 64*2^26 - 977.    *)
(* The unrolled lines of the code are the columns and the words of these   *)
(* definitions.  A value and its bytes are both the number they stand for. *)
(***************************************************************************)
EXTENDS Integers

LOCAL INSTANCE FiniteSetsExt

CONSTANTS
    Words,     \* 10
    Base,      \* fieldBase, 26
    MSBBits,   \* fieldMSBBits, 22
    WordBits,  \* 32
    WideBits,  \* 64
    C0, C1,    \* 977 and 64
    MaxMul,    \* the greatest magnitude of a factor, 8
    Operands,  \* bound: the numbers a run starts from and combines with
    MaxOps     \* bound: operations in a row

FieldBits == (Words - 1) * Base + MSBBits
Prime == 2^FieldBits - C1 * 2^Base - C0
BaseMask == 2^Base - 1
MSBMask == 2^MSBBits - 1
LastWord == Words - 1
FieldIndices == 0..LastWord
FieldMaxMagnitude == 2^(WordBits - Base) - 1

ASSUME FieldAssumption ==
    /\ Words > 2 /\ MSBBits < Base /\ Base < WordBits
    /\ (FieldMaxMagnitude + 1) * C0 < 2^Base /\ (FieldMaxMagnitude + 1) * C1 < 2^Base

VARIABLES
    f,          \* the words of a FieldVal
    magnitude,  \* its magnitude, as its caller counts it
    normal,     \* whether it is normalized
    value,      \* history: the number it should stand for
    ops         \* operations so far

fieldVars == <<f, magnitude, normal, value, ops>>

-----------------------------------------------------------------------------
(* Words *)

Word(x) == x % 2^WordBits
Wide(x) == x % 2^WideBits

\* The number the words stand for.
ValueOf(w) == MapThenSumSet(LAMBDA i : w[i] * 2^(i * Base), FieldIndices)

PrimeWord(i) ==
    CASE i = 0 -> 2^Base - C0
      [] i = 1 -> BaseMask - C1
      [] i = LastWord -> MSBMask
      [] OTHER -> BaseMask

\* SetBytes: the words of a number below 2^FieldBits, and whether it overflows.
SetBytes(x) == [i \in FieldIndices |-> (x \div 2^(i * Base)) % 2^Base]

Overflow(w) ==
    /\ \A i \in 2..LastWord : w[i] = PrimeWord(i)
    /\ \/ w[1] > PrimeWord(1)
       \/ w[1] = PrimeWord(1) /\ w[0] >= PrimeWord(0)

\* Every word but the last hands what exceeds Base bits to the next.
Carried(w) ==
    LET t[i \in FieldIndices] == Word(w[i] + (IF i = 0 THEN 0 ELSE t[i - 1] \div 2^Base))
    IN  [i \in FieldIndices |-> IF i = LastWord THEN t[i] ELSE t[i] % 2^Base]

\* Adds m times 2^FieldBits modulo the prime.
Folded(w, m) == Carried([w EXCEPT ![0] = @ + m * C0, ![1] = @ + m * C1])

\* Mutant: the value is not compared with the prime before the second fold.
FieldNormalizeOnce(w) ==
    LET r == Folded([w EXCEPT ![LastWord] = @ % 2^MSBBits], w[LastWord] \div 2^MSBBits)
        s == Folded(r, r[LastWord] \div 2^MSBBits)
    IN  [s EXCEPT ![LastWord] = @ % 2^MSBBits]

\* Normalize: what exceeds the last word is folded, then once more when the
\* result still exceeds it or is not below the prime.
FieldNormalize(w) ==
    LET r == Folded([w EXCEPT ![LastWord] = @ % 2^MSBBits], w[LastWord] \div 2^MSBBits)
        high == /\ r[LastWord] = MSBMask
                /\ \A i \in 2..(LastWord - 1) : r[i] = BaseMask
                /\ r[1] + C1 + (r[0] + C0) \div 2^Base > BaseMask
        m == IF high THEN 1 ELSE r[LastWord] \div 2^MSBBits
        s == Folded(r, m)
    IN  [s EXCEPT ![LastWord] = @ % 2^MSBBits]

FieldAdd(v, w) == [i \in FieldIndices |-> Word(v[i] + w[i])]
FieldMulInt(w, ui) == [i \in FieldIndices |-> Word(w[i] * ui)]
FieldAddInt(w, ui) == [w EXCEPT ![0] = Word(@ + ui)]

\* NegateVal: a multiple of the prime minus the value, word by word.
FieldNegate(w, mag) == [i \in FieldIndices |-> Word((mag + 1) * PrimeWord(i) - w[i])]

\* IsZero, IsOne and IsOdd look at the words, Equals compares them.
FieldIsZero(w) == \A i \in FieldIndices : w[i] = 0
FieldIsOne(w) == w[0] = 1 /\ \A i \in 1..LastWord : w[i] = 0
FieldIsOdd(w) == w[0] % 2 = 1
FieldEquals(v, w) == \A i \in FieldIndices : v[i] = w[i]

\* The columns of a product, each with the carry of the one before; the last
\* holds the carry alone.
Product(v, w) ==
    LET column(k) == MapThenSumSet(LAMBDA i : v[i] * w[k - i], {i \in FieldIndices : k - i \in FieldIndices})
        m[k \in 0..2 * LastWord] == Wide(column(k) + (IF k = 0 THEN 0 ELSE m[k - 1] \div 2^Base))
    IN  [k \in 0..(2 * LastWord + 1) |->
            IF k > 2 * LastWord THEN m[k - 1] \div 2^Base ELSE m[k] % 2^Base]

\* The columns of a square: a product of two different words counts twice.
SquareProduct(w) ==
    LET column(k) == MapThenSumSet(LAMBDA i : (IF 2 * i = k THEN 1 ELSE 2) * w[i] * w[k - i],
                                   {i \in FieldIndices : k - i \in FieldIndices /\ 2 * i <= k})
        m[k \in 0..2 * LastWord] == Wide(column(k) + (IF k = 0 THEN 0 ELSE m[k - 1] \div 2^Base))
    IN  [k \in 0..(2 * LastWord + 1) |->
            IF k > 2 * LastWord THEN m[k - 1] \div 2^Base ELSE m[k] % 2^Base]

\* The upper half is worth C0 and C1 times itself, shifted by the bits the last
\* word lacks; what exceeds the last word is folded once more, and only the
\* first two words are carried.
Reduced(t) ==
    LET shift == 2^(Base - MSBBits)
        upper(k) == IF k \in DOMAIN t THEN t[k] ELSE 0
        low(i) == IF i = LastWord
                  THEN t[i] + upper(i + LastWord) * C1 * shift
                            + upper(i + Words) * (C0 + C1 * 2^Base) * shift
                  ELSE t[i] + upper(i + Words) * C0 * shift
                            + (IF i = 0 THEN 0 ELSE upper(i + LastWord) * C1 * shift)
        m[i \in FieldIndices] == Wide(low(i) + (IF i = 0 THEN 0 ELSE m[i - 1] \div 2^Base))
        r == [i \in FieldIndices |-> IF i = LastWord THEN m[i] % 2^MSBBits ELSE m[i] % 2^Base]
        over == m[LastWord] \div 2^MSBBits
        d0 == r[0] + over * C0
        d1 == d0 \div 2^Base + r[1] + over * C1
    IN  [r EXCEPT ![0] = d0 % 2^Base, ![1] = d1 % 2^Base, ![2] = Word(@ + d1 \div 2^Base)]

FieldMul2(v, w) == Reduced(Product(v, w))
FieldSquareVal(w) == Reduced(SquareProduct(w))

\* IsGtOrEqPrimeMinusOrder, for any bound: word by word from the highest.
AtLeast(w, bound) ==
    LET b == SetBytes(bound)
    IN  \/ \E i \in FieldIndices : w[i] > b[i] /\ \A j \in i..LastWord : j > i => w[j] = b[j]
        \/ \A i \in FieldIndices : w[i] = b[i]

-----------------------------------------------------------------------------
(* Chains of operations *)

FieldInit ==
    \E x \in Operands :
        /\ f = SetBytes(x)
        /\ magnitude = 1
        /\ normal = ~Overflow(f)
        /\ value = x % Prime
        /\ ops = 0

Becomes(words, mag, x, isNormal) ==
    /\ ops < MaxOps
    /\ ops' = ops + 1
    /\ f' = words
    /\ magnitude' = mag
    /\ value' = x % Prime
    /\ normal' = isNormal

DoNormalize == Becomes(FieldNormalize(f), 1, value, TRUE)

DoAdd(x) == magnitude < FieldMaxMagnitude /\ Becomes(FieldAdd(f, SetBytes(x)), magnitude + 1, value + x, FALSE)

DoDouble == 2 * magnitude <= FieldMaxMagnitude /\ Becomes(FieldAdd(f, f), 2 * magnitude, 2 * value, FALSE)

DoAddInt(ui) ==
    magnitude < FieldMaxMagnitude /\ Becomes(FieldAddInt(f, ui), magnitude + 1, value + ui, FALSE)

DoMulInt(ui) ==
    ui * magnitude <= FieldMaxMagnitude /\ Becomes(FieldMulInt(f, ui), ui * magnitude, ui * value, FALSE)

DoNegate ==
    magnitude < FieldMaxMagnitude /\ Becomes(FieldNegate(f, magnitude), magnitude + 1, -value, FALSE)

DoMul(x) == magnitude <= MaxMul /\ Becomes(FieldMul2(f, SetBytes(x)), 1, value * x, FALSE)

DoSquare == magnitude <= MaxMul /\ Becomes(FieldSquareVal(f), 1, value * value, FALSE)

FieldNext ==
    \/ DoNormalize \/ DoDouble \/ DoNegate \/ DoSquare
    \/ \E x \in Operands : DoAdd(x) \/ DoMul(x)
    \/ \E ui \in 1..FieldMaxMagnitude : DoAddInt(ui) \/ DoMulInt(ui)

FieldSpec == FieldInit /\ [][FieldNext]_fieldVars

-----------------------------------------------------------------------------

\* Whatever operations a value went through within its magnitude, no word has
\* wrapped: it is still the number it should be modulo the prime, a normalized
\* one is that number itself, and the tests made on words are true of it.
FieldExact ==
    /\ ValueOf(f) % Prime = value
    /\ normal =>
        /\ ValueOf(f) = value
        /\ FieldIsZero(f) <=> value = 0
        /\ FieldIsOne(f) <=> value = 1
        /\ FieldIsOdd(f) <=> value % 2 = 1
        /\ \A x \in Operands :
            /\ x < Prime => (FieldEquals(f, SetBytes(x)) <=> value = x)
            /\ AtLeast(f, x) <=> value >= x
=============================================================================
