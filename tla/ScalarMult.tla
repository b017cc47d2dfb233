----------------------------- MODULE ScalarMult -----------------------------
(***************************************************************************)
(* Multiplying a point by a scalar, xdago/secp256k1/curve.go, and the      *)
(* tables genprecomps.go makes for it.  The scalar is split in two halves  *)
(* by the curve's endomorphism, each half is written in non-adjacent form, *)
(* and both are gone through from the highest digit, doubling in between.  *)
(*                                                                         *)
(* A point is the multiple of the generator it is, modulo a small order:   *)
(* CurvePoints shows that adding, doubling, negating and the endomorphism  *)
(* do to points what is done here to multiples.  Bytes have ByteBits bits, *)
(* a digit of the 512-bit product DigitBits.                               *)
(***************************************************************************)
EXTENDS Integers, Sequences

CONSTANTS
    MultOrder,  \* the order of the group, a prime that is 1 modulo 3
    ByteBits,   \* 8
    DigitBits,  \* 64
    Bases       \* bound: the points to be multiplied

ByteRadix == 2^ByteBits
DigitRadix == 2^DigitBits
Digits == 4
ScalarBytes == (Digits * DigitBits) \div ByteBits
MultCapacity == DigitRadix^Digits

ASSUME MultAssumption ==
    /\ DigitBits % ByteBits = 0
    /\ MultOrder % 3 = 1 /\ MultOrder > MultCapacity \div 2 /\ MultOrder < MultCapacity

VARIABLES
    lambda,   \* which of the two roots the endomorphism multiplies with
    method,   \* ScalarMultNonConst or ScalarBaseMultNonConst
    k,        \* the scalar
    base,     \* the point it multiplies
    halves,   \* k1 and k2, negated when over half the order
    p1, p2,   \* the points the halves multiply
    at,       \* the next position of the loop, 0 before the scalar is split
    q         \* the sum so far

multVars == <<lambda, method, k, base, halves, p1, p2, at, q>>

-----------------------------------------------------------------------------
(* genprecomps.go *)

Mod(x) == x % MultOrder

\* deriveEndomorphismParams: roots.
Roots == {x \in 1..(MultOrder - 1) : (x * x + x + 1) % MultOrder = 0}

\* The remainders of Euclid's algorithm, and their coefficients of the root.
Less(a, quotient, b) == [r |-> a.r - quotient * b.r, t |-> a.t - quotient * b.t]

WithRemainder(rows, a, b) == IF b.r = 0 THEN rows ELSE Append(rows, Less(a, a.r \div b.r, b))

Longer(rows) == WithRemainder(rows, rows[Len(rows) - 1], rows[Len(rows)])

Remainders(root) ==
    LET rows[i \in 0..MultOrder] ==
            IF i = 0 THEN <<[r |-> root, t |-> 1], [r |-> MultOrder, t |-> 0]>>
            ELSE Longer(rows[i - 1])
    IN  rows[DigitBits * Digits * 2]

Squared(row) == row.r * row.r + row.t * row.t

\* endomorphismVectors: the first remainder below the order's square root, and
\* the shorter of its neighbours.
FirstBelow(rows) ==
    CHOOSE i \in 3..Len(rows) : /\ (rows[i].r + 1) * (rows[i].r + 1) <= MultOrder
                                /\ (rows[i - 1].r + 1) * (rows[i - 1].r + 1) > MultOrder

Shorter(a, b) == IF Squared(a) <= Squared(b) THEN a ELSE b

VectorsAt(rows, j) == [first |-> rows[j], second |-> Shorter(rows[j - 1], rows[j + 1])]

EndomorphismVectors(root) ==
    LET rows == Remainders(root) IN VectorsAt(rows, FirstBelow(rows))

Shift == (Digits + 1) * DigitBits

\* deriveEndomorphismParams, b1 and b2 being the negated coefficients.
ParamsOf(v) ==
    [negB1 |-> Mod(v.first.t), negB2 |-> Mod(v.second.t),
     z1 |-> (-v.second.t * 2^Shift) \div MultOrder, z2 |-> (v.first.t * 2^Shift) \div MultOrder]

EndoParams == [root \in Roots |-> ParamsOf(EndomorphismVectors(root))]

\* serializedBytePoints: what each byte at each position contributes, summed
\* from the doubled generator.
BytePoints ==
    LET doubled[i \in 0..(ByteBits * ScalarBytes)] == IF i = 0 THEN 1 ELSE Mod(2 * doubled[i - 1])
        sum(first, b) ==
            LET s[i \in 0..ByteBits] ==
                    IF i = 0 THEN 0
                    ELSE IF (b \div 2^(i - 1)) % 2 = 1 THEN Mod(s[i - 1] + doubled[first + i - 1])
                    ELSE s[i - 1]
            IN  s[ByteBits]
    IN  [i \in 1..ScalarBytes |-> [b \in 0..(ByteRadix - 1) |-> sum(ByteBits * (ScalarBytes - i), b)]]

-----------------------------------------------------------------------------
(* curve.go *)

\* The bytes of a scalar, the highest first.
BytesOf(x) == [i \in 1..ScalarBytes |-> (x \div ByteRadix^(ScalarBytes - i)) % ByteRadix]

DigitOf(x, i) == (x \div DigitRadix^i) % DigitRadix

\* mulAdd64Carry: the result at place i + j, and the carry into the next.
MulAddCarry(row, i, j, t) ==
    [r |-> [row.r EXCEPT ![i + j] = t % DigitRadix,
                         ![j + Digits] = IF i = Digits - 1 THEN t \div DigitRadix ELSE @],
     c |-> t \div DigitRadix]

OnePlace(row, d1, d2, i, j) ==
    MulAddCarry(row, i, j, d2 * d1 + row.r[i + j] + (IF i = 0 THEN 0 ELSE row.c))

\* The highest bit shifted out rounds.
ShiftedRound(r) ==
    r[5] + r[6] * DigitRadix + r[7] * DigitRadix^2 + r[4] \div (DigitRadix \div 2)

\* mul512Rsh320Round: the product row by row.
Mul512Rsh320Round(n1, n2) ==
    LET run[m \in 0..(Digits * Digits)] ==
            IF m = 0 THEN [r |-> [i \in 0..(2 * Digits - 1) |-> 0], c |-> 0]
            ELSE OnePlace(run[m - 1], DigitOf(n1, (m - 1) % Digits),
                          DigitOf(n2, (m - 1) \div Digits), (m - 1) % Digits, (m - 1) \div Digits)
    IN  ShiftedRound(run[Digits * Digits].r)

\* splitK: k2 from the rounded quotients, k1 from k2.
K2(x, e) == Mod(Mod(Mul512Rsh320Round(x, e.z1) * e.negB1) + Mod(Mul512Rsh320Round(x, e.z2) * e.negB2))

Halves(x, root, k2) == <<Mod(k2 * Mod(-root) + x), k2>>

SplitK(x, root) == Halves(x, root, K2(x, EndoParams[root]))

IsOverHalf(x) == x > MultOrder \div 2

BitOf(x, b) == (x \div 2^b) % 2

\* The digits of a byte of the non-adjacent form and the carry out of it, from
\* half the byte and three halves.
NafDigits(half, three) ==
    [digits |-> [b \in 0..(ByteBits - 1) |-> BitOf(three, b) - BitOf(half, b)],
     carry |-> three \div ByteRadix]

\* The lowest bit of the next byte is shifted in, unless the carry is there.
HalfOf(kc, next) ==
    kc \div 2 + (IF next % 2 = 1 /\ kc < ByteRadix THEN ByteRadix \div 2 ELSE 0)

NafByte(kc, next) == LET half == HalfOf(kc, next) IN NafDigits(half, kc + half)

ByteOf(x, i) == (x \div ByteRadix^i) % ByteRadix

\* Mutant: the carry does not reach the next byte.
NafStepForgetsCarry(before, x, i) ==
    LET out == NafByte(ByteOf(x, i), ByteOf(x, i + 1))
    IN  [digits |-> Append(before.digits, out.digits), carry |-> out.carry]

\* One byte after those gone through.
NafStep(before, x, i) ==
    LET out == NafByte(ByteOf(x, i) + before.carry, ByteOf(x, i + 1))
    IN  [digits |-> Append(before.digits, out.digits), carry |-> out.carry]

\* The digits by their place: a byte that holds the last carry comes on top.
Placed(all) ==
    [i \in 0..(ByteBits * (ScalarBytes + 1) - 1) |->
        IF i \div ByteBits < ScalarBytes THEN all.digits[i \div ByteBits + 1][i % ByteBits]
        ELSE IF i % ByteBits = 0 THEN all.carry ELSE 0]

\* naf: the bytes left out at the front, and the byte of the last carry when
\* there is none, hold zeros.
Naf(x) ==
    LET run[n \in 0..ScalarBytes] ==
            IF n = 0 THEN [digits |-> <<>>, carry |-> 0] ELSE NafStep(run[n - 1], x, n - 1)
    IN  Placed(run[ScalarBytes])

\* The place of the loop's position: it starts at the longer of the two forms.
Places == ByteBits * (ScalarBytes + 1)

\* ScalarMultNonConst: the points, the halves, and their signs.
Split ==
    /\ method = "ScalarMultNonConst" /\ at = 0
    /\ \E ks \in {SplitK(k, lambda)} :
        /\ halves' = [i \in 1..2 |-> IF IsOverHalf(ks[i]) THEN Mod(-ks[i]) ELSE ks[i]]
        /\ p1' = IF IsOverHalf(ks[1]) THEN Mod(-base) ELSE base
        /\ p2' = IF IsOverHalf(ks[2]) THEN Mod(-(lambda * base)) ELSE Mod(lambda * base)
    /\ at' = 1
    /\ UNCHANGED <<lambda, method, k, base, q>>

\* One bit of the loop: the sum is doubled, and each point added or subtracted.
Digit ==
    /\ method = "ScalarMultNonConst" /\ at \in 1..Places
    /\ LET d(i) == Naf(halves[i])[Places - at]
       IN  q' = Mod(Mod(Mod(2 * q) + d(1) * p1) + d(2) * p2)
    /\ at' = at + 1
    /\ UNCHANGED <<lambda, method, k, base, halves, p1, p2>>

\* One byte of ScalarBaseMultNonConst.
Byte ==
    /\ method = "ScalarBaseMultNonConst" /\ at < ScalarBytes
    /\ at' = at + 1
    /\ q' = Mod(q + BytePoints[at + 1][BytesOf(k)[at + 1]])
    /\ UNCHANGED <<lambda, method, k, base, halves, p1, p2>>

MultInit ==
    /\ lambda \in Roots
    /\ k \in 0..(MultOrder - 1)
    /\ \/ method = "ScalarMultNonConst" /\ base \in Bases
       \/ method = "ScalarBaseMultNonConst" /\ base = 1
    /\ halves = <<0, 0>> /\ p1 = 0 /\ p2 = 0 /\ at = 0 /\ q = 0

MultNext == Split \/ Digit \/ Byte

MultSpec == MultInit /\ [][MultNext]_multVars

-----------------------------------------------------------------------------

MultDone == at = IF method = "ScalarMultNonConst" THEN Places + 1 ELSE ScalarBytes

\* A multiplication ends with the scalar times the point, whichever root the
\* endomorphism has and whatever signs the halves took; the halves have half
\* the bits of the scalar, and no two neighbouring digits of a form are set.
MultExact ==
    /\ MultDone => q = Mod(k * base)
    /\ \A i \in 1..2 :
        /\ halves[i] < DigitRadix^2
        /\ \A n \in 1..(Places - 1) :
            LET d == Naf(halves[i]) IN d[n] = 0 \/ d[n - 1] = 0
=============================================================================
