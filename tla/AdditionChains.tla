--------------------------- MODULE AdditionChains ---------------------------
(***************************************************************************)
(* The addition chains of xdago/secp256k1/field.go: Inverse raises a field *)
(* value to the prime minus two, SquareRootVal to a quarter of the prime   *)
(* plus one, by squarings and multiplications of saved powers.  A register *)
(* holds the exponent of the power it stands for: squaring doubles it,     *)
(* multiplying adds two of them.  Exponents keep their 256 bits, in limbs. *)
(***************************************************************************)
EXTENDS Integers, Sequences

LOCAL INSTANCE SequencesExt

LimbBits == 16
Limbs == 17
Limb == 2^LimbBits

VARIABLES
    chain,  \* the chain that runs
    step,     \* its next step
    power   \* the exponent in each register

chainVars == <<chain, step, power>>

-----------------------------------------------------------------------------
(* Exponents, least significant limb first *)

SmallPower(n) == [i \in 1..Limbs |-> IF i = 1 THEN n ELSE 0]

Plus(a, b) ==
    LET t[i \in 1..Limbs] == a[i] + b[i] + (IF i = 1 THEN 0 ELSE t[i - 1] \div Limb)
    IN  [i \in 1..Limbs |-> t[i] % Limb]

Minus(a, b) ==
    LET t[i \in 1..Limbs] == a[i] - b[i] + (IF i = 1 THEN 0 ELSE t[i - 1] \div Limb)
    IN  [i \in 1..Limbs |-> t[i] % Limb]

TwoTo(n) == [i \in 1..Limbs |-> IF i = n \div LimbBits + 1 THEN 2^(n % LimbBits) ELSE 0]

\* p = 2^256 - 2^32 - 977
PrimeMinusTwo == Minus(Minus(TwoTo(256), TwoTo(32)), SmallPower(979))
QuarterOfPrimePlusOne == Minus(Minus(TwoTo(254), TwoTo(30)), SmallPower(244))

-----------------------------------------------------------------------------
(* Chains: a step stores the product of two registers in one *)

ChainMul(to, x, y) == <<[to |-> to, x |-> x, y |-> y]>>
ChainMulBy(to, x) == ChainMul(to, to, x)
ChainSquare(to, x) == ChainMul(to, x, x)
ChainSquares(to, n) == [i \in 1..n |-> [to |-> to, x |-> to, y |-> to]]

\* to is x squared n times.
ChainShifted(to, x, n) == ChainSquare(to, x) \o ChainSquares(to, n - 1)

\* Mutant: a window without a bit that is not set in the exponent.
WindowsAllOnes == [i \in 1..23 |-> "a1023"]

\* The windows of ten bits Inverse goes through, from the highest.
Windows == [i \in 1..23 |-> IF i = 21 THEN "a1019" ELSE "a1023"]

\* Inverse: registers a<n> hold the n-th power; the copy of a63 into f is part
\* of the first squaring.
InverseChain ==
    LET window(x) == ChainSquares("f", 10) \o ChainMulBy("f", x)
    IN  ChainSquare("a2", "f") \o ChainMul("a3", "a2", "f") \o ChainSquare("a4", "a2")
        \o ChainSquare("a10", "a4") \o ChainMulBy("a10", "a2") \o ChainMul("a11", "a10", "f")
        \o ChainMul("a21", "a10", "a11") \o ChainSquare("a42", "a21") \o ChainMul("a45", "a42", "a3")
        \o ChainMul("a63", "a42", "a21") \o ChainShifted("a1019", "a63", 4) \o ChainMulBy("a1019", "a11")
        \o ChainMul("a1023", "a1019", "a4")
        \o ChainShifted("f", "a63", 10) \o ChainMulBy("f", "a1023")
        \o FlattenSeq([i \in 1..Len(Windows) |-> window(Windows[i])])
        \o ChainSquares("f", 10) \o ChainMulBy("f", "a45")

\* SquareRootVal: a<n> holds the power 2^n - 1; a is the value.
SquareRootChain ==
    LET longer(to, x, n, y) == ChainShifted(to, x, n) \o ChainMulBy(to, y)
    IN  longer("a2", "a", 1, "a") \o longer("a3", "a2", 1, "a") \o longer("a6", "a3", 3, "a3")
        \o longer("a9", "a6", 3, "a3") \o longer("a11", "a9", 2, "a2")
        \o longer("a22", "a11", 11, "a11") \o longer("a44", "a22", 22, "a22")
        \o longer("a88", "a44", 44, "a44") \o longer("a176", "a88", 88, "a88")
        \o longer("a220", "a176", 44, "a44") \o longer("a223", "a220", 3, "a3")
        \o longer("f", "a223", 23, "a22") \o ChainSquares("f", 6) \o ChainMulBy("f", "a2")
        \o ChainSquares("f", 2)

StepsOf == [Inverse |-> InverseChain, SquareRootVal |-> SquareRootChain]

Registers ==
    UNION {{StepsOf[c][i].to : i \in 1..Len(StepsOf[c])} : c \in DOMAIN StepsOf} \union {"a"}

ChainInit ==
    /\ chain \in DOMAIN StepsOf
    /\ step = 1
    /\ power = [r \in Registers |->
                    SmallPower(IF r = (IF chain = "Inverse" THEN "f" ELSE "a") THEN 1 ELSE 0)]

ChainStep ==
    /\ step <= Len(StepsOf[chain])
    /\ LET s == StepsOf[chain][step]
       IN  power' = [power EXCEPT ![s.to] = Plus(power[s.x], power[s.y])]
    /\ step' = step + 1
    /\ UNCHANGED chain

ChainSpec == ChainInit /\ [][ChainStep]_chainVars

-----------------------------------------------------------------------------

\* Every chain ends with the exponent that Fermat's theorem calls for.
ChainsExact ==
    step > Len(StepsOf[chain]) =>
        power["f"] = IF chain = "Inverse" THEN PrimeMinusTwo ELSE QuarterOfPrimePlusOne
=============================================================================
