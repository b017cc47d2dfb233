---------------------------- MODULE CurvePoints ----------------------------
(***************************************************************************)
(* xdago/secp256k1/curve.go: adding and doubling points in Jacobian        *)
(* coordinates.  A routine is a straight line of field operations over     *)
(* registers; the result may be one of the points given, so that a         *)
(* coordinate is overwritten while the routine runs.  A register holds a   *)
(* number, its magnitude and whether it is normalized, and an operation    *)
(* called outside of what field.go asks of its caller leaves a mark.       *)
(*                                                                         *)
(* The prime and the curve's group are small; y^2 = x^3 + 7 is the code's. *)
(***************************************************************************)
EXTENDS Integers, Sequences

CONSTANTS
    P,         \* fieldPrime: 3 modulo 4 and 1 modulo 3
    GX, GY,    \* the generator
    N,         \* its order
    Beta,      \* endoBeta
    Lambda,    \* the multiple of a point that it is
    Logs,      \* bound: the multiples of the generator points start with
    Cells,     \* the points in memory
    Zs,        \* bound: the Z coordinates points start with
    MaxCalls   \* bound: calls in a row

Names == {"X", "Y", "Z"}

VARIABLES
    point,    \* cell -> the registers of its point
    logOf,    \* history: cell -> the multiple of the generator it should be
    proper,   \* history: every operation was called as field.go asks
    calls     \* calls so far

curveVars == <<point, logOf, proper, calls>>

-----------------------------------------------------------------------------
(* The group, from the equation of the curve *)

Inv(x) == CHOOSE i \in 0..(P - 1) : (i * x) % P = IF x = 0 THEN 0 ELSE 1

Infinity == <<0, 0>>

OnCurve(a) == (a[2] * a[2]) % P = (a[1] * a[1] * a[1] + 7) % P

ASSUME CurveAssumption == P % 4 = 3 /\ P % 3 = 1 /\ OnCurve(<<GX, GY>>)

AffineSum(a, b) ==
    LET slope == IF a = b THEN (3 * a[1] * a[1] * Inv((2 * a[2]) % P)) % P
                 ELSE ((b[2] - a[2]) * Inv((b[1] - a[1]) % P)) % P
        x == (slope * slope - a[1] - b[1]) % P
    IN  CASE a = Infinity -> b
          [] b = Infinity -> a
          [] a[1] = b[1] /\ a # b -> Infinity
          [] OTHER -> <<x, (slope * (a[1] - x) - a[2]) % P>>

\* The multiples of the generator.
Multiples ==
    LET multiple[k \in 0..(N - 1)] ==
            CASE k = 0 -> Infinity
              [] k % 2 = 1 -> AffineSum(multiple[k - 1], <<GX, GY>>)
              [] OTHER -> LET half == multiple[k \div 2] IN AffineSum(half, half)
    IN  [k \in 0..(N - 1) |-> multiple[k]]

Affine(k) == Multiples[k % N]

ASSUME OrderAssumption == AffineSum(Affine(N - 1), <<GX, GY>>) = Infinity

-----------------------------------------------------------------------------
(* Registers and the operations of field.go on them *)

MaxMagnitude == 64
MaxMulMagnitude == 8

Register(x, mag) == [v |-> x % P, mag |-> mag, normal |-> FALSE]

Number(x) == [Register(x, 1) EXCEPT !.normal = TRUE]

\* A step stores in register to what op makes of registers a and b, or of
\* a and the integer n.
Op(op, to, a, b, n) == <<[op |-> op, to |-> to, a |-> a, b |-> b, n |-> n]>>

Set(to, a) == Op("set", to, a, a, 0)
SetInt(to, n) == Op("int", to, to, to, n)
Add2(to, a, b) == Op("add", to, a, b, 0)
Add(to, b) == Add2(to, to, b)
AddInt(to, n) == Op("addInt", to, to, to, n)
Mul2(to, a, b) == Op("mul", to, a, b, 0)
Mul(to, b) == Mul2(to, to, b)
SquareVal(to, a) == Mul2(to, a, a)
Square(to) == Mul2(to, to, to)
MulInt(to, n) == Op("mulInt", to, to, to, n)
Negate(to, n) == Op("negate", to, to, to, n)
NegateVal(to, a, n) == Op("negate", to, a, a, n)
Inverse(to, a) == Op("inverse", to, a, a, 0)
SquareRoot(to, a) == Op("root", to, a, a, 0)
Normalize(to) == Op("normalize", to, to, to, 0)

Power(x, e) ==
    LET pow[i \in 0..e] == IF i = 0 THEN 1 ELSE (pow[i - 1] * x) % P IN pow[e]

Computed(s, x, y) ==
    CASE s.op = "set"       -> x
      [] s.op = "int"       -> s.n % P
      [] s.op = "add"       -> (x + y) % P
      [] s.op = "addInt"    -> (x + s.n) % P
      [] s.op = "mul"       -> (x * y) % P
      [] s.op = "mulInt"    -> (x * s.n) % P
      [] s.op = "negate"    -> (-x) % P
      [] s.op = "inverse"   -> Inv(x)
      [] s.op = "root"      -> Power(x, (P + 1) \div 4)
      [] s.op = "normalize" -> x % P

\* What a step leaves to its caller to keep in mind, from what its operands
\* left: the magnitude and whether the result is normalized.
MagnitudeOf(s, a, b) ==
    CASE s.op = "set"       -> a.mag
      [] s.op = "add"       -> a.mag + b.mag
      [] s.op = "addInt"    -> a.mag + 1
      [] s.op = "mulInt"    -> a.mag * s.n
      [] s.op = "negate"    -> s.n + 1
      [] OTHER              -> 1

NormalOf(s, a) == s.op \in {"int", "normalize"} \/ (s.op = "set" /\ a.normal)

Outcome(s, a, b) ==
    [v |-> Computed(s, a.v, b.v), mag |-> MagnitudeOf(s, a, b), normal |-> NormalOf(s, a)]

\* What field.go asks of the operands.
AsAsked(s, a, b) ==
    /\ MagnitudeOf(s, a, b) <= MaxMagnitude
    /\ s.op \in {"mul", "inverse", "root"} => a.mag <= MaxMulMagnitude /\ b.mag <= MaxMulMagnitude
    /\ s.op = "negate" => a.mag <= s.n

IsZero(r) == r.v = 0
IsOne(r) == r.v = 1
Equals(a, b) == a.v = b.v

\* The names the routines give to the coordinates of their points and result.
PointRegs == <<[X |-> "x1", Y |-> "y1", Z |-> "z1"], [X |-> "x2", Y |-> "y2", Z |-> "z2"],
               [X |-> "x3", Y |-> "y3", Z |-> "z3"]>>
PointNames == {PointRegs[i][c] : i \in 1..3, c \in Names}

\* homes[i] is the first of the three points that has the memory of point i.
Homes == {<<1, 1, 1>>, <<1, 1, 3>>, <<1, 2, 1>>, <<1, 2, 2>>, <<1, 2, 3>>}
At ==
    [homes \in Homes |-> [n \in PointNames |->
        LET i == CHOOSE j \in 1..3 : n \in {PointRegs[j][c] : c \in Names}
            c == CHOOSE d \in Names : PointRegs[i][d] = n
        IN  PointRegs[homes[i]][c]]]

Home(homes, n) == IF n \in PointNames THEN At[homes][n] ELSE n

\* One step; "ok" remembers whether all operations were called as asked.
ExecuteStep(homes, regs, s) ==
    LET a == regs[Home(homes, s.a)]
        b == regs[Home(homes, s.b)]
    IN  [regs EXCEPT ![Home(homes, s.to)] = Outcome(s, a, b), !["ok"] = @ /\ AsAsked(s, a, b)]

\* The registers after each step of a routine.
Execution(routine, homes, start) ==
    LET run[i \in 0..Len(routine)] == IF i = 0 THEN start ELSE ExecuteStep(homes, run[i - 1], routine[i])
    IN  run

Execute(routine, homes, start) == Execution(routine, homes, start)[Len(routine)]

Zero3 == SetInt("x3", 0) \o SetInt("y3", 0) \o SetInt("z3", 0)
Normalize3 == Normalize("x3") \o Normalize("y3") \o Normalize("z3")
Set3(i) == LET p == PointRegs[i] IN Set("x3", p.X) \o Set("y3", p.Y) \o Set("z3", p.Z)

-----------------------------------------------------------------------------
(* The routines: what is computed before the points are compared, what is  *)
(* compared, and what is computed when they differ                         *)

Kinds == {"z1AndZ2EqualsOne", "z1EqualsZ2", "z2EqualsOne", "generic"}

Compared(kind) ==
    CASE kind = "z2EqualsOne" ->
            SquareVal("z1z1", "z1")
            \o Mul2("u2", "x2", "z1z1") \o Normalize("u2")
            \o Mul2("s2", "y2", "z1z1") \o Mul("s2", "z1") \o Normalize("s2")
      [] kind = "generic" ->
            SquareVal("z1z1", "z1") \o SquareVal("z2z2", "z2")
            \o Mul2("u1", "x1", "z2z2") \o Normalize("u1")
            \o Mul2("u2", "x2", "z1z1") \o Normalize("u2")
            \o Mul2("s1", "y1", "z2z2") \o Mul("s1", "z2") \o Normalize("s1")
            \o Mul2("s2", "y2", "z1z1") \o Mul("s2", "z1") \o Normalize("s2")
      [] OTHER -> <<>>

\* The registers with the coordinates of both points in like terms.
LikeX(kind) ==
    CASE kind = "generic" -> <<"u1", "u2">> [] kind = "z2EqualsOne" -> <<"x1", "u2">>
      [] OTHER -> <<"x1", "x2">>
LikeY(kind) ==
    CASE kind = "generic" -> <<"s1", "s2">> [] kind = "z2EqualsOne" -> <<"y1", "s2">>
      [] OTHER -> <<"y1", "y2">>

AddZ1AndZ2EqualsOne ==
    Set("h", "x1") \o Negate("h", 1) \o Add("h", "x2")
    \o SquareVal("i", "h") \o MulInt("i", 4)
    \o Mul2("j", "h", "i")
    \o Set("r", "y1") \o Negate("r", 1) \o Add("r", "y2") \o MulInt("r", 2)
    \o Mul2("v", "x1", "i")
    \o NegateVal("negJ", "j", 1)
    \o Set("neg2V", "v") \o MulInt("neg2V", 2) \o Negate("neg2V", 2)
    \o SquareVal("x3", "r") \o Add("x3", "negJ") \o Add("x3", "neg2V")
    \o NegateVal("negX3", "x3", 6)
    \o Mul("j", "y1") \o MulInt("j", 2) \o Negate("j", 2)
    \o Add2("y3", "v", "negX3") \o Mul("y3", "r") \o Add("y3", "j")
    \o Set("z3", "h") \o MulInt("z3", 2)

AddZ1EqualsZ2 ==
    NegateVal("negX1", "x1", 1) \o NegateVal("negY1", "y1", 1)
    \o Add2("a", "negX1", "x2") \o SquareVal("b", "a")
    \o Add2("c", "negY1", "y2") \o SquareVal("d", "c")
    \o Mul2("e", "x1", "b") \o NegateVal("negE", "e", 1)
    \o Mul2("f", "x2", "b")
    \o Add2("x3", "e", "f") \o Negate("x3", 2) \o Add("x3", "d")
    \o NegateVal("negX3", "x3", 4)
    \o Add("f", "negE") \o Mul2("y3", "y1", "f") \o Negate("y3", 1)
    \o Add("e", "negX3") \o Mul("e", "c") \o Add("y3", "e")
    \o Mul2("z3", "z1", "a")

\* What addZ2EqualsOne and addGeneric share once x, y and z^2 are in like terms.
AddTail(x, y) ==
    NegateVal("negS1", y, 1)
    \o Add2("r", "s2", "negS1") \o MulInt("r", 2) \o SquareVal("rr", "r")
    \o Mul2("v", x, "i")
    \o Set("x3", "v") \o MulInt("x3", 2) \o Add("x3", "j") \o Negate("x3", 3) \o Add("x3", "rr")
    \o NegateVal("negX3", "x3", 5)
    \o Mul2("y3", y, "j") \o MulInt("y3", 2) \o Negate("y3", 2)
    \o Add("v", "negX3") \o Mul("v", "r") \o Add("y3", "v")

AddZ2EqualsOne ==
    NegateVal("negX1", "x1", 1) \o Add2("h", "u2", "negX1") \o SquareVal("hh", "h")
    \o Set("i", "hh") \o MulInt("i", 4) \o Mul2("j", "h", "i")
    \o AddTail("x1", "y1")
    \o Add2("z3", "z1", "h") \o Square("z3")
    \o Add("z1z1", "hh") \o Negate("z1z1", 2) \o Add("z3", "z1z1")

AddGeneric ==
    NegateVal("negX1", "u1", 1) \o Add2("h", "u2", "negX1")
    \o Set("i", "h") \o MulInt("i", 2) \o Square("i") \o Mul2("j", "h", "i")
    \o AddTail("u1", "s1")
    \o Add2("z3", "z1", "z2") \o Square("z3")
    \o Add("z1z1", "z2z2") \o Negate("z1z1", 2) \o Add("z3", "z1z1") \o Mul("z3", "h")

AddRoutine ==
    [z1AndZ2EqualsOne |-> AddZ1AndZ2EqualsOne, z1EqualsZ2 |-> AddZ1EqualsZ2,
     z2EqualsOne |-> AddZ2EqualsOne, generic |-> AddGeneric]

DoubleZ(isOne) ==
    (IF isOne THEN Set("z3", "y1") ELSE Mul2("z3", "y1", "z1")) \o MulInt("z3", 2)

DoubleXY ==
    SquareVal("a", "x1") \o SquareVal("b", "y1") \o SquareVal("c", "b")
    \o Add("b", "x1") \o Square("b")
    \o Set("d", "a") \o Add("d", "c") \o Negate("d", 2)
    \o Add("d", "b") \o MulInt("d", 2)
    \o Set("e", "a") \o MulInt("e", 3) \o SquareVal("f", "e")
    \o Set("x3", "d") \o MulInt("x3", 2) \o Negate("x3", 16) \o Add("x3", "f")
    \o NegateVal("f", "x3", 18) \o Add("f", "d") \o Normalize("f")
    \o Set("y3", "c") \o MulInt("y3", 8) \o Negate("y3", 8)
    \o Mul("f", "e") \o Add("y3", "f")

\* doubleZ1EqualsOne and doubleGeneric differ in Z alone, which comes first.
DoubleRoutine(isOne) == DoubleZ(isOne) \o DoubleXY

DoubleRoutines == [one |-> DoubleRoutine(TRUE), other |-> DoubleRoutine(FALSE)]

ToAffineRoutine ==
    Inverse("zInv", "z3") \o SquareVal("tempZ", "zInv") \o Mul("x3", "tempZ")
    \o Mul("tempZ", "zInv") \o Mul("y3", "tempZ") \o SetInt("z3", 1)
    \o Normalize("x3") \o Normalize("y3")

\* The negated point and the endomorphism's, as ScalarMultNonConst makes them.
NegateRoutine == Negate("y3", 1) \o Normalize("y3")
EndoRoutine == Mul("x3", "beta") \o Normalize("x3")

\* DecompressY: y from x in register x3; hasSqrt is whether the square matches.
RootRoutine ==
    SquareVal("a", "x3") \o Mul("a", "x3") \o AddInt("a", 7)
    \o SquareRoot("y3", "a") \o SquareVal("b", "y3") \o Normalize("b") \o Normalize("a")

-----------------------------------------------------------------------------
(* The exported operations *)

Locals == {"a", "b", "c", "d", "e", "f", "h", "hh", "i", "j", "r", "rr", "v", "z1z1", "z2z2",
           "u1", "u2", "s1", "s2", "negJ", "neg2V", "negX1", "negX3", "negY1", "negS1", "negE",
           "zInv", "tempZ"}

\* Comparing values is proper when both are normalized.
Checked(regs, names) == [regs EXCEPT !["ok"] = @ /\ \A n \in names : regs[n].normal]

IsInfinity(regs, at, i) ==
    LET r(c) == regs[at[PointRegs[i][c]]]
    IN  (IsZero(r("X")) /\ IsZero(r("Y"))) \/ IsZero(r("Z"))

DoubleNonConst(homes, start) ==
    LET at == At[homes]
        regs == Checked(start, {at["y1"], at["z1"]})
    IN  IF IsZero(regs[at["y1"]]) \/ IsZero(regs[at["z1"]])
        THEN Execute(Zero3, homes, regs)
        ELSE Execute((IF IsOne(regs[at["z1"]]) THEN DoubleRoutines.one ELSE DoubleRoutines.other)
                     \o Normalize3, homes, regs)

AddNonConst(homes, start) ==
    LET at == At[homes]
        begin == Checked(start, {at["x1"], at["y1"], at["z1"], at["x2"], at["y2"], at["z2"]})
        z1 == begin[at["z1"]]
        z2 == begin[at["z2"]]
        kind == CASE IsOne(z1) /\ IsOne(z2) -> "z1AndZ2EqualsOne"
                  [] Equals(z1, z2) -> "z1EqualsZ2"
                  [] ~Equals(z1, z2) /\ IsOne(z2) -> "z2EqualsOne"
                  [] OTHER -> "generic"
        like == Execute(Compared(kind), homes, begin)
        xs == LikeX(kind)
        ys == LikeY(kind)
        regs == Checked(like, {Home(homes, xs[1]), Home(homes, xs[2]), Home(homes, ys[1]), Home(homes, ys[2])})
    IN  CASE IsInfinity(begin, at, 1) -> Execute(Set3(2), homes, begin)
          [] IsInfinity(begin, at, 2) -> Execute(Set3(1), homes, begin)
          [] OTHER ->
                IF ~Equals(regs[Home(homes, xs[1])], regs[Home(homes, xs[2])])
                THEN Execute(AddRoutine[kind] \o Normalize3, homes, regs)
                ELSE IF Equals(regs[Home(homes, ys[1])], regs[Home(homes, ys[2])])
                THEN DoubleNonConst(homes, regs)
                ELSE Execute(Zero3, homes, regs)

\* DecompressY: whether there is a root, and y with the oddness asked for.
DecompressY(x, odd, start) ==
    LET regs == Checked(Execute(RootRoutine, <<1, 2, 3>>, [start EXCEPT !["x3"] = x]), {"a", "b"})
        normal == Execute(Normalize("y3"), <<1, 2, 3>>, regs)
        flip == (normal["y3"].v % 2 = 1) # odd
    IN  [hasSqrt |-> Equals(regs["a"], regs["b"]),
         regs |-> IF flip THEN Execute(Negate("y3", 1), <<1, 2, 3>>, normal) ELSE normal]

-----------------------------------------------------------------------------
(* Calls on points in memory *)

Fresh == [n \in Locals \union PointNames \union {"beta"} |-> Number(IF n = "beta" THEN Beta ELSE 0)]

\* Before anything was called.
Start == [n \in DOMAIN Fresh \union {"ok"} |-> IF n = "ok" THEN TRUE ELSE Fresh[n]]

\* The registers of a call on cells a and b with the result in c.
HomesOf(a, b, c) ==
    <<1, IF b = a THEN 1 ELSE 2, IF c = a THEN 1 ELSE IF c = b THEN 2 ELSE 3>>

Loaded(a, b, c) ==
    LET cells == <<a, b, c>>
        value(n) == IF n \in PointNames
                    THEN LET i == CHOOSE j \in 1..3 : n \in {PointRegs[j][d] : d \in Names}
                             d == CHOOSE e \in Names : PointRegs[i][e] = n
                         IN  point[cells[i]][d]
                    ELSE Fresh[n]
    IN  [n \in DOMAIN Start |-> IF n = "ok" THEN TRUE ELSE value(n)]

\* Every cell gets back the registers of the first point it was.
Call(regs, a, b, c, log) ==
    LET homes == HomesOf(a, b, c)
        index(x) == IF x = a THEN 1 ELSE IF x = b THEN 2 ELSE 3
    IN  /\ calls < MaxCalls
        /\ calls' = calls + 1
        /\ point' = [x \in Cells |-> IF x \in {a, b, c}
                                     THEN [d \in Names |-> regs[PointRegs[index(x)][d]]]
                                     ELSE point[x]]
        /\ logOf' = [logOf EXCEPT ![c] = log % N]
        /\ proper' = regs["ok"]

AddPoints(a, b, c) ==
    Call(AddNonConst(HomesOf(a, b, c), Loaded(a, b, c)), a, b, c, logOf[a] + logOf[b])

DoublePoint(a, c) ==
    Call(DoubleNonConst(HomesOf(a, a, c), Loaded(a, a, c)), a, a, c, 2 * logOf[a])

InPlace(routine, c, log) ==
    Call(Execute(routine, HomesOf(c, c, c), Loaded(c, c, c)), c, c, c, log)

ToAffine(c) == InPlace(ToAffineRoutine, c, logOf[c])
NegatePoint(c) == InPlace(NegateRoutine, c, -logOf[c])
EndoPoint(c) == InPlace(EndoRoutine, c, Lambda * logOf[c])

\* The point of a multiple of the generator with a given Z.
Jacobian(k, z) ==
    LET a == Affine(k)
    IN  [X |-> Number(a[1] * z * z), Y |-> Number(a[2] * z * z * z), Z |-> Number(z)]

CurveInit ==
    /\ \E z \in [Cells -> Zs] :
        /\ logOf \in [Cells -> Logs]
        /\ point = [c \in Cells |-> Jacobian(logOf[c], z[c])]
    /\ proper = TRUE
    /\ calls = 0

CurveNext ==
    \/ \E a, b, c \in Cells : AddPoints(a, b, c)
    \/ \E a, c \in Cells : DoublePoint(a, c)
    \/ \E c \in Cells : ToAffine(c) \/ NegatePoint(c) \/ EndoPoint(c)

CurveSpec == CurveInit /\ [][CurveNext]_curveVars

-----------------------------------------------------------------------------

\* No operation was called outside of its conditions, and points in memory are
\* normalized.
InConditions == proper /\ \A c \in Cells : \A d \in Names : point[c][d].normal

\* Whichever formula a call chose and wherever its result went, every cell
\* holds a normalized point of the multiple it should hold, the other points
\* are as before, and no operation was called outside of its conditions.
CurveExact ==
    /\ InConditions
    /\ \A c \in Cells :
        LET p == point[c]
            a == Affine(logOf[c])
            infinite == (p.X.v = 0 /\ p.Y.v = 0) \/ p.Z.v = 0
        IN  /\ infinite <=> a = Infinity
            /\ ~infinite =>
                /\ p.X.v = (a[1] * p.Z.v * p.Z.v) % P
                /\ p.Y.v = (((a[2] * p.Z.v * p.Z.v) % P) * p.Z.v) % P
=============================================================================
