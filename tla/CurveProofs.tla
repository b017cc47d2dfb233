---------------------------- MODULE CurveProofs -----------------------------
(***************************************************************************)
(* The two results about the curve, for every prime and every curve.       *)
(*                                                                         *)
(* No operation of curve.go is called with magnitudes beyond what field.go *)
(* allows, nor are numbers compared that are not normalized, for any       *)
(* points and any number of calls.  The registers of a call have the       *)
(* shapes of CurveShapes after every step of a routine, whatever numbers   *)
(* are in them; the shapes themselves are few, and evaluated.              *)
(*                                                                         *)
(* Signatures verify, recover their key, and keys are parsed, as the       *)
(* mathematics of the curve say.  The invariant is that a signature was    *)
(* made with some nonce, which is forgotten once it is there: its r is the *)
(* X of the nonce's point, and s times the nonce is what was signed.       *)
(***************************************************************************)
EXTENDS CurveShapes, Signature, WellFoundedInduction, TLAPS

-----------------------------------------------------------------------------
(* Routines step by step *)

\* Induction over a set of good numbers.
LEMMA NumberInduction ==
    ASSUME NEW Good, 0 \in Good, \A n \in Nat : n \in Good => n + 1 \in Good
    PROVE  \A n \in Nat : n \in Good
<1> DEFINE Bad  == {n \in Nat : n \notin Good}
           Less == {p \in Nat \X Nat : p[1] < p[2]}
<1> SUFFICES ASSUME Bad # {} PROVE FALSE
  OBVIOUS
<1>1. PICK n \in Bad : \A k \in Bad : <<k, n>> \notin Less
  <2>1. Bad \subseteq Nat
    OBVIOUS
  <2>2. IsWellFoundedOn(Less, Nat)
    BY NatLessThanWellFounded DEF OpToRel
  <2> HIDE DEF Bad, Less
  <2> QED
    BY <2>1, <2>2, WFMin
<1>2. n # 0 /\ n - 1 \in Nat
  OBVIOUS
<1>3. n - 1 \notin Bad
  <2>1. <<n - 1, n>> \in Less
    BY <1>2
  <2> QED
    BY <1>1, <2>1
<1> QED
  BY <1>2, <1>3

\* Execution is a function that satisfies its equation: there is one up to
\* every step.
LEMMA ExecutionRuns ==
    ASSUME NEW routine, NEW homes, NEW start, Len(routine) \in Nat
    PROVE  /\ Execution(routine, homes, start)[0] = start
           /\ \A i \in 1..Len(routine) :
                Execution(routine, homes, start)[i] =
                    ExecuteStep(homes, Execution(routine, homes, start)[i - 1], routine[i])
<1> DEFINE Runs(g, n) == g = [i \in 0..n |-> IF i = 0 THEN start
                                             ELSE ExecuteStep(homes, g[i - 1], routine[i])]
           Good == {n \in Nat : \E g : Runs(g, n)}
<1>1. 0 \in Good
  <2>1. Runs([i \in 0..0 |-> start], 0)
    OBVIOUS
  <2> QED
    BY <2>1
<1>2. ASSUME NEW n \in Nat, n \in Good PROVE n + 1 \in Good
  <2>1. PICK g : Runs(g, n)
    BY <1>2
  <2> DEFINE h == [i \in 0..(n + 1) |-> IF i = n + 1 THEN ExecuteStep(homes, g[n], routine[n + 1]) ELSE g[i]]
  <2>2. \A i \in 0..(n + 1) : h[i] = IF i = 0 THEN start ELSE ExecuteStep(homes, h[i - 1], routine[i])
    <3>1. \A i \in 0..n : g[i] = IF i = 0 THEN start ELSE ExecuteStep(homes, g[i - 1], routine[i])
      BY <2>1
    <3>2. \A i \in 0..n : h[i] = g[i]
      OBVIOUS
    <3>3. h[n + 1] = ExecuteStep(homes, g[n], routine[n + 1])
      OBVIOUS
    <3> HIDE DEF h
    <3>4. ASSUME NEW i \in 1..n PROVE h[i] = ExecuteStep(homes, h[i - 1], routine[i])
      BY <3>1, <3>2
    <3>5. h[0] = start
      BY <3>1, <3>2
    <3>6. h[n + 1] = ExecuteStep(homes, h[n], routine[n + 1])
      BY <3>2, <3>3
    <3> QED
      BY <3>4, <3>5, <3>6
  <2>3. Runs(h, n + 1)
    <3>1. h = [i \in 0..(n + 1) |-> h[i]]
      OBVIOUS
    <3> HIDE DEF h
    <3> QED
      BY <2>2, <3>1
  <2>4. n + 1 \in Nat
    OBVIOUS
  <2> HIDE DEF h, Runs
  <2> QED
    BY <2>3, <2>4
<1>3. Len(routine) \in Good
  <2> HIDE DEF Good
  <2> QED
    BY <1>1, <1>2, NumberInduction
<1>4. PICK g : Runs(g, Len(routine))
  BY <1>3
<1>5. Execution(routine, homes, start) = CHOOSE r : Runs(r, Len(routine))
  BY DEF Execution
<1>6. Runs(Execution(routine, homes, start), Len(routine))
  <2> HIDE DEF Runs
  <2> QED
    BY <1>4, <1>5
<1> HIDE DEF Good
<1>7. DEFINE r == Execution(routine, homes, start)
<1>8. r = [i \in 0..Len(routine) |-> IF i = 0 THEN start ELSE ExecuteStep(homes, r[i - 1], routine[i])]
  BY <1>6
<1> HIDE DEF r
<1>9. r[0] = start /\ \A i \in 1..Len(routine) : r[i] = ExecuteStep(homes, r[i - 1], routine[i])
  BY <1>8
<1> QED
  BY <1>9 DEF r
\* The same of the shapes.
LEMMA ShapesRun ==
    ASSUME NEW routine, NEW homes, NEW start, Len(routine) \in Nat
    PROVE  /\ Shapes(routine, homes, start)[0] = start
           /\ \A i \in 1..Len(routine) :
                Shapes(routine, homes, start)[i] =
                    ShapeStep(homes, Shapes(routine, homes, start)[i - 1], routine[i])
<1> DEFINE Runs(g, n) == g = [i \in 0..n |-> IF i = 0 THEN start
                                             ELSE ShapeStep(homes, g[i - 1], routine[i])]
           Good == {n \in Nat : \E g : Runs(g, n)}
<1>1. 0 \in Good
  <2>1. Runs([i \in 0..0 |-> start], 0)
    OBVIOUS
  <2> QED
    BY <2>1
<1>2. ASSUME NEW n \in Nat, n \in Good PROVE n + 1 \in Good
  <2>1. PICK g : Runs(g, n)
    BY <1>2
  <2> DEFINE h == [i \in 0..(n + 1) |-> IF i = n + 1 THEN ShapeStep(homes, g[n], routine[n + 1]) ELSE g[i]]
  <2>2. \A i \in 0..(n + 1) : h[i] = IF i = 0 THEN start ELSE ShapeStep(homes, h[i - 1], routine[i])
    <3>1. \A i \in 0..n : g[i] = IF i = 0 THEN start ELSE ShapeStep(homes, g[i - 1], routine[i])
      BY <2>1
    <3>2. \A i \in 0..n : h[i] = g[i]
      OBVIOUS
    <3>3. h[n + 1] = ShapeStep(homes, g[n], routine[n + 1])
      OBVIOUS
    <3> HIDE DEF h
    <3>4. ASSUME NEW i \in 1..n PROVE h[i] = ShapeStep(homes, h[i - 1], routine[i])
      BY <3>1, <3>2
    <3>5. h[0] = start
      BY <3>1, <3>2
    <3>6. h[n + 1] = ShapeStep(homes, h[n], routine[n + 1])
      BY <3>2, <3>3
    <3> QED
      BY <3>4, <3>5, <3>6
  <2>3. Runs(h, n + 1)
    <3>1. h = [i \in 0..(n + 1) |-> h[i]]
      OBVIOUS
    <3> HIDE DEF h
    <3> QED
      BY <2>2, <3>1
  <2>4. n + 1 \in Nat
    OBVIOUS
  <2> HIDE DEF h, Runs
  <2> QED
    BY <2>3, <2>4
<1>3. Len(routine) \in Good
  <2> HIDE DEF Good
  <2> QED
    BY <1>1, <1>2, NumberInduction
<1>4. PICK g : Runs(g, Len(routine))
  BY <1>3
<1>5. Shapes(routine, homes, start) = CHOOSE r : Runs(r, Len(routine))
  BY DEF Shapes
<1>6. Runs(Shapes(routine, homes, start), Len(routine))
  <2> HIDE DEF Runs
  <2> QED
    BY <1>4, <1>5
<1> HIDE DEF Good
<1>7. DEFINE r == Shapes(routine, homes, start)
<1>8. r = [i \in 0..Len(routine) |-> IF i = 0 THEN start ELSE ShapeStep(homes, r[i - 1], routine[i])]
  BY <1>6
<1> HIDE DEF r
<1>9. r[0] = start /\ \A i \in 1..Len(routine) : r[i] = ShapeStep(homes, r[i - 1], routine[i])
  BY <1>8
<1> QED
  BY <1>9 DEF r

-----------------------------------------------------------------------------
(* Registers and their shapes *)

\* The registers of a call have these shapes, and all went well so far.
Similar(regs, shapes) ==
    /\ DOMAIN regs = RegisterNames \union {"ok"} /\ regs = [n \in DOMAIN regs |-> regs[n]]
    /\ DOMAIN shapes = RegisterNames /\ shapes = [n \in DOMAIN shapes |-> shapes[n]]
    /\ \A n \in RegisterNames : regs[n].mag = shapes[n].mag /\ regs[n].normal = shapes[n].normal
    /\ regs["ok"] = TRUE

LEMMA OkIsNoRegister == "ok" \notin RegisterNames
BY DEF RegisterNames, Locals, PointNames, PointRegs, Names

LEMMA NamesOfPoints ==
    /\ \A i \in 1..3, c \in Names : PointRegs[i][c] \in PointNames
    /\ \A n \in PointNames : \E i \in 1..3 : \E c \in Names : PointRegs[i][c] = n
BY DEF PointNames

LEMMA HomeIsRegister ==
    ASSUME NEW homes \in Homes
    PROVE  /\ \A n \in PointNames : At[homes][n] \in PointNames
           /\ \A n \in RegisterNames : Home(homes, n) \in RegisterNames
<1>1. homes[1] \in 1..3 /\ homes[2] \in 1..3 /\ homes[3] \in 1..3
  BY DEF Homes
<1>2. ASSUME NEW n \in PointNames PROVE At[homes][n] \in PointNames
  <2> DEFINE i == CHOOSE j \in 1..3 : n \in {PointRegs[j][c] : c \in Names}
             d == CHOOSE e \in Names : PointRegs[i][e] = n
  <2>1. At[homes][n] = PointRegs[homes[i]][d]
    BY DEF At
  <2>2. i \in 1..3 /\ n \in {PointRegs[i][c] : c \in Names}
    <3>1. \E j \in 1..3 : n \in {PointRegs[j][c] : c \in Names}
      BY NamesOfPoints
    <3> QED
      BY <3>1
  <2>3. d \in Names
    BY <2>2
  <2> HIDE DEF i, d
  <2>4. homes[i] \in 1..3
    BY <1>1, <2>2
  <2> QED
    BY <2>1, <2>3, <2>4, NamesOfPoints
<1> QED
  BY <1>2 DEF Home, RegisterNames

\* What field.go leaves and asks depends on the shapes of the operands alone.
LEMMA ShapesDecide ==
    ASSUME NEW s, NEW a, NEW b, NEW x, NEW y,
           a.mag = x.mag, b.mag = y.mag, a.normal = x.normal
    PROVE  /\ MagnitudeOf(s, a, b) = MagnitudeOf(s, x, y)
           /\ NormalOf(s, a) = NormalOf(s, x)
           /\ AsAsked(s, a, b) = AsAsked(s, x, y)
<1>1. MagnitudeOf(s, a, b) = MagnitudeOf(s, x, y)
  BY DEF MagnitudeOf
<1>2. NormalOf(s, a) = NormalOf(s, x)
  BY DEF NormalOf
<1>3. AsAsked(s, a, b) = AsAsked(s, x, y)
  BY <1>1 DEF AsAsked
<1> QED
  BY <1>1, <1>2, <1>3

LEMMA StepSimilar ==
    ASSUME NEW homes \in Homes, NEW regs, NEW shapes, Similar(regs, shapes),
           NEW s, {s.to, s.a, s.b} \subseteq RegisterNames,
           AsAsked(s, shapes[Home(homes, s.a)], shapes[Home(homes, s.b)])
    PROVE  Similar(ExecuteStep(homes, regs, s), ShapeStep(homes, shapes, s))
<1> DEFINE to == Home(homes, s.to)
           a == regs[Home(homes, s.a)]
           b == regs[Home(homes, s.b)]
           x == shapes[Home(homes, s.a)]
           y == shapes[Home(homes, s.b)]
           r == ExecuteStep(homes, regs, s)
           q == ShapeStep(homes, shapes, s)
<1>1. to \in RegisterNames /\ to # "ok"
  BY HomeIsRegister, OkIsNoRegister
<1>2. a.mag = x.mag /\ b.mag = y.mag /\ a.normal = x.normal
  BY HomeIsRegister DEF Similar
<1>3. /\ MagnitudeOf(s, a, b) = MagnitudeOf(s, x, y) /\ NormalOf(s, a) = NormalOf(s, x)
      /\ AsAsked(s, a, b)
  <2> HIDE DEF a, b, x, y
  <2> QED
    BY <1>2, ShapesDecide DEF a, b, x, y
<1>4. r = [regs EXCEPT ![to] = Outcome(s, a, b), !["ok"] = @ /\ AsAsked(s, a, b)]
  BY DEF ExecuteStep
<1>5. q = [shapes EXCEPT ![to] = ShapeOf(s, x, y)]
  BY DEF ShapeStep
<1> HIDE DEF to, a, b, x, y, r, q
<1>6. /\ DOMAIN r = RegisterNames \union {"ok"} /\ r = [n \in DOMAIN r |-> r[n]]
      /\ r["ok"] = TRUE /\ r[to] = Outcome(s, a, b)
      /\ \A n \in RegisterNames : n # to => r[n] = regs[n]
  BY <1>1, <1>3, <1>4, OkIsNoRegister DEF Similar
<1>7. /\ DOMAIN q = RegisterNames /\ q = [n \in DOMAIN q |-> q[n]] /\ q[to] = ShapeOf(s, x, y)
      /\ \A n \in RegisterNames : n # to => q[n] = shapes[n]
  BY <1>1, <1>5 DEF Similar
<1>8. r[to].mag = q[to].mag /\ r[to].normal = q[to].normal
  BY <1>3, <1>6, <1>7 DEF Outcome, ShapeOf
<1>9. Similar(r, q)
  BY <1>6, <1>7, <1>8 DEF Similar
<1> QED
  BY <1>9 DEF r, q

\* A routine that conforms on shapes conforms on all registers that have them.
LEMMA RoutineSimilar ==
    ASSUME NEW homes \in Homes, NEW routine, NEW regs, NEW shapes, Similar(regs, shapes),
           Conforms(routine, homes, shapes)
    PROVE  Similar(Execute(routine, homes, regs), FinalShapes(routine, homes, shapes))
<1> DEFINE r == Execution(routine, homes, regs)
           q == Shapes(routine, homes, shapes)
           Good == {n \in Nat : n <= Len(routine) => Similar(r[n], q[n])}
<1>1. Len(routine) \in Nat
  BY DEF Conforms
<1>2. \A i \in 1..Len(routine) :
          /\ {routine[i].to, routine[i].a, routine[i].b} \subseteq RegisterNames
          /\ AsAsked(routine[i], q[i - 1][Home(homes, routine[i].a)], q[i - 1][Home(homes, routine[i].b)])
  BY DEF Conforms
<1>3. r[0] = regs /\ \A i \in 1..Len(routine) : r[i] = ExecuteStep(homes, r[i - 1], routine[i])
  BY <1>1, ExecutionRuns
<1>4. q[0] = shapes /\ \A i \in 1..Len(routine) : q[i] = ShapeStep(homes, q[i - 1], routine[i])
  BY <1>1, ShapesRun
<1> HIDE DEF r, q
<1>5. 0 \in Good
  BY <1>3, <1>4
<1>6. ASSUME NEW n \in Nat, n \in Good PROVE n + 1 \in Good
  <2> SUFFICES ASSUME n + 1 <= Len(routine) PROVE Similar(r[n + 1], q[n + 1])
    OBVIOUS
  <2>1. n + 1 \in 1..Len(routine) /\ (n + 1) - 1 = n /\ n <= Len(routine)
    BY <1>1
  <2>2. Similar(r[n], q[n])
    BY <1>6, <2>1
  <2>3. r[n + 1] = ExecuteStep(homes, r[n], routine[n + 1]) /\ q[n + 1] = ShapeStep(homes, q[n], routine[n + 1])
    BY <1>3, <1>4, <2>1
  <2>4. /\ {routine[n + 1].to, routine[n + 1].a, routine[n + 1].b} \subseteq RegisterNames
        /\ AsAsked(routine[n + 1], q[n][Home(homes, routine[n + 1].a)], q[n][Home(homes, routine[n + 1].b)])
    BY <1>2, <2>1
  <2> QED
    BY <2>2, <2>3, <2>4, StepSimilar
<1>7. Len(routine) \in Good
  <2> HIDE DEF Good
  <2> QED
    BY <1>1, <1>5, <1>6, NumberInduction
<1> QED
  BY <1>1, <1>7 DEF Execute, FinalShapes, r, q

-----------------------------------------------------------------------------
(* The operations *)

\* All went well, and the coordinates are normalized.
Restored(regs) ==
    /\ regs["ok"] = TRUE
    /\ \A n \in PointNames : regs[n].normal = TRUE /\ regs[n].mag = 1

LEMMA RoutineRestores ==
    ASSUME NEW homes \in Homes, NEW routine, NEW regs, NEW shapes, Similar(regs, shapes),
           Restores(routine, homes, shapes)
    PROVE  Restored(Execute(routine, homes, regs))
<1>1. Similar(Execute(routine, homes, regs), FinalShapes(routine, homes, shapes))
  BY RoutineSimilar DEF Restores
<1>2. \A n \in PointNames : n \in RegisterNames /\ FinalShapes(routine, homes, shapes)[n] = Clean
  BY DEF Restores, RegisterNames
<1> QED
  BY <1>1, <1>2 DEF Similar, Restored, Clean

\* A comparison of normalized numbers leaves the registers as they are.
LEMMA CheckedSimilar ==
    ASSUME NEW regs, NEW shapes, Similar(regs, shapes),
           NEW names \in SUBSET RegisterNames, \A n \in names : shapes[n].normal
    PROVE  Similar(Checked(regs, names), shapes)
<1>1. \A n \in names : regs[n].normal
  BY DEF Similar
<1>2. Checked(regs, names) = [regs EXCEPT !["ok"] = TRUE]
  BY <1>1 DEF Checked, Similar
<1>3. Checked(regs, names) = regs
  <2>1. regs = [n \in DOMAIN regs |-> regs[n]] /\ regs["ok"] = TRUE
    BY DEF Similar
  <2>2. [regs EXCEPT !["ok"] = TRUE] = [n \in DOMAIN regs |-> regs[n]]
    BY <2>1
  <2> QED
    BY <1>2, <2>1, <2>2
<1> QED
  BY <1>3

LEMMA DoubleRestores ==
    ASSUME NEW homes \in Homes, NEW regs, NEW shapes, Similar(regs, shapes),
           DoubleConforms(homes, shapes)
    PROVE  Restored(DoubleNonConst(homes, regs))
<1> DEFINE at == At[homes]
           checked == Checked(regs, {at["y1"], at["z1"]})
<1>1. "y1" \in PointNames /\ "z1" \in PointNames
  BY DEF PointNames, PointRegs, Names
<1>2. at["y1"] \in RegisterNames /\ at["z1"] \in RegisterNames
  BY <1>1, HomeIsRegister DEF RegisterNames
<1>3. Similar(checked, shapes)
  BY <1>2, CheckedSimilar DEF DoubleConforms
<1>4. \A routine \in {Zero3, DoubleRoutines.one \o Normalize3, DoubleRoutines.other \o Normalize3} :
          Restored(Execute(routine, homes, checked))
  <2> HIDE DEF checked
  <2> QED
    BY <1>3, RoutineRestores DEF DoubleConforms
<1>5. \E routine \in {Zero3, DoubleRoutines.one \o Normalize3, DoubleRoutines.other \o Normalize3} :
          DoubleNonConst(homes, regs) = Execute(routine, homes, checked)
  BY DEF DoubleNonConst
<1> QED
  BY <1>4, <1>5

LEMMA AddRestores ==
    ASSUME NEW homes \in Homes, NEW regs, Similar(regs, Entry)
    PROVE  Restored(AddNonConst(homes, regs))
<1> DEFINE at == At[homes]
           points == {at["x1"], at["y1"], at["z1"], at["x2"], at["y2"], at["z2"]}
           begin == Checked(regs, points)
           z1 == begin[at["z1"]]
           z2 == begin[at["z2"]]
           chosen == CASE IsOne(z1) /\ IsOne(z2) -> "z1AndZ2EqualsOne"
                       [] Equals(z1, z2) -> "z1EqualsZ2"
                       [] ~Equals(z1, z2) /\ IsOne(z2) -> "z2EqualsOne"
                       [] OTHER -> "generic"
           Likes(kind) == {Home(homes, LikeX(kind)[1]), Home(homes, LikeX(kind)[2]),
                           Home(homes, LikeY(kind)[1]), Home(homes, LikeY(kind)[2])}
           compared(kind) == Checked(Execute(Compared(kind), homes, begin), Likes(kind))
<1>1. {"x1", "y1", "z1", "x2", "y2", "z2"} \subseteq PointNames
  BY DEF PointNames, PointRegs, Names
<1>2. points \subseteq RegisterNames
  BY <1>1, HomeIsRegister DEF RegisterNames
<1>3. Similar(begin, Entry)
  <2>1. \A n \in points : Entry[n].normal
    BY <1>2 DEF Entry, Clean
  <2> HIDE DEF points
  <2> QED
    BY <1>2, <2>1, CheckedSimilar
<1>4. chosen \in Kinds
  BY DEF Kinds
<1>5. ASSUME NEW kind \in Kinds
      PROVE  /\ Restored(Execute(AddRoutine[kind] \o Normalize3, homes, compared(kind)))
             /\ Restored(Execute(Zero3, homes, compared(kind)))
             /\ Restored(DoubleNonConst(homes, compared(kind)))
  <2> DEFINE like == FinalShapes(Compared(kind), homes, Entry)
             ran == Execute(Compared(kind), homes, begin)
  <2>1. /\ Conforms(Compared(kind), homes, Entry)
        /\ \A i \in 1..2 : like[Home(homes, LikeX(kind)[i])].normal /\ like[Home(homes, LikeY(kind)[i])].normal
        /\ Restores(AddRoutine[kind] \o Normalize3, homes, like)
        /\ Restores(Zero3, homes, like)
        /\ DoubleConforms(homes, like)
    BY RoutinesAssumption DEF AddConforms
  <2>2. Similar(ran, like)
    <3> HIDE DEF begin
    <3> QED
      BY <1>3, <2>1, RoutineSimilar
  <2>3. Likes(kind) \subseteq RegisterNames
    <3>1. \A i \in 1..2 : LikeX(kind)[i] \in RegisterNames /\ LikeY(kind)[i] \in RegisterNames
      BY <1>1 DEF LikeX, LikeY, RegisterNames, Locals
    <3> QED
      BY <3>1, HomeIsRegister
  <2>4. \A n \in Likes(kind) : like[n].normal
    <3> HIDE DEF like
    <3> QED
      BY <2>1
  <2>5. Similar(compared(kind), like)
    <3> HIDE DEF like, ran, Likes
    <3>1. Similar(Checked(ran, Likes(kind)), like)
      BY <2>2, <2>3, <2>4, CheckedSimilar
    <3> QED
      BY <3>1 DEF ran
  <2> HIDE DEF like, compared
  <2> QED
    BY <2>1, <2>5, RoutineRestores, DoubleRestores
<1>6. Restored(Execute(Set3(1), homes, begin)) /\ Restored(Execute(Set3(2), homes, begin))
  <2>1. Restores(Set3(1), homes, Entry) /\ Restores(Set3(2), homes, Entry)
    BY RoutinesAssumption
  <2> HIDE DEF begin
  <2> QED
    BY <1>3, <2>1, RoutineRestores
<1>7. AddNonConst(homes, regs) \in
          {Execute(Set3(2), homes, begin), Execute(Set3(1), homes, begin),
           Execute(AddRoutine[chosen] \o Normalize3, homes, compared(chosen)),
           DoubleNonConst(homes, compared(chosen)),
           Execute(Zero3, homes, compared(chosen))}
  BY DEF AddNonConst
<1> HIDE DEF begin, chosen, compared
<1> QED
  BY <1>4, <1>5, <1>6, <1>7

-----------------------------------------------------------------------------
(* Calls on points in memory *)

\* The points are normalized, and all went well.
MemoryInv ==
    /\ proper = TRUE
    /\ \A x \in Cells : \A d \in Names : point[x][d].normal = TRUE /\ point[x][d].mag = 1

LEMMA HomesAreHomes == ASSUME NEW a, NEW b, NEW c PROVE HomesOf(a, b, c) \in Homes
BY DEF HomesOf, Homes

LEMMA LoadedSimilar ==
    ASSUME MemoryInv, NEW a \in Cells, NEW b \in Cells, NEW c \in Cells
    PROVE  Similar(Loaded(a, b, c), Entry)
<1> DEFINE cells == <<a, b, c>>
           of(n) == CHOOSE j \in 1..3 : n \in {PointRegs[j][d] : d \in Names}
           coordinate(n) == CHOOSE e \in Names : PointRegs[of(n)][e] = n
           value(n) == IF n \in PointNames THEN point[cells[of(n)]][coordinate(n)] ELSE Fresh[n]
           loaded == Loaded(a, b, c)
<1>1. loaded = [n \in DOMAIN Fresh \union {"ok"} |-> IF n = "ok" THEN TRUE ELSE value(n)]
  BY DEF Loaded, Start
<1>2. DOMAIN Fresh = RegisterNames
  BY DEF Fresh, RegisterNames
<1>3. ASSUME NEW n \in PointNames PROVE value(n).mag = 1 /\ value(n).normal = TRUE
  <2>1. of(n) \in 1..3 /\ n \in {PointRegs[of(n)][d] : d \in Names}
    <3>1. \E j \in 1..3 : n \in {PointRegs[j][c2] : c2 \in Names}
      BY NamesOfPoints
    <3> QED
      BY <3>1
  <2>2. coordinate(n) \in Names
    <3> HIDE DEF of
    <3> QED
      BY <2>1
  <2> HIDE DEF of, coordinate
  <2>3. cells[of(n)] \in Cells
    BY <2>1
  <2> QED
    BY <2>2, <2>3 DEF MemoryInv
<1>4. ASSUME NEW n \in RegisterNames \ PointNames PROVE value(n).mag = 1 /\ value(n).normal = TRUE
  BY <1>2 DEF Fresh, Number, Register, RegisterNames
<1> HIDE DEF value
<1>5. \A n \in RegisterNames : loaded[n] = value(n)
  BY <1>1, <1>2, OkIsNoRegister
<1>6. loaded["ok"] = TRUE /\ DOMAIN loaded = RegisterNames \union {"ok"} /\ loaded = [n \in DOMAIN loaded |-> loaded[n]]
  BY <1>1, <1>2
<1> HIDE DEF loaded
<1>7. \A n \in RegisterNames : loaded[n].mag = 1 /\ loaded[n].normal = TRUE
  BY <1>3, <1>4, <1>5
<1>8. /\ DOMAIN Entry = RegisterNames /\ Entry = [n \in DOMAIN Entry |-> Entry[n]]
      /\ \A n \in RegisterNames : Entry[n].mag = 1 /\ Entry[n].normal = TRUE
  BY DEF Entry, Clean
<1>9. Similar(loaded, Entry)
  BY <1>6, <1>7, <1>8 DEF Similar
<1> QED
  BY <1>9 DEF loaded

\* Every cell of a call gets back one of its three points.
LEMMA CallInv ==
    ASSUME MemoryInv, NEW regs, Restored(regs), NEW a, NEW b, NEW c, NEW log, Call(regs, a, b, c, log)
    PROVE  MemoryInv'
<1> DEFINE index(x) == IF x = a THEN 1 ELSE IF x = b THEN 2 ELSE 3
<1>1. /\ point' = [x \in Cells |-> IF x \in {a, b, c}
                                   THEN [d \in Names |-> regs[PointRegs[index(x)][d]]]
                                   ELSE point[x]]
      /\ proper' = regs["ok"]
  BY DEF Call
<1>2. proper' = TRUE
  BY <1>1 DEF Restored
<1>3. ASSUME NEW x \in Cells, NEW d \in Names PROVE point'[x][d].normal = TRUE /\ point'[x][d].mag = 1
  <2>1. index(x) \in 1..3
    OBVIOUS
  <2>2. PointRegs[index(x)][d] \in PointNames
    <3> HIDE DEF index
    <3> QED
      BY <2>1, NamesOfPoints
  <2>3. CASE x \in {a, b, c}
    <3>1. point'[x][d] = regs[PointRegs[index(x)][d]]
      <4> HIDE DEF index
      <4> QED
        BY <1>1, <2>3
    <3> QED
      BY <2>2, <3>1 DEF Restored
  <2>4. CASE x \notin {a, b, c}
    BY <1>1, <2>4 DEF MemoryInv
  <2> QED
    BY <2>3, <2>4
<1> QED
  BY <1>2, <1>3 DEF MemoryInv

LEMMA InPlaceInv ==
    ASSUME MemoryInv, NEW routine, NEW c \in Cells, NEW log, InPlace(routine, c, log),
           \A homes \in Homes : Restores(routine, homes, Entry)
    PROVE  MemoryInv'
<1>1. Restored(Execute(routine, HomesOf(c, c, c), Loaded(c, c, c)))
  BY HomesAreHomes, LoadedSimilar, RoutineRestores
<1> QED
  BY <1>1, CallInv DEF InPlace

LEMMA CurveInitInv == CurveInit => MemoryInv
<1> SUFFICES ASSUME CurveInit PROVE MemoryInv
  OBVIOUS
<1>1. PICK z \in [Cells -> Zs] : point = [x \in Cells |-> Jacobian(logOf[x], z[x])]
  BY DEF CurveInit
<1>2. \A d \in Names : \A k, w : Jacobian(k, w)[d].normal = TRUE /\ Jacobian(k, w)[d].mag = 1
  BY DEF Names, Jacobian, Number, Register
<1>3. \A x \in Cells : point[x] = Jacobian(logOf[x], z[x])
  BY <1>1
<1>4. proper = TRUE
  BY DEF CurveInit
<1> QED
  BY <1>2, <1>3, <1>4 DEF MemoryInv

LEMMA CurveNextInv == ASSUME MemoryInv, CurveNext PROVE MemoryInv'
<1>1. ASSUME NEW a \in Cells, NEW b \in Cells, NEW c \in Cells, AddPoints(a, b, c) PROVE MemoryInv'
  <2>1. Restored(AddNonConst(HomesOf(a, b, c), Loaded(a, b, c)))
    BY HomesAreHomes, LoadedSimilar, AddRestores
  <2> QED
    BY <1>1, <2>1, CallInv DEF AddPoints
<1>2. ASSUME NEW a \in Cells, NEW c \in Cells, DoublePoint(a, c) PROVE MemoryInv'
  <2>1. \A homes \in Homes : DoubleConforms(homes, Entry)
    BY RoutinesAssumption
  <2>2. Restored(DoubleNonConst(HomesOf(a, a, c), Loaded(a, a, c)))
    BY <2>1, HomesAreHomes, LoadedSimilar, DoubleRestores
  <2> QED
    BY <1>2, <2>2, CallInv DEF DoublePoint
<1>3. ASSUME NEW c \in Cells, ToAffine(c) \/ NegatePoint(c) \/ EndoPoint(c) PROVE MemoryInv'
  <2>1. \A homes \in Homes : /\ Restores(ToAffineRoutine, homes, Entry)
                             /\ Restores(NegateRoutine, homes, Entry)
                             /\ Restores(EndoRoutine, homes, Entry)
    BY RoutinesAssumption
  <2>2. CASE ToAffine(c)
    BY <2>1, <2>2, InPlaceInv DEF ToAffine
  <2>3. CASE NegatePoint(c)
    BY <2>1, <2>3, InPlaceInv DEF NegatePoint
  <2>4. CASE EndoPoint(c)
    BY <2>1, <2>4, InPlaceInv DEF EndoPoint
  <2> QED
    BY <1>3, <2>2, <2>3, <2>4
<1> QED
  BY <1>1, <1>2, <1>3 DEF CurveNext

\* However many points are added, doubled, negated and made affine, in place
\* or not, no operation of curve.go is called with a magnitude beyond what
\* field.go allows, and every point in memory is normalized: for any prime,
\* generator, points and Z coordinates.
THEOREM MagnitudesKept == CurveSpec => []InConditions
<1>1. CurveInit => MemoryInv
  BY CurveInitInv
<1>2. MemoryInv /\ [CurveNext]_curveVars => MemoryInv'
  <2>1. MemoryInv /\ UNCHANGED curveVars => MemoryInv'
    BY DEF curveVars, MemoryInv
  <2> QED
    BY <2>1, CurveNextInv
<1>3. MemoryInv => InConditions
  BY DEF MemoryInv, InConditions
<1> QED
  BY <1>1, <1>2, <1>3, PTL DEF CurveSpec

-----------------------------------------------------------------------------
(* DecompressY *)

\* What DecompressY's comment promises: an X of magnitude up to 8 will do, no
\* operation is called with more than it allows, and Y has a magnitude of 2 at
\* most, for any prime and any X, one that is on the curve or not.
THEOREM RootKeepsMagnitudes ==
    ASSUME NEW x, x.mag \in 1..MaxMulMagnitude, x.normal \in BOOLEAN, NEW odd
    PROVE  /\ DecompressY(x, odd, Start).regs["ok"] = TRUE
           /\ DecompressY(x, odd, Start).regs["y3"].mag \in 1..2
<1> DEFINE shape == [mag |-> x.mag, normal |-> x.normal]
           start == [Start EXCEPT !["x3"] = x]
           ran == Execute(RootRoutine, Apart, start)
           regs == Checked(ran, {"a", "b"})
           fine == Execute(Normalize("y3"), Apart, regs)
           flipped == Execute(Negate("y3", 1), Apart, fine)
           rootShapes == FinalShapes(RootRoutine, Apart, EntryWith(shape))
           fineShapes == FinalShapes(Normalize("y3"), Apart, rootShapes)
           flippedShapes == FinalShapes(Negate("y3", 1), Apart, fineShapes)
<1>1. shape \in XShapes
  BY DEF XShapes
<1>2. /\ Conforms(RootRoutine, Apart, EntryWith(shape))
      /\ rootShapes["a"].normal /\ rootShapes["b"].normal
      /\ Conforms(Normalize("y3"), Apart, rootShapes) /\ fineShapes["y3"] = Clean
      /\ Conforms(Negate("y3", 1), Apart, fineShapes) /\ flippedShapes["y3"].mag = 2
  <2> HIDE DEF shape
  <2> QED
    BY <1>1, RootAssumption
<1>3. Apart \in Homes
  BY DEF Apart, Homes
<1>4. {"x3", "y3", "a", "b"} \subseteq RegisterNames
  BY DEF RegisterNames, Locals, PointNames, PointRegs, Names
<1>5. Similar(start, EntryWith(shape))
  <2>1. /\ DOMAIN Start = RegisterNames \union {"ok"} /\ Start = [n \in DOMAIN Start |-> Start[n]]
        /\ Start["ok"] = TRUE
        /\ \A n \in RegisterNames : Start[n].mag = 1 /\ Start[n].normal = TRUE
    BY OkIsNoRegister DEF Start, Fresh, RegisterNames, Number, Register
  <2>2. /\ DOMAIN Entry = RegisterNames /\ Entry = [n \in DOMAIN Entry |-> Entry[n]]
        /\ \A n \in RegisterNames : Entry[n].mag = 1 /\ Entry[n].normal = TRUE
    BY DEF Entry, Clean
  <2>3. /\ DOMAIN start = RegisterNames \union {"ok"} /\ start = [n \in DOMAIN start |-> start[n]]
        /\ start["ok"] = TRUE /\ start["x3"] = x
        /\ \A n \in RegisterNames : n # "x3" => start[n] = Start[n]
    BY <1>4, <2>1, OkIsNoRegister
  <2>4. /\ DOMAIN EntryWith(shape) = RegisterNames
        /\ EntryWith(shape) = [n \in DOMAIN EntryWith(shape) |-> EntryWith(shape)[n]]
        /\ EntryWith(shape)["x3"] = shape
        /\ \A n \in RegisterNames : n # "x3" => EntryWith(shape)[n] = Entry[n]
    <3> HIDE DEF shape
    <3> QED
      BY <1>4, <2>2 DEF EntryWith
  <2>5. x.mag = shape.mag /\ x.normal = shape.normal
    OBVIOUS
  <2> HIDE DEF start, shape
  <2>6. ASSUME NEW n \in RegisterNames
        PROVE  start[n].mag = EntryWith(shape)[n].mag /\ start[n].normal = EntryWith(shape)[n].normal
    <3>1. CASE n = "x3"
      BY <2>3, <2>4, <2>5, <3>1
    <3>2. CASE n # "x3"
      <4>1. start[n] = Start[n] /\ EntryWith(shape)[n] = Entry[n]
        BY <2>3, <2>4, <3>2
      <4>2. Start[n].mag = Entry[n].mag /\ Start[n].normal = Entry[n].normal
        BY <2>1, <2>2
      <4> QED
        BY <4>1, <4>2
    <3> QED
      BY <3>1, <3>2
  <2> QED
    BY <2>3, <2>4, <2>6 DEF Similar
<1> HIDE DEF shape, start
<1>6. Similar(ran, rootShapes)
  BY <1>2, <1>3, <1>5, RoutineSimilar
<1> HIDE DEF ran, rootShapes
<1>7. Similar(regs, rootShapes)
  BY <1>2, <1>4, <1>6, CheckedSimilar
<1> HIDE DEF regs
<1>8. Similar(fine, fineShapes)
  BY <1>2, <1>3, <1>7, RoutineSimilar
<1> HIDE DEF fine, fineShapes
<1>9. Similar(flipped, flippedShapes)
  BY <1>2, <1>3, <1>8, RoutineSimilar
<1> HIDE DEF flipped, flippedShapes
<1>10. DecompressY(x, odd, Start).regs \in {fine, flipped}
  BY DEF DecompressY, Apart, start, ran, regs, fine, flipped
<1> QED
  BY <1>2, <1>4, <1>8, <1>9, <1>10 DEF Similar, Clean

-----------------------------------------------------------------------------
(* DecompressY finds the root it should *)

\* A sequence with one element more.
LEMMA Appended ==
    ASSUME NEW S, NEW t \in Seq(S), NEW e \in S
    PROVE  /\ t \o <<e>> \in Seq(S) /\ Len(t \o <<e>>) = Len(t) + 1
           /\ \A i \in 1..Len(t) : (t \o <<e>>)[i] = t[i]
           /\ (t \o <<e>>)[Len(t) + 1] = e
<1>1. <<e>> \in Seq(S) /\ Len(<<e>>) = 1 /\ <<e>>[1] = e
  OBVIOUS
<1> QED
  BY <1>1

\* The steps of DecompressY up to its comparison.
LEMMA RootSteps ==
    /\ Len(RootRoutine) = 7
    /\ RootRoutine[1] = [op |-> "mul", to |-> "a", a |-> "x3", b |-> "x3", n |-> 0]
    /\ RootRoutine[2] = [op |-> "mul", to |-> "a", a |-> "a", b |-> "x3", n |-> 0]
    /\ RootRoutine[3] = [op |-> "addInt", to |-> "a", a |-> "a", b |-> "a", n |-> 7]
    /\ RootRoutine[4] = [op |-> "root", to |-> "y3", a |-> "a", b |-> "a", n |-> 0]
    /\ RootRoutine[5] = [op |-> "mul", to |-> "b", a |-> "y3", b |-> "y3", n |-> 0]
    /\ RootRoutine[6] = [op |-> "normalize", to |-> "b", a |-> "b", b |-> "b", n |-> 0]
    /\ RootRoutine[7] = [op |-> "normalize", to |-> "a", a |-> "a", b |-> "a", n |-> 0]
<1> DEFINE Step(op, to, a, b, n) == [op |-> op, to |-> to, a |-> a, b |-> b, n |-> n]
           s1 == Step("mul", "a", "x3", "x3", 0)
           s2 == Step("mul", "a", "a", "x3", 0)
           s3 == Step("addInt", "a", "a", "a", 7)
           s4 == Step("root", "y3", "a", "a", 0)
           s5 == Step("mul", "b", "y3", "y3", 0)
           s6 == Step("normalize", "b", "b", "b", 0)
           s7 == Step("normalize", "a", "a", "a", 0)
           S == {s1, s2, s3, s4, s5, s6, s7}
           t2 == <<s1>> \o <<s2>>
           t3 == t2 \o <<s3>>
           t4 == t3 \o <<s4>>
           t5 == t4 \o <<s5>>
           t6 == t5 \o <<s6>>
           t7 == t6 \o <<s7>>
<1>8. RootRoutine = t7
  BY Zenon DEF RootRoutine, SquareVal, Mul, Mul2, AddInt, SquareRoot, Normalize, Op
<1>9. /\ s1 \in S /\ s2 \in S /\ s3 \in S /\ s4 \in S /\ s5 \in S /\ s6 \in S /\ s7 \in S
  BY Zenon
<1> HIDE DEF s1, s2, s3, s4, s5, s6, s7, S
<1>1. <<s1>> \in Seq(S) /\ Len(<<s1>>) = 1 /\ <<s1>>[1] = s1
  BY <1>9
<1>2. t2 \in Seq(S) /\ Len(t2) = 2 /\ t2[1] = s1 /\ t2[2] = s2
  <2>1. /\ t2 \in Seq(S) /\ Len(t2) = Len(<<s1>>) + 1
        /\ \A i \in 1..Len(<<s1>>) : t2[i] = <<s1>>[i]
        /\ t2[Len(<<s1>>) + 1] = s2
    BY <1>1, <1>9, Appended
  <2> HIDE DEF t2
  <2> QED
    BY <1>1, <2>1
<1> HIDE DEF t2
<1>3. t3 \in Seq(S) /\ Len(t3) = 3 /\ t3[1] = s1 /\ t3[2] = s2 /\ t3[3] = s3
  <2>1. /\ t3 \in Seq(S) /\ Len(t3) = Len(t2) + 1
        /\ \A i \in 1..Len(t2) : t3[i] = t2[i]
        /\ t3[Len(t2) + 1] = s3
    BY <1>2, <1>9, Appended
  <2> HIDE DEF t3
  <2> QED
    BY <1>2, <2>1
<1> HIDE DEF t3
<1>4. t4 \in Seq(S) /\ Len(t4) = 4 /\ t4[1] = s1 /\ t4[2] = s2 /\ t4[3] = s3 /\ t4[4] = s4
  <2>1. /\ t4 \in Seq(S) /\ Len(t4) = Len(t3) + 1
        /\ \A i \in 1..Len(t3) : t4[i] = t3[i]
        /\ t4[Len(t3) + 1] = s4
    BY <1>3, <1>9, Appended
  <2> HIDE DEF t4
  <2> QED
    BY <1>3, <2>1
<1> HIDE DEF t4
<1>5. /\ t5 \in Seq(S) /\ Len(t5) = 5 /\ t5[1] = s1 /\ t5[2] = s2 /\ t5[3] = s3 /\ t5[4] = s4
      /\ t5[5] = s5
  <2>1. /\ t5 \in Seq(S) /\ Len(t5) = Len(t4) + 1
        /\ \A i \in 1..Len(t4) : t5[i] = t4[i]
        /\ t5[Len(t4) + 1] = s5
    BY <1>4, <1>9, Appended
  <2> HIDE DEF t5
  <2> QED
    BY <1>4, <2>1
<1> HIDE DEF t5
<1>6. /\ t6 \in Seq(S) /\ Len(t6) = 6 /\ t6[1] = s1 /\ t6[2] = s2 /\ t6[3] = s3 /\ t6[4] = s4
      /\ t6[5] = s5 /\ t6[6] = s6
  <2>1. /\ t6 \in Seq(S) /\ Len(t6) = Len(t5) + 1
        /\ \A i \in 1..Len(t5) : t6[i] = t5[i]
        /\ t6[Len(t5) + 1] = s6
    BY <1>5, <1>9, Appended
  <2> HIDE DEF t6
  <2> QED
    BY <1>5, <2>1
<1> HIDE DEF t6
<1>7. /\ Len(t7) = 7 /\ t7[1] = s1 /\ t7[2] = s2 /\ t7[3] = s3 /\ t7[4] = s4
      /\ t7[5] = s5 /\ t7[6] = s6 /\ t7[7] = s7
  <2>1. /\ t7 \in Seq(S) /\ Len(t7) = Len(t6) + 1
        /\ \A i \in 1..Len(t6) : t7[i] = t6[i]
        /\ t7[Len(t6) + 1] = s7
    BY <1>6, <1>9, Appended
  <2> HIDE DEF t7
  <2> QED
    BY <1>6, <2>1
<1>10. /\ Len(RootRoutine) = 7 /\ RootRoutine[1] = s1 /\ RootRoutine[2] = s2
       /\ RootRoutine[3] = s3 /\ RootRoutine[4] = s4 /\ RootRoutine[5] = s5
       /\ RootRoutine[6] = s6 /\ RootRoutine[7] = s7
  <2> HIDE DEF t7
  <2> QED
    BY <1>7, <1>8
<1> QED
  BY <1>10 DEF s1, s2, s3, s4, s5, s6, s7

\* With three points apart a register is where its name says.
LEMMA ApartHomes == \A n \in {"a", "b", "x3", "y3"} : Home(Apart, n) = n
<1>1. ASSUME NEW n \in PointNames PROVE At[Apart][n] = n
  <2> DEFINE i == CHOOSE j \in 1..3 : n \in {PointRegs[j][c] : c \in Names}
             d == CHOOSE e \in Names : PointRegs[i][e] = n
  <2>1. At[Apart][n] = PointRegs[Apart[i]][d]
    BY DEF At, Homes, Apart
  <2>2. i \in 1..3 /\ n \in {PointRegs[i][c] : c \in Names}
    <3>1. \E j \in 1..3 : n \in {PointRegs[j][c] : c \in Names}
      BY NamesOfPoints
    <3> QED
      BY <3>1
  <2>3. PointRegs[i][d] = n
    BY <2>2
  <2> HIDE DEF i, d
  <2>4. Apart[i] = i
    BY <2>2 DEF Apart
  <2> QED
    BY <2>1, <2>3, <2>4
<1>2. "x3" \in PointNames /\ "y3" \in PointNames /\ "a" \notin PointNames /\ "b" \notin PointNames
  BY DEF PointNames, PointRegs, Names
<1> QED
  BY <1>1, <1>2 DEF Home

\* The numbers in the registers of DecompressY.
RootRegs == {"a", "b", "x3", "y3"}
Whole(regs) == DOMAIN regs = RegisterNames \union {"ok"}
Holds(regs, a, b, x, y) ==
    Whole(regs) /\ regs["a"].v = a /\ regs["b"].v = b /\ regs["x3"].v = x /\ regs["y3"].v = y

StepOn(s) == s.to \in RootRegs /\ s.a \in RootRegs /\ s.b \in RootRegs

\* A step changes the number of the register it names, and no other.
Stepped(after, regs, s) ==
    /\ Whole(after)
    /\ after[s.to].v = Computed(s, regs[s.a].v, regs[s.b].v)
    /\ \A n \in RootRegs : n # s.to => after[n].v = regs[n].v

\* A step computes what it says and leaves the other registers alone.
LEMMA StepComputes ==
    ASSUME NEW regs, Whole(regs), NEW s, StepOn(s), NEW after, after = ExecuteStep(Apart, regs, s)
    PROVE  Stepped(after, regs, s)
<1> DEFINE a == regs[s.a]
           b == regs[s.b]
<1>1. Home(Apart, s.to) = s.to /\ Home(Apart, s.a) = s.a /\ Home(Apart, s.b) = s.b
  BY ApartHomes DEF StepOn, RootRegs
<1>2. RootRegs \subseteq RegisterNames
  BY DEF RootRegs, RegisterNames, Locals, PointNames, PointRegs, Names
<1>3. after = [regs EXCEPT ![s.to] = Outcome(s, a, b), !["ok"] = @ /\ AsAsked(s, a, b)]
  BY <1>1 DEF ExecuteStep
<1> HIDE DEF a, b
<1>4. /\ DOMAIN after = RegisterNames \union {"ok"} /\ after[s.to] = Outcome(s, a, b)
      /\ \A n \in RootRegs : n # s.to => after[n] = regs[n]
  BY <1>2, <1>3 DEF Whole, StepOn, RootRegs
<1>5. Outcome(s, a, b).v = Computed(s, a.v, b.v)
  BY DEF Outcome
<1> QED
  BY <1>4, <1>5 DEF Whole, Stepped, StepOn, a, b

\* The execution of those steps satisfies its equation.
LEMMA RootRuns ==
    ASSUME NEW regs
    PROVE  /\ Execution(RootRoutine, Apart, regs)[0] = regs
           /\ \A i \in 1..Len(RootRoutine) :
                Execution(RootRoutine, Apart, regs)[i] =
                    ExecuteStep(Apart, Execution(RootRoutine, Apart, regs)[i - 1], RootRoutine[i])
<1>1. Len(RootRoutine) \in Nat
  BY RootSteps
<1> QED
  BY <1>1, ExecutionRuns

\* What RootRoutine leaves in its registers.
Cubed(x) == (((((x * x) % P) * x) % P) + 7) % P
RootOf(x) == Power(Cubed(x), (P + 1) \div 4)

\* After them a and b hold X cubed and 7, and the square of the root.
LEMMA RootComputes ==
    ASSUME NEW regs, Whole(regs), NEW x, regs["x3"].v = x
    PROVE  Holds(Execute(RootRoutine, Apart, regs),
                 Cubed(x) % P, ((RootOf(x) * RootOf(x)) % P) % P, x, RootOf(x))
<1> DEFINE r(i) == Execution(RootRoutine, Apart, regs)[i]
           s(i) == RootRoutine[i]
           x2 == (x * x) % P
           x3 == (x2 * x) % P
           y2 == (RootOf(x) * RootOf(x)) % P
<1>1. /\ r(0) = regs /\ Execute(RootRoutine, Apart, regs) = r(7)
      /\ \A i \in 1..7 : r(i) = ExecuteStep(Apart, r(i - 1), s(i))
  BY RootRuns, RootSteps DEF Execute
<1>2. \A i \in 1..7 : StepOn(s(i))
  <2>1. /\ StepOn(s(1)) /\ StepOn(s(2)) /\ StepOn(s(3)) /\ StepOn(s(4)) /\ StepOn(s(5)) /\ StepOn(s(6))
        /\ StepOn(s(7))
    BY RootSteps DEF StepOn, RootRegs
  <2>2. \A i \in 1..7 : i \in {1, 2, 3, 4, 5, 6, 7}
    OBVIOUS
  <2> HIDE DEF s
  <2> QED
    BY <2>1, <2>2
<1> HIDE DEF r, s
<1>3. ASSUME NEW i \in 1..7, Whole(r(i - 1)) PROVE Stepped(r(i), r(i - 1), s(i))
  <2>1. r(i) = ExecuteStep(Apart, r(i - 1), s(i)) /\ StepOn(s(i))
    BY <1>1, <1>2
  <2> QED
    BY <1>3, <2>1, StepComputes
<1>4. Whole(r(0)) /\ r(0)["x3"].v = x
  BY <1>1
<1>5. Whole(r(1)) /\ r(1)["a"].v = x2 /\ r(1)["x3"].v = x
  <2>1. Stepped(r(1), r(0), s(1))
    BY <1>3, <1>4
  <2> QED
    BY <1>4, <2>1, RootSteps DEF Stepped, Computed, RootRegs, s
<1>6. Whole(r(2)) /\ r(2)["a"].v = x3 /\ r(2)["x3"].v = x
  <2>1. Stepped(r(2), r(1), s(2))
    BY <1>3, <1>5
  <2> QED
    BY <1>5, <2>1, RootSteps DEF Stepped, Computed, RootRegs, s
<1>7. Whole(r(3)) /\ r(3)["a"].v = Cubed(x) /\ r(3)["x3"].v = x
  <2>1. Stepped(r(3), r(2), s(3))
    BY <1>3, <1>6
  <2> QED
    BY <1>6, <2>1, RootSteps DEF Stepped, Computed, RootRegs, s, Cubed
<1>8. Whole(r(4)) /\ r(4)["a"].v = Cubed(x) /\ r(4)["y3"].v = RootOf(x) /\ r(4)["x3"].v = x
  <2>1. Stepped(r(4), r(3), s(4))
    BY <1>3, <1>7
  <2> QED
    BY <1>7, <2>1, RootSteps DEF Stepped, Computed, RootRegs, s, RootOf
<1>9. Holds(r(5), Cubed(x), y2, x, RootOf(x))
  <2>1. Stepped(r(5), r(4), s(5))
    BY <1>3, <1>8
  <2> QED
    BY <1>8, <2>1, RootSteps DEF Stepped, Computed, RootRegs, s, Holds
<1>10. Holds(r(6), Cubed(x), y2 % P, x, RootOf(x))
  <2>1. Stepped(r(6), r(5), s(6))
    BY <1>3, <1>9 DEF Holds
  <2> QED
    BY <1>9, <2>1, RootSteps DEF Stepped, Computed, RootRegs, s, Holds
<1>11. Holds(r(7), Cubed(x) % P, y2 % P, x, RootOf(x))
  <2>1. Stepped(r(7), r(6), s(7))
    BY <1>3, <1>10 DEF Holds
  <2> QED
    BY <1>10, <2>1, RootSteps DEF Stepped, Computed, RootRegs, s, Holds
<1> QED
  BY <1>1, <1>11

\* A routine of one step.
LEMMA OneStep ==
    ASSUME NEW s, NEW homes, NEW regs
    PROVE  Execute(<<s>>, homes, regs) = ExecuteStep(homes, regs, s)
<1> DEFINE routine == <<s>>
<1>1. Len(routine) = 1 /\ Len(routine) \in Nat /\ routine[1] = s
  OBVIOUS
<1> HIDE DEF routine
<1>2. /\ Execution(routine, homes, regs)[0] = regs
      /\ \A i \in 1..Len(routine) : Execution(routine, homes, regs)[i] =
            ExecuteStep(homes, Execution(routine, homes, regs)[i - 1], routine[i])
  BY <1>1, ExecutionRuns
<1>3. Execute(routine, homes, regs) = ExecuteStep(homes, regs, s)
  BY <1>1, <1>2 DEF Execute
<1> QED
  BY <1>3 DEF routine

\* Looking at registers does not change them.
LEMMA CheckedHolds ==
    ASSUME NEW regs, NEW names, NEW a, NEW b, NEW x, NEW y, Holds(regs, a, b, x, y)
    PROVE  Holds(Checked(regs, names), a, b, x, y)
<1>1. RootRegs \subseteq RegisterNames /\ "ok" \notin RootRegs
  BY DEF RootRegs, RegisterNames, Locals, PointNames, PointRegs, Names
<1> DEFINE after == Checked(regs, names)
<1>2. DOMAIN after = RegisterNames \union {"ok"} /\ \A n \in RootRegs : after[n] = regs[n]
  BY <1>1 DEF Checked, Holds, Whole
<1> QED
  BY <1>2 DEF Holds, Whole, RootRegs

\* What DecompressY makes of the number it is given.
LEMMA Decompressed ==
    ASSUME NEW x, NEW odd
    PROVE  LET root == RootOf(x.v) % P
           IN  /\ DecompressY(x, odd, Start).hasSqrt
                    = (Cubed(x.v) % P = ((RootOf(x.v) * RootOf(x.v)) % P) % P)
               /\ DecompressY(x, odd, Start).regs["y3"].v
                    = IF (root % 2 = 1) # odd THEN (-root) % P ELSE root
<1> DEFINE start == [Start EXCEPT !["x3"] = x]
           ran == Execute(RootRoutine, Apart, start)
           regs == Checked(ran, {"a", "b"})
           normal == Execute(Normalize("y3"), Apart, regs)
           negated == Execute(Negate("y3", 1), Apart, normal)
           root == RootOf(x.v) % P
           squared == ((RootOf(x.v) * RootOf(x.v)) % P) % P
           sNormal == [op |-> "normalize", to |-> "y3", a |-> "y3", b |-> "y3", n |-> 0]
           sNegate == [op |-> "negate", to |-> "y3", a |-> "y3", b |-> "y3", n |-> 1]
<1>1. Whole(start) /\ start["x3"] = x
  <2>1. DOMAIN Start = RegisterNames \union {"ok"} /\ "x3" \in RegisterNames
    BY DEF Start, Fresh, RegisterNames, PointNames, PointRegs, Names
  <2> QED
    BY <2>1 DEF Whole
<1> HIDE DEF start
<1>2. Holds(ran, Cubed(x.v) % P, squared, x.v, RootOf(x.v))
  BY <1>1, RootComputes
<1> HIDE DEF ran, squared
<1>3. Holds(regs, Cubed(x.v) % P, squared, x.v, RootOf(x.v))
  BY <1>2, CheckedHolds
<1> HIDE DEF regs
<1>4. Whole(normal) /\ normal["y3"].v = root
  <2>1. normal = ExecuteStep(Apart, regs, sNormal)
    BY OneStep DEF Normalize, Op
  <2>2. StepOn(sNormal)
    BY DEF StepOn, RootRegs
  <2>3. sNormal.to = "y3" /\ sNormal.a = "y3" /\ sNormal.op = "normalize"
    OBVIOUS
  <2> HIDE DEF sNormal, normal
  <2>4. Stepped(normal, regs, sNormal)
    BY <1>3, <2>1, <2>2, StepComputes DEF Holds
  <2> QED
    BY <1>3, <2>3, <2>4 DEF Stepped, Computed, Holds
<1>5. negated["y3"].v = (-root) % P
  <2>1. negated = ExecuteStep(Apart, normal, sNegate)
    BY OneStep DEF Negate, Op
  <2>2. StepOn(sNegate)
    BY DEF StepOn, RootRegs
  <2>3. sNegate.to = "y3" /\ sNegate.a = "y3" /\ sNegate.op = "negate"
    OBVIOUS
  <2> HIDE DEF sNegate, normal, negated, root
  <2>4. Stepped(negated, normal, sNegate)
    BY <1>4, <2>1, <2>2, StepComputes
  <2> QED
    BY <1>4, <2>3, <2>4 DEF Stepped, Computed
<1>6. /\ DecompressY(x, odd, Start).hasSqrt = Equals(regs["a"], regs["b"])
      /\ DecompressY(x, odd, Start).regs = IF (normal["y3"].v % 2 = 1) # odd THEN negated ELSE normal
  BY DEF DecompressY, Apart, start, ran, regs, normal, negated
<1> HIDE DEF normal, negated
<1> QED
  BY <1>3, <1>4, <1>5, <1>6 DEF Holds, Equals, squared

-----------------------------------------------------------------------------
(* Remainders *)

\* A multiple of M between -M and M is zero.
LEMMA SmallMultiple ==
    ASSUME NEW M \in Nat \ {0}, NEW t \in Int, M * t < M, -M < M * t
    PROVE  t = 0
<1>1. CASE t >= 1
  <2>1. M * t >= M * 1
    BY <1>1
  <2> QED
    BY <2>1
<1>2. CASE t <= -1
  <2>1. M * t <= M * (-1)
    BY <1>2
  <2> QED
    BY <2>1
<1> QED
  BY <1>1, <1>2

\* A number is a multiple and its remainder.
LEMMA Remainder ==
    ASSUME NEW M \in Nat \ {0}, NEW x \in Int
    PROVE  \E p \in Int, r \in 0..(M - 1) : M * p \in Int /\ x % M = r /\ x = M * p + r
<1> DEFINE p == x \div M
           r == x % M
<1>1. r \in 0..(M - 1) /\ p \in Int
  OBVIOUS
<1>2. r = x - M * p
  OBVIOUS
<1>3. x % M = r
  OBVIOUS
<1> HIDE DEF p, r
<1>4. M * p \in Int
  BY <1>1
<1>5. x = M * p + r
  BY <1>1, <1>2, <1>4
<1> QED
  BY <1>1, <1>3, <1>4, <1>5

\* There is one way to be a multiple and a remainder.
LEMMA RemainderIs ==
    ASSUME NEW M \in Nat \ {0}, NEW q \in Int, NEW r \in 0..(M - 1)
    PROVE  (M * q + r) % M = r
<1> DEFINE x == M * q + r
<1>1. M * q \in Int /\ x \in Int
  OBVIOUS
<1>2. PICK p \in Int, s \in 0..(M - 1) : M * p \in Int /\ x % M = s /\ x = M * p + s
  <2> HIDE DEF x
  <2> QED
    BY <1>1, Remainder
<1>3. M * q + r = M * p + s
  BY <1>2
<1>5. M * (p - q) = r - s
  <2>1. M * (p - q) = M * p - M * q
    BY <1>2
  <2> QED
    BY <1>1, <1>2, <1>3, <2>1
<1>6. p - q = 0
  BY <1>2, <1>5, SmallMultiple
<1>7. r = s
  BY <1>1, <1>2, <1>3, <1>6
<1> QED
  BY <1>2, <1>7

\* Numbers that differ by a multiple of M have one remainder.
LEMMA SameRemainder ==
    ASSUME NEW M \in Nat \ {0}, NEW x \in Int, NEW q \in Int
    PROVE  (x + M * q) % M = x % M
<1>1. PICK p \in Int, r \in 0..(M - 1) : M * p \in Int /\ x % M = r /\ x = M * p + r
  BY Remainder
<1>2. x + M * q = M * (p + q) + r
  <2>1. M * (p + q) = M * p + M * q /\ M * q \in Int
    BY <1>1
  <2> QED
    BY <1>1, <2>1
<1>3. (M * (p + q) + r) % M = r
  <2>1. p + q \in Int /\ r \in 0..(M - 1)
    BY <1>1
  <2> QED
    BY <2>1, RemainderIs
<1> QED
  BY <1>1, <1>2, <1>3

\* A sum may be reduced before it is formed.
LEMMA AddRemainder ==
    ASSUME NEW M \in Nat \ {0}, NEW x \in Int, NEW y \in Int
    PROVE  ((x % M) + y) % M = (x + y) % M
<1>1. PICK p \in Int, r \in 0..(M - 1) : M * p \in Int /\ x % M = r /\ x = M * p + r
  BY Remainder
<1>2. x + y = (r + y) + M * p /\ r + y \in Int
  BY <1>1
<1>3. ((r + y) + M * p) % M = (r + y) % M
  BY <1>1, <1>2, SameRemainder
<1> QED
  BY <1>1, <1>2, <1>3

\* A product may be reduced before it is formed.
LEMMA MulRemainder ==
    ASSUME NEW M \in Nat \ {0}, NEW x \in Int, NEW y \in Int
    PROVE  ((x % M) * y) % M = (x * y) % M
<1>1. PICK p \in Int, r \in 0..(M - 1) : M * p \in Int /\ x % M = r /\ x = M * p + r
  BY Remainder
<1>2. x * y = r * y + M * (p * y) /\ r * y \in Int /\ p * y \in Int
  BY <1>1
<1>3. (r * y + M * (p * y)) % M = (r * y) % M
  BY <1>2, SameRemainder
<1> QED
  BY <1>1, <1>2, <1>3

\* What is below M is its own remainder.
LEMMA ModSmall ==
    ASSUME NEW M \in Nat \ {0}, NEW x \in 0..(M - 1)
    PROVE  x % M = x
<1>1. M * 0 + x = x
  OBVIOUS
<1>2. (M * 0 + x) % M = x
  BY RemainderIs
<1> QED
  BY <1>1, <1>2

\* A remainder is below M.
LEMMA ModRange ==
    ASSUME NEW M \in Nat \ {0}, NEW x \in Int
    PROVE  x % M \in 0..(M - 1) /\ (x % M) % M = x % M
<1>1. x % M \in 0..(M - 1)
  BY Remainder
<1> QED
  BY <1>1, ModSmall

\* Products of numbers that are the same modulo M.
LEMMA ModTimes ==
    ASSUME NEW M \in Nat \ {0}, NEW x \in Int, NEW y \in Int, NEW z \in Int, x % M = y % M
    PROVE  (x * z) % M = (y * z) % M
<1>1. ((x % M) * z) % M = (x * z) % M
  BY MulRemainder
<1>2. ((y % M) * z) % M = (y * z) % M
  BY MulRemainder
<1> QED
  BY <1>1, <1>2

\* Sums of numbers that are the same modulo M.
LEMMA ModPlus ==
    ASSUME NEW M \in Nat \ {0}, NEW x \in Int, NEW y \in Int, NEW z \in Int, x % M = y % M
    PROVE  (x + z) % M = (y + z) % M
<1>1. ((x % M) + z) % M = (x + z) % M
  BY AddRemainder
<1>2. ((y % M) + z) % M = (y + z) % M
  BY AddRemainder
<1> QED
  BY <1>1, <1>2

\* A factor that has an inverse can be left out.
Cancels(M, z) == \A x, y \in Int : (x * z) % M = (y * z) % M => x % M = y % M

\* A number that has an inverse modulo M cancels.
LEMMA ModCancel ==
    ASSUME NEW M \in Nat \ {0}, NEW z \in Int, \E i \in Int : (i * z) % M = 1
    PROVE  Cancels(M, z)
<1> SUFFICES ASSUME NEW x \in Int, NEW y \in Int, (x * z) % M = (y * z) % M
             PROVE  x % M = y % M
  BY DEF Cancels
<1>0. PICK i \in Int : (i * z) % M = 1
  OBVIOUS
<1>1. ASSUME NEW u \in Int PROVE ((u * z) * i) % M = u % M
  <2>1. (u * z) * i = (i * z) * u /\ i * z \in Int
    OBVIOUS
  <2>2. (((i * z) % M) * u) % M = ((i * z) * u) % M
    BY <2>1, MulRemainder
  <2>3. ((i * z) % M) * u = u
    <3> DEFINE one == (i * z) % M
    <3>1. one = 1
      BY <1>0
    <3> HIDE DEF one
    <3>2. one * u = u
      BY <3>1
    <3> QED
      BY <3>2 DEF one
  <2> QED
    BY <2>1, <2>2, <2>3
<1>2. ((x * z) * i) % M = ((y * z) * i) % M
  <2> DEFINE xz == x * z
             yz == y * z
  <2>1. xz \in Int /\ yz \in Int /\ xz % M = yz % M
    OBVIOUS
  <2> HIDE DEF xz, yz
  <2>2. /\ ((xz % M) * i) % M = (xz * i) % M
        /\ ((yz % M) * i) % M = (yz * i) % M
    BY <2>1, MulRemainder, Zenon
  <2>3. (xz * i) % M = (yz * i) % M
    BY <2>1, <2>2, Zenon
  <2> QED
    BY <2>3 DEF xz, yz
<1> QED
  BY <1>1, <1>2

-----------------------------------------------------------------------------
(* The order and the prime of the field *)

\* The order and the prime as numbers: the order is the lower, the prime is odd.
LEMMA Orders ==
    /\ N \in Nat \ {0} /\ P \in Nat \ {0} /\ N > 1 /\ N < P /\ P < 2 * N
    /\ P % 2 = 1
<1>1. N \in Nat \ {0} /\ P \in Nat \ {0} /\ N > 1 /\ N < P /\ P < 2 * N
  BY SignatureAssumption, PrimesAssumption
<1>2. PICK q \in Int, r \in 0..3 : 4 * q \in Int /\ P % 4 = r /\ P = 4 * q + r
  <2>1. \E q \in Int, r \in 0..(4 - 1) : 4 * q \in Int /\ P % 4 = r /\ P = 4 * q + r
    <3>1. 4 \in Nat \ {0} /\ P \in Int
      BY <1>1
    <3> QED
      BY <3>1, Remainder
  <2> QED
    BY <2>1
<1>3. P = 2 * (2 * q + 1) + 1 /\ 2 * q + 1 \in Int
  BY <1>2, CurveAssumption
<1>4. (2 * (2 * q + 1) + 1) % 2 = 1
  <2>1. 2 \in Nat \ {0} /\ 1 \in 0..(2 - 1)
    OBVIOUS
  <2> QED
    BY <1>3, <2>1, RemainderIs
<1> QED
  BY <1>1, <1>3, <1>4

\* The opposite of a number has the other parity.
LEMMA OtherParity ==
    ASSUME NEW y \in 1..(P - 1)
    PROVE  P - y \in 1..(P - 1) /\ y % 2 \in 0..1 /\ (P - y) % 2 = 1 - (y % 2)
<1>1. P - y \in 1..(P - 1) /\ 2 \in Nat \ {0} /\ y \in Int /\ P \in Int
  BY Orders
<1>2. PICK q \in Int, r \in 0..(2 - 1) : 2 * q \in Int /\ y % 2 = r /\ y = 2 * q + r
  BY <1>1, Remainder
<1>3. PICK p \in Int, s \in 0..(2 - 1) : 2 * p \in Int /\ P % 2 = s /\ P = 2 * p + s
  BY <1>1, Remainder
<1>4. s = 1
  BY <1>3, Orders
<1>5. P - y = 2 * (p - q) + (1 - r) /\ p - q \in Int /\ 1 - r \in 0..(2 - 1)
  BY <1>1, <1>2, <1>3, <1>4
<1>6. (2 * (p - q) + (1 - r)) % 2 = 1 - r
  BY <1>1, <1>5, RemainderIs
<1> QED
  BY <1>1, <1>2, <1>5, <1>6

\* InverseModN is the inverse.
LEMMA InverseN ==
    ASSUME NEW k \in 1..(N - 1)
    PROVE  InverseModN[k] \in 1..(N - 1) /\ (InverseModN[k] * k) % N = 1
<1>1. \E i \in 1..(N - 1) : (i * k) % N = 1
  BY PrimesAssumption
<1> QED
  BY <1>1 DEF InverseModN

\* A scalar other than zero cancels modulo the order.
LEMMA CancelN ==
    ASSUME NEW x \in 0..(N - 1), NEW y \in 0..(N - 1), NEW z \in 1..(N - 1), (x * z) % N = (y * z) % N
    PROVE  x = y
<1>1. N \in Nat \ {0} /\ x \in Int /\ y \in Int /\ z \in Int
  BY Orders
<1>2. \E i \in Int : (i * z) % N = 1
  <2>1. PICK i \in 1..(N - 1) : (i * z) % N = 1
    BY PrimesAssumption
  <2>2. i \in Int
    BY <1>1
  <2> QED
    BY <2>1, <2>2
<1>3. Cancels(N, z)
  BY <1>1, <1>2, ModCancel
<1>4. x % N = y % N
  BY <1>1, <1>3 DEF Cancels
<1> QED
  BY <1>1, <1>4, ModSmall

\* A number other than zero cancels modulo the prime.
LEMMA CancelP == ASSUME NEW z \in 1..(P - 1) PROVE Cancels(P, z)
<1>1. P \in Nat \ {0} /\ z \in Int
  BY Orders
<1>2. \E i \in Int : (i * z) % P = 1
  <2>1. PICK i \in 1..(P - 1) : (i * z) % P = 1
    BY PrimesAssumption
  <2>2. i \in Int
    BY <1>1
  <2> QED
    BY <2>1, <2>2
<1> QED
  BY <1>1, <1>2, ModCancel

\* A square has two roots, opposite to each other.
LEMMA TwoRoots ==
    ASSUME NEW y \in 1..(P - 1), NEW z \in 0..(P - 1), (y * y) % P = (z * z) % P
    PROVE  z = y \/ z = P - y
<1>1. P \in Nat \ {0} /\ y \in Int /\ z \in Int
  BY Orders
<1>2. PICK q \in Int, d \in 0..(P - 1) : P * q \in Int /\ (z - y) % P = d /\ z - y = P * q + d
  <2>1. z - y \in Int
    BY <1>1
  <2> QED
    BY <1>1, <2>1, Remainder
<1>3. CASE d = 0
  <2>1. P * q = z - y /\ z - y < P /\ -P < z - y
    BY <1>1, <1>2, <1>3
  <2>2. q = 0
    BY <1>1, <1>2, <2>1, SmallMultiple
  <2> QED
    BY <1>1, <2>1, <2>2
<1>4. CASE d # 0
  <2>1. y * y \in Int /\ z * z \in Int /\ -(y * y) \in Int
    BY <1>1
  <2>2. (z * z + -(y * y)) % P = (y * y + -(y * y)) % P
    BY <1>1, <2>1, ModPlus
  <2>3. y * y + -(y * y) = 0
    BY <2>1
  <2>4. z * z + -(y * y) = (z - y) * (z + y)
    BY <1>1
  <2>5. (((z - y) % P) * (z + y)) % P = ((z - y) * (z + y)) % P
    <3>1. z - y \in Int /\ z + y \in Int
      BY <1>1
    <3> QED
      BY <1>1, <3>1, MulRemainder
  <2>6. (d * (z + y)) % P = 0 % P
    BY <1>2, <2>2, <2>3, <2>4, <2>5
  <2>7. ((z + y) * d) % P = (0 * d) % P
    <3>1. d * (z + y) = (z + y) * d /\ 0 * d = 0
      BY <1>1
    <3> QED
      BY <2>6, <3>1
  <2>8. (z + y) % P = 0 % P
    <3>1. z + y \in Int /\ 0 \in Int /\ d \in 1..(P - 1)
      BY <1>1, <1>4
    <3> QED
      BY <2>7, <3>1, CancelP DEF Cancels
  <2>9. 0 % P = 0
    BY <1>1, ModSmall
  <2>10. z + y = P
    <3>1. PICK p \in Int, e \in 0..(P - 1) : P * p \in Int /\ (z + y) % P = e /\ z + y = P * p + e
      <4>1. z + y \in Int
        BY <1>1
      <4> QED
        BY <1>1, <4>1, Remainder
    <3>2. z + y = P * p /\ 0 < z + y /\ z + y < 2 * P
      BY <1>1, <2>8, <2>9, <3>1
    <3>3. P * (p - 1) = P * p - P /\ p - 1 \in Int
      BY <1>1, <3>1
    <3>4. P * (p - 1) < P /\ -P < P * (p - 1)
      BY <1>1, <3>2, <3>3
    <3>5. p - 1 = 0
      BY <1>1, <3>3, <3>4, SmallMultiple
    <3> QED
      BY <1>1, <3>2, <3>3, <3>5
  <2> QED
    BY <1>1, <2>10
<1> QED
  BY <1>3, <1>4

\* A multiple of the generator that is not zero is a point of the curve.
LEMMA Coordinates ==
    ASSUME NEW k \in 1..(N - 1)
    PROVE  /\ Affine(k) \in Curve /\ Affine(k) = <<Affine(k)[1], Affine(k)[2]>>
           /\ Affine(k)[1] \in 0..(P - 1) /\ Affine(k)[2] \in 1..(P - 1)
           /\ Affine(k) # Infinity
           /\ N - k \in 1..(N - 1) /\ Affine(N - k) = <<Affine(k)[1], P - Affine(k)[2]>>
<1>1. N - k \in 1..(N - 1)
  BY Orders
<1>2. Affine(k) \in Curve /\ Affine(N - k) = <<Affine(k)[1], P - Affine(k)[2]>> /\ Affine(N - k) \in Curve
  BY <1>1, GroupAssumption
<1> HIDE DEF Affine
<1>3. Affine(k) = <<Affine(k)[1], Affine(k)[2]>> /\ Affine(k)[1] \in 0..(P - 1) /\ Affine(k)[2] \in 0..(P - 1)
  BY <1>2 DEF Curve
<1>4. P - Affine(k)[2] \in 0..(P - 1)
  BY <1>2 DEF Curve
<1>5. Affine(k) # Infinity
  BY <1>2, GroupAssumption
<1> QED
  BY <1>1, <1>2, <1>3, <1>4, <1>5, Orders

\* No point of the curve has a Y of zero.
LEMMA CurveHasNoZero ==
    ASSUME NEW a \in Curve
    PROVE  a = <<a[1], a[2]>> /\ a[1] \in 0..(P - 1) /\ a[2] \in 1..(P - 1) /\ a # Infinity
<1>1. PICK k \in 1..(N - 1) : Affine(k) = a
  BY GroupAssumption
<1> QED
  BY <1>1, Coordinates

-----------------------------------------------------------------------------
(* The root DecompressY is asked for *)

\* Cubed is the right side of the curve's equation.
LEMMA CubedIs == ASSUME NEW x \in Int PROVE Cubed(x) = (x * x * x + 7) % P /\ Cubed(x) \in 0..(P - 1)
<1> DEFINE y == x * x
           z == y * x
<1>1. P \in Nat \ {0} /\ y \in Int /\ z \in Int /\ 7 \in Int
  BY Orders
<1> HIDE DEF y, z
<1>2. ((y % P) * x) % P = (y * x) % P
  BY <1>1, MulRemainder, Zenon
<1>3. ((z % P) + 7) % P = (z + 7) % P
  BY <1>1, AddRemainder, Zenon
<1>4. Cubed(x) = ((((y % P) * x) % P) + 7) % P
  BY DEF Cubed, y
<1>5. Cubed(x) = (z + 7) % P
  BY <1>2, <1>3, <1>4 DEF z
<1>6. (z + 7) % P \in 0..(P - 1)
  <2>1. z + 7 \in Int
    BY <1>1
  <2> QED
    BY <1>1, <2>1, ModRange, Zenon
<1> QED
  BY <1>5, <1>6 DEF y, z

\* The curve's equation with Cubed.
LEMMA OnCurveIs ==
    ASSUME NEW x \in Int, NEW y
    PROVE  OnCurve(<<x, y>>) <=> (y * y) % P = Cubed(x)
<1>1. Cubed(x) = (x * x * x + 7) % P
  BY CubedIs
<1>2. <<x, y>>[1] = x /\ <<x, y>>[2] = y
  OBVIOUS
<1> QED
  BY <1>1, <1>2 DEF OnCurve

\* DecompressY finds a point of the curve with the X and the oddness it is
\* asked for, if there is one, and otherwise says so.
LEMMA Root ==
    ASSUME NEW r, r.v \in 0..(P - 1), NEW odd \in BOOLEAN
    PROVE  LET found == DecompressY(r, odd, Start)
               y == found.regs["y3"].v
           IN  /\ y \in 0..(P - 1)
               /\ found.hasSqrt => <<r.v, y>> \in Curve /\ (y % 2 = 1) = odd
               /\ \A z : <<r.v, z>> \in Curve => /\ found.hasSqrt
                                                 /\ (z % 2 = 1) = odd => y = z
<1> DEFINE x == r.v
           found == DecompressY(r, odd, Start)
           y == found.regs["y3"].v
           root == RootOf(x)
<1>1. P \in Nat \ {0} /\ x \in Int /\ x \in 0..(P - 1)
  BY Orders
<1>2. Cubed(x) \in 0..(P - 1) /\ Cubed(x) % P = Cubed(x)
  BY <1>1, CubedIs, ModSmall
<1>3. root \in 0..(P - 1) /\ root % P = root /\ root \in Int
  BY <1>1, <1>2, PrimesAssumption, ModSmall DEF RootOf
<1>4. ((root * root) % P) % P = (root * root) % P
  <2>1. root * root \in Int
    BY <1>3
  <2> QED
    BY <1>1, <2>1, ModRange
<1>5. /\ found.hasSqrt = (Cubed(x) = (root * root) % P)
      /\ y = IF (root % 2 = 1) # odd THEN (-root) % P ELSE root
  <2>1. /\ found.hasSqrt = (Cubed(x) % P = ((root * root) % P) % P)
        /\ y = IF ((root % P) % 2 = 1) # odd THEN (-(root % P)) % P ELSE root % P
    BY Decompressed
  <2> HIDE DEF found, y, root
  <2> QED
    BY <1>2, <1>3, <1>4, <2>1
<1> HIDE DEF found, y, root, x
<1>6. ASSUME NEW z, <<x, z>> \in Curve
      PROVE  z \in 1..(P - 1) /\ (z * z) % P = Cubed(x) /\ Cubed(x) = (root * root) % P
  <2>1. z \in 1..(P - 1)
    BY <1>6, CurveHasNoZero
  <2>2. (z * z) % P = Cubed(x)
    BY <1>1, <1>6, OnCurveIs DEF Curve
  <2>3. (root * root) % P = (z * z) % P
    <3>1. z \in 0..(P - 1)
      BY <1>1, <2>1
    <3>2. root = Power((z * z) % P, (P + 1) \div 4)
      BY <2>2 DEF root, RootOf
    <3> QED
      BY <3>1, <3>2, PrimesAssumption, Zenon
  <2> QED
    BY <2>1, <2>2, <2>3
<1>7. ASSUME found.hasSqrt
      PROVE  /\ root \in 1..(P - 1) /\ P - root \in 1..(P - 1)
             /\ <<x, root>> \in Curve /\ <<x, P - root>> \in Curve
             /\ (-root) % P = P - root
  <2>1. <<x, root>> \in Curve
    <3>1. OnCurve(<<x, root>>)
      BY <1>1, <1>5, <1>7, OnCurveIs
    <3> QED
      BY <1>1, <1>3, <3>1 DEF Curve
  <2>2. root \in 1..(P - 1)
    BY <2>1, CurveHasNoZero
  <2>3. <<x, P - root>> \in Curve
    <3>1. PICK k \in 1..(N - 1) : Affine(k) = <<x, root>>
      BY <2>1, GroupAssumption
    <3>2. Affine(k)[1] = x /\ Affine(k)[2] = root
      BY <3>1
    <3>3. N - k \in 1..(N - 1)
      BY Orders
    <3> HIDE DEF Affine
    <3>4. Affine(N - k) = <<x, P - root>> /\ Affine(N - k) \in Curve
      BY <3>2, <3>3, GroupAssumption
    <3> QED
      BY <3>4
  <2>4. -root = P * (-1) + (P - root) /\ P - root \in 1..(P - 1)
    BY <1>1, <2>2
  <2>5. (P * (-1) + (P - root)) % P = P - root
    <3>1. -1 \in Int /\ P - root \in 0..(P - 1)
      BY <1>1, <2>4
    <3> QED
      BY <1>1, <3>1, RemainderIs, Zenon
  <2>6. (-root) % P = P - root
    BY <2>4, <2>5, Zenon
  <2> QED
    BY <2>1, <2>2, <2>3, <2>4, <2>6
<1>8. ASSUME found.hasSqrt
      PROVE  <<x, y>> \in Curve /\ (y % 2 = 1) = odd
             /\ \A z : <<x, z>> \in Curve /\ (z % 2 = 1) = odd => y = z
  <2>1. root % 2 \in 0..1 /\ (P - root) % 2 = 1 - (root % 2)
    BY <1>7, <1>8, OtherParity
  <2>2. y = (IF (root % 2 = 1) # odd THEN P - root ELSE root)
    BY <1>5, <1>7, <1>8
  <2>3. <<x, y>> \in Curve /\ (y % 2 = 1) = odd
    <3>1. CASE (root % 2 = 1) # odd
      BY <1>7, <1>8, <2>1, <2>2, <3>1
    <3>2. CASE (root % 2 = 1) = odd
      BY <1>7, <1>8, <2>1, <2>2, <3>2
    <3> QED
      BY <3>1, <3>2
  <2>4. ASSUME NEW z, <<x, z>> \in Curve, (z % 2 = 1) = odd PROVE y = z
    <3>1. z \in 1..(P - 1) /\ (root * root) % P = (z * z) % P
      BY <1>6, <2>4
    <3>2. z = root \/ z = P - root
      BY <1>7, <1>8, <3>1, TwoRoots
    <3> QED
      BY <2>1, <2>2, <2>4, <3>2
  <2> QED
    BY <2>3, <2>4
<1>9. y \in 0..(P - 1)
  <2>1. (-root) % P \in 0..(P - 1)
    BY <1>1, <1>3, ModRange
  <2> QED
    BY <1>3, <1>5, <2>1
<1> QED
  BY <1>5, <1>6, <1>8, <1>9 DEF x, found, y

-----------------------------------------------------------------------------
(* Verifying *)

\* An X coordinate that is reduced modulo the order is what it was, or the
\* order less.
LEMMA ReducedX ==
    ASSUME NEW x \in 0..(P - 1), NEW r \in 0..(N - 1)
    PROVE  x % N = r <=> x = r \/ (r + N < P /\ x = r + N)
<1>1. N \in Nat \ {0} /\ P \in Nat /\ P < 2 * N
  BY Orders
<1>2. CASE x < N
  BY <1>1, <1>2, ModSmall
<1>3. CASE x >= N
  <2>1. x = N * 1 + (x - N) /\ x - N \in 0..(N - 1)
    BY <1>1, <1>3
  <2>2. (N * 1 + (x - N)) % N = x - N
    <3>1. 1 \in Int
      OBVIOUS
    <3> QED
      BY <1>1, <2>1, <3>1, RemainderIs, Zenon
  <2>3. x % N = x - N
    BY <2>1, <2>2, Zenon
  <2> QED
    BY <1>1, <1>3, <2>3
<1> QED
  BY <1>1, <1>2, <1>3

\* The scalar of the point a signature is checked with, as Verify has it and as
\* the textbook has it.
VerifyScalar(r, w, h, d) == Reduce(Reduce(Reduce(h) * w) + Reduce(r * w) * d)
TextbookScalar(r, w, h, d) == Reduce(Reduce(h + r * d) * w)

\* The two scalars are one.
LEMMA SameScalar ==
    ASSUME NEW r \in Int, NEW w \in Int, NEW h \in Int, NEW d \in Int
    PROVE  VerifyScalar(r, w, h, d) = TextbookScalar(r, w, h, d)
<1>1. N \in Nat \ {0}
  BY Orders
<1> DEFINE hw == h * w
           rw == r * w
           e == h + r * d
<1>2. hw \in Int /\ rw \in Int /\ e \in Int
  OBVIOUS
<1>3. hw + rw * d = e * w
  OBVIOUS
<1>4. ((h % N) * w) % N = hw % N
  BY <1>1, MulRemainder, Zenon
<1> HIDE DEF hw, rw, e
<1>5. rw % N \in Int /\ rw * d \in Int /\ (rw % N) * d \in Int /\ hw % N \in Int
  <2>1. rw % N \in Int /\ hw % N \in Int
    <3>1. rw % N \in 0..(N - 1) /\ hw % N \in 0..(N - 1)
      BY <1>1, <1>2, ModRange, Zenon
    <3> QED
      BY <1>1, <3>1
  <2> HIDE DEF rw, hw
  <2>2. \A u \in Int : u * d \in Int
    OBVIOUS
  <2> QED
    BY <1>2, <2>1, <2>2, Zenon
<1>6. ((hw % N) + (rw % N) * d) % N = (hw + (rw % N) * d) % N
  BY <1>1, <1>2, <1>5, AddRemainder, Zenon
<1>7. hw + (rw % N) * d = (rw % N) * d + hw
  BY <1>2, <1>5
<1>8. ((rw % N) * d + hw) % N = (rw * d + hw) % N
  <2>1. ((rw % N) * d) % N = (rw * d) % N
    BY <1>1, <1>2, MulRemainder, Zenon
  <2> DEFINE u == (rw % N) * d
             v == rw * d
  <2>2. u \in Int /\ v \in Int /\ u % N = v % N
    BY <1>5, <2>1, Zenon
  <2> HIDE DEF u, v
  <2>3. ((u % N) + hw) % N = (u + hw) % N /\ ((v % N) + hw) % N = (v + hw) % N
    BY <1>1, <1>2, <2>2, AddRemainder, Zenon
  <2>4. (u + hw) % N = (v + hw) % N
    BY <2>2, <2>3, Zenon
  <2> QED
    BY <2>4, Zenon DEF u, v
<1>9. rw * d + hw = e * w
  BY <1>2, <1>3, <1>5
<1>10. ((e % N) * w) % N = (e * w) % N
  BY <1>1, <1>2, MulRemainder, Zenon
<1>11. ((hw % N) + (rw % N) * d) % N = ((e % N) * w) % N
  BY <1>6, <1>7, <1>8, <1>9, <1>10, Zenon
<1>12. ((h % N) * w) % N = hw % N /\ (r * w) % N = rw % N
  BY <1>4 DEF rw
<1> QED
  BY <1>11, <1>12, Zenon DEF VerifyScalar, TextbookScalar, Reduce, e

\* What Verify decides is what the textbook does, whatever the Z of the point.
LEMMA VerifyIsTextbook ==
    ASSUME NEW r \in 1..(N - 1), NEW s \in 1..(N - 1), NEW h \in Nat, NEW d \in 1..(N - 1),
           NEW z \in 1..(P - 1)
    PROVE  EcdsaVerify(r, s, h, d, z) <=> Textbook(r, s, h, d)
<1> DEFINE w == InverseModN[s]
           k == Reduce(Reduce(h + r * d) * w)
           a == Affine(k)
           zz == (z * z) % P
           X == Jacobian(k, z)
<1>1. /\ N \in Nat \ {0} /\ P \in Nat \ {0} /\ N < P /\ r \in Int /\ s \in Int /\ h \in Int /\ d \in Int
      /\ z \in Int
  BY Orders
<1>2. w \in 1..(N - 1) /\ w \in Int
  BY <1>1, InverseN
<1> HIDE DEF w
<1>3. k \in 0..(N - 1)
  <2> DEFINE e == h + r * d
             c == Reduce(e)
  <2>1. e \in Int
    BY <1>1
  <2> HIDE DEF e
  <2>2. c \in 0..(N - 1)
    BY <1>1, <2>1, ModRange DEF Reduce
  <2> HIDE DEF c
  <2>3. c * w \in Int
    BY <1>1, <1>2, <2>2
  <2>4. (c * w) % N \in 0..(N - 1)
    BY <1>1, <2>3, ModRange, Zenon
  <2> QED
    BY <2>4 DEF Reduce, c, e
<1>4. Reduce(Reduce(Reduce(h) * w) + Reduce(r * w) * d) = k
  <2>1. VerifyScalar(r, w, h, d) = TextbookScalar(r, w, h, d)
    <3>1. r \in Int /\ w \in Int /\ h \in Int /\ d \in Int
      BY <1>1, <1>2
    <3> QED
      BY <3>1, SameScalar
  <2> QED
    BY <2>1, Zenon DEF VerifyScalar, TextbookScalar
<1>5. EcdsaVerify(r, s, h, d, z) <=>
        /\ ~((X.X.v = 0 /\ X.Y.v = 0) \/ X.Z.v = 0)
        /\ \/ (r * zz) % P = X.X.v
           \/ r < P - N /\ ((r + N) * zz) % P = X.X.v
  <2>1. r < N /\ s < N /\ r # 0 /\ s # 0
    BY <1>1
  <2> HIDE DEF k
  <2> QED
    BY <1>4, <2>1 DEF EcdsaVerify, Verify, w
<1>6. Textbook(r, s, h, d) <=> a # Infinity /\ Reduce(a[1]) = r
  BY DEF Textbook, w
<1> HIDE DEF k
<1>7. X.X.v = (a[1] * z * z) % P /\ X.Y.v = (a[2] * z * z * z) % P /\ X.Z.v = z % P
  BY DEF Jacobian, Number, Register
<1> HIDE DEF X, a
<1>8. CASE k = 0
  <2>1. a = Infinity /\ a[1] = 0 /\ a[2] = 0
    BY <1>8, GroupAssumption DEF a, Infinity
  <2>2. a[1] * z * z = 0 /\ a[2] * z * z * z = 0 /\ 0 % P = 0
    BY <1>1, <2>1, ModSmall
  <2> QED
    BY <1>5, <1>6, <1>7, <2>1, <2>2
<1>9. CASE k # 0
  <2>1. a[1] \in 0..(P - 1) /\ a[2] \in 1..(P - 1) /\ a # Infinity /\ a[1] \in Int /\ a[2] \in Int
    <3>1. k \in 1..(N - 1)
      BY <1>1, <1>3, <1>9
    <3> QED
      BY <1>1, <3>1, Coordinates DEF a
  <2> DEFINE x == a[1]
             y == a[2]
  <2>2. Cancels(P, z)
    BY CancelP
  <2> HIDE DEF x, y
  <2>3. x \in Int /\ y \in Int /\ x \in 0..(P - 1) /\ y \in 1..(P - 1)
    BY <2>1 DEF x, y
  <2>4. X.Z.v # 0
    BY <1>1, <1>7, ModSmall
  <2>5. X.Y.v # 0
    <3>1. ASSUME NEW u \in Int, (u * z) % P = 0 PROVE u % P = 0
      <4>1. 0 * z = 0 /\ 0 % P = 0
        BY <1>1, ModSmall
      <4>2. (u * z) % P = (0 * z) % P
        BY <3>1, <4>1, Zenon
      <4>3. u % P = 0 % P
        BY <2>2, <4>2 DEF Cancels
      <4> QED
        BY <4>1, <4>3
    <3>2. y * z \in Int /\ y * z * z \in Int
      BY <1>1, <2>3
    <3>3. y % P = y
      BY <1>1, <2>3, ModSmall
    <3>4. y % P # 0
      BY <2>3, <3>3
    <3>5. (y * z) % P # 0
      BY <2>3, <3>1, <3>4, Zenon
    <3>6. (y * z * z) % P # 0
      BY <3>1, <3>2, <3>5, Zenon
    <3>7. (y * z * z * z) % P # 0
      BY <3>1, <3>2, <3>6, Zenon
    <3> QED
      BY <1>7, <3>7 DEF y
  <2>6. ASSUME NEW u \in 0..(P - 1) PROVE (u * zz) % P = X.X.v <=> u = x
    <3>1. u \in Int /\ u * z \in Int /\ x * z \in Int /\ z * z \in Int /\ u % P = u /\ x % P = x
      BY <1>1, <2>3, ModSmall
    <3>2. (u * zz) % P = (u * z * z) % P
      <4>1. (((z * z) % P) * u) % P = ((z * z) * u) % P
        BY <1>1, <3>1, MulRemainder, Zenon
      <4>2. (z * z) * u = u * z * z
        BY <1>1, <3>1
      <4>3. zz * u = u * zz
        <5>1. zz \in Int
          <6>1. zz \in 0..(P - 1)
            BY <1>1, <3>1, ModRange, Zenon
          <6> QED
            BY <1>1, <6>1
        <5> HIDE DEF zz
        <5> QED
          BY <3>1, <5>1
      <4> QED
        BY <4>1, <4>2, <4>3, Zenon
    <3>3. ASSUME (u * z * z) % P = (x * z * z) % P PROVE u = x
      <4>1. (u * z) % P = (x * z) % P
        BY <2>2, <3>1, <3>3, Zenon DEF Cancels
      <4>2. u % P = x % P
        BY <2>2, <2>3, <3>1, <4>1, Zenon DEF Cancels
      <4> QED
        BY <3>1, <4>2
    <3>4. X.X.v = (x * z * z) % P
      BY <1>7 DEF x
    <3> HIDE DEF zz
    <3> QED
      BY <3>2, <3>3, <3>4, Zenon
  <2>7. (r * zz) % P = X.X.v <=> r = x
    <3>1. r \in 0..(P - 1)
      BY <1>1
    <3> QED
      BY <2>6, <3>1, Zenon
  <2>8. r < P - N /\ ((r + N) * zz) % P = X.X.v <=> r + N < P /\ x = r + N
    <3>1. r < P - N <=> r + N < P
      BY <1>1
    <3>2. ASSUME r + N < P PROVE ((r + N) * zz) % P = X.X.v <=> x = r + N
      <4>1. r + N \in 0..(P - 1)
        BY <1>1, <3>2
      <4>2. ((r + N) * zz) % P = X.X.v <=> r + N = x
        BY <2>6, <4>1, Zenon
      <4> QED
        BY <4>2, Zenon
    <3> QED
      BY <3>1, <3>2, Zenon
  <2>9. x % N = r <=> x = r \/ (r + N < P /\ x = r + N)
    <3>1. r \in 0..(N - 1)
      BY <1>1
    <3> QED
      BY <2>3, <3>1, ReducedX
  <2> HIDE DEF zz
  <2>10. Textbook(r, s, h, d) <=> x % N = r
    BY <1>6, <2>1 DEF Reduce, x
  <2>11. EcdsaVerify(r, s, h, d, z) <=>
            (\/ (r * zz) % P = X.X.v
             \/ r < P - N /\ ((r + N) * zz) % P = X.X.v)
    BY <1>5, <2>4, <2>5
  <2> QED
    BY <2>7, <2>8, <2>9, <2>10, <2>11
<1> QED
  BY <1>8, <1>9

\* What is taken away may be reduced before.
LEMMA SubRemainder ==
    ASSUME NEW M \in Nat \ {0}, NEW x \in Int, NEW y \in Int
    PROVE  (x - (y % M)) % M = (x - y) % M
<1>1. PICK q \in Int, r \in 0..(M - 1) : M * q \in Int /\ y % M = r /\ y = M * q + r
  BY Remainder
<1> DEFINE d == x - y
<1>2. x - r = d + M * q /\ d \in Int
  BY <1>1
<1> HIDE DEF d
<1>3. (d + M * q) % M = d % M
  BY <1>1, <1>2, SameRemainder, Zenon
<1>4. x - (y % M) = d + M * q
  BY <1>1, <1>2, Zenon
<1> QED
  BY <1>3, <1>4, Zenon DEF d

\* Of a scalar and its opposite one is not high.
LEMMA HalfOrder ==
    ASSUME NEW s \in 1..(N - 1)
    PROVE  /\ IsHigh(s) => N - s \in 1..(N \div 2)
           /\ ~IsHigh(s) => s \in 1..(N \div 2)
           /\ 1..(N \div 2) \subseteq 1..(N - 1)
<1>1. N \in Nat \ {0} /\ N > 1
  BY Orders
<1> QED
  BY <1>1 DEF IsHigh

-----------------------------------------------------------------------------
(* Signing *)

\* The nonce a signature was made with, or its opposite when s was high.
SignedBy(k) ==
    /\ sig.r \in 1..(N - 1) /\ sig.r = Reduce(Affine(k)[1])
    /\ sig.s \in 1..(N \div 2)
    /\ sig.code = RecoveryCode(k)
    /\ (sig.s * k) % N = (hash + sig.r * key) % N

\* What is divided by a scalar and multiplied with it is what it was.
LEMMA TimesInverse ==
    ASSUME NEW k \in 1..(N - 1), NEW e \in Int
    PROVE  ((e * InverseModN[k]) * k) % N = e % N
<1> DEFINE i == InverseModN[k]
           ik == i * k
<1>1. N \in Nat \ {0} /\ k \in Int /\ i \in Int /\ ik % N = 1
  BY Orders, InverseN
<1> HIDE DEF i
<1>2. (e * i) * k = ik * e /\ ik \in Int
  BY <1>1
<1> HIDE DEF ik
<1>3. ((ik % N) * e) % N = (ik * e) % N
  BY <1>1, <1>2, MulRemainder, Zenon
<1>4. (ik % N) * e = e
  <2> DEFINE one == ik % N
  <2>1. one = 1
    BY <1>1
  <2> HIDE DEF one
  <2>2. one * e = e
    BY <2>1
  <2> QED
    BY <2>2 DEF one
<1>5. ((e * i) * k) % N = e % N
  BY <1>2, <1>3, <1>4, Zenon
<1> QED
  BY <1>5 DEF i

\* s times the nonce, before its sign is looked at.
LEMMA RandomSIs ==
    ASSUME key \in Int, hash \in Int, NEW k \in 1..(N - 1)
    PROVE  /\ RandomR(k) \in 0..(N - 1) /\ RandomS(k) \in 0..(N - 1)
           /\ (RandomS(k) * k) % N = (hash + RandomR(k) * key) % N
<1> DEFINE r == RandomR(k)
           i == InverseModN[k]
           f == key * r + Reduce(hash)
           e == Reduce(f)
           ei == e * i
           s == RandomS(k)
<1>1. N \in Nat \ {0} /\ k \in Int /\ i \in Int
  BY Orders, InverseN
<1>2. r \in 0..(N - 1) /\ r \in Int
  <2> DEFINE x == Affine(k)[1]
  <2>1. x \in Int
    BY Coordinates, Orders
  <2> HIDE DEF x
  <2>2. x % N \in 0..(N - 1)
    BY <1>1, <2>1, ModRange, Zenon
  <2>3. r = x % N
    BY Zenon DEF RandomR, Reduce, x
  <2> HIDE DEF r
  <2> QED
    BY <1>1, <2>2, <2>3
<1> HIDE DEF r, i
<1>3. Reduce(hash) \in Int /\ f \in Int
  <2>1. Reduce(hash) \in 0..(N - 1)
    BY <1>1, ModRange DEF Reduce
  <2>2. Reduce(hash) \in Int /\ key * r \in Int
    BY <1>1, <1>2, <2>1
  <2> QED
    BY <2>2
<1>4. e = (hash + r * key) % N
  <2> DEFINE rk == r * key
  <2>1. rk \in Int /\ key * r = rk
    BY <1>2
  <2>2. f = (hash % N) + rk
    BY <1>3, <2>1 DEF Reduce
  <2> HIDE DEF rk, f
  <2>3. ((hash % N) + rk) % N = (hash + rk) % N
    BY <1>1, <2>1, AddRemainder, Zenon
  <2> QED
    BY <2>2, <2>3, Zenon DEF Reduce, rk
<1>5. e \in 0..(N - 1) /\ e \in Int /\ e % N = e
  <2> HIDE DEF f
  <2>1. e \in 0..(N - 1) /\ e % N = e
    BY <1>1, <1>3, ModRange DEF Reduce
  <2> QED
    BY <1>1, <2>1
<1> HIDE DEF e
<1>6. ei \in Int
  BY <1>1, <1>5
<1>7. s = ei % N
  BY DEF RandomS, Reduce, ei, e, f, r, i
<1>8. (ei * k) % N = e % N
  BY <1>5, TimesInverse DEF i
<1> HIDE DEF s, ei
<1>9. s \in 0..(N - 1)
  BY <1>1, <1>6, <1>7, ModRange
<1>10. ((ei % N) * k) % N = (ei * k) % N
  BY <1>1, <1>6, MulRemainder, Zenon
<1>11. (s * k) % N = e
  BY <1>5, <1>7, <1>8, <1>10, Zenon
<1> QED
  BY <1>2, <1>4, <1>9, <1>11, Zenon DEF s, r

\* The code of the opposite point.
LEMMA OtherCode ==
    ASSUME NEW k \in 1..(N - 1)
    PROVE  RecoveryCode(N - k) = IF RecoveryCode(k) % 2 = 0 THEN RecoveryCode(k) + 1
                                 ELSE RecoveryCode(k) - 1
<1> DEFINE x == Affine(k)[1]
           y == Affine(k)[2]
           high == IF x >= N THEN 2 ELSE 0
<1>1. Affine(N - k)[1] = x /\ Affine(N - k)[2] = P - y /\ y \in 1..(P - 1)
  <2>1. Affine(N - k) = <<x, P - y>>
    BY Coordinates
  <2> HIDE DEF x, y, Affine
  <2>2. Affine(N - k)[1] = x /\ Affine(N - k)[2] = P - y
    BY <2>1
  <2> QED
    BY <2>2, Coordinates DEF y
<1>2. RecoveryCode(k) = high + (y % 2) /\ RecoveryCode(N - k) = high + ((P - y) % 2)
  BY <1>1 DEF RecoveryCode
<1> HIDE DEF y
<1>3. y % 2 \in 0..1 /\ (P - y) % 2 = 1 - (y % 2)
  BY <1>1, OtherParity
<1>4. high \in {0, 2}
  OBVIOUS
<1> HIDE DEF high
<1> DEFINE c == RecoveryCode(k)
           o == RecoveryCode(N - k)
           odd == y % 2
           even == (P - y) % 2
<1>5. odd \in 0..1 /\ even = 1 - odd /\ c = high + odd /\ o = high + even
  BY <1>2, <1>3, Zenon
<1> HIDE DEF c, o, odd, even
<1>6. 0 % 2 = 0 /\ 1 % 2 = 1 /\ 2 % 2 = 0 /\ 3 % 2 = 1
  OBVIOUS
<1>7. \/ c = 0 /\ o = 1
      \/ c = 1 /\ o = 0
      \/ c = 2 /\ o = 3
      \/ c = 3 /\ o = 2
  BY <1>4, <1>5
<1>8. o = IF c % 2 = 0 THEN c + 1 ELSE c - 1
  BY <1>6, <1>7
<1> QED
  BY <1>8, Zenon DEF c, o

\* Signed makes a signature with its nonce, or with the opposite of it.
LEMMA SignedByNonce ==
    ASSUME key \in Int, hash \in Int, UNCHANGED <<key, hash>>,
           NEW k \in 1..(N - 1), RandomR(k) # 0, RandomS(k) # 0, sig' = Signed(k)
    PROVE  \E j \in 1..(N - 1) : SignedBy(j)'
<1> DEFINE r == RandomR(k)
           s == RandomS(k)
           e == (hash + r * key) % N
<1>1. N \in Nat \ {0} /\ k \in Int
  BY Orders
<1>2. r \in 1..(N - 1) /\ s \in 1..(N - 1) /\ (s * k) % N = e
  BY <1>1, RandomSIs
<1>3. r = Reduce(Affine(k)[1])
  BY DEF RandomR
<1>4. CASE ~IsHigh(s)
  <2>1. sig'.r = r /\ sig'.s = s /\ sig'.code = RecoveryCode(k)
    BY <1>4 DEF Signed
  <2>2. s \in 1..(N \div 2)
    BY <1>2, <1>4, HalfOrder
  <2>3. SignedBy(k)'
    <3> HIDE DEF r, s
    <3> QED
      BY <1>2, <1>3, <2>1, <2>2 DEF SignedBy, RecoveryCode
  <2> QED
    BY <2>3
<1>5. CASE IsHigh(s)
  <2>1. /\ sig'.r = r /\ sig'.s = N - s
        /\ sig'.code = IF RecoveryCode(k) % 2 = 0 THEN RecoveryCode(k) + 1 ELSE RecoveryCode(k) - 1
    BY <1>5 DEF Signed
  <2>2. N - s \in 1..(N \div 2)
    BY <1>2, <1>5, HalfOrder
  <2> HIDE DEF r, s
  <2>3. sig'.code = RecoveryCode(N - k)
    BY <2>1, OtherCode
  <2>4. Affine(N - k)[1] = Affine(k)[1] /\ N - k \in 1..(N - 1)
    <3>1. Affine(N - k) = <<Affine(k)[1], P - Affine(k)[2]>> /\ N - k \in 1..(N - 1)
      BY Coordinates
    <3> HIDE DEF Affine
    <3> QED
      BY <3>1
  <2>5. ((N - s) * (N - k)) % N = (s * k) % N
    <3> DEFINE sk == s * k
               q == N - s - k
    <3>1. (N - s) * (N - k) = sk + N * q /\ sk \in Int /\ q \in Int
      <4>1. s \in Int /\ N \in Int
        BY <1>1, <1>2
      <4> QED
        BY <1>1, <4>1
    <3> HIDE DEF sk, q
    <3>2. (sk + N * q) % N = sk % N
      BY <1>1, <3>1, SameRemainder, Zenon
    <3> QED
      BY <3>1, <3>2, Zenon DEF sk
  <2>6. SignedBy(N - k)'
    BY <1>2, <1>3, <2>1, <2>2, <2>3, <2>4, <2>5 DEF SignedBy, RecoveryCode
  <2> QED
    BY <2>4, <2>6
<1> QED
  BY <1>4, <1>5

\* A scalar whose product with s is what was signed is the one the textbook's
\* test multiplies the generator by.
LEMMA ScalarIs ==
    ASSUME NEW s \in 1..(N - 1), NEW e \in Int, NEW k \in 0..(N - 1), (s * k) % N = e % N
    PROVE  Reduce(Reduce(e) * InverseModN[s]) = k
<1> DEFINE w == InverseModN[s]
           ew == e * w
           j == ew % N
<1>1. N \in Nat \ {0} /\ s \in Int /\ k \in Int /\ w \in Int
  BY Orders, InverseN
<1>2. (ew * s) % N = e % N
  BY TimesInverse
<1> HIDE DEF w
<1>3. ew \in Int
  BY <1>1
<1>4. ((e % N) * w) % N = j
  BY <1>1, MulRemainder, Zenon
<1> HIDE DEF ew
<1>5. j \in 0..(N - 1)
  BY <1>1, <1>3, ModRange, Zenon
<1>6. (j * s) % N = (ew * s) % N
  BY <1>1, <1>3, MulRemainder, Zenon
<1>7. k * s = s * k
  BY <1>1
<1>8. (j * s) % N = (k * s) % N
  BY <1>2, <1>6, <1>7, Zenon
<1> HIDE DEF j
<1>9. j = k
  BY <1>5, <1>8, CancelN, Zenon
<1> QED
  BY <1>4, <1>9, Zenon DEF Reduce, w

\* The textbook's test, when the nonce is known.
LEMMA TextbookIs ==
    ASSUME NEW r \in 0..(N - 1), NEW s \in 1..(N - 1), NEW h \in Nat, NEW d \in Nat,
           NEW k \in 1..(N - 1), (s * k) % N = (h + r * d) % N
    PROVE  Textbook(r, s, h, d) <=> Reduce(Affine(k)[1]) = r
<1> DEFINE e == h + r * d
<1>1. N \in Nat \ {0} /\ e \in Int /\ k \in 0..(N - 1)
  BY Orders
<1>2. (s * k) % N = e % N
  OBVIOUS
<1>3. Textbook(r, s, h, d) <=>
        LET X == Affine(Reduce(Reduce(e) * InverseModN[s]))
        IN  X # Infinity /\ Reduce(X[1]) = r
  BY DEF Textbook
<1> HIDE DEF e
<1>4. Reduce(Reduce(e) * InverseModN[s]) = k
  BY <1>1, <1>2, ScalarIs
<1>5. Affine(k) # Infinity
  BY Coordinates
<1> QED
  BY <1>3, <1>4, <1>5

\* A signature made with a nonce is valid.
LEMMA SignedTextbook ==
    ASSUME key \in Nat, hash \in Nat, NEW k \in 1..(N - 1), SignedBy(k)
    PROVE  Textbook(sig.r, sig.s, hash, key)
<1>1. /\ sig.r \in 0..(N - 1) /\ sig.s \in 1..(N - 1) /\ sig.r = Reduce(Affine(k)[1])
      /\ (sig.s * k) % N = (hash + sig.r * key) % N
  BY Orders DEF SignedBy
<1> QED
  BY <1>1, TextbookIs

\* What RecoverCompact computes from the nonce is the key that signs so with it.
LEMMA RecoverScalar ==
    ASSUME NEW r \in 1..(N - 1), NEW s \in 1..(N - 1), NEW h \in Nat, NEW X \in 1..(N - 1)
    PROVE  LET w == InverseModN[r]
               out == Reduce(Reduce(s * w) * X - Reduce(Reduce(h) * w))
           IN  out \in 0..(N - 1) /\ (s * X) % N = (h + r * out) % N
<1> DEFINE w == InverseModN[r]
           sw == s * w
           hw == h * w
           a == sw % N
           aX == a * X
           m == s * X - h
           mw == m * w
           out == Reduce(Reduce(s * w) * X - Reduce(Reduce(h) * w))
<1>1. N \in Nat \ {0} /\ r \in Int /\ s \in Int /\ h \in Int /\ X \in Int /\ w \in Int
  BY Orders, InverseN
<1>2. m \in Int /\ s * X \in Int
  BY <1>1
<1>3. (mw * r) % N = m % N
  <2> HIDE DEF m
  <2> QED
    BY <1>2, TimesInverse
<1> HIDE DEF w
<1>4. sw \in Int /\ hw \in Int /\ mw \in Int /\ sw * X \in Int /\ sw * X + (-hw) = mw /\ -hw \in Int
  BY <1>1, <1>2
<1>5. ((h % N) * w) % N = hw % N
  BY <1>1, MulRemainder, Zenon
<1>6. out = (aX - (hw % N)) % N
  BY <1>5, Zenon DEF Reduce
<1> HIDE DEF sw, hw, m, mw
<1>7. a \in 0..(N - 1) /\ a \in Int
  <2>1. a \in 0..(N - 1)
    BY <1>1, <1>4, ModRange, Zenon
  <2> QED
    BY <1>1, <2>1
<1>8. (a * X) % N = (sw * X) % N
  BY <1>1, <1>4, MulRemainder, Zenon
<1> HIDE DEF a
<1>9. aX \in Int
  BY <1>1, <1>7
<1>10. aX % N = (sw * X) % N
  BY <1>8
<1> HIDE DEF aX, out
<1>11. out = (aX - hw) % N
  BY <1>1, <1>4, <1>6, <1>9, SubRemainder, Zenon
<1>12. aX - hw = aX + (-hw)
  BY <1>4, <1>9
<1> DEFINE b == sw * X
           c == -hw
<1>13. aX % N = b % N /\ b \in Int /\ c \in Int /\ aX + c = aX - hw /\ b + c = mw
  BY <1>4, <1>10, <1>12, Zenon
<1> HIDE DEF b, c
<1>14. (aX + c) % N = (b + c) % N
  <2>1. ((aX % N) + c) % N = (aX + c) % N /\ ((b % N) + c) % N = (b + c) % N
    BY <1>1, <1>9, <1>13, AddRemainder, Zenon
  <2> QED
    BY <1>13, <2>1, Zenon
<1>15. out = mw % N
  BY <1>11, <1>13, <1>14, Zenon
<1>16. out \in 0..(N - 1) /\ out \in Int
  <2>1. out \in 0..(N - 1)
    BY <1>1, <1>4, <1>15, ModRange, Zenon
  <2> QED
    BY <1>1, <2>1
<1>17. (out * r) % N = m % N
  <2>1. ((mw % N) * r) % N = (mw * r) % N
    BY <1>1, <1>4, MulRemainder, Zenon
  <2> QED
    BY <1>3, <1>15, <2>1, Zenon
<1> DEFINE q == out * r
<1>18. q \in Int /\ h + r * out = q + h
  BY <1>1, <1>16
<1>19. m + h = s * X
  BY <1>1, <1>2 DEF m
<1> HIDE DEF q
<1>20. (q + h) % N = (m + h) % N
  <2>1. q % N = m % N
    BY <1>17 DEF q
  <2> HIDE DEF m
  <2>2. ((q % N) + h) % N = (q + h) % N /\ ((m % N) + h) % N = (m + h) % N
    BY <1>1, <1>2, <1>18, AddRemainder, Zenon
  <2> QED
    BY <2>1, <2>2, Zenon
<1>21. (s * X) % N = (h + r * out) % N
  BY <1>18, <1>19, <1>20, Zenon
<1> QED
  BY <1>16, <1>21, Zenon DEF out, w

\* One key signs with one nonce, and one nonce with one key.
LEMMA OneKey ==
    ASSUME NEW r \in 1..(N - 1), NEW h \in Nat, NEW c \in 0..(N - 1), NEW d \in 0..(N - 1),
           (h + r * c) % N = (h + r * d) % N
    PROVE  c = d
<1> DEFINE rc == r * c
           rd == r * d
<1>1. N \in Nat \ {0} /\ r \in Int /\ h \in Int /\ c \in Int /\ d \in Int /\ -h \in Int
  BY Orders
<1>2. rc \in Int /\ rd \in Int /\ rc = c * r /\ rd = d * r
  BY <1>1
<1> HIDE DEF rc, rd
<1>3. (h + rc) % N = (h + rd) % N
  BY DEF rc, rd
<1>4. h + rc \in Int /\ h + rd \in Int /\ (h + rc) + (-h) = rc /\ (h + rd) + (-h) = rd
  BY <1>1, <1>2
<1>5. ((h + rc) + (-h)) % N = ((h + rd) + (-h)) % N
  BY <1>1, <1>3, <1>4, ModPlus
<1>6. (c * r) % N = (d * r) % N
  BY <1>2, <1>4, <1>5, Zenon
<1> QED
  BY <1>6, CancelN

\* One s signs one thing with one nonce.
LEMMA OneNonce ==
    ASSUME NEW s \in 1..(N - 1), NEW j \in 1..(N - 1), NEW k \in 1..(N - 1), (s * j) % N = (s * k) % N
    PROVE  j = k
<1>1. s * j = j * s /\ s * k = k * s /\ j \in 0..(N - 1) /\ k \in 0..(N - 1)
  BY Orders
<1>2. (j * s) % N = (k * s) % N
  BY <1>1, Zenon
<1> QED
  BY <1>1, <1>2, CancelN

\* Every point of the curve has a multiple, which LogOf finds.
LEMMA LogOfIs ==
    ASSUME NEW a \in Curve
    PROVE  LogOf(a) \in 1..(N - 1) /\ Affine(LogOf(a)) = a
<1>1. PICK k \in 1..(N - 1) : Affine(k) = a
  BY GroupAssumption
<1>2. k \in 0..(N - 1)
  BY <1>1, Orders
<1>3. LogOf(a) \in 0..(N - 1) /\ Affine(LogOf(a)) = a
  <2> HIDE DEF Affine
  <2> QED
    BY <1>1, <1>2 DEF LogOf
<1>4. LogOf(a) # 0
  <2> DEFINE l == LogOf(a)
  <2>1. Affine(l) = a
    BY <1>3
  <2> HIDE DEF Affine, l
  <2>2. l # 0
    BY <2>1, GroupAssumption
  <2> QED
    BY <2>2 DEF l
<1> QED
  BY <1>3, <1>4, Orders

\* A number is even or odd.
LEMMA Parity == ASSUME NEW y \in Nat PROVE y % 2 \in {0, 1}
<1>1. 2 \in Nat \ {0} /\ y \in Int
  OBVIOUS
<1>2. y % 2 \in 0..(2 - 1)
  BY <1>1, ModRange
<1> QED
  BY <1>2

\* The header gives the code back.
LEMMA HeaderIs ==
    ASSUME NEW code \in 0..3, NEW compressed \in BOOLEAN
    PROVE  /\ Header(code, compressed) \in Magic..(Magic + CompressedBit + 3)
           /\ (Header(code, compressed) - Magic) % CompressedBit = code
<1>1. 4 \in Nat \ {0} /\ code \in 0..(4 - 1) /\ 0 \in Int /\ 1 \in Int
  OBVIOUS
<1>2. (4 * 0 + code) % 4 = code /\ (4 * 1 + code) % 4 = code
  BY <1>1, RemainderIs
<1>3. Header(code, compressed) - Magic = 4 * (IF compressed THEN 1 ELSE 0) + code
  BY DEF Header, Magic, CompressedBit
<1>4. (Header(code, compressed) - Magic) % CompressedBit = code
  <2> DEFINE n == Header(code, compressed) - Magic
  <2>1. n = 4 * 0 + code \/ n = 4 * 1 + code
    BY <1>3
  <2> HIDE DEF n
  <2>2. n % 4 = code
    BY <1>2, <2>1
  <2> QED
    BY <2>2 DEF n, CompressedBit
<1> QED
  BY <1>4 DEF Header, Magic, CompressedBit

\* A code stands for one X coordinate and one oddness of Y.
LEMMA CodeIs ==
    ASSUME NEW k \in 1..(N - 1), NEW code \in 0..3, NEW r \in 0..(N - 1),
           Reduce(Affine(k)[1]) = r
    PROVE  RecoveryCode(k) = code <=>
               /\ Affine(k)[1] = IF code < 2 THEN r ELSE r + N
               /\ Affine(k)[2] % 2 = 1 <=> code % 2 = 1
<1> DEFINE x == Affine(k)[1]
           odd == Affine(k)[2] % 2
           high == IF x >= N THEN 2 ELSE 0
           c == RecoveryCode(k)
<1>1. x \in 0..(P - 1) /\ odd \in {0, 1} /\ x % N = r /\ N \in Nat \ {0} /\ P \in Nat
  <2>1. Affine(k)[2] \in Nat
    BY Coordinates, Orders
  <2>2. x % N = r
    BY Zenon DEF Reduce
  <2> HIDE DEF x, odd
  <2>3. odd \in {0, 1}
    BY <2>1, Parity DEF odd
  <2>4. x \in 0..(P - 1)
    BY Coordinates DEF x
  <2> QED
    BY <2>2, <2>3, <2>4, Orders
<1>2. c = high + odd
  BY DEF RecoveryCode
<1> HIDE DEF x, odd, c
<1>3. x = r \/ (r + N < P /\ x = r + N)
  BY <1>1, ReducedX
<1>4. 0 % 2 = 0 /\ 1 % 2 = 1 /\ 2 % 2 = 0 /\ 3 % 2 = 1
  OBVIOUS
<1>5. x >= N <=> x = r + N
  BY <1>1, <1>3
<1>6. x < N <=> x = r
  BY <1>1, <1>3
<1>7. c = code <=> (IF code < 2 THEN high = 0 ELSE high = 2) /\ (odd = 1 <=> code % 2 = 1)
  <2>1. CASE code = 0
    BY <1>1, <1>2, <1>4, <2>1
  <2>2. CASE code = 1
    BY <1>1, <1>2, <1>4, <2>2
  <2>3. CASE code = 2
    BY <1>1, <1>2, <1>4, <2>3
  <2>4. CASE code = 3
    BY <1>1, <1>2, <1>4, <2>4
  <2> QED
    BY <2>1, <2>2, <2>3, <2>4
<1>8. c = code <=> (x = IF code < 2 THEN r ELSE r + N) /\ (odd = 1 <=> code % 2 = 1)
  BY <1>1, <1>5, <1>6, <1>7
<1> QED
  BY <1>8, Zenon DEF c, x, odd

\* RecoverCompact finds the key with the code of the signature, and with
\* another code no key or another for which the signature is valid.
LEMMA RecoverIs ==
    ASSUME key \in 1..(N - 1), hash \in Nat, NEW k \in 1..(N - 1), SignedBy(k),
           NEW code \in 0..3, NEW compressed \in BOOLEAN
    PROVE  LET out == RecoverCompact(Header(code, compressed), sig.r, sig.s, hash)
           IN  IF code = sig.code THEN out = key
               ELSE out # 0 => out # key /\ Textbook(sig.r, sig.s, hash, out)
<1> DEFINE r == sig.r
           s == sig.s
           odd == code % 2 = 1
           fits == code < 2 \/ r < P - N
           fieldR == IF code < 2 THEN Number(r) ELSE Register(r + N, 2)
           found == DecompressY(fieldR, odd, Start)
           x == fieldR.v
           y == found.regs["y3"].v
           X == LogOf(<<x, y>>)
           w == InverseModN[r]
           value == Reduce(Reduce(s * w) * X - Reduce(Reduce(hash) * w))
           out == RecoverCompact(Header(code, compressed), r, s, hash)
<1>1. N \in Nat \ {0} /\ P \in Nat \ {0} /\ N > 1 /\ N < P
  BY Orders
<1>2. /\ r \in 1..(N - 1) /\ r = Reduce(Affine(k)[1]) /\ s \in 1..(N - 1)
      /\ sig.code = RecoveryCode(k) /\ (s * k) % N = (hash + r * key) % N
  BY HalfOrder, Orders DEF SignedBy
<1>3. out = IF fits /\ found.hasSqrt THEN value ELSE 0
  <2>1. r < N /\ r # 0 /\ s < N /\ s # 0
    BY <1>1, <1>2
  <2>2. (Header(code, compressed) - Magic) % CompressedBit = code
        /\ Header(code, compressed) \in Magic..(Magic + CompressedBit + 3)
    BY HeaderIs
  <2> HIDE DEF r, s
  <2> QED
    BY <2>1, <2>2, Zenon DEF RecoverCompact
<1>4. ASSUME fits PROVE x = (IF code < 2 THEN r ELSE r + N) /\ x \in 0..(P - 1)
  <2>1. CASE code < 2
    <3>1. x = r % P /\ r \in 0..(P - 1)
      BY <1>1, <1>2, <2>1 DEF Number, Register
    <3> HIDE DEF r, x
    <3>2. r % P = r
      BY <1>1, <3>1, ModSmall, Zenon
    <3> QED
      BY <2>1, <3>1, <3>2
  <2>2. CASE ~(code < 2)
    <3> DEFINE rN == r + N
    <3>1. x = rN % P /\ rN \in 0..(P - 1)
      BY <1>1, <1>2, <1>4, <2>2 DEF Register
    <3> HIDE DEF rN, x
    <3>2. rN % P = rN
      BY <1>1, <3>1, ModSmall, Zenon
    <3>3. x = rN /\ x \in 0..(P - 1)
      BY <3>1, <3>2
    <3> QED
      BY <2>2, <3>3 DEF rN
  <2> QED
    BY <2>1, <2>2
<1>5. ASSUME fits
      PROVE  /\ found.hasSqrt => <<x, y>> \in Curve /\ (y % 2 = 1) = odd
             /\ \A z : <<x, z>> \in Curve => found.hasSqrt /\ ((z % 2 = 1) = odd => y = z)
  <2>1. fieldR.v \in 0..(P - 1) /\ odd \in BOOLEAN
    BY <1>4, <1>5
  <2> HIDE DEF fieldR, odd
  <2> QED
    BY <2>1, Root
<1> HIDE DEF fieldR, found, x, y, r, s, out, fits, odd
<1>6. ASSUME fits, found.hasSqrt
      PROVE  /\ X \in 1..(N - 1) /\ Affine(X) = <<x, y>>
             /\ value \in 0..(N - 1) /\ (s * X) % N = (hash + r * value) % N
  <2>1. X \in 1..(N - 1) /\ Affine(X) = <<x, y>>
    BY <1>5, <1>6, LogOfIs
  <2> HIDE DEF X
  <2>2. value \in 0..(N - 1) /\ (s * X) % N = (hash + r * value) % N
    BY <1>2, <2>1, RecoverScalar
  <2> HIDE DEF value
  <2> QED
    BY <2>1, <2>2
<1> HIDE DEF X, value, w
<1>7. \A c \in 0..3 : RecoveryCode(k) = c <=>
          /\ Affine(k)[1] = IF c < 2 THEN r ELSE r + N
          /\ Affine(k)[2] % 2 = 1 <=> c % 2 = 1
  <2>1. r \in 0..(N - 1) /\ Reduce(Affine(k)[1]) = r
    BY <1>2
  <2> QED
    BY <2>1, CodeIs
<1>8. /\ Affine(k) = <<Affine(k)[1], Affine(k)[2]>> /\ Affine(k) \in Curve
      /\ Affine(k)[1] \in 0..(P - 1)
  BY Coordinates
<1>9. CASE code = sig.code
  <2>1. Affine(k)[1] = (IF code < 2 THEN r ELSE r + N) /\ (Affine(k)[2] % 2 = 1 <=> odd)
    BY <1>2, <1>7, <1>9 DEF odd
  <2> HIDE DEF Affine
  <2>2. fits
    BY <1>1, <1>2, <1>8, <2>1 DEF fits
  <2>3. x = Affine(k)[1]
    BY <1>4, <2>1, <2>2
  <2>4. found.hasSqrt /\ y = Affine(k)[2]
    <3>1. <<x, Affine(k)[2]>> \in Curve
      BY <1>8, <2>3
    <3>2. (Affine(k)[2] % 2 = 1) = odd
      BY <2>1 DEF odd
    <3> QED
      BY <1>5, <2>2, <3>1, <3>2
  <2>5. X = k
    <3>1. Affine(X) = Affine(k) /\ X \in 1..(N - 1)
      BY <1>6, <1>8, <2>2, <2>3, <2>4
    <3> QED
      BY <3>1, GroupAssumption
  <2>6. value \in 0..(N - 1) /\ (hash + r * value) % N = (hash + r * key) % N
    BY <1>2, <1>6, <2>2, <2>4, <2>5
  <2>7. value = key
    <3>1. key \in 0..(N - 1)
      BY <1>1
    <3> QED
      BY <1>2, <2>6, <3>1, OneKey
  <2>8. out = key
    BY <1>3, <2>2, <2>4, <2>7
  <2> QED
    BY <1>9, <2>8, Zenon DEF out, r, s
<1>10. CASE code # sig.code
  <2> SUFFICES ASSUME out # 0
               PROVE  out # key /\ Textbook(r, s, hash, out)
    BY <1>10, Zenon DEF out, r, s
  <2>1. fits /\ found.hasSqrt /\ out = value
    BY <1>3
  <2>2. /\ X \in 1..(N - 1) /\ Affine(X) = <<x, y>>
        /\ out \in 0..(N - 1) /\ (s * X) % N = (hash + r * out) % N
    BY <1>6, <2>1
  <2>3. Affine(X)[1] = x /\ Affine(X)[2] = y
    <3> HIDE DEF Affine
    <3> QED
      BY <2>2
  <2>4. Reduce(Affine(X)[1]) = r
    <3> DEFINE a == Affine(X)[1]
    <3>1. a = x /\ x \in 0..(P - 1) /\ (x = r \/ (r + N < P /\ x = r + N))
      BY <1>1, <1>2, <1>4, <2>1, <2>3 DEF fits
    <3> HIDE DEF a
    <3>2. r \in 0..(N - 1)
      BY <1>2
    <3>3. a % N = r
      BY <3>1, <3>2, ReducedX
    <3> QED
      BY <3>3, Zenon DEF a, Reduce
  <2>5. Textbook(r, s, hash, out)
    <3>1. r \in 0..(N - 1) /\ out \in Nat
      BY <1>1, <1>2, <2>2
    <3> QED
      BY <1>2, <2>2, <2>4, <3>1, TextbookIs
  <2>6. out # key
    <3> SUFFICES ASSUME out = key PROVE FALSE
      OBVIOUS
    <3>1. (s * X) % N = (s * k) % N
      BY <1>2, <2>2, Zenon
    <3>2. X = k
      BY <1>2, <2>2, <3>1, OneNonce
    <3>3. Affine(k)[1] = x /\ Affine(k)[2] = y
      BY <2>3, <3>2, Zenon
    <3>4. x = (IF code < 2 THEN r ELSE r + N) /\ (y % 2 = 1) = (code % 2 = 1)
      BY <1>4, <1>5, <2>1 DEF odd
    <3>5. RecoveryCode(k) = code
      BY <1>7, <3>3, <3>4
    <3> QED
      BY <1>2, <1>10, <3>5
  <2> QED
    BY <2>5, <2>6
<1> QED
  BY <1>9, <1>10

\* What is accepted is on the curve, and every point of the curve is accepted in
\* the formats that say how odd its Y is.
ParsedRight(format, x, y, out) ==
    /\ out # Infinity => out[1] = x /\ OnCurve(out) /\ out[2] < P
    /\ out # Infinity /\ format # 4 => out[2] % 2 = format % 2
    /\ x < P /\ OnCurve(<<x, y>>) /\ y < P =>
        (out = <<x, y>> <=> (format = 4 \/ (format \in {2, 3, 6, 7} /\ format % 2 = y % 2)))

\* ParsePubKey does so.
LEMMA ParsedKey ==
    ASSUME NEW format \in 1..8, NEW x \in Nat, NEW y \in 0..P
    PROVE  ParsedRight(format, x, y, ParsePubKey(format, x, y))
<1> DEFINE odd == format = 3
           found == DecompressY(Number(x), odd, Start)
           root == found.regs["y3"].v
           out == ParsePubKey(format, x, y)
<1>1. P \in Nat \ {0}
  BY Orders
<1>2. ASSUME x < P
      PROVE  /\ root \in 0..(P - 1)
             /\ found.hasSqrt => <<x, root>> \in Curve /\ (root % 2 = 1) = odd
             /\ \A z : <<x, z>> \in Curve => found.hasSqrt /\ ((z % 2 = 1) = odd => root = z)
  <2> DEFINE n == Number(x)
  <2>1. n.v = x
    <3>1. x \in 0..(P - 1)
      BY <1>1, <1>2
    <3>2. x % P = x
      BY <1>1, <3>1, ModSmall, Zenon
    <3> QED
      BY <3>2 DEF Number, Register
  <2> HIDE DEF n
  <2>2. n.v \in 0..(P - 1) /\ odd \in BOOLEAN
    BY <1>1, <1>2, <2>1
  <2> HIDE DEF odd
  <2>3. LET f == DecompressY(n, odd, Start)
            r == f.regs["y3"].v
        IN  /\ r \in 0..(P - 1)
            /\ f.hasSqrt => <<n.v, r>> \in Curve /\ (r % 2 = 1) = odd
            /\ \A z : <<n.v, z>> \in Curve => f.hasSqrt /\ ((z % 2 = 1) = odd => r = z)
    BY <2>2, Root
  <2> QED
    BY <2>1, <2>3 DEF n
<1>3. out = IF /\ format \in {2, 3, 4, 6, 7}
               /\ x < P
               /\ IF format \in {2, 3} THEN found.hasSqrt
                  ELSE y < P /\ (format \in {6, 7} => y % 2 = format % 2) /\ OnCurve(<<x, y>>)
            THEN <<x, IF format \in {2, 3} THEN root ELSE y>>
            ELSE Infinity
  BY Zenon DEF ParsePubKey
<1> HIDE DEF found, root, out
<1>4. ASSUME x < P, y < P, OnCurve(<<x, y>>) PROVE <<x, y>> \in Curve /\ <<x, y>> # Infinity
  BY <1>1, <1>4, GroupAssumption DEF Curve
<1>5. y % 2 \in {0, 1} /\ (x < P => root % 2 \in {0, 1})
  <2>1. y \in Nat
    BY <1>1
  <2>2. x < P => root \in Nat
    BY <1>1, <1>2
  <2> QED
    BY <2>1, <2>2, Parity
<1>6. 2 % 2 = 0 /\ 3 % 2 = 1 /\ 6 % 2 = 0 /\ 7 % 2 = 1
  OBVIOUS
<1>7. CASE format \in {2, 3} /\ x < P /\ found.hasSqrt
  <2>1. out = <<x, root>> /\ out[1] = x /\ out[2] = root
    BY <1>3, <1>7
  <2>2. <<x, root>> \in Curve /\ (root % 2 = 1) = odd /\ root < P
    BY <1>1, <1>2, <1>7
  <2>3. OnCurve(out)
    BY <2>1, <2>2 DEF Curve
  <2>4. root % 2 = format % 2
    BY <1>5, <1>6, <1>7, <2>2
  <2>5. ASSUME y < P, OnCurve(<<x, y>>) PROVE out = <<x, y>> <=> format % 2 = y % 2
    <3>1. (y % 2 = 1) = odd => root = y
      BY <1>2, <1>4, <1>7, <2>5
    <3>2. format % 2 = y % 2 => (y % 2 = 1) = odd
      BY <1>5, <1>6, <1>7
    <3> QED
      BY <2>1, <2>4, <3>1, <3>2
  <2> QED
    BY <1>7, <2>1, <2>2, <2>3, <2>4, <2>5 DEF out, ParsedRight
<1>8. CASE format \in {4, 6, 7} /\ x < P /\ y < P /\ OnCurve(<<x, y>>)
           /\ (format \in {6, 7} => y % 2 = format % 2)
  <2>1. out = <<x, y>> /\ out[1] = x /\ out[2] = y
    BY <1>3, <1>8
  <2> QED
    BY <1>8, <2>1 DEF out, ParsedRight
<1>9. CASE out = Infinity /\ ~(format \in {2, 3} /\ x < P /\ found.hasSqrt)
           /\ ~(format \in {4, 6, 7} /\ x < P /\ y < P /\ OnCurve(<<x, y>>)
                /\ (format \in {6, 7} => y % 2 = format % 2))
  <2>1. ASSUME x < P, y < P, OnCurve(<<x, y>>)
        PROVE  out # <<x, y>> /\ format # 4 /\ ~(format \in {2, 3, 6, 7} /\ format % 2 = y % 2)
    BY <1>2, <1>4, <1>9, <2>1
  <2> QED
    BY <1>9, <2>1 DEF out, ParsedRight
<1> QED
  BY <1>3, <1>7, <1>8, <1>9

-----------------------------------------------------------------------------
(* The state machine *)

\* The nonce with which a signature was made, and every answer as it should be.
SigInv ==
    /\ key \in Keys /\ hash \in Hashes /\ stream \in Seq(Drawn)
    /\ sig.r = 0 => answer = Unasked
    /\ sig.r # 0 => \E k \in 1..(N - 1) : SignedBy(k)
    /\ VerifiedRight /\ RecoveredRight /\ KeysParsed

\* Keys and hashes are numbers.
LEMMA Inputs ==
    ASSUME SigInv
    PROVE  key \in 1..(N - 1) /\ key \in Nat /\ key \in Int /\ hash \in Nat /\ hash \in Int
  BY SignatureAssumption, InputsAssumption, Orders DEF SigInv

\* NonceRFC6979 gives a scalar other than zero.
LEMMA NonceIsScalar ==
    ASSUME stream \in Seq(Drawn), HasNonce
    PROVE  NonceRFC6979 \in 1..(N - 1)
<1>1. PICK i \in 1..Len(stream) : IsNonce(i) /\ NonceRFC6979 = stream[i]
  BY DEF HasNonce, NonceRFC6979
<1>2. stream[i] # 0 /\ stream[i] < N
  BY <1>1 DEF IsNonce, Counts
<1>3. stream[i] \in Drawn
  BY <1>1
<1>4. stream[i] \in Nat
  BY <1>3, InputsAssumption
<1> DEFINE v == stream[i]
<1>5. v \in 1..(N - 1)
  <2> HIDE DEF v
  <2> QED
    BY <1>2, <1>4, Orders DEF v
<1> QED
  BY <1>1, <1>5, Zenon

\* Nothing is wrong with an answer nobody has asked for.
LEMMA UnaskedRight ==
    ASSUME answer = Unasked
    PROVE  VerifiedRight /\ RecoveredRight /\ KeysParsed
  BY DEF Unasked, VerifiedRight, RecoveredRight, KeysParsed

\* At the start there is no signature.
LEMMA SigInitInv == ASSUME SigInit PROVE SigInv
<1>1. key \in Keys /\ hash \in Hashes /\ stream \in Seq(Drawn) /\ sig.r = 0 /\ answer = Unasked
  BY DEF SigInit
<1> QED
  BY <1>1, UnaskedRight DEF SigInv

\* Drawing a value changes no signature.
LEMMA DrawNonceInv == ASSUME SigInv, DrawNonce PROVE SigInv'
<1>1. /\ key' = key /\ hash' = hash /\ sig' = sig /\ answer' = answer /\ sig.r = 0
      /\ stream' \in Seq(Drawn)
  BY DEF DrawNonce, SigInv
<1> QED
  BY <1>1 DEF SigInv, VerifiedRight, RecoveredRight, KeysParsed, Unasked

\* Trying the next nonce changes no signature.
LEMMA SignAgainInv == ASSUME SigInv, SignAgain PROVE SigInv'
<1>1. /\ key' = key /\ hash' = hash /\ sig' = sig /\ answer' = answer /\ sig.r = 0
      /\ stream' = stream
  BY DEF SignAgain
<1> QED
  BY <1>1 DEF SigInv, VerifiedRight, RecoveredRight, KeysParsed, Unasked

\* What Sign makes is signed by a nonce.
LEMMA SignInv == ASSUME SigInv, Sign PROVE SigInv'
<1> DEFINE k == NonceRFC6979
<1>1. /\ key' = key /\ hash' = hash /\ answer' = answer /\ sig.r = 0 /\ stream' = <<>>
      /\ HasNonce /\ RandomR(k) # 0 /\ RandomS(k) # 0 /\ sig' = Signed(k)
  BY DEF Sign
<1>2. k \in 1..(N - 1)
  BY <1>1, NonceIsScalar DEF SigInv
<1> HIDE DEF k
<1>3. \E j \in 1..(N - 1) : SignedBy(j)'
  BY <1>1, <1>2, Inputs, SignedByNonce
<1>4. sig'.r # 0
  BY <1>3, Orders DEF SignedBy
<1>5. answer' = Unasked
  BY <1>1 DEF SigInv
<1>6. VerifiedRight' /\ RecoveredRight' /\ KeysParsed'
  BY <1>5 DEF Unasked, VerifiedRight, RecoveredRight, KeysParsed
<1>7. stream' \in Seq(Drawn)
  BY <1>1
<1> QED
  BY <1>1, <1>3, <1>4, <1>6, <1>7 DEF SigInv

\* An answer changes nothing of what is signed.
LEMMA Answered ==
    ASSUME SigInv, NEW call, NEW ask, NEW out, Answer(call, ask, out)
    PROVE  /\ sig.r # 0 /\ \E k \in 1..(N - 1) : SignedBy(k)
           /\ key' = key /\ hash' = hash /\ sig' = sig /\ stream' = stream
           /\ answer'.call = call /\ answer'.ask = ask /\ answer'.out = out
           /\ VerifiedRight' /\ RecoveredRight' /\ KeysParsed' => SigInv'
<1>1. /\ sig.r # 0 /\ key' = key /\ hash' = hash /\ sig' = sig /\ stream' = stream
      /\ answer' = [call |-> call, ask |-> ask, out |-> out]
  BY DEF Answer
<1>2. \E k \in 1..(N - 1) : SignedBy(k)
  BY <1>1 DEF SigInv
<1>3. \E k \in 1..(N - 1) : SignedBy(k)'
  BY <1>1, <1>2 DEF SignedBy, RecoveryCode
<1>4. VerifiedRight' /\ RecoveredRight' /\ KeysParsed' => SigInv'
  BY <1>1, <1>3 DEF SigInv
<1> QED
  BY <1>1, <1>2, <1>4

\* Verify answers as the textbook does.
LEMMA AskVerifyInv == ASSUME SigInv, AskVerify PROVE SigInv'
<1>1. PICK d \in Keys, h \in Hashes, z \in Zs, s \in {sig.s, N - sig.s} :
          Answer("verify", <<d, h, s>>, <<EcdsaVerify(sig.r, s, h, d, z)>>)
  BY DEF AskVerify
<1> DEFINE out == EcdsaVerify(sig.r, s, h, d, z)
<1>2. PICK k \in 1..(N - 1) : SignedBy(k)
  BY <1>1, Answered
<1>3. sig.r \in 1..(N - 1) /\ s \in 1..(N - 1)
  BY <1>1, <1>2, HalfOrder, Orders DEF SignedBy
<1>4. d \in 1..(N - 1) /\ h \in Nat /\ z \in 1..(P - 1)
  BY SignatureAssumption, InputsAssumption
<1>5. out <=> Textbook(sig.r, s, h, d)
  BY <1>3, <1>4, VerifyIsTextbook
<1> HIDE DEF out
<1>6. sig' = sig /\ answer'.call = "verify" /\ answer'.ask = <<d, h, s>> /\ answer'.out = <<out>>
  BY <1>1, Answered DEF out
<1>7. VerifiedRight'
  BY <1>5, <1>6 DEF VerifiedRight, Textbook, Reduce
<1>8. RecoveredRight' /\ KeysParsed'
  BY <1>6 DEF RecoveredRight, KeysParsed
<1> QED
  BY <1>1, <1>7, <1>8, Answered

\* RecoverCompact answers with the key, or with another that is valid too.
LEMMA AskRecoverInv == ASSUME SigInv, AskRecover PROVE SigInv'
<1>1. PICK code \in 0..3, compressed \in BOOLEAN :
          Answer("recover", <<code>>, <<RecoverCompact(Header(code, compressed), sig.r, sig.s, hash)>>)
  BY DEF AskRecover
<1> DEFINE out == RecoverCompact(Header(code, compressed), sig.r, sig.s, hash)
<1>2. PICK k \in 1..(N - 1) : SignedBy(k)
  BY <1>1, Answered
<1>3. IF code = sig.code THEN out = key
      ELSE out # 0 => out # key /\ Textbook(sig.r, sig.s, hash, out)
  BY <1>2, Inputs, RecoverIs
<1> HIDE DEF out
<1>4. /\ sig' = sig /\ key' = key /\ hash' = hash
      /\ answer'.call = "recover" /\ answer'.ask = <<code>> /\ answer'.out = <<out>>
  BY <1>1, Answered DEF out
<1>5. RecoveredRight'
  BY <1>3, <1>4 DEF RecoveredRight, Textbook, Reduce
<1>6. VerifiedRight' /\ KeysParsed'
  BY <1>4 DEF VerifiedRight, KeysParsed
<1> QED
  BY <1>1, <1>5, <1>6, Answered

\* ParseDERSignature answers nothing the invariant is about.
LEMMA AskParseInv == ASSUME SigInv, AskParse PROVE SigInv'
<1>1. PICK w \in Arriving(Serialize(sig.r, sig.s)) :
          Answer("parse", w, IF ParsesDER(w) THEN ParsedDER(w) ELSE <<>>)
  BY DEF AskParse
<1>2. answer'.call = "parse"
  BY <1>1, Answered
<1>3. VerifiedRight' /\ RecoveredRight' /\ KeysParsed'
  BY <1>2 DEF VerifiedRight, RecoveredRight, KeysParsed
<1> QED
  BY <1>1, <1>3, Answered

\* ParsePubKey answers with points of the curve.
LEMMA AskPubKeyInv == ASSUME SigInv, AskPubKey PROVE SigInv'
<1>1. PICK format \in 1..8, x \in Abscissas, y \in {Affine(key)[2], P - Affine(key)[2], P} :
          Answer("pubKey", <<format, x, y>>, ParsePubKey(format, x, y))
  BY DEF AskPubKey
<1> DEFINE out == ParsePubKey(format, x, y)
<1>2. x \in Nat /\ y \in 0..P
  <2>1. key \in 1..(N - 1)
    BY Inputs
  <2> DEFINE ky == Affine(key)[2]
  <2>2. ky \in 1..(P - 1)
    BY <2>1, Coordinates
  <2>3. y \in {ky, P - ky, P}
    OBVIOUS
  <2> HIDE DEF ky
  <2> QED
    BY <2>2, <2>3, InputsAssumption, Orders
<1>3. ParsedRight(format, x, y, out)
  BY <1>2, ParsedKey
<1> HIDE DEF out
<1>4. answer'.call = "pubKey" /\ answer'.ask = <<format, x, y>> /\ answer'.out = out
  BY <1>1, Answered DEF out
<1> DEFINE ask == <<format, x, y>>
<1>5. ask[1] = format /\ ask[2] = x /\ ask[3] = y
  OBVIOUS
<1> HIDE DEF ask
<1>6. answer'.ask = ask /\ answer'.out = out
  BY <1>4 DEF ask
<1>7. KeysParsed'
  <2>1. KeysParsed' <=> (answer'.call = "pubKey" => ParsedRight(format, x, y, out))
    BY <1>5, <1>6, Zenon DEF KeysParsed, ParsedRight, OnCurve
  <2> QED
    BY <1>3, <2>1, Zenon
<1>8. VerifiedRight' /\ RecoveredRight'
  BY <1>4 DEF VerifiedRight, RecoveredRight
<1> QED
  BY <1>1, <1>7, <1>8, Answered

\* What changes nothing keeps the invariant.
LEMMA SigStays == ASSUME SigInv, UNCHANGED sigVars PROVE SigInv'
<1>1. /\ key' = key /\ hash' = hash /\ stream' = stream /\ sig' = sig /\ answer' = answer
  BY DEF sigVars
<1>2. VerifiedRight' /\ RecoveredRight' /\ KeysParsed'
  BY <1>1 DEF SigInv, VerifiedRight, RecoveredRight, KeysParsed, Textbook, Reduce
<1>3. sig.r # 0 => \E k \in 1..(N - 1) : SignedBy(k)'
  BY <1>1 DEF SigInv, SignedBy, RecoveryCode
<1> QED
  BY <1>1, <1>2, <1>3 DEF SigInv

\* A nonce that made the signature shows it to be valid.
LEMMA InvSaysRight == ASSUME SigInv PROVE SignaturesVerify
<1>1. ASSUME sig.r # 0 PROVE SignedValid
  <2>1. PICK k \in 1..(N - 1) : SignedBy(k)
    BY <1>1 DEF SigInv
  <2>2. Textbook(sig.r, sig.s, hash, key)
    BY <2>1, Inputs, SignedTextbook
  <2> QED
    BY <2>1, <2>2, Orders DEF SignedBy, SignedValid
<1> QED
  BY <1>1 DEF SigInv, SignedValid, SignaturesVerify

\* A signature that signRFC6979 makes is low and valid for its key and hash;
\* Verify and EcdsaVerify decide for any key and hash as the textbook does, with
\* any Z; RecoverCompact finds the signer's key with the code given and with no
\* other; ParsePubKey accepts points of the curve only: for any prime, order, key,
\* hash and sequence of nonces.
THEOREM SignaturesSound == SigSpec => []SignaturesVerify
<1>1. SigInit => SigInv
  BY SigInitInv
<1>2. SigInv /\ [SigNext]_sigVars => SigInv'
  <2> SUFFICES ASSUME SigInv, [SigNext]_sigVars
               PROVE  SigInv'
    OBVIOUS
  <2>1. CASE DrawNonce
    BY <2>1, DrawNonceInv
  <2>2. CASE SignAgain
    BY <2>2, SignAgainInv
  <2>3. CASE Sign
    BY <2>3, SignInv
  <2>4. CASE AskVerify
    BY <2>4, AskVerifyInv
  <2>5. CASE AskRecover
    BY <2>5, AskRecoverInv
  <2>6. CASE AskParse
    BY <2>6, AskParseInv
  <2>7. CASE AskPubKey
    BY <2>7, AskPubKeyInv
  <2>8. CASE UNCHANGED sigVars
    BY <2>8, SigStays
  <2> QED
    BY <2>1, <2>2, <2>3, <2>4, <2>5, <2>6, <2>7, <2>8 DEF SigNext
<1>3. SigInv => SignaturesVerify
  BY InvSaysRight
<1> QED
  BY <1>1, <1>2, <1>3, PTL DEF SigSpec
=============================================================================
