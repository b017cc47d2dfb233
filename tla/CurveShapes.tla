---------------------------- MODULE CurveShapes -----------------------------
(***************************************************************************)
(* The routines of CurvePoints without the numbers they compute with: what *)
(* is left of a register is its shape, the magnitude and whether it is     *)
(* normalized, which is all that field.go's preconditions are about.  What *)
(* a routine does to shapes depends on no constant, so one evaluation of   *)
(* RoutinesAssumption by TLC decides it.                                   *)
(*                                                                         *)
(* That the registers of a call, whatever its numbers, have the shapes     *)
(* found here is proved in CurveProofs.                                    *)
(***************************************************************************)
EXTENDS CurvePoints

RegisterNames == Locals \union PointNames \union {"beta"}
Ops == {"set", "int", "add", "addInt", "mul", "mulInt", "negate", "inverse", "root", "normalize"}

Clean == [mag |-> 1, normal |-> TRUE]

\* At the start of a call the points are normalized, and what the locals hold
\* is the zero value of their type.
Entry == [n \in RegisterNames |-> Clean]

ShapeOf(s, a, b) == [mag |-> MagnitudeOf(s, a, b), normal |-> NormalOf(s, a)]

ShapeStep(homes, shapes, s) ==
    [shapes EXCEPT ![Home(homes, s.to)] = ShapeOf(s, shapes[Home(homes, s.a)], shapes[Home(homes, s.b)])]

\* The shapes after each step of a routine.
Shapes(routine, homes, start) ==
    LET run[i \in 0..Len(routine)] == IF i = 0 THEN start ELSE ShapeStep(homes, run[i - 1], routine[i])
    IN  run

FinalShapes(routine, homes, start) == Shapes(routine, homes, start)[Len(routine)]

\* Every step is one of field.go's operations, called as it asks.
Conforms(routine, homes, start) ==
    LET shapes == Shapes(routine, homes, start)
    IN  /\ Len(routine) \in Nat
        /\ \A i \in 1..Len(routine) :
            LET s == routine[i]
                before == shapes[i - 1]
            IN  /\ s.op \in Ops
                /\ {s.to, s.a, s.b} \subseteq RegisterNames
                /\ AsAsked(s, before[Home(homes, s.a)], before[Home(homes, s.b)])

\* The three points are as normalized afterwards as at the start of a call.
Restores(routine, homes, start) ==
    /\ Conforms(routine, homes, start)
    /\ \A n \in PointNames : FinalShapes(routine, homes, start)[n] = Clean

\* DoubleNonConst, from the shapes it is called with.
DoubleConforms(homes, start) ==
    /\ start[At[homes]["y1"]].normal /\ start[At[homes]["z1"]].normal
    /\ Restores(Zero3, homes, start)
    /\ Restores(DoubleRoutines.one \o Normalize3, homes, start)
    /\ Restores(DoubleRoutines.other \o Normalize3, homes, start)

\* AddNonConst once it has chosen a kind of formula.
AddConforms(kind, homes) ==
    LET like == FinalShapes(Compared(kind), homes, Entry)
    IN  /\ Conforms(Compared(kind), homes, Entry)
        /\ \A i \in 1..2 : /\ like[Home(homes, LikeX(kind)[i])].normal
                           /\ like[Home(homes, LikeY(kind)[i])].normal
        /\ Restores(AddRoutine[kind] \o Normalize3, homes, like)
        /\ Restores(Zero3, homes, like)
        /\ DoubleConforms(homes, like)

ASSUME RoutinesAssumption ==
    \A homes \in Homes :
        /\ \A i \in 1..2 : Restores(Set3(i), homes, Entry)
        /\ \A kind \in Kinds : AddConforms(kind, homes)
        /\ DoubleConforms(homes, Entry)
        /\ Restores(ToAffineRoutine, homes, Entry)
        /\ Restores(NegateRoutine, homes, Entry)
        /\ Restores(EndoRoutine, homes, Entry)

-----------------------------------------------------------------------------
(* DecompressY, whose X may be anything that can be multiplied *)

XShapes == [mag : 1..MaxMulMagnitude, normal : BOOLEAN]

EntryWith(x) == [Entry EXCEPT !["x3"] = x]

Apart == <<1, 2, 3>>   \* no two points share memory

\* Afterwards Y is normalized, or negated once more.
ASSUME RootAssumption ==
    \A x \in XShapes :
        LET root == FinalShapes(RootRoutine, Apart, EntryWith(x))
            y == FinalShapes(Normalize("y3"), Apart, root)
            flipped == FinalShapes(Negate("y3", 1), Apart, y)
        IN  /\ Conforms(RootRoutine, Apart, EntryWith(x))
            /\ root["a"].normal /\ root["b"].normal
            /\ Conforms(Normalize("y3"), Apart, root)
            /\ y["y3"] = Clean
            /\ Conforms(Negate("y3", 1), Apart, y)
            /\ flipped["y3"].mag = 2
=============================================================================
