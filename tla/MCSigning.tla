----------------------------- MODULE MCSigning -----------------------------
(* The arithmetic behind a signature on small instances.  The six parts    *)
(* share no variable, so a run explores one at a time: the others rest in  *)
(* one of their initial states.                                            *)
EXTENDS FieldVal, AdditionChains, ModNScalar, ScalarMult, Signature, CurveShapes

VARIABLE part   \* the part that runs

\* Numbers around the limits of a word, of two words, and of the prime.
MCOperands ==
    {0, 1, 2, 3, 15, 16, 255, 256, 4095, 4096, 5461, 8191, 12345} \union
    {Prime \div 2, Prime - 2, Prime - 1, Prime, Prime + 1, 2^FieldBits - 1}

MCScalars == {0, 1, 2, 3, 17, 64, 100, Order \div 2, Order \div 2 + 1, Order - 2, Order - 1}

FieldRest == FieldInit /\ value = 0 /\ normal
ChainRest == ChainInit /\ chain = "Inverse"
ScalarRest == s = WordsOf(0, ScalarWords) /\ scalar = 0
CurveRest ==
    /\ logOf = [c \in Cells |-> 0] /\ point = [c \in Cells |-> Jacobian(0, 1)]
    /\ proper = TRUE /\ calls = 0
MultRest == MultInit /\ k = 0 /\ method = "ScalarBaseMultNonConst" /\ \A x \in Roots : lambda <= x
SigRest == SigInit /\ key = 1 /\ hash = 0

Parts == {"field", "chains", "scalars", "points", "mult", "signature"}

SigningInit ==
    /\ part \in Parts
    /\ IF part = "field" THEN FieldInit ELSE FieldRest
    /\ IF part = "chains" THEN ChainInit ELSE ChainRest
    /\ IF part = "scalars" THEN ScalarInit ELSE ScalarRest
    /\ IF part = "points" THEN CurveInit ELSE CurveRest
    /\ IF part = "mult" THEN MultInit ELSE MultRest
    /\ IF part = "signature" THEN SigInit ELSE SigRest

SigningVars == <<part, fieldVars, chainVars, scalarVars, curveVars, multVars, sigVars>>

SigningNext ==
    /\ UNCHANGED part
    /\ \/ part = "field" /\ FieldNext
          /\ UNCHANGED <<chainVars, scalarVars, curveVars, multVars, sigVars>>
       \/ part = "chains" /\ ChainStep
          /\ UNCHANGED <<fieldVars, scalarVars, curveVars, multVars, sigVars>>
       \/ part = "scalars" /\ ScalarNext
          /\ UNCHANGED <<fieldVars, chainVars, curveVars, multVars, sigVars>>
       \/ part = "points" /\ CurveNext
          /\ UNCHANGED <<fieldVars, chainVars, scalarVars, multVars, sigVars>>
       \/ part = "mult" /\ MultNext
          /\ UNCHANGED <<fieldVars, chainVars, scalarVars, curveVars, sigVars>>
       \/ part = "signature" /\ SigNext
          /\ UNCHANGED <<fieldVars, chainVars, scalarVars, curveVars, multVars>>

SigningSpec == SigningInit /\ [][SigningNext]_SigningVars

-----------------------------------------------------------------------------

\* The numbers of field.go and modnscalar.go are what they should be through
\* any chain of operations, in all of their words and in the octets of a
\* signature that is sent.
NumbersExact ==
    /\ part = "field" => FieldExact
    /\ part = "scalars" => ScalarExact
    /\ part = "chains" => ChainsExact
    /\ part = "signature" => EncodingExact

\* Points of curve.go are added, doubled and multiplied as the group demands.
PointsExact ==
    /\ part = "points" => CurveExact
    /\ part = "mult" => MultExact
=============================================================================
