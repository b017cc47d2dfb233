------------------------- MODULE MinedSharesProofs --------------------------
(***************************************************************************)
(* Proofs about the duplicate check, for any number of connections, shares *)
(* and exchanges: no share is accepted twice within two generations.  The  *)
(* argument needs the locks only where Look and Exchange touch the maps,   *)
(* and those are single steps; what carries it is that the maps hold just  *)
(* the shares accepted in the current and in the last generation.          *)
(***************************************************************************)
EXTENDS MinedShares, TLAPS

\* The generation the step counter selects, and the one it does not.
LEMMA Parity ==
    ASSUME NEW n \in Nat
    PROVE  /\ n % 2 \in 0..1 /\ (n + 1) % 2 \in 0..1
           /\ (n + 1) % 2 # n % 2
           /\ (n + 2) % 2 = n % 2
BY SMT

\* No share is accepted in a generation that is still to come.
NoFuture == \A s \in Shares : acceptedAt[s] <= step

Inv == TypeOK /\ GenerationsExact /\ NoFuture

LEMMA InitInv == Init => Inv
BY MaxStepsAssumption, NoOneAssumption
   DEF Init, Inv, TypeOK, GenerationsExact, NoFuture, Current, Last

\* The exchange empties the generation before the last one, whose shares were
\* accepted two generations before the new one.
LEMMA ExchangeInv == ASSUME Inv, Exchange PROVE Inv'
<1>1. step \in Nat /\ step' = step + 1 /\ step + 1 <= MaxSteps
  BY MaxStepsAssumption DEF Inv, TypeOK, Exchange
<1>2. /\ step' % 2 = (step + 1) % 2
      /\ (step' + 1) % 2 = step % 2
  <2>1. step' + 1 = step + 2
    BY <1>1
  <2> QED
    BY <1>1, <2>1, Parity
<1>3. TypeOK'
  BY <1>1, MaxStepsAssumption, Parity DEF Inv, TypeOK, Exchange
<1>4. Current' = {} /\ Last' = Current
  BY <1>1, <1>2, Parity DEF Inv, TypeOK, Exchange, Current, Last
<1>5. {s \in Shares : acceptedAt[s] = step + 1} = {}
  BY <1>1 DEF Inv, TypeOK, NoFuture
<1>6. GenerationsExact'
  <2>1. \A s \in Shares : acceptedAt'[s] = step' - 1 <=> acceptedAt[s] = step
    BY <1>1 DEF Exchange, Inv, TypeOK
  <2> QED
    BY <1>1, <1>4, <1>5, <2>1 DEF Inv, Exchange, GenerationsExact
<1>7. NoFuture'
  BY <1>1 DEF Inv, TypeOK, NoFuture, Exchange
<1> QED
  BY <1>3, <1>6, <1>7 DEF Inv

\* A share looked up is either remembered already or becomes one of the
\* current generation.
LEMMA LookInv == ASSUME Inv, NEW p \in Procs, Look(p) PROVE Inv'
<1>1. step \in Nat /\ step' = step /\ share[p] \in Shares
  BY MaxStepsAssumption DEF Inv, TypeOK, Look
<1>2. CASE share[p] \in Current \union Last
  BY <1>1, <1>2, NoOneAssumption
     DEF Inv, TypeOK, GenerationsExact, NoFuture, Look, Current, Last
<1>3. CASE share[p] \notin Current \union Last
  <2>1. /\ set' = [set EXCEPT ![step % 2] = @ \union {share[p]}]
        /\ accepted' = [accepted EXCEPT ![share[p]] = @ + 1]
        /\ acceptedAt' = [acceptedAt EXCEPT ![share[p]] = step]
    BY <1>3 DEF Look
  <2>2. TypeOK'
    BY <1>1, <2>1, Parity, NoOneAssumption DEF Look, Inv, TypeOK
  <2>3. Current' = Current \union {share[p]} /\ Last' = Last
    BY <1>1, <2>1, Parity DEF Inv, TypeOK, Current, Last
  <2>4. \A s \in Shares : acceptedAt'[s] = IF s = share[p] THEN step ELSE acceptedAt[s]
    BY <2>1 DEF Inv, TypeOK
  <2>5. GenerationsExact'
    <3>1. Current' = {s \in Shares : acceptedAt'[s] = step}
      BY <1>1, <2>3, <2>4 DEF Inv, GenerationsExact
    <3>2. Last' = {s \in Shares : acceptedAt'[s] = step - 1}
      BY <1>1, <1>3, <2>3, <2>4 DEF Inv, GenerationsExact
    <3> QED
      BY <1>1, <3>1, <3>2 DEF GenerationsExact
  <2>6. NoFuture'
    BY <1>1, <2>4 DEF Inv, TypeOK, NoFuture
  <2> QED
    BY <2>2, <2>5, <2>6 DEF Inv
<1> QED
  BY <1>2, <1>3

LEMMA NextInv == ASSUME Inv, [Next]_vars PROVE Inv'
<1>1. ASSUME NEW p \in Procs, NEW s \in Shares, Call(p, s) PROVE Inv'
  BY <1>1 DEF Call, Inv, TypeOK, GenerationsExact, NoFuture, Current, Last
<1>2. ASSUME NEW p \in Procs, TakeCurrent(p) \/ ReadLast(p) PROVE Inv'
  BY <1>2, NoOneAssumption DEF TakeCurrent, ReadLast, Inv, TypeOK, GenerationsExact, NoFuture, Current, Last
<1>3. CASE CallNext \/ TakeLast
  BY <1>3, MaxStepsAssumption
     DEF CallNext, TakeLast, Inv, TypeOK, GenerationsExact, NoFuture, Current, Last
<1>4. CASE UNCHANGED vars
  BY <1>4 DEF vars, Inv, TypeOK, GenerationsExact, NoFuture, Current, Last
<1> QED
  BY <1>1, <1>2, <1>3, <1>4, ExchangeInv, LookInv DEF Next, Rotate

\* The types, what the two generations hold, and no acceptance in the future
\* (util/shares.go).
THEOREM SharesInvariant == Spec => []Inv
<1>1. Init => Inv
  BY InitInv
<1>2. Inv /\ [Next]_vars => Inv'
  BY NextInv
<1> QED
  BY <1>1, <1>2, PTL DEF Spec

\* The locks and the steps of those who hold or want them agree
\* (ShareExist, Next).
THEOREM TypeCorrect == Spec => []TypeOK
<1>1. Inv => TypeOK
  BY DEF Inv
<1> QED
  BY <1>1, SharesInvariant, PTL

\* Next and ShareExist keep the two maps equal to the shares accepted in this
\* generation and in the last one.
THEOREM Exactness == Spec => []GenerationsExact
<1>1. Inv => GenerationsExact
  BY DEF Inv
<1> QED
  BY <1>1, SharesInvariant, PTL

\* ShareExist never calls a share new twice with fewer than two exchanges in
\* between.
THEOREM NoDuplicate == Spec => NoDuplicateInWindow
<1>1. ASSUME Inv, [Next]_vars PROVE [AcceptedAgainLater]_vars
  <2>1. ASSUME NEW s \in Shares, accepted'[s] # accepted[s], NEW p \in Procs, Look(p)
        PROVE  acceptedAt[s] + 2 <= step
    <3>1. s = share[p] /\ share[p] \notin Current \union Last
      BY <1>1, <2>1 DEF Look, Inv, TypeOK
    <3>2. acceptedAt[s] # step /\ acceptedAt[s] # step - 1 /\ acceptedAt[s] <= step
      BY <1>1, <3>1 DEF Inv, GenerationsExact, NoFuture
    <3> QED
      BY <1>1, <3>2, MaxStepsAssumption DEF Inv, TypeOK
  <2>2. ASSUME ~ \E p \in Procs : Look(p) PROVE accepted' = accepted
    BY <1>1, <2>2
       DEF Next, Rotate, CallNext, TakeLast, Exchange, Call, TakeCurrent, ReadLast, vars
  <2> QED
    BY <2>1, <2>2 DEF AcceptedAgainLater
<1> QED
  BY <1>1, SharesInvariant, PTL DEF Spec, NoDuplicateInWindow
=============================================================================
