---------------------------- MODULE MinedShares -----------------------------
(***************************************************************************)
(* The duplicate check for shares (util/shares.go): two generations of     *)
(* accepted shares in memory, exchanged every 15 minutes by a goroutine of *)
(* its own (Next), and looked up and extended by every connection          *)
(* goroutine that submits a share (ShareExist).                            *)
(*                                                                         *)
(* Both sides take two locks: Next takes lastLock and then curLock,        *)
(* ShareExist takes curLock and then lastLock.  lastLock is a Go RWMutex:  *)
(* a Lock() that waits already keeps new readers out.  What happens under  *)
(* both locks, up to their deferred release, is one step.                  *)
(***************************************************************************)
EXTENDS Integers

CONSTANTS
    Procs,      \* connection goroutines
    Shares,     \* shares they submit
    NoOne,      \* the owner of a free lock
    MaxSteps    \* bound: how often the generations are exchanged

ASSUME NoOneAssumption == NoOne \notin Procs
ASSUME MaxStepsAssumption == MaxSteps \in Nat

VARIABLES
    set,        \* m.set: the two generations, as sets of shares
    step,       \* m.step; Current is set[step % 2], Last the other one
    curOwner,   \* the connection that holds curLock, or NoOne
    readers,    \* the connections that hold lastLock for reading
    rotator,    \* where the goroutine that calls Next is
    pc,         \* where each connection is in ShareExist
    share,      \* the share each connection asks about
    accepted,   \* history: how often a share was said not to exist
    acceptedAt  \* history: m.step when that was said last

vars == <<set, step, curOwner, readers, rotator, pc, share, accepted, acceptedAt>>

\* m.Current and m.Last are the maps of m.set under another name (before the
\* first exchange Last is nil, which is looked up like an empty map).
Current == set[step % 2]
Last    == set[(step + 1) % 2]

Init ==
    /\ set = [i \in 0..1 |-> {}]
    /\ step = 0
    /\ curOwner = NoOne /\ readers = {}
    /\ rotator = "asleep"
    /\ pc = [p \in Procs |-> "out"]
    /\ share \in [Procs -> Shares]
    /\ accepted = [s \in Shares |-> 0]
    /\ acceptedAt = [s \in Shares |-> -2]

-----------------------------------------------------------------------------
(* Next *)

\* The ticker fires and lastLock.Lock() is called.
CallNext ==
    /\ rotator = "asleep" /\ step < MaxSteps
    /\ rotator' = "wantsLast"
    /\ UNCHANGED <<set, step, curOwner, readers, pc, share, accepted, acceptedAt>>

TakeLast ==
    /\ rotator = "wantsLast" /\ readers = {}
    /\ rotator' = "wantsCurrent"
    /\ UNCHANGED <<set, step, curOwner, readers, pc, share, accepted, acceptedAt>>

\* Mutant: the slot to reuse is computed before step is incremented, so the
\* generation that should be kept is the one that is emptied.
ExchangeWrongSlot ==
    /\ rotator = "wantsCurrent" /\ curOwner = NoOne
    /\ step' = step + 1
    /\ set' = [set EXCEPT ![step % 2] = {}]
    /\ rotator' = "asleep"
    /\ UNCHANGED <<curOwner, readers, pc, share, accepted, acceptedAt>>

\* curLock is taken too, and the generations are exchanged.
Exchange ==
    /\ rotator = "wantsCurrent" /\ curOwner = NoOne
    /\ step' = step + 1
    /\ set' = [set EXCEPT ![(step + 1) % 2] = {}]
    /\ rotator' = "asleep"
    /\ UNCHANGED <<curOwner, readers, pc, share, accepted, acceptedAt>>

-----------------------------------------------------------------------------
(* ShareExist *)

Call(p, s) ==
    /\ pc[p] = "out"
    /\ pc' = [pc EXCEPT ![p] = "wantsCurrent"]
    /\ share' = [share EXCEPT ![p] = s]
    /\ UNCHANGED <<set, step, curOwner, readers, rotator, accepted, acceptedAt>>

TakeCurrent(p) ==
    /\ pc[p] = "wantsCurrent" /\ curOwner = NoOne
    /\ curOwner' = p
    /\ pc' = [pc EXCEPT ![p] = "wantsLast"]
    /\ UNCHANGED <<set, step, readers, rotator, share, accepted, acceptedAt>>

ReadLast(p) ==
    /\ pc[p] = "wantsLast" /\ rotator = "asleep"
    /\ readers' = readers \union {p}
    /\ pc' = [pc EXCEPT ![p] = "looks"]
    /\ UNCHANGED <<set, step, curOwner, rotator, share, accepted, acceptedAt>>

\* Mutant: only the current generation is looked up.
LookCurrentOnly(p) ==
    /\ pc[p] = "looks"
    /\ IF share[p] \in Current
       THEN UNCHANGED <<set, accepted, acceptedAt>>
       ELSE /\ set' = [set EXCEPT ![step % 2] = @ \union {share[p]}]
            /\ accepted' = [accepted EXCEPT ![share[p]] = @ + 1]
            /\ acceptedAt' = [acceptedAt EXCEPT ![share[p]] = step]
    /\ curOwner' = NoOne
    /\ readers' = readers \ {p}
    /\ pc' = [pc EXCEPT ![p] = "out"]
    /\ UNCHANGED <<step, rotator, share>>

\* The share is looked up in both generations and, if it is in neither,
\* remembered in the current one; both locks are released.
Look(p) ==
    /\ pc[p] = "looks"
    /\ IF share[p] \in Current \union Last
       THEN UNCHANGED <<set, accepted, acceptedAt>>
       ELSE /\ set' = [set EXCEPT ![step % 2] = @ \union {share[p]}]
            /\ accepted' = [accepted EXCEPT ![share[p]] = @ + 1]
            /\ acceptedAt' = [acceptedAt EXCEPT ![share[p]] = step]
    /\ curOwner' = NoOne
    /\ readers' = readers \ {p}
    /\ pc' = [pc EXCEPT ![p] = "out"]
    /\ UNCHANGED <<step, rotator, share>>

-----------------------------------------------------------------------------
Rotate == CallNext \/ TakeLast \/ Exchange

Next ==
    \/ Rotate
    \/ \E p \in Procs :
          \/ \E s \in Shares : Call(p, s)
          \/ TakeCurrent(p) \/ ReadLast(p) \/ Look(p)

Spec == Init /\ [][Next]_vars

\* A goroutine that can run is run; Go's mutexes let nobody wait for ever for
\* a lock that is released again and again.
FairSpec ==
    /\ Spec
    /\ WF_vars(TakeLast) /\ SF_vars(Exchange)
    /\ \A p \in Procs : SF_vars(TakeCurrent(p)) /\ SF_vars(ReadLast(p)) /\ WF_vars(Look(p))

-----------------------------------------------------------------------------
(* Properties *)

\* The types, and who holds which lock at which point.
TypeOK ==
    /\ set \in [0..1 -> SUBSET Shares]
    /\ step \in 0..MaxSteps
    /\ curOwner \in Procs \union {NoOne} /\ readers \in SUBSET Procs
    /\ rotator \in {"asleep", "wantsLast", "wantsCurrent"}
    /\ rotator # "asleep" => step < MaxSteps
    /\ pc \in [Procs -> {"out", "wantsCurrent", "wantsLast", "looks"}]
    /\ share \in [Procs -> Shares]
    /\ accepted \in [Shares -> Nat]
    /\ acceptedAt \in [Shares -> Int]
    /\ \A p \in Procs : curOwner = p <=> pc[p] \in {"wantsLast", "looks"}
    /\ readers = {p \in Procs : pc[p] = "looks"}
    /\ rotator = "wantsCurrent" => readers = {}

\* The generations hold just the shares accepted since the last exchange, and
\* since the one before it: an exchange drops neither a share too early nor
\* one that was inserted while it waited for its locks.
GenerationsExact ==
    /\ Current = {s \in Shares : acceptedAt[s] = step}
    /\ Last = {s \in Shares : acceptedAt[s] = step - 1}

\* A share is accepted again only if at least two exchanges came in between.
AcceptedAgainLater ==
    \A s \in Shares : accepted'[s] # accepted[s] => acceptedAt[s] + 2 <= step

\* No share is accepted twice within 15 minutes, whatever the connections and
\* the exchange of the generations interleave to.
NoDuplicateInWindow == [][AcceptedAgainLater]_vars

\* "Concurrent shares processing" (README): every submission is answered.
CallsReturn == \A p \in Procs : pc[p] # "out" ~> pc[p] = "out"
=============================================================================
