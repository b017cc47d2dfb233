----------------------------- MODULE Signature -----------------------------
(***************************************************************************)
(* xdago/secp256k1/ecdsa/signature.go, nonce.go, pubkey.go and             *)
(* xdago/cryptography/ecdsa.go: a block is signed, and what is made of the *)
(* signature and of the public key by those who get them.                  *)
(*                                                                         *)
(* Points and field values are those of CurvePoints; a multiplied point is *)
(* the multiple ScalarMult shows it to be, with some Z.  On the small      *)
(* curve X coordinates from the group's order upwards, and signatures that *)
(* must be tried again, are common.  The HMAC that nonces are drawn from   *)
(* may give any value; an encoded number has octets of OctetBits bits.     *)
(***************************************************************************)
EXTENDS CurvePoints, FiniteSets

CONSTANTS
    Keys,        \* bound: private keys
    Hashes,      \* bound: hashes to sign and to verify
    Drawn,       \* bound: values of the HMAC
    MaxDraws,    \* bound: values drawn for one signature
    OctetBits,   \* bits of an octet, 8
    OctetCount,  \* octets of a scalar, 32
    Abscissas    \* bound: X coordinates of public keys that arrive

VARIABLES
    key, hash,  \* what is signed
    stream,     \* the values the HMAC has given
    iteration,  \* of signRFC6979
    sig,        \* the signature and its recovery code, r = 0 before
    answer      \* the last answer about it

sigVars == <<key, hash, stream, iteration, sig, answer>>

-----------------------------------------------------------------------------
(* Numbers modulo the order *)

InverseModN == [x \in 1..(N - 1) |-> CHOOSE i \in 1..(N - 1) : (i * x) % N = 1]

IsHigh(s) == s > N \div 2
Reduce(x) == x % N

\* The multiple of the generator a point is.
LogOf(a) == CHOOSE k \in 0..(N - 1) : Affine(k) = a

ASSUME SignatureAssumption ==
    /\ Keys \subseteq 1..(N - 1) /\ N < P /\ P < 2 * N
    /\ P < 2^(OctetBits * OctetCount)

ASSUME InputsAssumption ==
    /\ Hashes \subseteq Nat /\ Drawn \subseteq Nat /\ Abscissas \subseteq Nat
    /\ Zs \subseteq 1..(P - 1)

\* The order and the prime of the field are prime, and what is a square modulo
\* the prime has a root that is a power of it.
ASSUME PrimesAssumption ==
    /\ N \in Nat /\ P \in Nat /\ N > 1
    /\ \A x \in 1..(N - 1) : \E i \in 1..(N - 1) : (i * x) % N = 1
    /\ \A x \in 1..(P - 1) : \E i \in 1..(P - 1) : (i * x) % P = 1
    /\ \A x \in 0..(P - 1) : Power(x, (P + 1) \div 4) \in 0..(P - 1)
    /\ \A y \in 0..(P - 1) : LET root == Power((y * y) % P, (P + 1) \div 4)
                            IN  (root * root) % P = (y * y) % P

Curve == {a \in (0..(P - 1)) \X (0..(P - 1)) : OnCurve(a)}

\* Every point of the curve is one multiple of the generator below its order,
\* and has an opposite that differs from it.
ASSUME GroupAssumption ==
    /\ Affine(0) = Infinity /\ Infinity \notin Curve
    /\ \A k \in 1..(N - 1) : /\ Affine(k) \in Curve
                             /\ Affine(N - k) = <<Affine(k)[1], P - Affine(k)[2]>>
    /\ \A a \in Curve : \E k \in 1..(N - 1) : Affine(k) = a
    /\ \A j, k \in 1..(N - 1) : Affine(j) = Affine(k) => j = k

-----------------------------------------------------------------------------
(* Signing *)

\* NonceRFC6979: values that are zero or not below the order do not count, and
\* as many as there are extra iterations are passed over.
Counts(i) == i \in 1..Len(stream) /\ stream[i] # 0 /\ stream[i] < N
IsNonce(i) == Counts(i) /\ Cardinality({j \in 1..(i - 1) : Counts(j)}) = iteration
HasNonce == \E i \in 1..Len(stream) : IsNonce(i)
NonceRFC6979 == stream[CHOOSE i \in 1..Len(stream) : IsNonce(i)]

\* fieldToModNScalar of the X coordinate of the nonce's point.
RandomR(nonce) == Reduce(Affine(nonce)[1])
RecoveryCode(nonce) == (IF Affine(nonce)[1] >= N THEN 2 ELSE 0) + (Affine(nonce)[2] % 2)

RandomS(nonce) == Reduce(Reduce(key * RandomR(nonce) + Reduce(hash)) * InverseModN[nonce])

DrawNonce ==
    /\ sig.r = 0 /\ ~HasNonce /\ Len(stream) < MaxDraws
    /\ \E v \in Drawn : stream' = Append(stream, v)
    /\ UNCHANGED <<key, hash, iteration, sig, answer>>

\* signRFC6979: r or s is zero, the next nonce is tried.
SignAgain ==
    /\ sig.r = 0 /\ HasNonce
    /\ RandomR(NonceRFC6979) = 0 \/ RandomS(NonceRFC6979) = 0
    /\ iteration' = iteration + 1
    /\ UNCHANGED <<key, hash, stream, sig, answer>>

\* Mutant: the recovery code is not changed with the sign of s.
SignedKeepsCode(nonce) ==
    LET s == RandomS(nonce)
    IN  [r |-> RandomR(nonce), s |-> IF IsHigh(s) THEN N - s ELSE s, code |-> RecoveryCode(nonce)]

\* A high s is negated, which is the signature of the opposite point.
Signed(nonce) ==
    LET s == RandomS(nonce)
        code == RecoveryCode(nonce)
    IN  IF IsHigh(s)
        THEN [r |-> RandomR(nonce), s |-> N - s, code |-> IF code % 2 = 0 THEN code + 1 ELSE code - 1]
        ELSE [r |-> RandomR(nonce), s |-> s, code |-> code]

Sign ==
    /\ sig.r = 0 /\ HasNonce
    /\ RandomR(NonceRFC6979) # 0 /\ RandomS(NonceRFC6979) # 0
    /\ sig' = Signed(NonceRFC6979)
    /\ stream' = <<>> /\ iteration' = 0
    /\ UNCHANGED <<key, hash, answer>>

-----------------------------------------------------------------------------
(* Verifying and recovering *)

\* Verify: r times z^2 is compared with the X of a point that has that z; an X
\* may have been reduced, when r plus the order is still below the prime.
Verify(r, s, h, pub, z) ==
    LET w == InverseModN[s]
        u1 == Reduce(Reduce(h) * w)
        u2 == Reduce(r * w)
        X == Jacobian(Reduce(u1 + u2 * pub), z)
        zz == (z * z) % P
    IN  /\ ~((X.X.v = 0 /\ X.Y.v = 0) \/ X.Z.v = 0)
        /\ \/ (r * zz) % P = X.X.v
           \/ r < P - N /\ ((r + N) * zz) % P = X.X.v

\* EcdsaVerify: numbers of 32 bytes that are no scalars are refused.
EcdsaVerify(r, s, h, pub, z) ==
    /\ r < N /\ s < N
    /\ r # 0 /\ s # 0
    /\ Verify(r, s, h, pub, z)

Magic == 27
CompressedBit == 4

\* SignCompact: the header of a signature in the compact form.
Header(code, compressed) == Magic + code + (IF compressed THEN CompressedBit ELSE 0)

\* RecoverCompact: the public key, 0 when there is none.
RecoverCompact(header, r, s, h) ==
    LET code == (header - Magic) % CompressedBit
        fits == code < 2 \/ r < P - N
        fieldR == IF code < 2 THEN Number(r) ELSE Register(r + N, 2)
        root == DecompressY(fieldR, code % 2 = 1, Start)
        X == LogOf(<<fieldR.v, root.regs["y3"].v>>)
        w == InverseModN[r]
    IN  IF /\ header \in Magic..(Magic + CompressedBit + 3)
           /\ r < N /\ r # 0 /\ s < N /\ s # 0
           /\ fits /\ root.hasSqrt
        THEN Reduce(Reduce(s * w) * X - Reduce(Reduce(h) * w))
        ELSE 0

-----------------------------------------------------------------------------
(* Encodings *)

OctetRadix == 2^OctetBits
HighBit(o) == o >= OctetRadix \div 2
OctetsOf(x) == [i \in 1..OctetCount |-> (x \div OctetRadix^(OctetCount - i)) % OctetRadix]

NumberOfOctets(w) ==
    LET n[i \in 0..Len(w)] == IF i = 0 THEN 0 ELSE n[i - 1] * OctetRadix + w[i] IN n[Len(w)]

SequenceId == 48
IntegerId == 2

\* A number with as few octets as keep its highest bit clear.
Canonical(x) ==
    LET b == <<0>> \o OctetsOf(x)
        stop(i) == i = Len(b) \/ b[i] # 0 \/ HighBit(b[i + 1])
        first == CHOOSE i \in 1..Len(b) : stop(i) /\ \A j \in 1..(i - 1) : ~stop(j)
    IN  SubSeq(b, first, Len(b))

\* Serialize, with the lower of the two s.
Serialize(r, s) ==
    LET rs == Canonical(r)
        ss == Canonical(IF IsHigh(s) THEN N - s ELSE s)
    IN  <<SequenceId, 4 + Len(rs) + Len(ss), IntegerId, Len(rs)>> \o rs
        \o <<IntegerId, Len(ss)>> \o ss

\* Mutant: padded numbers are accepted.
WellFormedLoosely(w, offset, n) ==
    w[offset - 2] = IntegerId /\ n # 0 /\ ~HighBit(w[offset])

\* An integer of n octets at an offset: not empty, not negative, not padded.
WellFormed(w, offset, n) ==
    /\ w[offset - 2] = IntegerId
    /\ n # 0
    /\ ~HighBit(w[offset])
    /\ ~(n > 1 /\ w[offset] = 0 /\ ~HighBit(w[offset + 1]))

\* An octet of 2^OctetBits and more can be no part of a number.
Scalar(w, offset, n) == NumberOfOctets(SubSeq(w, offset, offset + n - 1))

\* ParseDERSignature: every check of the code in its order, then the range of
\* the numbers.  Offsets count from 1.
ParsesDER(w) ==
    /\ Len(w) >= 8 /\ Len(w) <= 8 + 2 * OctetCount
    /\ w[1] = SequenceId
    /\ w[2] = Len(w) - 2
    /\ 5 + w[4] <= Len(w) /\ 6 + w[4] <= Len(w)
    /\ 6 + w[4] + w[6 + w[4]] = Len(w)
    /\ WellFormed(w, 5, w[4])
    /\ WellFormed(w, 7 + w[4], w[6 + w[4]])
    /\ LET r == Scalar(w, 5, w[4])
           s == Scalar(w, 7 + w[4], w[6 + w[4]])
       IN  r < N /\ r # 0 /\ s < N /\ s # 0

ParsedDER(w) == <<Scalar(w, 5, w[4]), Scalar(w, 7 + w[4], w[6 + w[4]])>>

\* ParsePubKey: the coordinates, Infinity when the key is refused.  A compressed
\* key has format 2 or 3, one with both coordinates 4, a hybrid one 6 or 7.
ParsePubKey(format, x, y) ==
    LET root == DecompressY(Number(x), format = 3, Start)
    IN  IF /\ format \in {2, 3, 4, 6, 7}
           /\ x < P
           /\ IF format \in {2, 3} THEN root.hasSqrt
              ELSE /\ y < P
                   /\ format \in {6, 7} => y % 2 = format % 2
                   /\ OnCurve(<<x, y>>)
        THEN <<x, IF format \in {2, 3} THEN root.regs["y3"].v ELSE y>>
        ELSE Infinity

-----------------------------------------------------------------------------
(* Those who get a signature or a key *)

Unasked == [call |-> "none", ask |-> <<>>, out |-> <<>>]

Answer(call, ask, out) ==
    /\ sig.r # 0 /\ answer = Unasked
    /\ answer' = [call |-> call, ask |-> ask, out |-> out]
    /\ UNCHANGED <<key, hash, stream, iteration, sig>>

AskVerify ==
    \E d \in Keys, h \in Hashes, z \in Zs, s \in {sig.s, N - sig.s} :
        Answer("verify", <<d, h, s>>, <<EcdsaVerify(sig.r, s, h, d, z)>>)

AskRecover ==
    \E code \in 0..3, compressed \in BOOLEAN :
        Answer("recover", <<code>>, <<RecoverCompact(Header(code, compressed), sig.r, sig.s, hash)>>)

\* The encoded signature, whole, cut, longer, or with one octet changed.
Arriving(w) ==
    {w, SubSeq(w, 1, Len(w) - 1), w \o <<0>>} \union
    {[w EXCEPT ![i] = o] : i \in 1..Len(w), o \in 0..(OctetRadix - 1)}

AskParse ==
    \E w \in Arriving(Serialize(sig.r, sig.s)) :
        Answer("parse", w, IF ParsesDER(w) THEN ParsedDER(w) ELSE <<>>)

AskPubKey ==
    \E format \in 1..8, x \in Abscissas, y \in {Affine(key)[2], P - Affine(key)[2], P} :
        Answer("pubKey", <<format, x, y>>, ParsePubKey(format, x, y))

SigInit ==
    /\ key \in Keys /\ hash \in Hashes
    /\ stream = <<>> /\ iteration = 0
    /\ sig = [r |-> 0, s |-> 0, code |-> 0]
    /\ answer = Unasked

SigNext ==
    \/ DrawNonce \/ SignAgain \/ Sign
    \/ AskVerify \/ AskRecover \/ AskParse \/ AskPubKey

SigSpec == SigInit /\ [][SigNext]_sigVars

-----------------------------------------------------------------------------

\* The textbook's test: the affine X of the point, reduced, is r.
Textbook(r, s, h, d) ==
    LET X == Affine(Reduce(Reduce(h + r * d) * InverseModN[s]))
    IN  X # Infinity /\ Reduce(X[1]) = r

\* A signature is low, and valid for its key and hash however often signing was
\* tried.
SignedValid ==
    sig.r # 0 => /\ sig.r < N /\ sig.s \in 1..(N \div 2)
                 /\ Textbook(sig.r, sig.s, hash, key)

\* For any key and hash it is accepted exactly when the textbook says so.
VerifiedRight ==
    answer.call = "verify" =>
        LET ask == answer.ask
        IN  answer.out[1] <=> Textbook(sig.r, ask[3], ask[2], ask[1])

\* The code given with it, and no other, recovers the key, with or without the
\* order added to r.
RecoveredRight ==
    answer.call = "recover" =>
        LET found == answer.out[1]
        IN  IF answer.ask[1] = sig.code THEN found = key
            ELSE found # 0 => found # key /\ Textbook(sig.r, sig.s, hash, found)

\* What ParsePubKey accepts is a point of the curve, in each of its formats.
KeysParsed ==
    answer.call = "pubKey" =>
        LET format == answer.ask[1]
            x == answer.ask[2]
            y == answer.ask[3]
            out == answer.out
        IN  /\ out # Infinity => out[1] = x /\ OnCurve(out) /\ out[2] < P
            /\ out # Infinity /\ format # 4 => out[2] % 2 = format % 2
            /\ x < P /\ OnCurve(<<x, y>>) /\ y < P =>
                (out = <<x, y>> <=> (format = 4 \/ (format \in {2, 3, 6, 7} /\ format % 2 = y % 2)))

\* Whatever is made of a signature or a key by those who get it is what the
\* mathematics of the curve say of it.
SignaturesVerify == SignedValid /\ VerifiedRight /\ RecoveredRight /\ KeysParsed

\* What ParseDERSignature accepts is the one encoding of one signature.
EncodingExact ==
    answer.call = "parse" =>
        LET out == answer.out
        IN  /\ answer.ask = Serialize(sig.r, sig.s) => out = <<sig.r, sig.s>>
            /\ out # <<>> /\ ~IsHigh(out[2]) => answer.ask = Serialize(out[1], out[2])
=============================================================================
