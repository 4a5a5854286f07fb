------------------------------- MODULE Bn254 -------------------------------
(***************************************************************************)
(* Public keys and secrets of the curve BN254 (src/crypto/types.rs,        *)
(* src/crypto/keypairs.rs) and the scan identities made of them            *)
(* (src/crypto/curvy.rs).  A key is stored as the x of its point with the  *)
(* parity of y in the highest bit; a secret is a scalar in the order of    *)
(* bytes of the arithmetic, least significant first, and has a second form *)
(* with the most significant first.                                        *)
(*                                                                         *)
(* The curve is y^2 = x^3 + Coefficient over the integers modulo Modulus,  *)
(* with any small prime that gives a group of odd prime order, as BN254    *)
(* does.  Multiples of the generator are external.                         *)
(***************************************************************************)
EXTENDS Integers, Sequences, SequencesExt

CONSTANTS
    Modulus,        \* of the base field
    Coefficient,    \* BN254_G1_B
    Order,          \* of the group and modulus of the scalar field
    SignBit,        \* BN254_Y_SIGN_BIT: the value of the highest bit
    Base, Length,   \* a secret has Length digits of this base (32 bytes)
    GeneratorTimes, \* the multiples of the generator, by scalar
    Infinity, Error,
    SpendKey        \* the spend keys K, in their encoding

Fq == 0 .. Modulus - 1
OnCurve(x, y) == (y * y) % Modulus = (x * x * x + Coefficient) % Modulus
Point == {p \in [x : Fq, y : Fq] : OnCurve(p.x, p.y)}

ASSUME CurveAssumption ==
    /\ Modulus % 2 = 1 /\ Order % 2 = 1 /\ Modulus <= SignBit
    /\ DOMAIN GeneratorTimes = 0 .. Order - 1
    /\ GeneratorTimes[0] = Infinity /\ Infinity \notin Point
    /\ \A s \in 1 .. Order - 1 : GeneratorTimes[s] \in Point
    /\ \A s, t \in 0 .. Order - 1 : GeneratorTimes[s] = GeneratorTimes[t] => s = t

\* The encodings of a key: everything that its bytes can hold.
Encoding == 0 .. 2 * SignBit - 1
Secret == [1 .. Length -> 0 .. Base - 1]

\* The modulus is a prime, so that a product is zero with one of its factors only; in a
\* group of odd order no point is its own negation.
ASSUME FieldAssumption ==
    /\ Modulus \in Nat /\ SignBit \in Nat /\ Coefficient \in Nat
    /\ \A a, b \in Fq : (a * b) % Modulus = 0 => a = 0 \/ b = 0
    /\ \A p \in Point : p.y # 0
    /\ Error \notin Nat /\ Error \notin Point

\* No secret and no keypair is taken for an error.
ASSUME SecretAssumption ==
    /\ Base \in Nat \ {0} /\ Length \in Nat /\ Order \in Nat \ {0}
    /\ SpendKey \subseteq Seq(Nat)
    /\ Error \notin Secret /\ Error \notin [secret : Secret, public : Encoding]

-----------------------------------------------------------------------------
(* Bn254PublicKey                                                           *)

\* A slip: the element is reduced and not compared.
CanonicalFqReduced(n) == n % Modulus

\* bn254_canonical_fq: reduced, and refused if that changed it.
CanonicalFq(n) == IF n % Modulus = n THEN n ELSE Error

\* bn254_decompress: the root whose parity is the sign bit; a root of zero would have one
\* parity only, but a group of odd order has no such point.
Decompress(e) ==
    LET odd == e \div SignBit
        x == CanonicalFq(e % SignBit)
        roots == {y \in Fq : OnCurve(x, y)}
    IN  IF x = Error \/ roots = {} THEN Error
        ELSE LET root == CHOOSE y \in roots : TRUE
             IN  [x |-> x, y |-> IF root % 2 = odd THEN root ELSE (Modulus - root) % Modulus]

\* TryFrom<&G1Affine>; infinity is refused.
Compress(p) == IF p = Infinity THEN Error ELSE p.x + SignBit * (p.y % 2)

\* TryFrom<&[u8]>
Bn254PublicKey(e) == IF Decompress(e) = Error THEN Error ELSE e

\* from_affine_coordinates and to_affine_coordinates
FromAffineCoordinates(x, y) ==
    IF CanonicalFq(x) = Error \/ CanonicalFq(y) = Error \/ ~OnCurve(x, y)
      THEN Error ELSE Compress([x |-> x, y |-> y])

ToAffineCoordinates(e) == Decompress(e)

-----------------------------------------------------------------------------
(* Secrets                                                                  *)

\* The number of little-endian digits.
Number(s) == FoldRight(LAMBDA d, n : n * Base + d, s, 0)

\* reverse_secret_scalar, which refuses another length.
ReverseSecretScalar(s) == IF Len(s) # Length THEN Error ELSE Reverse(s)

\* A slip: the scalar is reduced and not compared.
FromPrivkeyReduced(s) ==
    IF Len(s) # Length THEN Error ELSE Compress(GeneratorTimes[Number(s) % Order])

\* from_privkey: of the right length, below the order and not zero.
FromPrivkey(s) ==
    IF Len(s) # Length \/ Number(s) >= Order THEN Error
    ELSE Compress(GeneratorTimes[Number(s)])

\* from_privkey_be
FromPrivkeyBe(s) ==
    IF ReverseSecretScalar(s) = Error THEN Error ELSE FromPrivkey(ReverseSecretScalar(s))

\* Bn254Keypair: from_secret keeps the secret as it was given.
FromSecret(s) == IF FromPrivkey(s) = Error THEN Error ELSE [secret |-> s, public |-> FromPrivkey(s)]
FromSecretBe(s) ==
    IF ReverseSecretScalar(s) = Error THEN Error ELSE FromSecret(ReverseSecretScalar(s))
SecretBe(keypair) == ReverseSecretScalar(keypair.secret)

(* CurvyScanSecret and CurvyScanPublicKey                                   *)

\* A slip: the scalar is written as the arithmetic has it.
ScanSecretToBytesLittle(keypair, k) == keypair.secret \o k

\* to_bytes: v with the most significant digit first, and K
ScanSecretToBytes(keypair, k) == SecretBe(keypair) \o k

\* TryFrom<&[u8]>
ScanSecretFrom(bytes) ==
    LET v == SubSeq(bytes, 1, Length)
        k == SubSeq(bytes, Length + 1, Len(bytes))
    IN  IF Len(bytes) < Length \/ k \notin SpendKey \/ FromSecretBe(v) = Error THEN Error
        ELSE [view |-> FromSecretBe(v), spend_meta_key |-> k]

\* public, and the public identity in its encoded form K || V
ScanPublicToBytes(k, v) == k \o <<v>>
ScanPublicFrom(bytes) ==
    LET k == SubSeq(bytes, 1, Len(bytes) - 1)
    IN  IF bytes = <<>> \/ k \notin SpendKey \/ Bn254PublicKey(Last(bytes)) = Error THEN Error
        ELSE [spend_meta_key |-> k, view_key |-> Last(bytes)]

-----------------------------------------------------------------------------
\* Bn254PublicKey: whatever is accepted as a key is the one encoding of its point, and every
\* point that is not infinity has one; keys are compared and hashed by their bytes.
EncodingIsUnique(e, p) ==
    /\ Bn254PublicKey(e) # Error =>
          /\ Decompress(e) \in Point /\ Compress(Decompress(e)) = e
          /\ LET c == ToAffineCoordinates(e) IN FromAffineCoordinates(c.x, c.y) = e
    /\ Bn254PublicKey(Compress(p)) = Compress(p) /\ Decompress(Compress(p)) = p

\* from_privkey, the two orders of bytes and the scan capability: no two secrets are kept for
\* one key, the reversed secret is the same keypair, and what to_bytes and the public
\* identity wrote is read back as it was.
SecretsAgree(s, t, k) ==
    /\ FromSecret(s) # Error /\ FromSecret(t) # Error
          => (s = t <=> FromSecret(s).public = FromSecret(t).public)
    /\ FromSecretBe(Reverse(s)) = FromSecret(s)
    /\ FromPrivkeyBe(Reverse(s)) = FromPrivkey(s)
    /\ FromSecret(s) # Error =>
          LET pair == FromSecret(s)
          IN  /\ FromSecretBe(SecretBe(pair)) = pair
              /\ ScanSecretFrom(ScanSecretToBytes(pair, k)) = [view |-> pair, spend_meta_key |-> k]
              /\ ScanPublicFrom(ScanPublicToBytes(k, pair.public)) =
                     [spend_meta_key |-> k, view_key |-> pair.public]
=============================================================================
