-------------------------------- MODULE Vrf --------------------------------
(***************************************************************************)
(* The verifiable random function a win is decided with                    *)
(* (src/crypto/vrf.rs): the point V that only the holder of a chain key    *)
(* can make, and the proof (h, s) that V and the public key A have the     *)
(* same discrete logarithm over two bases.                                 *)
(*                                                                         *)
(* The group is abstract: scalars and points with the laws that the        *)
(* algorithm relies on.  The two hash functions are any functions.         *)
(***************************************************************************)
EXTENDS Integers

CONSTANTS
    Scalar, ZeroScalar, ScalarAdd(_, _), ScalarMul(_, _),
    Secp256k1, Identity, Generator,     \* the points of the curve
    Plus(_, _), Minus(_, _), Times(_, _),
    AddressOf(_),               \* the address of a public key
    Message, Tag,               \* messages and domain separation tags
    HashToCurve(_, _, _),       \* hash_from_bytes: creator, message and tag
    HashToScalar(_, _, _)       \* hash_to_scalar: points with their creator, message and tag

ChainSecret == Scalar \ {ZeroScalar}

ASSUME ScalarAssumption ==
    /\ ZeroScalar \in Scalar
    /\ \A s, t \in Scalar : ScalarAdd(s, t) \in Scalar /\ ScalarMul(s, t) \in Scalar

ASSUME GroupAssumption ==
    /\ Identity \in Secp256k1 /\ Generator \in Secp256k1 \ {Identity}
    /\ \A p, q \in Secp256k1 : Plus(p, q) \in Secp256k1 /\ Minus(Plus(p, q), q) = p
    /\ \A s \in Scalar, p \in Secp256k1 :
          /\ Times(s, p) \in Secp256k1
          /\ Times(s, p) = Identity <=> s = ZeroScalar \/ p = Identity
    /\ \A s, t \in Scalar, p \in Secp256k1 :
          /\ Times(ScalarAdd(s, t), p) = Plus(Times(s, p), Times(t, p))
          /\ Times(ScalarMul(s, t), p) = Times(s, Times(t, p))

\* A hash is a point, and no message is known whose hash is the identity.
ASSUME HashAssumption ==
    /\ \A p \in Secp256k1, m \in Message, d \in Tag :
          HashToCurve(AddressOf(p), m, d) \in Secp256k1 \ {Identity}
    /\ \A p, a, v, g, b \in Secp256k1, m \in Message, d \in Tag :
          HashToScalar([creator |-> AddressOf(p), A |-> a, V |-> v, R_G |-> g, R_V |-> b], m, d)
              \in Scalar

VrfParameters == [V : Secp256k1, h : Scalar, s : Scalar, A : Secp256k1]

\* What the challenge binds: creator, A, V and the commitments on the two bases.
Transcript(creator, a, v, r_g, r_v) == [creator |-> creator, A |-> a, V |-> v, R_G |-> r_g, R_V |-> r_v]

-----------------------------------------------------------------------------
(* derive_vrf_parameters with the key a and the r it draws                  *)

PublicKeyOf(a) == Times(a, Generator)
CreatorOf(a) == AddressOf(PublicKeyOf(a))
PayloadOf(a, m, d) == HashToCurve(CreatorOf(a), m, d)

\* A slip: the parts of the response are the other way round.
ResponseSwapped(r, h, a) == ScalarAdd(h, ScalarMul(r, a))

\* s = r + h * a
ResponseTo(r, h, a) == ScalarAdd(r, ScalarMul(h, a))

\* The build with rust-ecdsa.
DeriveVrfParameters(a, m, d, r) ==
    LET B == PayloadOf(a, m, d)
        V == Times(a, B)
        h == HashToScalar(Transcript(CreatorOf(a), PublicKeyOf(a), V, Times(r, Generator), Times(r, B)), m, d)
    IN  [V |-> V, h |-> h, s |-> ResponseTo(r, h, a), A |-> PublicKeyOf(a)]

\* The results of the build with libsecp256k1: none for a draw of zero, which is refused as a
\* key and as a factor.
DeriveVrfParametersC(a, m, d, r) ==
    IF r = ZeroScalar THEN {} ELSE {DeriveVrfParameters(a, m, d, r)}

-----------------------------------------------------------------------------
(* VrfParameters                                                            *)

\* get_s_g_witness, get_h_a_witness, get_s_b_witness, get_h_v_witness
SGWitness(params) == Times(params.s, Generator)
HAWitness(params) == Times(params.h, params.A)
SBWitness(params, creator, m, d) == Times(params.s, HashToCurve(creator, m, d))
HVWitness(params) == Times(params.h, params.V)

\* A slip: the commitment on the generator is recomputed from V.
CommitmentOfV(params) == Minus(SGWitness(params), HVWitness(params))

\* R_G = s * G - h * A
Commitment(params) == Minus(SGWitness(params), HAWitness(params))

\* verify
VrfVerifies(params, creator, m, d) ==
    LET R_V == Minus(SBWitness(params, creator, m, d), HVWitness(params))
    IN  HashToScalar(Transcript(creator, params.A, params.V, Commitment(params), R_V), m, d) = params.h

\* The identity, also that of the default parameters, has no encoding of the length of a
\* point, and copying it into its place panics.
Panics(params) == Identity \in {params.V, params.A}

\* The array of a VrfParameters that does not panic.
ToBytes(params) == <<params.V, params.h, params.s, params.A>>

\* TryFrom<&[u8]>, of bytes that are points and scalars in their place
FromBytes(bytes) == [V |-> bytes[1], h |-> bytes[2], s |-> bytes[3], A |-> bytes[4]]

-----------------------------------------------------------------------------
\* derive_vrf_parameters, verify and the witnesses: what a key derives is accepted for its own
\* address, message and tag, whatever was drawn for it, in both builds; V, which the luck of a
\* ticket is made of, depends on nothing that was drawn; the witnesses of the contract open
\* the commitments; and the parameters survive their encoding.
VrfAgrees(a, m, d, r, other) ==
    LET params == DeriveVrfParameters(a, m, d, r)
        redrawn == DeriveVrfParameters(a, m, d, other)
    IN  /\ VrfVerifies(params, CreatorOf(a), m, d)
        /\ DeriveVrfParametersC(a, m, d, r) \subseteq {params}
        /\ redrawn.V = params.V /\ redrawn.A = params.A
        /\ Commitment(params) = Times(r, Generator)
        /\ Minus(SBWitness(params, CreatorOf(a), m, d), HVWitness(params))
               = Times(r, PayloadOf(a, m, d))
        /\ ~Panics(params) /\ FromBytes(ToBytes(params)) = params
=============================================================================
