----------------------------- MODULE MCSequential -----------------------------
(***************************************************************************)
(* Everything that is computed without interaction, for TLC: a behaviour   *)
(* either verifies a batch of acknowledgements, or evaluates the           *)
(* predicates of the other modules for one sample of their arguments.      *)
(***************************************************************************)
EXTENDS AckBatch, WinProb, Lioness, Bn254, Vrf, TLC

CONSTANTS
    k1, k2, notAPoint,
    MaxAmount, Scale, Currency,     \* of Amounts
    \* of Identities
    PacketKey, KeySize, OnCurve25519, KeyPrefix, ChainKey, Name, NameSize, Graphic, Zero, Refused,
    Bound, NarrowMax, Default, OutOfBounds     \* of Routing

A == INSTANCE Amounts
I == INSTANCE Identities
R == INSTANCE Routing

VARIABLE sample

\* Keys of the curve are interchangeable.
Symmetry == Permutations(Curve)

-----------------------------------------------------------------------------
(* The cipher's functions                                                   *)

\* A key stream and a digest that depend on all of their arguments.
MCKeystream(key, iv) == IF key = {} THEN iv ELSE RightBits \ (iv \cap {2})
MCDigest(key, right) == IF 1 \in right \/ (2 \in right /\ key # {}) THEN LeftBits \ key ELSE key

(* A group of order 5, its points told by their logarithms                  *)

MCScalar == 0 .. 4
MCScalarAdd(s, t) == (s + t) % 5
MCTimes(s, p) == (s * p) % 5
MCMinus(p, q) == (p - q) % 5
MCAddressOf(p) == p \div 2
MCHashToCurve(creator, m, d) == 1 + ((creator + m + d) % 4)
MCHashToScalar(t, m, d) == (t.creator + 2 * t.A + 3 * t.V + t.R_G + 4 * t.R_V + m * d) % 5

(* A curve of prime order                                                   *)

Inverse1(n) == CHOOSE i \in Fq : (n * i) % Modulus = 1

PlusPoint(p, q) ==
    IF p = Infinity THEN q
    ELSE IF q = Infinity THEN p
    ELSE IF p.x = q.x /\ p.y # q.y THEN Infinity
    ELSE LET slope == IF p = q THEN 3 * p.x * p.x * Inverse1((2 * p.y) % Modulus)
                      ELSE (p.y - q.y) * Inverse1((p.x - q.x) % Modulus)
             x == (slope * slope - p.x - q.x) % Modulus
         IN  [x |-> x, y |-> (slope * (p.x - x) - p.y) % Modulus]

MCGeneratorTimes ==
    LET times[n \in 0 .. Order - 1] ==
            IF n = 0 THEN Infinity ELSE PlusPoint(times[n - 1], [x |-> 1, y |-> 2])
    IN  times

MCSpendKey == {<<0>>, <<1>>}

(* Identities                                                               *)

MCPacketKey == {<<1>>, <<8>>, <<18>>}
MCOnCurve == {<<1>>, <<8>>}
MCKeyPrefix == <<8, 1>>
MCGraphic == {"a", "b"}
Id == [code : {"identity", "sha2-256"}, digest : BoundedSeq({1, 8}, 4)]
Address == BoundedSeq({I!Plain(n) : n \in Name} \cup
                      {I!P2p(id) : id \in {I!PeerId(k) : k \in PacketKey} \cup
                                           {[code |-> "sha2-256", digest |-> <<8, 1, 1>>]}}, 3)
Signature == [signer : PacketKey, message : [chain_key : ChainKey, packet_key : PacketKey]]

\* Peer ids, protocols of addresses and bindings, of which the samples are some.
Ids == [code : {"none", "identity", "sha2-256"}, digest : Seq(Nat)]
Protocols == [name : Name \cup {"p2p"}, peer : Ids]
Bindings == [chain_key : ChainKey, packet_key : PacketKey, signature : Signature]

ASSUME RouteAssumption == Bound \in Nat /\ OutOfBounds \notin Seq(Curve)

\* Keys have one size, and no value is taken for a refusal.
ASSUME IdentityAssumption ==
    /\ KeySize \in Nat /\ KeyPrefix \in Seq(Nat) /\ PacketKey \subseteq [1 .. KeySize -> Nat]
    /\ "p2p" \notin Name
    /\ NameSize \in Nat \ {0} /\ Zero \notin Graphic
    /\ Refused \notin Seq(Nat) /\ Refused \notin [compact : PacketKey]
    /\ Refused \notin Seq(Protocols)
    /\ Refused \notin Bindings /\ Refused \notin [multiaddress : Seq(Protocols), key_binding : Bindings]
Byte == MCGraphic \cup {"0", " ", "x"}

(* Amounts                                                                  *)

\* The digits that a text has behind the point at most.
LongestFraction == 4

\* Powers of ten are numbers, of which each is ten times the one before.
ASSUME AmountAssumption ==
    /\ MaxAmount \in Nat \ {0} /\ Scale \in Nat
    /\ \A n \in 0 .. Scale + LongestFraction : 10 ^ n \in Nat /\ 10 ^ (n + 1) = 10 * 10 ^ n
    /\ NarrowMax \in Nat /\ OutOfBounds \notin Nat

-----------------------------------------------------------------------------
NoSample == [kind |-> "none"]

SequentialInit == Init /\ sample = NoSample

Ready == sample = NoSample /\ pc = "start" /\ batch = <<>>

SampleFloats == \E x, y \in Float : sample' = [kind |-> "floats", x |-> x, y |-> y]
SampleLucks == \E p, q \in Luck : sample' = [kind |-> "lucks", p |-> p, q |-> q]
SampleQuotient ==
    \E a \in 0 .. MaxU256, p \in Luck : sample' = [kind |-> "quotient", amount |-> a, p |-> p]
SampleSum ==
    \E s \in BoundedSeq({0, 1, 9, 100, MaxAmount - 1, MaxAmount}, 3) :
        sample' = [kind |-> "sum", amounts |-> s]
SamplePrinted ==
    \E a \in 0 .. MaxAmount, c, d \in Currency :
        sample' = [kind |-> "printed", a |-> a, currency |-> c, other |-> d]
SampleText ==
    \E i \in 0 .. 4, f \in BoundedSeq({0, 5, 9}, LongestFraction), w \in BOOLEAN, c, d \in Currency :
        sample' = [kind |-> "text", currency |-> d,
                   text |-> [integer |-> i, fraction |-> f, wei |-> w, name |-> c]]
SampleBlock ==
    \E key \in CipherKey, b, out \in Block :
        sample' = [kind |-> "block", key |-> key, block |-> b, out |-> out]
SampleEncoding ==
    \E e \in Encoding, p \in Point : sample' = [kind |-> "encoding", e |-> e, p |-> p]
SampleVrf ==
    \E a \in ChainSecret, m \in Message, d \in Tag, r, other \in Scalar :
        sample' = [kind |-> "vrf", a |-> a, m |-> m, d |-> d, r |-> r, other |-> other]
SampleSecrets ==
    \E s, t \in Secret, k \in SpendKey : sample' = [kind |-> "secrets", s |-> s, t |-> t, k |-> k]
SamplePeerId == \E id \in Id, k \in PacketKey : sample' = [kind |-> "peer", id |-> id, k |-> k]
SampleAddress ==
    \E c \in ChainKey, k \in PacketKey, s \in Signature, a \in Address :
        sample' = [kind |-> "address", c |-> c, k |-> k, signature |-> s, address |-> a]
SampleName ==
    \E s \in BoundedSeq(Byte, NameSize + 1), id \in [1 .. NameSize -> Byte] :
        sample' = [kind |-> "name", s |-> s, id |-> id]
SampleBounded ==
    \E v \in -Bound - 2 .. Bound + 2, s \in BoundedSeq({"a", "b"}, Bound + 1) :
        sample' = [kind |-> "bounded", v |-> v, s |-> s]
SampleRoute == \E s \in BoundedSeq(Curve, Bound + 1) : sample' = [kind |-> "route", s |-> s]
SampleSurb ==
    \E p \in {"p", "q"}, surb \in {<<>>, <<"p">>}, n \in 1 .. 6 :
        sample' = [kind |-> "surb", id |-> R!SenderId(p, surb), n |-> n]

Evaluate ==
    /\ Ready
    /\ \/ SampleFloats \/ SampleLucks \/ SampleQuotient
       \/ SampleSum \/ SamplePrinted \/ SampleText
       \/ SampleBlock \/ SampleEncoding \/ SampleSecrets \/ SampleVrf
       \/ SamplePeerId \/ SampleAddress \/ SampleName
       \/ SampleBounded \/ SampleRoute \/ SampleSurb
    /\ UNCHANGED vars

SequentialNext ==
    \/ sample = NoSample /\ Next /\ UNCHANGED sample
    \/ Evaluate

SequentialSpec == SequentialInit /\ [][SequentialNext]_<<vars, sample>>

-----------------------------------------------------------------------------
\* ProbabilityKept, WinsAsOften, ComparisonsAgree and QuotientsDefined (WinProb): the
\* conversions of winning probabilities, the comparison that decides a ticket, the
\* approximate order and the division by a probability agree with each other.
ProbabilitiesAgree ==
    /\ sample.kind = "floats" => ProbabilityKept(sample.x, sample.y)
    /\ sample.kind = "lucks" => WinsAsOften(sample.p) /\ ComparisonsAgree(sample.p, sample.q)
    /\ sample.kind = "quotient" => QuotientsDefined(sample.amount, sample.p)

\* SumsSaturate, PrintedAmountsParse and ParsedNotMore (Amounts), BoundsKept (Routing): sums
\* do not depend on the order of their parts, a printed amount reads back, no text makes more
\* than it says, and what is within a bound passes it unchanged.
AmountsAgree ==
    /\ sample.kind = "sum" => A!SumsSaturate(sample.amounts)
    /\ sample.kind = "printed" => A!PrintedAmountsParse(sample.a, sample.currency, sample.other)
    /\ sample.kind = "text" => A!ParsedNotMore(sample.text, sample.currency)
    /\ sample.kind = "bounded" => R!BoundsKept(sample.v, sample.s)

\* encrypt_block and decrypt_block of Lioness undo each other, in place or not.
CipherInverts == sample.kind = "block" => BlocksComeBack(sample.key, sample.block, sample.out)

\* EncodingIsUnique and SecretsAgree (Bn254), VrfAgrees (Vrf): one encoding for a point, one
\* secret for a key in both orders of bytes, and one random output for a key and a message,
\* whose proof is accepted whatever was drawn for it.
KeysAndProofsAgree ==
    /\ sample.kind = "encoding" => EncodingIsUnique(sample.e, sample.p)
    /\ sample.kind = "secrets" => SecretsAgree(sample.s, sample.t, sample.k)
    /\ sample.kind = "vrf" => VrfAgrees(sample.a, sample.m, sample.d, sample.r, sample.other)

\* PeerIdsIdentifyKeys, AnnouncementsBind and NamesIdentifyTypes (Identities), RoutesInvert
\* and SenderIdsAgree (Routing): peer ids, announced addresses and names of services tell
\* what they were made of and nothing else is read as one of them, inverted routes lead
\* back, and the ids of one sender's SURBs are told apart.
IdentitiesHold ==
    /\ sample.kind = "peer" => I!PeerIdsIdentifyKeys(sample.id, sample.k)
    /\ sample.kind = "address" =>
          I!AnnouncementsBind(sample.c, sample.k, sample.signature, sample.address)
    /\ sample.kind = "name" => I!NamesIdentifyTypes(sample.s, sample.id)
    /\ sample.kind = "route" => R!RoutesInvert(sample.s)
    /\ sample.kind = "surb" => R!SenderIdsAgree(sample.id, sample.n)

\* mul_f64 of a float of [0, 1], by ProductNotLess (WinProb).
ProductsNotLess == sample.kind = "quotient" =>
    \A x \in Float : ProductNotLess(sample.amount, x)
=============================================================================
