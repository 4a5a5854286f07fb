------------------------------- MODULE Tickets -------------------------------
(***************************************************************************)
(* The types of a HOPR ticket (src/internal/tickets.rs) and every          *)
(* conversion between them: Ticket, VerifiedTicket, UnacknowledgedTicket,  *)
(* AcknowledgedTicket, RedeemableTicket and TransferableWinningTicket.     *)
(*                                                                         *)
(* All six types are Copy in Rust, so a value once built can be converted  *)
(* again, by any task of any node, in any order.  The state is therefore   *)
(* the set of values of each type that exist anywhere, as the sets of      *)
(* messages are in a message-passing specification; nothing is ever        *)
(* removed.  A conversion that returns an error builds no value and is a   *)
(* step that is not enabled.                                               *)
(*                                                                         *)
(* A TransferableWinningTicket also comes from another party.  It is       *)
(* decoded by serde field by field, without TicketBuilder: any numbers, a  *)
(* response and VRF parameters of the sender's choice, and only the        *)
(* signature has to be one that exists.  Everything into_redeemable makes  *)
(* of it lives on in the later types.  The other types are also serde      *)
(* types; they are taken to be restored as they were stored, and a         *)
(* VerifiedTicket inside a later type is converted together with it.       *)
(*                                                                         *)
(* Cryptography is ideal: a hash is the record of what was hashed, an      *)
(* ECDSA signature is the record of the signer and the signed hash, the    *)
(* VRF point V is determined by the redeemer, the message and the domain   *)
(* separator.  The half keys of the Proof of Relay stay scalars modulo the *)
(* order of the group, because their sum may be zero.                      *)
(***************************************************************************)
EXTENDS Integers, FiniteSets

CONSTANTS
    Node,           \* chain addresses, each with its ChainKeypair
    Nobody,         \* the address recovered from a signature over another hash
    Separator,      \* domain separators of the channels contract
    NoSig,          \* signature: None
    Missing,        \* a builder field that was never set
    AmountInput, IndexInput, EpochInput, WinProbInput,  \* what callers pass
    MaxAmount,      \* MAX_TICKET_AMOUNT: amounts are below it (10^25 wei)
    MaxIndex,       \* MAX_TICKET_INDEX  (2^48 - 1)
    MaxEpoch,       \* MAX_CHANNEL_EPOCH (2^24 - 1)
    AmountMod, IndexMod, EpochMod, \* 2^96, 2^48, 2^24: the widths on the wire
    MaxLuck,        \* 2^56 - 1, the luck of WinningProbability::ALWAYS
    Luck(_, _, _, _), \* keccak(hash, V, response, signature), 7 bytes of it
    Order,          \* order of the secp256k1 scalar field
    TrustedCallers, \* callers keep what build_verified and into_acknowledged assume
    MaxValues       \* bound: values built in one behaviour

ASSUME AddressAssumption ==
    Nobody \notin Node

ASSUME WidthAssumption ==
    /\ AmountMod \in Nat \ {0} /\ IndexMod \in Nat \ {0} /\ EpochMod \in Nat \ {0}
    /\ MaxAmount \in 1 .. AmountMod
    /\ MaxIndex \in 0 .. IndexMod - 1
    /\ MaxEpoch \in 0 .. EpochMod - 1

ASSUME InputAssumption ==
    /\ AmountInput \subseteq Nat /\ IndexInput \subseteq Nat /\ EpochInput \subseteq Nat
    /\ MaxLuck \in Nat /\ WinProbInput \subseteq 0 .. MaxLuck
    /\ Missing \notin Nat /\ Missing \notin Node

ASSUME ScalarAssumption == Order \in Nat /\ Order > 1

ASSUME TrustAssumption == TrustedCallers \in BOOLEAN

-----------------------------------------------------------------------------
(* Proof of Relay: half keys, responses, challenges                         *)

\* Any 32 bytes are a HalfKey or a Response; the scalars 1 .. Order - 1 are the
\* valid ones, 0 and everything from Order on (here: Order itself) are not.
Scalar == 0 .. Order
NonZeroScalar == 1 .. Order - 1

\* An EthereumChallenge is an address; 0 is the default one, which no response solves.
Challenge == 0 .. Order - 1

\* Response::from_half_keys is Ok: both keys are valid and so is their sum.
HalfKeysMatch(own, ack) ==
    /\ own \in NonZeroScalar
    /\ ack \in NonZeroScalar
    /\ (own + ack) % Order # 0

ResponseFrom(own, ack) == (own + ack) % Order

\* response.to_challenge()?.to_ethereum_challenge() == challenge
Solves(response, challenge) ==
    /\ response \in NonZeroScalar
    /\ challenge = response

-----------------------------------------------------------------------------
(* Tickets, hashes and signatures                                           *)

Amount == 0 .. MaxAmount - 1
Index == 0 .. MaxIndex
Epoch == 0 .. MaxEpoch
WinProb == 0 .. MaxLuck

\* The signed hash: generate_channel_id(issuer, counterparty), the fixed-width
\* encoding of the fields, and the domain separator.
Hash == [issuer : Node \cup {Nobody}, counterparty : Node,
         amount : 0 .. AmountMod - 1, index : 0 .. IndexMod - 1,
         epoch : 0 .. EpochMod - 1, win_prob : WinProb,
         challenge : Challenge, separator : Separator]

Signature == [by : Node, hash : Hash]

ASSUME NoSigAssumption == NoSig \notin Signature

TicketWith(Sigs) == [counterparty : Node, amount : Amount, index : Index, epoch : Epoch,
                     win_prob : WinProb, challenge : Challenge, signature : Sigs]

Ticket == TicketWith(Signature \cup {NoSig})

\* "verified ticket always has a signature": what the expect() of verified_signature,
\* is_winning and the serialization rely on.
SignedTicket == TicketWith(Signature)

\* What derive(Deserialize) accepts as a signed Ticket: the limits are not checked.
DecodedTicket == [counterparty : Node, amount : Nat, index : Nat, epoch : Nat,
                  win_prob : WinProb, challenge : Challenge, signature : Signature]

VerifiedWith(T) == [ticket : T, hash : Hash, issuer : Node \cup {Nobody}]
VerifiedTicket == VerifiedWith(SignedTicket)
UnacknowledgedTicket == [ticket : VerifiedTicket, own_key : Scalar]
Status == {"Untouched", "BeingRedeemed"}
AcknowledgedTicket == [status : Status, ticket : VerifiedWith(DecodedTicket),
                       response : Scalar]
\* Nobody made a point V that no redeemer's key leads to.
VrfParameters == [by : Node \cup {Nobody}, msg : Hash, separator : Separator]
RedeemableTicket == [ticket : VerifiedWith(DecodedTicket), response : Scalar,
                     vrf_params : VrfParameters, channel_dst : Separator]
TransferableWinningTicket == [ticket : DecodedTicket, response : Scalar,
                              vrf_params : VrfParameters, signer : Node \cup {Nobody}]

\* What TicketBuilder holds when build() is called.  The setters amount() and
\* balance() clear each other, so that one amount or none is set.
TicketBuilder == [counterparty : Node \cup {Missing},
                  amount : AmountInput \cup {Missing},
                  index : IndexInput, epoch : EpochInput, win_prob : WinProbInput,
                  challenge : Challenge \cup {Missing}]

\* Slips of the limits, with which the runs show what the properties catch.
BuildsMaxAmount(b) ==
    /\ b.amount # Missing /\ b.amount <= MaxAmount
    /\ b.index <= MaxIndex /\ b.epoch <= MaxEpoch
    /\ b.counterparty # Missing /\ b.challenge # Missing

BuildsIndexWidth(b) ==
    /\ b.amount # Missing /\ b.amount < MaxAmount
    /\ b.index <= MaxIndex + 1 /\ b.epoch <= MaxEpoch
    /\ b.counterparty # Missing /\ b.challenge # Missing

\* TicketBuilder::build is Ok.
Builds(b) ==
    /\ b.amount # Missing /\ b.amount < MaxAmount
    /\ b.index <= MaxIndex
    /\ b.epoch <= MaxEpoch
    /\ b.counterparty # Missing
    /\ b.challenge # Missing

Built(b, sig) ==
    [counterparty |-> b.counterparty, amount |-> b.amount, index |-> b.index,
     epoch |-> b.epoch, win_prob |-> b.win_prob, challenge |-> b.challenge,
     signature |-> sig]

\* encode_tail_without_signature: the fields cut to their width on the wire.
Encoded(t) == [t EXCEPT !.amount = @ % AmountMod, !.index = @ % IndexMod,
                        !.epoch = @ % EpochMod]

\* Ticket::get_hash
TicketHash(t, issuer, separator) ==
    LET e == Encoded(t) IN
    [issuer |-> issuer, counterparty |-> e.counterparty, amount |-> e.amount,
     index |-> e.index, epoch |-> e.epoch, win_prob |-> e.win_prob,
     challenge |-> e.challenge, separator |-> separator]

\* Signature::recover_from_hash and to_address: a signature over another hash
\* recovers some key that belongs to nobody.
Recover(sig, hash) == IF sig.hash = hash THEN sig.by ELSE Nobody

\* derive_vrf_parameters: only the redeemer's key can make V.
Vrf(n, msg, separator) == [by |-> n, msg |-> msg, separator |-> separator]

\* check_ticket_win
CheckTicketWin(hash, sig, win_prob, response, vrf) ==
    Luck(hash, vrf, response, sig) <= win_prob

-----------------------------------------------------------------------------
VARIABLES
    tickets,        \* Ticket values, signed or not
    verified,       \* VerifiedTicket values
    unacked,        \* UnacknowledgedTicket values
    acked,          \* AcknowledgedTicket values
    redeemable,     \* RedeemableTicket values
    transferable,   \* TransferableWinningTicket values made by a conversion
    issued,         \* history: <<issuer, unsigned ticket, separator>> given to sign()
    received        \* history: TransferableWinningTicket values of another party
                    \* that into_redeemable accepted

vars == <<tickets, verified, unacked, acked, redeemable, transferable, issued, received>>

TypeOK ==
    /\ tickets \subseteq Ticket
    /\ verified \subseteq VerifiedTicket
    /\ unacked \subseteq UnacknowledgedTicket
    /\ acked \subseteq AcknowledgedTicket
    /\ redeemable \subseteq RedeemableTicket
    /\ transferable \subseteq TransferableWinningTicket
    /\ issued \subseteq Node \X Ticket \X Separator
    /\ received \subseteq TransferableWinningTicket

Init ==
    /\ tickets = {} /\ verified = {} /\ unacked = {} /\ acked = {}
    /\ redeemable = {} /\ transferable = {} /\ issued = {} /\ received = {}

\* Bound on the number of values: every step of Next builds one, a reception two.
Room(n) == Cardinality(tickets) + Cardinality(verified) + Cardinality(unacked)
         + Cardinality(acked) + Cardinality(redeemable) + Cardinality(transferable)
         + Cardinality(received) + n <= MaxValues

Unsigned(t) == [t EXCEPT !.signature = NoSig]

\* The VerifiedTicket that t.sign(n, d) returns.
Signed(t, n, d) ==
    LET h == TicketHash(t, n, d) IN
    [ticket |-> [t EXCEPT !.signature = [by |-> n, hash |-> h]], hash |-> h, issuer |-> n]

-----------------------------------------------------------------------------
(* Ticket -> Ticket                                                         *)

\* TicketBuilder::build, without a signature.
Build(b) ==
    /\ Builds(b)
    /\ tickets' = tickets \cup {Built(b, NoSig)}
    /\ UNCHANGED <<verified, unacked, acked, redeemable, transferable, issued, received>>

\* The ticket is serialized (which panics without a signature) and parsed by
\* TryFrom<&[u8]>, which runs the builder's checks again on what it read.
SendReceive(t) ==
    /\ t.signature # NoSig
    /\ Builds(Encoded(t))
    /\ tickets' = tickets \cup {Encoded(t)}
    /\ UNCHANGED <<verified, unacked, acked, redeemable, transferable, issued, received>>

(* Ticket -> VerifiedTicket                                                 *)

\* Ticket::sign: any signature already present is replaced.
Sign(t, n, d) ==
    /\ verified' = verified \cup {Signed(t, n, d)}
    /\ issued' = issued \cup {<<n, Unsigned(t), d>>}
    /\ UNCHANGED <<tickets, unacked, acked, redeemable, transferable, received>>

\* TicketBuilder::build_signed: build() and sign() of a builder without signature.
BuildSigned(b, n, d) ==
    /\ Builds(b)
    /\ verified' = verified \cup {Signed(Built(b, NoSig), n, d)}
    /\ issued' = issued \cup {<<n, Built(b, NoSig), d>>}
    /\ UNCHANGED <<tickets, unacked, acked, redeemable, transferable, received>>

\* A slip: the signer is compared, the signed hash is not.
VerifiesSignerOnly(t, issuer, d) ==
    /\ t.signature # NoSig
    /\ t.signature.by = issuer

\* Ticket::verify is Ok: the signature recovers to the expected issuer.
Verifies(t, issuer, d) ==
    /\ t.signature # NoSig
    /\ Recover(t.signature, TicketHash(t, issuer, d)) = issuer

VerifiedAs(t, issuer, d) ==
    [ticket |-> t, hash |-> TicketHash(t, issuer, d), issuer |-> issuer]

Verify(t, issuer, d) ==
    /\ Verifies(t, issuer, d)
    /\ verified' = verified \cup {VerifiedAs(t, issuer, d)}
    /\ UNCHANGED <<tickets, unacked, acked, redeemable, transferable, issued, received>>

\* TicketBuilder::build_verified: the issuer is whoever the signature recovers to
\* under the hash the caller passes.  That the hash is the one of these fields and
\* that the signature is over it is the caller's promise (TrustedCallers).
BuildVerified(b, sig, hash) ==
    /\ Builds(b)
    /\ TrustedCallers => \E n \in Node, d \in Separator :
                            /\ hash = TicketHash(Built(b, sig), n, d)
                            /\ sig = [by |-> n, hash |-> hash]
    /\ verified' = verified \cup
           {[ticket |-> Built(b, sig), hash |-> hash, issuer |-> Recover(sig, hash)]}
    /\ UNCHANGED <<tickets, unacked, acked, redeemable, transferable, issued, received>>

\* VerifiedTicket::leak
Leak(v) ==
    /\ tickets' = tickets \cup {v.ticket}
    /\ UNCHANGED <<verified, unacked, acked, redeemable, transferable, issued, received>>

(* VerifiedTicket -> UnacknowledgedTicket -> AcknowledgedTicket             *)

IntoUnacknowledged(v, own) ==
    /\ unacked' = unacked \cup {[ticket |-> v, own_key |-> own]}
    /\ UNCHANGED <<tickets, verified, acked, redeemable, transferable, issued, received>>

\* VerifiedTicket::into_acknowledged checks nothing: "if the matching response is
\* already known" is the caller's promise.
IntoAcknowledged(v, response) ==
    /\ TrustedCallers => Solves(response, v.ticket.challenge)
    /\ acked' = acked \cup {[status |-> "Untouched", ticket |-> v, response |-> response]}
    /\ UNCHANGED <<tickets, verified, unacked, redeemable, transferable, issued, received>>

\* A slip: the response is computed and never compared with the challenge.
AcknowledgesAny(u, ack) == HalfKeysMatch(u.own_key, ack)

\* UnacknowledgedTicket::acknowledge is Ok.
Acknowledges(u, ack) ==
    /\ HalfKeysMatch(u.own_key, ack)
    /\ Solves(ResponseFrom(u.own_key, ack), u.ticket.ticket.challenge)

Acknowledge(u, ack) ==
    /\ Acknowledges(u, ack)
    /\ acked' = acked \cup {[status |-> "Untouched", ticket |-> u.ticket,
                             response |-> ResponseFrom(u.own_key, ack)]}
    /\ UNCHANGED <<tickets, verified, unacked, redeemable, transferable, issued, received>>

\* The public field status is set when a redemption starts.
StartRedeeming(a) ==
    /\ acked' = acked \cup {[a EXCEPT !.status = "BeingRedeemed"]}
    /\ UNCHANGED <<tickets, verified, unacked, redeemable, transferable, issued, received>>

(* AcknowledgedTicket -> RedeemableTicket <-> TransferableWinningTicket     *)

\* A slip: the loopback check compares with the recipient.
RedeemsLoopback(a, n, d) ==
    /\ n = a.ticket.ticket.counterparty
    /\ CheckTicketWin(a.ticket.hash, a.ticket.ticket.signature, a.ticket.ticket.win_prob,
                      a.response, Vrf(n, a.ticket.hash, d))

\* AcknowledgedTicket::into_redeemable with node n's key is Ok.
Redeems(a, n, d) ==
    /\ n # a.ticket.issuer                              \* LoopbackTicket
    /\ CheckTicketWin(a.ticket.hash, a.ticket.ticket.signature, a.ticket.ticket.win_prob,
                      a.response, Vrf(n, a.ticket.hash, d))   \* TicketNotWinning

RedeemableFrom(a, n, d) ==
    [ticket |-> a.ticket, response |-> a.response,
     vrf_params |-> Vrf(n, a.ticket.hash, d), channel_dst |-> d]

\* From<RedeemableTicket> for TransferableWinningTicket
TransferableFrom(r) ==
    [ticket |-> r.ticket.ticket, response |-> r.response,
     vrf_params |-> r.vrf_params, signer |-> r.ticket.issuer]

AckIntoRedeemable(a, n, d) ==
    /\ Redeems(a, n, d)
    /\ redeemable' = redeemable \cup {RedeemableFrom(a, n, d)}
    /\ UNCHANGED <<tickets, verified, unacked, acked, transferable, issued, received>>

AckIntoTransferable(a, n, d) ==
    /\ Redeems(a, n, d)
    /\ transferable' = transferable \cup {TransferableFrom(RedeemableFrom(a, n, d))}
    /\ UNCHANGED <<tickets, verified, unacked, acked, redeemable, issued, received>>

RedeemableIntoTransferable(r) ==
    /\ transferable' = transferable \cup {TransferableFrom(r)}
    /\ UNCHANGED <<tickets, verified, unacked, acked, redeemable, issued, received>>

\* From<RedeemableTicket> for AcknowledgedTicket: the status is Untouched again.
RedeemableIntoAcknowledged(r) ==
    /\ acked' = acked \cup {[status |-> "Untouched", ticket |-> r.ticket,
                             response |-> r.response]}
    /\ UNCHANGED <<tickets, verified, unacked, redeemable, transferable, issued, received>>

\* TransferableWinningTicket::into_redeemable is Ok.
Accepts(x, expected, d) ==
    /\ x.signer = expected
    /\ Verifies(x.ticket, x.signer, d)
    /\ CheckTicketWin(TicketHash(x.ticket, x.signer, d), x.ticket.signature,
                      x.ticket.win_prob, x.response, x.vrf_params)

RedeemableAgain(x, d) ==
    [ticket |-> VerifiedAs(x.ticket, x.signer, d), response |-> x.response,
     vrf_params |-> x.vrf_params, channel_dst |-> d]

TransferableIntoRedeemable(x, expected, d) ==
    /\ Accepts(x, expected, d)
    /\ redeemable' = redeemable \cup {RedeemableAgain(x, d)}
    /\ UNCHANGED <<tickets, verified, unacked, acked, transferable, issued, received>>

\* The same for a value that came from another party; what is rejected leaves no trace.
ReceiveRedeemable(x, expected, d) ==
    /\ Accepts(x, expected, d)
    /\ redeemable' = redeemable \cup {RedeemableAgain(x, d)}
    /\ received' = received \cup {x}
    /\ UNCHANGED <<tickets, verified, unacked, acked, transferable, issued>>

-----------------------------------------------------------------------------
\* The signatures and hashes a caller of build_verified can have: those in values
\* that exist.
KnownSignatures == {t.signature : t \in {s \in tickets : s.signature # NoSig}}
              \cup {v.ticket.signature : v \in verified}
KnownHashes == {v.hash : v \in verified}

\* What another party can put into a transferable ticket: a known signature on any
\* fields, and a point V that somebody made for a known hash or that nobody made.
IncomingTicket ==
    [counterparty : Node, amount : AmountInput, index : IndexInput, epoch : EpochInput,
     win_prob : WinProbInput, challenge : Challenge, signature : KnownSignatures]
IncomingVrf == [by : Node \cup {Nobody}, msg : KnownHashes, separator : Separator]

Next ==
    /\ Room(1)
    /\ \/ \E b \in TicketBuilder :
           \/ Build(b)
           \/ \E n \in Node, d \in Separator : BuildSigned(b, n, d)
           \/ \E sig \in KnownSignatures, h \in KnownHashes : BuildVerified(b, sig, h)
       \/ \E t \in tickets :
           \/ SendReceive(t)
           \/ \E n \in Node, d \in Separator : Sign(t, n, d) \/ Verify(t, n, d)
       \/ \E v \in verified :
           \/ Leak(v)
           \/ \E k \in Scalar : IntoUnacknowledged(v, k) \/ IntoAcknowledged(v, k)
       \/ \E u \in unacked, k \in Scalar : Acknowledge(u, k)
       \/ \E a \in acked :
           \/ StartRedeeming(a)
           \/ \E n \in Node, d \in Separator :
               AckIntoRedeemable(a, n, d) \/ AckIntoTransferable(a, n, d)
       \/ \E r \in redeemable :
           RedeemableIntoTransferable(r) \/ RedeemableIntoAcknowledged(r)
       \/ \E x \in transferable, n \in Node, d \in Separator :
           TransferableIntoRedeemable(x, n, d)
       \/ Room(2) /\ \E t \in IncomingTicket, n \in Node, d \in Separator :
           /\ Verifies(t, n, d)     \* no other is accepted
           /\ \E k \in Scalar, vrf \in IncomingVrf :
               ReceiveRedeemable([ticket |-> t, response |-> k, vrf_params |-> vrf,
                                  signer |-> n], n, d)

Spec == Init /\ [][Next]_vars

-----------------------------------------------------------------------------
(* Properties                                                               *)

\* The VerifiedTicket values that exist, on their own or inside a later type.
AllVerified == verified \cup {u.ticket : u \in unacked} \cup {a.ticket : a \in acked}
               \cup {r.ticket : r \in redeemable}

\* Whatever conversions, transfers and restores a ticket went through, its issuer
\* once signed these fields for the separator its hash was made for, up to digits that
\* the encoding cuts off: the limits of the builder fit the widths of the encoding, so
\* that two tickets of this program share no signature.  Digits above the widths are
\* in nothing but tickets that came from another party, which serde decodes unchecked.
VerifiedIsIssued ==
    \A v \in AllVerified :
        /\ \E d \in Separator :
            /\ v.hash = TicketHash(v.ticket, v.issuer, d)
            /\ v.ticket.signature = [by |-> v.issuer, hash |-> v.hash]
            /\ <<v.issuer, Unsigned(Encoded(v.ticket)), d>> \in issued
        /\ Encoded(v.ticket) # v.ticket => \E x \in received : x.ticket = v.ticket

\* The response was taken over, with its ticket, from an accepted value of another
\* party: into_redeemable never compares it with the challenge.
ReceivedWith(ticket, response) ==
    \E x \in received : x.ticket = ticket /\ x.response = response

\* A response that does not solve the challenge of the ticket it travels with came
\* from another party together with that ticket: no path through acknowledge() and the
\* conversions after it makes one, or pairs a solution with another ticket.
ResponseSolvesChallenge ==
    /\ \A a \in acked : \/ Solves(a.response, a.ticket.ticket.challenge)
                        \/ ReceivedWith(a.ticket.ticket, a.response)
    /\ \A r \in redeemable : \/ Solves(r.response, r.ticket.ticket.challenge)
                             \/ ReceivedWith(r.ticket.ticket, r.response)
    /\ \A x \in transferable : \/ Solves(x.response, x.ticket.challenge)
                               \/ ReceivedWith(x.ticket, x.response)

\* Every RedeemableTicket is a win with the response and the VRF parameters it holds.
\* Those were made for its hash by a node other than the issuer, unless another party
\* sent them with the ticket: then neither the loopback check nor the verification of
\* the parameters has happened.
RedeemableIsForeignWin ==
    \A r \in redeemable :
        /\ CheckTicketWin(r.ticket.hash, r.ticket.ticket.signature,
                          r.ticket.ticket.win_prob, r.response, r.vrf_params)
        /\ \/ r.vrf_params.by \in Node \ {r.ticket.issuer} /\ r.vrf_params.msg = r.ticket.hash
           \/ \E x \in received : x.ticket = r.ticket.ticket /\ x.vrf_params = r.vrf_params

\* What a conversion made is accepted from its signer under the separator its ticket was
\* issued with, and in no other way: nothing is lost in the transfer, also in the next one
\* of what was received, and no ticket of one network is taken on another.
TransferExact ==
    \A x \in transferable, n \in Node, d \in Separator :
        Accepts(x, n, d) <=> n = x.signer /\ d = x.ticket.signature.hash.separator

\* "Solution to the PoR challenge in the ticket", which the documentation of the field
\* response says of every RedeemableTicket.
ResponseIsSolution ==
    \A r \in redeemable : Solves(r.response, r.ticket.ticket.challenge)
=============================================================================
