---------------------------- MODULE Tickets_proofs ----------------------------
(***************************************************************************)
(* Proofs about the ticket conversions, for every set of nodes and         *)
(* separators, every group order and all widths that satisfy the           *)
(* assumptions of Tickets.                                                 *)
(***************************************************************************)
EXTENDS Tickets, TLAPS

(* A value that fits its width is encoded as itself.                       *)
LEMMA ModFits == ASSUME NEW m \in Nat \ {0}, NEW x \in 0 .. m - 1 PROVE x % m = x
  BY SMT

(* The encoding of a value has its width.                                  *)
LEMMA ModRange == ASSUME NEW m \in Nat \ {0}, NEW x \in Nat PROVE x % m \in 0 .. m - 1
  BY SMT

(* A ticket within the builder's limits survives the encoding.             *)
LEMMA EncodedFits == ASSUME NEW t \in Ticket PROVE Encoded(t) = t
<1>1. t.amount % AmountMod = t.amount
  BY ModFits, WidthAssumption DEF Ticket, TicketWith, Amount
<1>2. t.index % IndexMod = t.index
  BY ModFits, WidthAssumption DEF Ticket, TicketWith, Index
<1>3. t.epoch % EpochMod = t.epoch
  BY ModFits, WidthAssumption DEF Ticket, TicketWith, Epoch
<1>4. QED BY <1>1, <1>2, <1>3 DEF Encoded, Ticket, TicketWith

\* A ticket with or without a signature, within the builder's limits or not.
AnyTicket == [counterparty : Node, amount : Nat, index : Nat, epoch : Nat,
              win_prob : WinProb, challenge : Challenge,
              signature : Signature \cup {NoSig}]

(* The types of tickets contain one another.                               *)
LEMMA TicketTypes ==
    /\ SignedTicket \subseteq Ticket
    /\ SignedTicket \subseteq DecodedTicket
    /\ Ticket \subseteq AnyTicket
    /\ DecodedTicket \subseteq AnyTicket
<1>1. Amount \subseteq Nat /\ Index \subseteq Nat /\ Epoch \subseteq Nat
  BY WidthAssumption DEF Amount, Index, Epoch
<1>2. QED BY <1>1 DEF SignedTicket, Ticket, TicketWith, DecodedTicket, AnyTicket

(* The encoding is a ticket whose fields have the widths on the wire.       *)
LEMMA EncodedType ==
    ASSUME NEW t \in AnyTicket
    PROVE  /\ Encoded(t).amount \in 0 .. AmountMod - 1
           /\ Encoded(t).index \in 0 .. IndexMod - 1
           /\ Encoded(t).epoch \in 0 .. EpochMod - 1
           /\ Encoded(t).counterparty = t.counterparty
           /\ Encoded(t).win_prob = t.win_prob
           /\ Encoded(t).challenge = t.challenge
           /\ Encoded(t).signature = t.signature
           /\ Encoded(t) \in AnyTicket
<1>1. /\ t.amount % AmountMod \in 0 .. AmountMod - 1
      /\ t.index % IndexMod \in 0 .. IndexMod - 1
      /\ t.epoch % EpochMod \in 0 .. EpochMod - 1
  BY ModRange, WidthAssumption DEF AnyTicket
<1>2. /\ t.amount % AmountMod \in Nat
      /\ t.index % IndexMod \in Nat
      /\ t.epoch % EpochMod \in Nat
  BY <1>1
<1>3. QED BY <1>1, <1>2 DEF Encoded, AnyTicket

(* get_hash of a ticket is a hash.                                         *)
LEMMA HashType ==
    ASSUME NEW t \in AnyTicket, NEW i \in Node \cup {Nobody}, NEW d \in Separator
    PROVE  TicketHash(t, i, d) \in Hash
<1>1. t.counterparty \in Node /\ t.win_prob \in WinProb /\ t.challenge \in Challenge
  BY DEF AnyTicket
<1>2. QED BY <1>1, EncodedType DEF TicketHash, Hash

(* The hash binds the issuer, the separator and, up to the digits that the *)
(* encoding cuts off, every field but the signature.                       *)
LEMMA HashBinds ==
    ASSUME NEW t1 \in AnyTicket, NEW t2 \in AnyTicket, NEW i1, NEW i2, NEW d1, NEW d2,
           TicketHash(t1, i1, d1) = TicketHash(t2, i2, d2)
    PROVE  i1 = i2 /\ d1 = d2 /\ Unsigned(Encoded(t1)) = Unsigned(Encoded(t2))
<1> DEFINE e1 == Encoded(t1)
           e2 == Encoded(t2)
<1>1. /\ e1.counterparty = e2.counterparty /\ e1.amount = e2.amount
      /\ e1.index = e2.index /\ e1.epoch = e2.epoch /\ e1.win_prob = e2.win_prob
      /\ e1.challenge = e2.challenge /\ i1 = i2 /\ d1 = d2
  BY DEF TicketHash
<1>2. e1 \in AnyTicket /\ e2 \in AnyTicket
  BY EncodedType
<1> HIDE DEF e1, e2
<1>3. Unsigned(e1) = Unsigned(e2)
  BY <1>1, <1>2 DEF Unsigned, AnyTicket
<1>4. QED BY <1>1, <1>3 DEF e1, e2

(* What the builder accepts is a ticket, with the signature it was given.  *)
LEMMA BuiltType ==
    ASSUME NEW b \in TicketBuilder, Builds(b), NEW S, NEW sig \in S
    PROVE  Built(b, sig) \in TicketWith(S)
<1>1. /\ b.amount \in Nat /\ b.index \in Nat /\ b.epoch \in Nat
      /\ b.counterparty \in Node /\ b.challenge \in Challenge /\ b.win_prob \in WinProb
  BY InputAssumption DEF TicketBuilder, Builds, WinProb
<1>2. b.amount \in Amount /\ b.index \in Index /\ b.epoch \in Epoch
  BY <1>1, WidthAssumption DEF Builds, Amount, Index, Epoch
<1>3. QED BY <1>1, <1>2 DEF Built, TicketWith

(* Signing builds a VerifiedTicket.                                        *)
LEMMA SignedType ==
    ASSUME NEW t \in Ticket, NEW n \in Node, NEW d \in Separator
    PROVE  /\ Signed(t, n, d) \in VerifiedTicket
           /\ Unsigned(t) \in Ticket
           /\ TicketHash(t, n, d) \in Hash
<1>1. TicketHash(t, n, d) \in Hash
  BY HashType, TicketTypes
<1>2. [by |-> n, hash |-> TicketHash(t, n, d)] \in Signature
  BY <1>1 DEF Signature
<1>3. [t EXCEPT !.signature = [by |-> n, hash |-> TicketHash(t, n, d)]] \in SignedTicket
  BY <1>2 DEF Ticket, SignedTicket, TicketWith
<1>4. Unsigned(t) \in Ticket
  BY DEF Unsigned, Ticket, TicketWith
<1>5. QED BY <1>1, <1>3, <1>4 DEF Signed, VerifiedTicket, VerifiedWith

-----------------------------------------------------------------------------
(* Type correctness                                                         *)

(* The type of the values of a step's other inputs.                        *)
LEMMA KnownType ==
    ASSUME TypeOK PROVE KnownSignatures \subseteq Signature /\ KnownHashes \subseteq Hash
BY DEF TypeOK, KnownSignatures, KnownHashes, Ticket, SignedTicket, TicketWith,
       VerifiedTicket, VerifiedWith

(* A verified ticket within the limits is also one that was decoded.        *)
LEMMA VerifiedTypes == VerifiedTicket \subseteq VerifiedWith(DecodedTicket)
BY TicketTypes DEF VerifiedTicket, VerifiedWith

(* What another party sends has the type of a transferable ticket.          *)
LEMMA IncomingType ==
    ASSUME TypeOK, NEW t \in IncomingTicket, NEW k \in Scalar, NEW vrf \in IncomingVrf,
           NEW n \in Node
    PROVE  [ticket |-> t, response |-> k, vrf_params |-> vrf, signer |-> n]
               \in TransferableWinningTicket
<1>1. t \in DecodedTicket
  BY KnownType, InputAssumption DEF IncomingTicket, DecodedTicket, WinProb
<1>2. vrf \in VrfParameters
  BY KnownType DEF IncomingVrf, VrfParameters
<1>3. QED BY <1>1, <1>2 DEF TransferableWinningTicket

(* No step builds a value outside its type.                                 *)
LEMMA TypeStep == TypeOK /\ [Next]_vars => TypeOK'
<1> SUFFICES ASSUME TypeOK, [Next]_vars PROVE TypeOK'
  OBVIOUS
<1> USE DEF TypeOK
<1>1. ASSUME NEW b \in TicketBuilder, Build(b) PROVE TypeOK'
  BY <1>1, BuiltType DEF Build, Ticket
<1>2. ASSUME NEW b \in TicketBuilder, NEW n \in Node, NEW d \in Separator, BuildSigned(b, n, d)
      PROVE  TypeOK'
  <2>1. Built(b, NoSig) \in Ticket
    BY <1>2, BuiltType DEF BuildSigned, Ticket
  <2>2. Signed(Built(b, NoSig), n, d) \in VerifiedTicket
    BY <2>1, SignedType
  <2>3. QED BY <1>2, <2>1, <2>2 DEF BuildSigned
<1>3. ASSUME NEW b \in TicketBuilder, NEW sig \in KnownSignatures, NEW h \in KnownHashes,
             BuildVerified(b, sig, h)
      PROVE  TypeOK'
  <2>1. sig \in Signature /\ h \in Hash
    BY KnownType
  <2>2. Built(b, sig) \in SignedTicket
    BY <1>3, <2>1, BuiltType DEF BuildVerified, SignedTicket
  <2>3. Recover(sig, h) \in Node \cup {Nobody}
    BY <2>1 DEF Recover, Signature
  <2>4. [ticket |-> Built(b, sig), hash |-> h, issuer |-> Recover(sig, h)] \in VerifiedTicket
    BY <2>1, <2>2, <2>3 DEF VerifiedTicket, VerifiedWith
  <2>5. QED BY <1>3, <2>4 DEF BuildVerified
<1>4. ASSUME NEW t \in tickets, SendReceive(t) PROVE TypeOK'
  BY <1>4, EncodedFits DEF SendReceive
<1>5. ASSUME NEW t \in tickets, NEW n \in Node, NEW d \in Separator, Sign(t, n, d)
      PROVE  TypeOK'
  <2>1. Signed(t, n, d) \in VerifiedTicket /\ Unsigned(t) \in Ticket
    BY SignedType
  <2>2. QED BY <1>5, <2>1 DEF Sign
<1>6. ASSUME NEW t \in tickets, NEW n \in Node, NEW d \in Separator, Verify(t, n, d)
      PROVE  TypeOK'
  <2>1. t \in SignedTicket
    BY <1>6 DEF Verify, Verifies, Ticket, SignedTicket, TicketWith
  <2>2. VerifiedAs(t, n, d) \in VerifiedTicket
    BY <2>1, HashType, TicketTypes DEF VerifiedAs, VerifiedTicket, VerifiedWith
  <2>3. QED BY <1>6, <2>2 DEF Verify
<1>7. ASSUME NEW v \in verified, Leak(v) PROVE TypeOK'
  BY <1>7, TicketTypes DEF Leak, VerifiedTicket, VerifiedWith
<1>8. ASSUME NEW v \in verified, NEW k \in Scalar, IntoUnacknowledged(v, k) PROVE TypeOK'
  BY <1>8 DEF IntoUnacknowledged, UnacknowledgedTicket
<1>9. ASSUME NEW v \in verified, NEW k \in Scalar, IntoAcknowledged(v, k) PROVE TypeOK'
  BY <1>9, VerifiedTypes DEF IntoAcknowledged, AcknowledgedTicket, Status
<1>10. ASSUME NEW u \in unacked, NEW k \in Scalar, Acknowledge(u, k) PROVE TypeOK'
  <2>1. ResponseFrom(u.own_key, k) \in Scalar
    BY <1>10, ScalarAssumption
       DEF Acknowledge, Acknowledges, Solves, NonZeroScalar, Scalar
  <2>2. u.ticket \in VerifiedWith(DecodedTicket)
    BY VerifiedTypes DEF UnacknowledgedTicket
  <2>3. [status |-> "Untouched", ticket |-> u.ticket, response |-> ResponseFrom(u.own_key, k)]
           \in AcknowledgedTicket
    BY <2>1, <2>2 DEF AcknowledgedTicket, Status
  <2>4. QED BY <1>10, <2>3 DEF Acknowledge
<1>11. ASSUME NEW a \in acked, StartRedeeming(a) PROVE TypeOK'
  <2>1. [a EXCEPT !.status = "BeingRedeemed"] \in AcknowledgedTicket
    BY DEF AcknowledgedTicket, Status
  <2>2. QED BY <1>11, <2>1 DEF StartRedeeming
<1>12. ASSUME NEW a \in acked, NEW n \in Node, NEW d \in Separator
       PROVE  RedeemableFrom(a, n, d) \in RedeemableTicket
  BY DEF RedeemableFrom, RedeemableTicket, AcknowledgedTicket, VerifiedWith,
         Vrf, VrfParameters
<1>13. ASSUME NEW r \in RedeemableTicket PROVE TransferableFrom(r) \in TransferableWinningTicket
  BY DEF TransferableFrom, RedeemableTicket, VerifiedWith, TransferableWinningTicket
<1>14. ASSUME NEW a \in acked, NEW n \in Node, NEW d \in Separator, AckIntoRedeemable(a, n, d)
       PROVE  TypeOK'
  BY <1>12, <1>14 DEF AckIntoRedeemable
<1>15. ASSUME NEW a \in acked, NEW n \in Node, NEW d \in Separator, AckIntoTransferable(a, n, d)
       PROVE  TypeOK'
  BY <1>12, <1>13, <1>15 DEF AckIntoTransferable
<1>16. ASSUME NEW r \in redeemable, RedeemableIntoTransferable(r) PROVE TypeOK'
  BY <1>13, <1>16 DEF RedeemableIntoTransferable
<1>17. ASSUME NEW r \in redeemable, RedeemableIntoAcknowledged(r) PROVE TypeOK'
  <2>1. [status |-> "Untouched", ticket |-> r.ticket, response |-> r.response]
           \in AcknowledgedTicket
    BY DEF RedeemableTicket, AcknowledgedTicket, Status
  <2>2. QED BY <1>17, <2>1 DEF RedeemableIntoAcknowledged
<1>18. ASSUME NEW x \in TransferableWinningTicket, NEW d \in Separator
       PROVE  RedeemableAgain(x, d) \in RedeemableTicket
  <2>1. VerifiedAs(x.ticket, x.signer, d) \in VerifiedWith(DecodedTicket)
    BY HashType, TicketTypes DEF TransferableWinningTicket, VerifiedAs, VerifiedWith
  <2>2. QED BY <2>1 DEF TransferableWinningTicket, RedeemableAgain, RedeemableTicket
<1>19. ASSUME NEW x \in transferable, NEW n \in Node, NEW d \in Separator,
              TransferableIntoRedeemable(x, n, d)
       PROVE  TypeOK'
  BY <1>18, <1>19 DEF TransferableIntoRedeemable
<1>20. ASSUME NEW x \in TransferableWinningTicket, NEW n \in Node, NEW d \in Separator,
              ReceiveRedeemable(x, n, d)
       PROVE  TypeOK'
  BY <1>18, <1>20 DEF ReceiveRedeemable
<1>21. CASE UNCHANGED vars
  BY <1>21 DEF vars
<1>22. QED
  BY <1>1, <1>2, <1>3, <1>4, <1>5, <1>6, <1>7, <1>8, <1>9, <1>10, <1>11, <1>14, <1>15,
     <1>16, <1>17, <1>19, <1>20, <1>21, IncomingType DEF Next

(* Every value that exists has its type: in particular every ticket that is *)
(* not yet acknowledged is within the limits of TicketBuilder, whichever    *)
(* conversion it comes from.                                                *)
THEOREM TypeCorrect == Spec => []TypeOK
<1>1. Init => TypeOK
  BY DEF Init, TypeOK
<1>2. QED BY <1>1, TypeStep, PTL DEF Spec

-----------------------------------------------------------------------------
(* Every verified ticket is one its issuer issued.                          *)

\* Digits above the widths of the encoding came with a ticket of another party.
Traced(t) == Encoded(t) # t => \E x \in received : x.ticket = t

\* v is a ticket its issuer signed, unchanged but for such digits.
Genuine(v) ==
    /\ \E d \in Separator :
        /\ v.hash = TicketHash(v.ticket, v.issuer, d)
        /\ v.ticket.signature = [by |-> v.issuer, hash |-> v.hash]
        /\ <<v.issuer, Unsigned(Encoded(v.ticket)), d>> \in issued
    /\ Traced(v.ticket)

\* Some ticket was issued under the signature sig.
SigIssued(sig) ==
    \E u \in Ticket, d \in Separator :
        /\ sig.hash = TicketHash(u, sig.by, d)
        /\ <<sig.by, Unsigned(u), d>> \in issued

\* The inductive invariant: signatures on tickets that nobody has verified are
\* still signatures of something issued, and a transferable ticket, which drops
\* hash and issuer, keeps enough to get them back.
GenuineInv ==
    /\ TypeOK
    /\ \A t \in tickets : t.signature # NoSig => SigIssued(t.signature)
    /\ \A v \in verified : Genuine(v)
    /\ \A u \in unacked : Genuine(u.ticket)
    /\ \A a \in acked : Genuine(a.ticket)
    /\ \A r \in redeemable : Genuine(r.ticket)
    /\ \A x \in transferable : SigIssued(x.ticket.signature) /\ Traced(x.ticket)

(* A ticket that verifies under a signature of something issued is the     *)
(* ticket that was issued.                                                 *)
LEMMA VerifyGenuine ==
    ASSUME NEW t \in DecodedTicket, NEW i \in Node, NEW d \in Separator,
           Verifies(t, i, d), SigIssued(t.signature), AddressAssumption
    PROVE  \E e \in Separator :
             LET v == VerifiedAs(t, i, d) IN
             /\ v.hash = TicketHash(v.ticket, v.issuer, e)
             /\ v.ticket.signature = [by |-> v.issuer, hash |-> v.hash]
             /\ <<v.issuer, Unsigned(Encoded(v.ticket)), e>> \in issued
<1>1. PICK u \in Ticket, e \in Separator :
        /\ t.signature.hash = TicketHash(u, t.signature.by, e)
        /\ <<t.signature.by, Unsigned(u), e>> \in issued
  BY DEF SigIssued
<1>2. t.signature \in Signature /\ t \in AnyTicket /\ u \in AnyTicket
  BY TicketTypes DEF DecodedTicket
<1>3. t.signature.hash = TicketHash(t, i, d) /\ t.signature.by = i
  BY AddressAssumption DEF Verifies, Recover
<1>4. d = e /\ Unsigned(Encoded(t)) = Unsigned(u)
  <2>1. TicketHash(t, i, d) = TicketHash(u, i, e)
    BY <1>1, <1>3
  <2>2. d = e /\ Unsigned(Encoded(t)) = Unsigned(Encoded(u))
    BY <1>2, <2>1, HashBinds
  <2>3. QED BY <2>2, EncodedFits
<1>5. t.signature = [by |-> i, hash |-> TicketHash(t, i, d)]
  BY <1>2, <1>3 DEF Signature
<1>6. QED BY <1>1, <1>3, <1>4, <1>5 DEF VerifiedAs

(* Within the limits, the encoding cuts nothing off.                       *)
LEMMA VerifyGenuineHere ==
    ASSUME NEW t \in SignedTicket, NEW i \in Node, NEW d \in Separator,
           Verifies(t, i, d), SigIssued(t.signature), AddressAssumption
    PROVE  Genuine(VerifiedAs(t, i, d))
<1>1. t \in DecodedTicket /\ Traced(t)
  BY TicketTypes, EncodedFits DEF Traced
<1>2. Traced(VerifiedAs(t, i, d).ticket)
  BY <1>1 DEF VerifiedAs
<1>3. QED BY <1>1, <1>2, VerifyGenuine DEF Genuine

(* Signing issues what it signs.                                           *)
LEMMA SignGenuine ==
    ASSUME NEW t \in Ticket, NEW n \in Node, NEW d \in Separator,
           <<n, Unsigned(t), d>> \in issued'
    PROVE  Genuine(Signed(t, n, d))'
<1> DEFINE h == TicketHash(t, n, d)
           s == [t EXCEPT !.signature = [by |-> n, hash |-> h]]
<1>0. s \in Ticket
  BY SignedType, TicketTypes DEF Signed, VerifiedTicket, VerifiedWith
<1>1. TicketHash(s, n, d) = h
  BY DEF TicketHash, Encoded, Ticket, TicketWith
<1>2. Unsigned(s) = Unsigned(t) /\ s.signature = [by |-> n, hash |-> h]
  BY DEF Unsigned, Ticket, TicketWith
<1>3. Signed(t, n, d) = [ticket |-> s, hash |-> h, issuer |-> n]
  BY DEF Signed
<1>4. Encoded(s) = s
  BY <1>0, EncodedFits
<1> HIDE DEF s, h
<1>5. /\ Signed(t, n, d).hash = TicketHash(Signed(t, n, d).ticket, Signed(t, n, d).issuer, d)
      /\ Signed(t, n, d).ticket.signature
            = [by |-> Signed(t, n, d).issuer, hash |-> Signed(t, n, d).hash]
      /\ Signed(t, n, d).issuer = n
      /\ Encoded(Signed(t, n, d).ticket) = Signed(t, n, d).ticket
      /\ Unsigned(Signed(t, n, d).ticket) = Unsigned(t)
  BY <1>1, <1>2, <1>3, <1>4
<1>6. QED BY <1>5 DEF Genuine, Traced

(* The signature of a genuine ticket is one of something issued.           *)
LEMMA GenuineSig ==
    ASSUME NEW v \in VerifiedWith(DecodedTicket), Genuine(v), AddressAssumption,
           issued \subseteq Node \X Ticket \X Separator
    PROVE  SigIssued(v.ticket.signature)
<1>1. PICK d \in Separator :
        /\ v.hash = TicketHash(v.ticket, v.issuer, d)
        /\ v.ticket.signature = [by |-> v.issuer, hash |-> v.hash]
        /\ <<v.issuer, Unsigned(Encoded(v.ticket)), d>> \in issued
  BY DEF Genuine
<1> DEFINE u == Unsigned(Encoded(v.ticket))
<1>2. u \in Ticket
  BY <1>1
<1>3. v.ticket \in AnyTicket
  BY TicketTypes DEF VerifiedWith
<1>4. Encoded(u) = u
  BY <1>2, EncodedFits
<1>5. /\ u.counterparty = Encoded(v.ticket).counterparty
      /\ u.amount = Encoded(v.ticket).amount /\ u.index = Encoded(v.ticket).index
      /\ u.epoch = Encoded(v.ticket).epoch /\ u.win_prob = Encoded(v.ticket).win_prob
      /\ u.challenge = Encoded(v.ticket).challenge
  BY <1>3 DEF Unsigned, Encoded, AnyTicket
<1>6. Unsigned(u) = u
  BY <1>3 DEF Unsigned, Encoded, AnyTicket
<1>7. TicketHash(u, v.issuer, d) = TicketHash(v.ticket, v.issuer, d)
  BY <1>4, <1>5 DEF TicketHash
<1> HIDE DEF u
<1>8. QED BY <1>1, <1>2, <1>6, <1>7 DEF SigIssued, u

(* What was issued or received stays so.                                   *)
LEMMA IssuedGrows ==
    ASSUME issued \subseteq issued', received \subseteq received'
    PROVE  /\ \A v : Genuine(v) => Genuine(v)'
           /\ \A sig : SigIssued(sig) => SigIssued(sig)'
           /\ \A t : Traced(t) => Traced(t)'
BY DEF Genuine, SigIssued, Traced

(* Every signature that another party can use is one of something issued.  *)
LEMMA KnownIssued ==
    ASSUME GenuineInv, NEW sig \in KnownSignatures PROVE SigIssued(sig)
<1>1. \A v \in verified : SigIssued(v.ticket.signature)
  BY GenuineSig, VerifiedTypes, AddressAssumption DEF TypeOK, GenuineInv
<1>2. QED BY <1>1 DEF KnownSignatures, GenuineInv

(* Under callers that keep build_verified's promise, every step keeps the invariant. *)
LEMMA GenuineStep == TrustedCallers /\ GenuineInv /\ [Next]_vars => GenuineInv'
<1> SUFFICES ASSUME TrustedCallers, GenuineInv, [Next]_vars PROVE GenuineInv'
  OBVIOUS
<1>0. TypeOK /\ TypeOK'
  BY TypeStep DEF GenuineInv
<1> USE DEF GenuineInv
\* Issued and received values stay; what a step adds is left to show.
<1>1. ASSUME issued \subseteq issued', received \subseteq received',
             \A t \in tickets' \ tickets : t.signature # NoSig => SigIssued(t.signature)',
             \A v \in verified' \ verified : Genuine(v)',
             \A u \in unacked' \ unacked : Genuine(u.ticket)',
             \A a \in acked' \ acked : Genuine(a.ticket)',
             \A r \in redeemable' \ redeemable : Genuine(r.ticket)',
             \A x \in transferable' \ transferable :
                 SigIssued(x.ticket.signature)' /\ Traced(x.ticket)'
      PROVE  GenuineInv'
  BY <1>0, <1>1, IssuedGrows
<1>2. ASSUME NEW b \in TicketBuilder, Build(b) PROVE GenuineInv'
  BY <1>1, <1>2 DEF Build, Built
<1>3. ASSUME NEW b \in TicketBuilder, NEW n \in Node, NEW d \in Separator, BuildSigned(b, n, d)
      PROVE  GenuineInv'
  <2> DEFINE t == Built(b, NoSig)
  <2>1. t \in Ticket /\ Unsigned(t) = t
    BY <1>3, BuiltType DEF BuildSigned, Ticket, Built, Unsigned
  <2>2. <<n, Unsigned(t), d>> \in issued'
    BY <1>3, <2>1 DEF BuildSigned
  <2>3. Genuine(Signed(t, n, d))'
    BY <2>1, <2>2, SignGenuine
  <2>4. QED BY <1>1, <1>3, <2>3 DEF BuildSigned
<1>4. ASSUME NEW b \in TicketBuilder, NEW sig \in KnownSignatures, NEW h \in KnownHashes,
             BuildVerified(b, sig, h)
      PROVE  GenuineInv'
  <2> DEFINE t == Built(b, sig)
  <2>1. PICK n \in Node, d \in Separator :
          h = TicketHash(t, n, d) /\ sig = [by |-> n, hash |-> h]
    BY <1>4 DEF BuildVerified
  <2>2. sig \in Signature /\ t \in SignedTicket /\ t.signature = sig
    BY <1>0, <1>4, KnownType, BuiltType DEF BuildVerified, SignedTicket, Built
  <2>3. SigIssued(sig)
    BY KnownIssued
  <2>4. Verifies(t, n, d)
    BY <2>1, <2>2, NoSigAssumption DEF Verifies, Recover
  <2>5. Genuine(VerifiedAs(t, n, d))
    BY <2>2, <2>3, <2>4, VerifyGenuineHere, AddressAssumption
  <2>6. [ticket |-> t, hash |-> h, issuer |-> Recover(sig, h)] = VerifiedAs(t, n, d)
    BY <2>1 DEF Recover, VerifiedAs
  <2>7. QED BY <1>1, <1>4, <2>5, <2>6, IssuedGrows DEF BuildVerified
<1>5. ASSUME NEW t \in tickets, SendReceive(t) PROVE GenuineInv'
  BY <1>0, <1>1, <1>5, EncodedFits DEF SendReceive, TypeOK
<1>6. ASSUME NEW t \in tickets, NEW n \in Node, NEW d \in Separator, Sign(t, n, d)
      PROVE  GenuineInv'
  <2>1. t \in Ticket /\ <<n, Unsigned(t), d>> \in issued'
    BY <1>0, <1>6 DEF Sign, TypeOK
  <2>2. Genuine(Signed(t, n, d))'
    BY <2>1, SignGenuine
  <2>3. QED BY <1>1, <1>6, <2>2 DEF Sign
<1>7. ASSUME NEW t \in tickets, NEW n \in Node, NEW d \in Separator, Verify(t, n, d)
      PROVE  GenuineInv'
  <2>1. t \in SignedTicket /\ Verifies(t, n, d) /\ SigIssued(t.signature)
    BY <1>0, <1>7 DEF Verify, Verifies, TypeOK, Ticket, SignedTicket, TicketWith
  <2>2. Genuine(VerifiedAs(t, n, d))
    BY <2>1, VerifyGenuineHere, AddressAssumption
  <2>3. QED BY <1>1, <1>7, <2>2, IssuedGrows DEF Verify
<1>8. ASSUME NEW v \in verified, Leak(v) PROVE GenuineInv'
  <2>1. SigIssued(v.ticket.signature)
    BY <1>0, GenuineSig, VerifiedTypes, AddressAssumption DEF TypeOK
  <2>2. QED BY <1>1, <1>8, <2>1, IssuedGrows DEF Leak
<1>9. ASSUME NEW v \in verified, NEW k \in Scalar, IntoUnacknowledged(v, k) PROVE GenuineInv'
  BY <1>1, <1>9, IssuedGrows DEF IntoUnacknowledged
<1>10. ASSUME NEW v \in verified, NEW k \in Scalar, IntoAcknowledged(v, k) PROVE GenuineInv'
  BY <1>1, <1>10, IssuedGrows DEF IntoAcknowledged
<1>11. ASSUME NEW u \in unacked, NEW k \in Scalar, Acknowledge(u, k) PROVE GenuineInv'
  BY <1>1, <1>11, IssuedGrows DEF Acknowledge
<1>12. ASSUME NEW a \in acked, StartRedeeming(a) PROVE GenuineInv'
  <2>1. [a EXCEPT !.status = "BeingRedeemed"].ticket = a.ticket
    BY <1>0 DEF TypeOK, AcknowledgedTicket
  <2>2. QED BY <1>1, <1>12, <2>1, IssuedGrows DEF StartRedeeming
<1>13. ASSUME NEW a \in acked, NEW n \in Node, NEW d \in Separator, AckIntoRedeemable(a, n, d)
       PROVE  GenuineInv'
  BY <1>1, <1>13, IssuedGrows DEF AckIntoRedeemable, RedeemableFrom
<1>14. ASSUME NEW a \in acked, NEW n \in Node, NEW d \in Separator, AckIntoTransferable(a, n, d)
       PROVE  GenuineInv'
  <2>1. SigIssued(a.ticket.ticket.signature) /\ Traced(a.ticket.ticket)
    BY <1>0, GenuineSig, AddressAssumption DEF TypeOK, AcknowledgedTicket, Genuine
  <2>2. QED BY <1>1, <1>14, <2>1, IssuedGrows
            DEF AckIntoTransferable, RedeemableFrom, TransferableFrom
<1>15. ASSUME NEW r \in redeemable, RedeemableIntoTransferable(r) PROVE GenuineInv'
  <2>1. SigIssued(r.ticket.ticket.signature) /\ Traced(r.ticket.ticket)
    BY <1>0, GenuineSig, AddressAssumption DEF TypeOK, RedeemableTicket, Genuine
  <2>2. QED BY <1>1, <1>15, <2>1, IssuedGrows DEF RedeemableIntoTransferable, TransferableFrom
<1>16. ASSUME NEW r \in redeemable, RedeemableIntoAcknowledged(r) PROVE GenuineInv'
  BY <1>1, <1>16, IssuedGrows DEF RedeemableIntoAcknowledged
<1>17. ASSUME NEW x \in TransferableWinningTicket, NEW n \in Node, NEW d \in Separator,
              Accepts(x, n, d), SigIssued(x.ticket.signature),
              issued \subseteq issued', Traced(x.ticket)'
       PROVE  Genuine(RedeemableAgain(x, d).ticket)'
  <2>1. x.ticket \in DecodedTicket /\ x.signer = n /\ Verifies(x.ticket, n, d)
    BY <1>17 DEF Accepts, TransferableWinningTicket
  <2> DEFINE v == VerifiedAs(x.ticket, n, d)
  <2>2. \E e \in Separator :
           /\ v.hash = TicketHash(v.ticket, v.issuer, e)
           /\ v.ticket.signature = [by |-> v.issuer, hash |-> v.hash]
           /\ <<v.issuer, Unsigned(Encoded(v.ticket)), e>> \in issued
    BY <1>17, <2>1, VerifyGenuine, AddressAssumption
  <2>3. RedeemableAgain(x, d).ticket = v /\ v.ticket = x.ticket
    BY <2>1 DEF RedeemableAgain, VerifiedAs
  <2> HIDE DEF v
  <2>4. QED BY <1>17, <2>2, <2>3 DEF Genuine
<1>18. ASSUME NEW x \in transferable, NEW n \in Node, NEW d \in Separator,
              TransferableIntoRedeemable(x, n, d)
       PROVE  GenuineInv'
  <2>1. /\ x \in TransferableWinningTicket /\ Accepts(x, n, d)
        /\ SigIssued(x.ticket.signature) /\ issued \subseteq issued'
        /\ received \subseteq received' /\ Traced(x.ticket)'
    BY <1>0, <1>18, IssuedGrows DEF TransferableIntoRedeemable, TypeOK
  <2>2. Genuine(RedeemableAgain(x, d).ticket)'
    BY <1>17, <2>1
  <2>3. QED BY <1>1, <1>18, <2>2 DEF TransferableIntoRedeemable
<1>19. ASSUME NEW x \in TransferableWinningTicket, NEW n \in Node, NEW d \in Separator,
              x.ticket.signature \in KnownSignatures, ReceiveRedeemable(x, n, d)
       PROVE  GenuineInv'
  <2>1. Accepts(x, n, d) /\ issued \subseteq issued' /\ received \subseteq received'
    BY <1>19 DEF ReceiveRedeemable
  <2>2. SigIssued(x.ticket.signature)
    BY <1>19, KnownIssued
  <2>3. Traced(x.ticket)'
    BY <1>19 DEF ReceiveRedeemable, Traced
  <2>4. Genuine(RedeemableAgain(x, d).ticket)'
    BY <1>17, <2>1, <2>2, <2>3
  <2>5. QED BY <1>1, <1>19, <2>1, <2>4 DEF ReceiveRedeemable
<1>20. ASSUME NEW t \in IncomingTicket, NEW n \in Node, NEW d \in Separator,
              NEW k \in Scalar, NEW vrf \in IncomingVrf,
              ReceiveRedeemable([ticket |-> t, response |-> k, vrf_params |-> vrf,
                                 signer |-> n], n, d)
       PROVE  GenuineInv'
  <2> DEFINE x == [ticket |-> t, response |-> k, vrf_params |-> vrf, signer |-> n]
  <2>1. x \in TransferableWinningTicket
    BY <1>0, IncomingType
  <2>2. x.ticket.signature \in KnownSignatures
    BY DEF IncomingTicket
  <2> HIDE DEF x
  <2>3. QED BY <1>19, <1>20, <2>1, <2>2 DEF x
<1>21. CASE UNCHANGED vars
  BY <1>0, <1>1, <1>21 DEF vars
<1>22. QED
  BY <1>2, <1>3, <1>4, <1>5, <1>6, <1>7, <1>8, <1>9, <1>10, <1>11, <1>12, <1>13, <1>14,
     <1>15, <1>16, <1>18, <1>20, <1>21 DEF Next

(* Every VerifiedTicket, on its own or inside a later type, is one that its *)
(* issuer signed with these fields: no sequence of conversions, transfers   *)
(* and restores alters a ticket and keeps its signature, and only a ticket  *)
(* received from another party has digits that were not signed.             *)
THEOREM TicketsAreGenuine == ASSUME TrustedCallers PROVE Spec => []VerifiedIsIssued
<1>1. Init => GenuineInv
  BY TypeCorrect DEF Init, GenuineInv, TypeOK
<1>2. GenuineInv /\ [Next]_vars => GenuineInv'
  BY GenuineStep
<1>3. GenuineInv => VerifiedIsIssued
  <2> SUFFICES ASSUME GenuineInv PROVE \A v \in AllVerified : Genuine(v)
    BY DEF VerifiedIsIssued, Genuine, Traced
  <2> QED BY DEF GenuineInv, AllVerified
<1>4. QED BY <1>1, <1>2, <1>3, PTL DEF Spec

-----------------------------------------------------------------------------
(* Responses and wins                                                       *)

\* VRF parameters made for the hash by a redeemer other than the issuer, or sent by
\* another party with the ticket t.
VrfTraced(hash, issuer, t, vrf) ==
    \/ vrf.by \in Node \ {issuer} /\ vrf.msg = hash
    \/ \E x \in received : x.ticket = t /\ x.vrf_params = vrf

\* A win with such parameters.
Wins(hash, issuer, t, response, vrf) ==
    /\ CheckTicketWin(hash, t.signature, t.win_prob, response, vrf)
    /\ VrfTraced(hash, issuer, t, vrf)

\* The inductive invariant behind RedeemableIsForeignWin and TransferExact: what a
\* transferable ticket keeps is enough to find the ticket, hash and win it came from.
WinInv ==
    /\ GenuineInv
    /\ \A r \in redeemable :
         Wins(r.ticket.hash, r.ticket.issuer, r.ticket.ticket, r.response, r.vrf_params)
    /\ \A x \in transferable :
         /\ Wins(x.ticket.signature.hash, x.signer, x.ticket, x.response, x.vrf_params)
         /\ x.ticket.signature.by = x.signer
         /\ \E d \in Separator : x.ticket.signature.hash = TicketHash(x.ticket, x.signer, d)

(* What into_redeemable makes of an acknowledged ticket.                    *)
LEMMA RedeemWins ==
    ASSUME NEW a, NEW n \in Node, NEW d, Redeems(a, n, d)
    PROVE  LET r == RedeemableFrom(a, n, d) IN
           Wins(r.ticket.hash, r.ticket.issuer, r.ticket.ticket, r.response, r.vrf_params)
BY DEF Redeems, RedeemableFrom, Wins, VrfTraced, Vrf

(* Dropping the verification of a genuine winning ticket keeps what is needed to redo it. *)
LEMMA TransferWins ==
    ASSUME NEW r, Genuine(r.ticket),
           Wins(r.ticket.hash, r.ticket.issuer, r.ticket.ticket, r.response, r.vrf_params)
    PROVE  LET x == TransferableFrom(r) IN
           /\ Wins(x.ticket.signature.hash, x.signer, x.ticket, x.response, x.vrf_params)
           /\ x.ticket.signature.by = x.signer
           /\ \E d \in Separator : x.ticket.signature.hash = TicketHash(x.ticket, x.signer, d)
BY DEF TransferableFrom, Genuine

(* What was received stays so.                                             *)
LEMMA WinsStay ==
    ASSUME received \subseteq received'
    PROVE  \A h, i, t, k, vrf : Wins(h, i, t, k, vrf) => Wins(h, i, t, k, vrf)'
BY DEF Wins, VrfTraced

(* Every step keeps the wins.                                               *)
LEMMA WinStep == TrustedCallers /\ WinInv /\ [Next]_vars => WinInv'
<1> SUFFICES ASSUME TrustedCallers, WinInv, [Next]_vars PROVE WinInv'
  OBVIOUS
<1>0. GenuineInv /\ GenuineInv' /\ TypeOK
  BY GenuineStep DEF WinInv, GenuineInv
\* Received values stay; what a step adds is left to show.
<1>1. ASSUME received \subseteq received',
             \A r \in redeemable' \ redeemable :
               Wins(r.ticket.hash, r.ticket.issuer, r.ticket.ticket, r.response, r.vrf_params)',
             \A x \in transferable' \ transferable :
               /\ Wins(x.ticket.signature.hash, x.signer, x.ticket, x.response, x.vrf_params)'
               /\ x.ticket.signature.by = x.signer
               /\ \E d \in Separator :
                    x.ticket.signature.hash = TicketHash(x.ticket, x.signer, d)
      PROVE  WinInv'
  BY <1>0, <1>1, WinsStay DEF WinInv
<1>2. CASE redeemable' = redeemable /\ transferable' = transferable /\ received' = received
  BY <1>1, <1>2
<1>3. ASSUME NEW a \in acked, NEW n \in Node, NEW d \in Separator, AckIntoRedeemable(a, n, d)
      PROVE  WinInv'
  <2> DEFINE r == RedeemableFrom(a, n, d)
  <2>1. Wins(r.ticket.hash, r.ticket.issuer, r.ticket.ticket, r.response, r.vrf_params)
    BY <1>3, RedeemWins DEF AckIntoRedeemable
  <2>2. /\ redeemable' = redeemable \cup {r} /\ transferable' = transferable
        /\ received \subseteq received'
    BY <1>3 DEF AckIntoRedeemable
  <2> HIDE DEF r
  <2>3. QED BY <1>1, <2>1, <2>2, WinsStay
<1>4. ASSUME NEW r, Genuine(r.ticket),
             Wins(r.ticket.hash, r.ticket.issuer, r.ticket.ticket, r.response, r.vrf_params),
             transferable' = transferable \cup {TransferableFrom(r)},
             redeemable' = redeemable, received' = received
      PROVE  WinInv'
  <2> DEFINE x == TransferableFrom(r)
  <2>1. /\ Wins(x.ticket.signature.hash, x.signer, x.ticket, x.response, x.vrf_params)
        /\ x.ticket.signature.by = x.signer
        /\ \E d \in Separator : x.ticket.signature.hash = TicketHash(x.ticket, x.signer, d)
    BY <1>4, TransferWins
  <2> HIDE DEF x
  <2>2. received \subseteq received' /\ transferable' = transferable \cup {x}
    BY <1>4 DEF x
  <2>3. Wins(x.ticket.signature.hash, x.signer, x.ticket, x.response, x.vrf_params)'
    BY <2>1, <2>2, WinsStay
  <2>4. QED BY <1>1, <1>4, <2>1, <2>2, <2>3
<1>5. ASSUME NEW a \in acked, NEW n \in Node, NEW d \in Separator, AckIntoTransferable(a, n, d)
      PROVE  WinInv'
  <2> DEFINE r == RedeemableFrom(a, n, d)
  <2>1. Genuine(r.ticket)
    BY <1>0 DEF GenuineInv, RedeemableFrom
  <2>2. Wins(r.ticket.hash, r.ticket.issuer, r.ticket.ticket, r.response, r.vrf_params)
    BY <1>5, RedeemWins DEF AckIntoTransferable
  <2>3. /\ transferable' = transferable \cup {TransferableFrom(r)}
        /\ redeemable' = redeemable /\ received' = received
    BY <1>5 DEF AckIntoTransferable
  <2> HIDE DEF r
  <2>4. QED BY <1>4, <2>1, <2>2, <2>3
<1>6. ASSUME NEW r \in redeemable, RedeemableIntoTransferable(r) PROVE WinInv'
  BY <1>0, <1>4, <1>6 DEF WinInv, GenuineInv, RedeemableIntoTransferable
<1>7. ASSUME NEW x, NEW n, NEW d, Accepts(x, n, d), received \subseteq received',
             \/ VrfTraced(x.ticket.signature.hash, x.signer, x.ticket, x.vrf_params)
             \/ x \in received',
             x.signer \in Node, x.ticket.signature.hash \in Hash,
             redeemable' = redeemable \cup {RedeemableAgain(x, d)},
             transferable' = transferable
      PROVE  WinInv'
  <2> DEFINE r == RedeemableAgain(x, d)
  <2>1. x.ticket.signature.hash = TicketHash(x.ticket, x.signer, d)
    BY <1>7, AddressAssumption DEF Accepts, Verifies, Recover
  <2>2. /\ r.ticket.hash = x.ticket.signature.hash /\ r.ticket.issuer = x.signer
        /\ r.ticket.ticket = x.ticket /\ r.response = x.response
        /\ r.vrf_params = x.vrf_params
    BY <2>1 DEF RedeemableAgain, VerifiedAs
  <2>3. CheckTicketWin(x.ticket.signature.hash, x.ticket.signature, x.ticket.win_prob,
                       x.response, x.vrf_params)
    BY <1>7, <2>1 DEF Accepts
  <2>4. VrfTraced(x.ticket.signature.hash, x.signer, x.ticket, x.vrf_params)'
    BY <1>7 DEF VrfTraced
  <2> HIDE DEF r
  <2>5. Wins(r.ticket.hash, r.ticket.issuer, r.ticket.ticket, r.response, r.vrf_params)'
    BY <2>2, <2>3, <2>4 DEF Wins
  <2>6. redeemable' = redeemable \cup {r}
    BY <1>7 DEF r
  <2>7. QED BY <1>1, <1>7, <2>5, <2>6
<1>8. ASSUME NEW x \in transferable, NEW n \in Node, NEW d \in Separator,
             TransferableIntoRedeemable(x, n, d)
      PROVE  WinInv'
  <2>1. x.signer \in Node /\ x.ticket.signature.hash \in Hash
    BY <1>0, <1>8 DEF TransferableIntoRedeemable, Accepts, TypeOK, TransferableWinningTicket,
                      DecodedTicket, Signature
  <2>2. VrfTraced(x.ticket.signature.hash, x.signer, x.ticket, x.vrf_params)
    BY DEF WinInv, Wins
  <2>3. QED BY <1>7, <1>8, <2>1, <2>2 DEF TransferableIntoRedeemable
<1>9. ASSUME NEW x \in TransferableWinningTicket, NEW n \in Node, NEW d \in Separator,
             ReceiveRedeemable(x, n, d)
      PROVE  WinInv'
  <2>1. x.signer \in Node /\ x.ticket.signature.hash \in Hash
    BY <1>9 DEF ReceiveRedeemable, Accepts, TransferableWinningTicket, DecodedTicket, Signature
  <2>2. QED BY <1>7, <1>9, <2>1 DEF ReceiveRedeemable
<1>10. CASE UNCHANGED vars
  BY <1>2, <1>10 DEF vars
<1>11. QED
  BY <1>0, <1>2, <1>3, <1>5, <1>6, <1>8, <1>9, <1>10, IncomingType
     DEF Next, Build, BuildSigned, BuildVerified, SendReceive, Sign, Verify, Leak,
         IntoUnacknowledged, IntoAcknowledged, Acknowledge, StartRedeeming,
         RedeemableIntoAcknowledged

(* Every redeemable ticket is a win, and unless its VRF parameters came     *)
(* with it from another party, of a node that is not its issuer.            *)
THEOREM WinsAreForeign == ASSUME TrustedCallers PROVE Spec => []RedeemableIsForeignWin
<1>1. Init => WinInv
  BY DEF Init, WinInv, GenuineInv, TypeOK
<1>2. WinInv /\ [Next]_vars => WinInv'
  BY WinStep
<1>3. WinInv => RedeemableIsForeignWin
  BY DEF WinInv, RedeemableIsForeignWin, Wins, VrfTraced
<1>4. QED BY <1>1, <1>2, <1>3, PTL DEF Spec

(* A transferable ticket made by a conversion is accepted from its signer   *)
(* under the separator it was issued with, and under no other signer or     *)
(* separator; this includes wins that were themselves received.             *)
THEOREM TransfersAreExact == ASSUME TrustedCallers PROVE Spec => []TransferExact
<1>1. Init => WinInv
  BY DEF Init, WinInv, GenuineInv, TypeOK
<1>2. WinInv /\ [Next]_vars => WinInv'
  BY WinStep
<1>3. WinInv => TransferExact
  <2> SUFFICES ASSUME WinInv, NEW x \in transferable, NEW n \in Node, NEW d \in Separator
               PROVE  Accepts(x, n, d) <=> n = x.signer /\ d = x.ticket.signature.hash.separator
    BY DEF TransferExact
  <2>1. PICK e \in Separator : x.ticket.signature.hash = TicketHash(x.ticket, x.signer, e)
    BY DEF WinInv
  <2>2. /\ x.ticket.signature.by = x.signer
        /\ x.ticket.signature # NoSig
        /\ CheckTicketWin(x.ticket.signature.hash, x.ticket.signature, x.ticket.win_prob,
                          x.response, x.vrf_params)
    BY NoSigAssumption
       DEF WinInv, Wins, GenuineInv, TypeOK, TransferableWinningTicket, DecodedTicket
  <2>3. TicketHash(x.ticket, x.signer, d) = x.ticket.signature.hash <=> d = e
    BY <2>1 DEF TicketHash
  <2>4. x.ticket.signature.hash.separator = e
    BY <2>1 DEF TicketHash
  <2>5. ASSUME n = x.signer
        PROVE  Verifies(x.ticket, x.signer, d) <=> d = e
    BY <2>2, <2>3, <2>5, AddressAssumption DEF Verifies, Recover
  <2>6. QED BY <2>1, <2>2, <2>4, <2>5 DEF Accepts
<1>4. QED BY <1>1, <1>2, <1>3, PTL DEF Spec

\* The response solves the challenge of the ticket, or came with it.
Answers(ticket, response) ==
    Solves(response, ticket.challenge) \/ ReceivedWith(ticket, response)

(* Every step keeps responses that solve the challenge of their ticket.     *)
LEMMA ResponseStep ==
    TrustedCallers /\ TypeOK /\ ResponseSolvesChallenge /\ [Next]_vars
        => ResponseSolvesChallenge'
<1> SUFFICES ASSUME TrustedCallers, TypeOK, ResponseSolvesChallenge, [Next]_vars
             PROVE  ResponseSolvesChallenge'
  OBVIOUS
<1>0. /\ \A a \in acked : Answers(a.ticket.ticket, a.response)
      /\ \A r \in redeemable : Answers(r.ticket.ticket, r.response)
      /\ \A x \in transferable : Answers(x.ticket, x.response)
  BY DEF ResponseSolvesChallenge, Answers
\* Received values stay; what a step adds is left to show.
<1>1. ASSUME received \subseteq received',
             \A a \in acked' \ acked : Answers(a.ticket.ticket, a.response)',
             \A r \in redeemable' \ redeemable : Answers(r.ticket.ticket, r.response)',
             \A x \in transferable' \ transferable : Answers(x.ticket, x.response)'
      PROVE  ResponseSolvesChallenge'
  <2>1. \A t, k : Answers(t, k) => Answers(t, k)'
    BY <1>1 DEF Answers, ReceivedWith
  <2>2. QED BY <1>0, <1>1, <2>1 DEF ResponseSolvesChallenge, Answers
<1>2. ASSUME received' = received, NEW t, NEW k, Answers(t, k) PROVE Answers(t, k)'
  BY <1>2 DEF Answers, ReceivedWith
<1>3. CASE /\ acked' = acked /\ redeemable' = redeemable /\ transferable' = transferable
           /\ received' = received
  BY <1>1, <1>3
<1>4. ASSUME NEW v \in verified, NEW k \in Scalar, IntoAcknowledged(v, k)
      PROVE  ResponseSolvesChallenge'
  BY <1>1, <1>4 DEF IntoAcknowledged, Answers
<1>5. ASSUME NEW u \in unacked, NEW k \in Scalar, Acknowledge(u, k)
      PROVE  ResponseSolvesChallenge'
  BY <1>1, <1>5 DEF Acknowledge, Acknowledges, Answers
<1>6. ASSUME NEW a \in acked, StartRedeeming(a) PROVE ResponseSolvesChallenge'
  <2>1. /\ [a EXCEPT !.status = "BeingRedeemed"].ticket = a.ticket
        /\ [a EXCEPT !.status = "BeingRedeemed"].response = a.response
    BY DEF TypeOK, AcknowledgedTicket
  <2>2. QED BY <1>0, <1>1, <1>2, <1>6, <2>1 DEF StartRedeeming
<1>7. ASSUME NEW a \in acked, NEW n \in Node, NEW d \in Separator,
             AckIntoRedeemable(a, n, d) \/ AckIntoTransferable(a, n, d)
      PROVE  ResponseSolvesChallenge'
  BY <1>0, <1>1, <1>2, <1>7
     DEF AckIntoRedeemable, AckIntoTransferable, RedeemableFrom, TransferableFrom
<1>8. ASSUME NEW r \in redeemable,
             RedeemableIntoTransferable(r) \/ RedeemableIntoAcknowledged(r)
      PROVE  ResponseSolvesChallenge'
  BY <1>0, <1>1, <1>2, <1>8
     DEF RedeemableIntoTransferable, RedeemableIntoAcknowledged, TransferableFrom
<1>9. ASSUME NEW x \in transferable, NEW n \in Node, NEW d \in Separator,
             TransferableIntoRedeemable(x, n, d)
      PROVE  ResponseSolvesChallenge'
  BY <1>0, <1>1, <1>2, <1>9 DEF TransferableIntoRedeemable, RedeemableAgain, VerifiedAs
<1>10. ASSUME NEW x, NEW n \in Node, NEW d \in Separator, ReceiveRedeemable(x, n, d)
       PROVE  ResponseSolvesChallenge'
  <2>1. Answers(x.ticket, x.response)'
    BY <1>10 DEF ReceiveRedeemable, Answers, ReceivedWith
  <2>2. QED BY <1>1, <1>10, <2>1 DEF ReceiveRedeemable, RedeemableAgain, VerifiedAs
<1>11. CASE UNCHANGED vars
  BY <1>3, <1>11 DEF vars
<1>12. QED
  BY <1>3, <1>4, <1>5, <1>6, <1>7, <1>8, <1>9, <1>10, <1>11
     DEF Next, Build, BuildSigned, BuildVerified, SendReceive, Sign, Verify, Leak,
         IntoUnacknowledged

(* A response solves the challenge of the ticket it travels with, unless    *)
(* another party sent the two together.                                     *)
THEOREM ResponsesSolve == ASSUME TrustedCallers PROVE Spec => []ResponseSolvesChallenge
<1>1. Init => ResponseSolvesChallenge
  BY DEF Init, ResponseSolvesChallenge
<1>2. TypeOK /\ ResponseSolvesChallenge /\ [Next]_vars => ResponseSolvesChallenge'
  BY ResponseStep
<1>3. QED BY <1>1, <1>2, TypeCorrect, PTL DEF Spec
=============================================================================
