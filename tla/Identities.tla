----------------------------- MODULE Identities -----------------------------
(***************************************************************************)
(* How a node is named: its packet key and the libp2p peer id made of it   *)
(* (src/crypto/types.rs), the key binding and the address it announces     *)
(* (src/internal/announcement.rs), the account made of the announcement    *)
(* (src/internal/account.rs); and how a service type is named              *)
(* (src/internal/service.rs).                                              *)
(*                                                                         *)
(* A multiaddress is a sequence of protocols, each with its name and, for  *)
(* p2p, a peer id.  A signature tells who made it and over what.           *)
(***************************************************************************)
EXTENDS Integers, Sequences, SequencesExt

CONSTANTS
    PacketKey,      \* OffchainPublicKey: sequences of KeySize bytes
    KeySize,
    OnCurve25519,   \* packet keys that are points of the curve
    KeyPrefix,      \* the protobuf tags before an Ed25519 key
    ChainKey,       \* Address
    Name,           \* protocols other than p2p
    NameSize,       \* ServiceType::SIZE
    Graphic,        \* printable characters other than space
    Zero,           \* the zero byte
    Refused         \* any error of a parser or constructor

NoPeer == [code |-> "none", digest |-> <<>>]

\* From<&OffchainPublicKey> for PeerId: an identity multihash of the tagged key.
PeerId(k) == [code |-> "identity", digest |-> KeyPrefix \o k]

\* A slip: the tags are not looked at.
FromPeerIdUntagged(id) ==
    IF id.code # "identity" \/ Len(id.digest) # Len(KeyPrefix) + KeySize THEN Refused
    ELSE SubSeq(id.digest, Len(KeyPrefix) + 1, Len(id.digest))

\* from_peerid
FromPeerId(id) ==
    IF \/ id.code # "identity"
       \/ Len(id.digest) # Len(KeyPrefix) + KeySize
       \/ ~IsPrefix(KeyPrefix, id.digest)
      THEN Refused
      ELSE SubSeq(id.digest, Len(KeyPrefix) + 1, Len(id.digest))

\* TryFrom<&OffchainPublicKey> for ExpandedOffchainPublicKey and validate; the compact
\* key itself is not checked.
Expanded(k) == IF k \in OnCurve25519 THEN [compact |-> k] ELSE Refused

-----------------------------------------------------------------------------
(* Key bindings                                                             *)

\* prepare_for_signing
Prepared(c, k) == [chain_key |-> c, packet_key |-> k]

SignMessage(message, signer) == [signer |-> signer, message |-> message]

\* verify_message, which expands the key
VerifyMessage(signature, message, k) ==
    Expanded(k) # Refused /\ signature = [signer |-> k, message |-> message]

\* KeyBinding::new and KeyBinding::from_parts
NewBinding(c, k) ==
    [chain_key |-> c, packet_key |-> k, signature |-> SignMessage(Prepared(c, k), k)]
BindingFromParts(c, k, signature) ==
    IF VerifyMessage(signature, Prepared(c, k), k)
      THEN [chain_key |-> c, packet_key |-> k, signature |-> signature]
      ELSE Refused

-----------------------------------------------------------------------------
(* Announcements and accounts                                               *)

Plain(name) == [name |-> name, peer |-> NoPeer]
P2p(id) == [name |-> "p2p", peer |-> id]

\* decapsulate_multiaddress: everything before the first peer id
Decapsulated(address) ==
    LET peer == SelectInSeq(address, LAMBDA p : p.name = "p2p")
    IN  IF peer = 0 THEN address ELSE SubSeq(address, 1, peer - 1)

\* Multiaddr::with_p2p: appended, unless the address ends in a peer id, which then has to
\* be this one.
WithP2p(address, id) ==
    IF address # <<>> /\ Last(address).name = "p2p"
      THEN IF Last(address).peer = id THEN address ELSE Refused
      ELSE Append(address, P2p(id))

\* A slip: the peer id stays in the address.
AnnouncementEncapsulated(binding, address) ==
    IF address = <<>> \/ WithP2p(address, PeerId(binding.packet_key)) = Refused THEN Refused
    ELSE [multiaddress |-> WithP2p(address, PeerId(binding.packet_key)), key_binding |-> binding]

\* AnnouncementData::new of an address: encapsulated, which compares the peer ids, and
\* decapsulated again by its last protocol.
Announcement(binding, address) ==
    IF address = <<>> \/ WithP2p(address, PeerId(binding.packet_key)) = Refused THEN Refused
    ELSE [multiaddress |-> Front(WithP2p(address, PeerId(binding.packet_key))),
          key_binding |-> binding]

\* has_announced and has_announced_with_routing_info of an account with these addresses
HasAnnounced(addresses) == addresses # <<>>
HasAnnouncedWithRoutingInfo(addresses) ==
    /\ addresses # <<>>
    /\ \A i \in DOMAIN addresses :
          LET stack == {p.name : p \in ToSet(addresses[i])}
          IN  /\ stack \cap {"ip4", "dns4", "ip6", "dns6"} # {}
              /\ stack \cap {"tcp", "udp"} # {}

-----------------------------------------------------------------------------
(* Names of service types                                                   *)

\* right_pad
RightPad(s) == [i \in 1 .. NameSize |-> IF i <= Len(s) THEN s[i] ELSE Zero]

\* FromStr
ServiceTypeOf(s) ==
    IF s = <<>> \/ Len(s) > NameSize \/ ~(ToSet(s) \subseteq Graphic) THEN Refused
    ELSE RightPad(s)

\* TryFrom<[u8; SIZE]>
ServiceTypeFrom(id) == IF ToSet(id) = {Zero} THEN Refused ELSE id

\* A slip: the name ends at the first zero.
AsAsciiToZero(id) ==
    LET name == SubSeq(id, 1, SelectInSeq(Append(id, Zero), LAMBDA b : b = Zero) - 1)
    IN  IF ToSet(name) \subseteq Graphic THEN name ELSE Refused

\* as_ascii: up to the last byte that is not zero
AsAscii(id) ==
    LET name == SubSeq(id, 1, SelectLastInSeq(id, LAMBDA b : b # Zero))
    IN  IF ToSet(name) \subseteq Graphic THEN name ELSE Refused

-----------------------------------------------------------------------------
\* PeerId and from_peerid: a peer id that is read as a packet key is the peer id of this
\* key, so that no two peers share a key and no key of another type passes for one; what
\* is read need not be a point of the curve.
PeerIdsIdentifyKeys(id, k) ==
    /\ FromPeerId(PeerId(k)) = k
    /\ FromPeerId(id) # Refused => PeerId(FromPeerId(id)) = id

\* AnnouncementData::new with KeyBinding::from_parts: for an address with at most a peer id
\* at its end, what is announced is the address without it, the same as
\* decapsulate_multiaddress gives and as a second announcement would; an address of another
\* peer is refused, whoever's key signed; and the account has routing information exactly
\* if the address had.
AnnouncementsBind(c, k, signature, address) ==
    LET binding == BindingFromParts(c, k, signature)
        made == Announcement(binding, address)
        peers == {i \in DOMAIN address : address[i].name = "p2p"}
    IN  /\ binding # Refused <=>
              k \in OnCurve25519 /\ signature = NewBinding(c, k).signature
        /\ binding # Refused /\ address # <<>> /\ peers \subseteq {Len(address)} =>
              /\ made = Refused <=> \E i \in peers : FromPeerId(address[i].peer) # k
              /\ made # Refused =>
                    /\ made.multiaddress = Decapsulated(address)
                    /\ made.multiaddress # <<>> => Announcement(binding, made.multiaddress) = made
                    /\ HasAnnouncedWithRoutingInfo(<<made.multiaddress>>)
                           = HasAnnouncedWithRoutingInfo(<<address>>)

\* FromStr and as_ascii: a name reads back as itself, and an id that has a name is the only
\* one with this name.
NamesIdentifyTypes(s, id) ==
    /\ ServiceTypeOf(s) # Refused =>
          ServiceTypeFrom(ServiceTypeOf(s)) # Refused /\ AsAscii(ServiceTypeOf(s)) = s
    /\ ServiceTypeFrom(id) # Refused /\ AsAscii(id) # Refused => ServiceTypeOf(AsAscii(id)) = id
=============================================================================
