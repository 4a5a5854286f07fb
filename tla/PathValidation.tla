---------------------------- MODULE PathValidation ----------------------------
(***************************************************************************)
(* ValidatedPath::new (src/internal/path.rs): a route of chain addresses   *)
(* and packet keys is resolved and checked hop by hop against a resolver   *)
(* that every hop awaits, twice.  The resolver's view of the chain (who    *)
(* announced which key, which channels are open) may change while the      *)
(* validation waits.                                                       *)
(*                                                                         *)
(* Each await is one step.  The resolver answers from the view it has at   *)
(* that step, or fails.                                                    *)
(***************************************************************************)
EXTENDS Integers, SequencesExt

CONSTANTS
    Address, OffchainPublicKey,
    None,           \* no such key or address
    PathInput,      \* the paths that are validated
    OriginInput,    \* the nodes they start from
    Registries,     \* key bindings the resolver may know at the beginning
    MaxChanges      \* bound: changes of the resolver's view in one validation

NodeId == Address \cup OffchainPublicKey

ASSUME NodeAssumption ==
    /\ Address \cap OffchainPublicKey = {}
    /\ None \notin NodeId
    /\ PathInput \subseteq Seq(NodeId) /\ OriginInput \subseteq NodeId

Edge == {e \in Address \X Address : e[1] # e[2]}

Registry == [addrOf : [OffchainPublicKey -> Address \cup {None}],
             keyOf : [Address -> OffchainPublicKey \cup {None}]]

ASSUME RegistryAssumption == Registries \subseteq Registry
ASSUME ChangesAssumption == MaxChanges \in Nat

VARIABLES
    registry,       \* the resolver: bindings of keys and addresses,
    open,           \* and the channels with ChannelStatus::Open
    changes,        \* changes of either so far
    origin, path,   \* the arguments of new()
    pc,             \* what new() awaits or returned
    ticket_issuer,  \* the address of the previous hop
    keys, addrs,    \* the two halves of the result
    source,         \* history: the address of the origin as it was resolved
    bound, opened   \* history: bindings and open channels since the call

resolver == <<registry, open, changes>>
seen_facts == <<bound, opened>>
vars == <<resolver, origin, path, pc, ticket_issuer, keys, addrs, source, seen_facts>>

\* Pairs of a key and an address that a registry binds, in either direction.
Bindings(r) ==
    {b \in OffchainPublicKey \X Address : r.addrOf[b[1]] = b[2] \/ r.keyOf[b[2]] = b[1]}

TypeOK ==
    /\ registry \in Registry
    /\ open \subseteq Edge
    /\ changes \in 0 .. MaxChanges
    /\ origin \in OriginInput /\ path \in PathInput
    /\ pc \in {"origin", "resolve", "channel", "ok", "refused", "resolver failed"}
    /\ ticket_issuer \in Address \cup {None} /\ source \in Address \cup {None}
    /\ keys \in Seq(OffchainPublicKey) /\ addrs \in Seq(Address)
    /\ bound \subseteq OffchainPublicKey \X Address
    /\ opened \subseteq Edge

Init ==
    /\ registry \in Registries
    /\ open \in SUBSET Edge
    /\ changes = 0
    /\ origin \in OriginInput /\ path \in PathInput
    /\ pc = "origin" /\ ticket_issuer = None /\ source = None
    /\ keys = <<>> /\ addrs = <<>>
    /\ bound = Bindings(registry) /\ opened = open

-----------------------------------------------------------------------------
(* The validation                                                           *)

\* resolve_chain_address, for a hop or an origin given as a key; an address is itself.
AddressOf(n) == IF n \in Address THEN n ELSE registry.addrOf[n]

\* resolve_transport_address, for a hop given as an address.
KeyOf(n) == IF n \in Address THEN registry.keyOf[n] ELSE n

\* An empty path is refused; then the origin becomes the first ticket issuer.
ResolveOrigin ==
    /\ pc = "origin"
    /\ ticket_issuer' = AddressOf(origin)
    /\ pc' = IF path = <<>> \/ AddressOf(origin) = None THEN "refused" ELSE "resolve"
    /\ source' = ticket_issuer'
    /\ UNCHANGED <<resolver, origin, path, keys, addrs, seen_facts>>

\* A slip: a node without a known key is let through.
UnknownAddressOnly(n) == AddressOf(n) = None

\* InvalidPeer: one of the two names of a hop is not known.
Unknown(n) == KeyOf(n) = None \/ AddressOf(n) = None

\* Slips of the two loop checks.
LoopsAdjacentOnly(receiver) == receiver = ticket_issuer
LoopsSeenOnly(receiver) == receiver \in ToSet(addrs)

\* LoopsNotAllowed: the receiver is the issuer or was a hop before (the set seen).
Loops(receiver) == receiver = ticket_issuer \/ receiver \in ToSet(addrs)

\* i < num_hops - 1, for a count from 1.
NeedsChannel(i) == i < Len(path)

\* The next hop is resolved and pushed.  The loop checks follow without an await.
ResolveHop ==
    /\ pc = "resolve"
    /\ LET i == Len(addrs) + 1
           hop == path[i]
           refuse == Unknown(hop) \/ Loops(AddressOf(hop))
       IN
       \/ /\ refuse
          /\ pc' = "refused"
          /\ UNCHANGED <<ticket_issuer, keys, addrs>>
       \/ /\ ~refuse
          /\ keys' = Append(keys, KeyOf(hop))
          /\ addrs' = Append(addrs, AddressOf(hop))
          /\ pc' = IF NeedsChannel(i) THEN "channel" ELSE "ok"
          /\ UNCHANGED ticket_issuer
    /\ UNCHANGED <<resolver, origin, path, source, seen_facts>>

\* A slip: the channel is looked up in the other direction.
ChannelIsOpenBack == <<Last(addrs), ticket_issuer>> \in open

ChannelIsOpen == <<ticket_issuer, Last(addrs)>> \in open

\* MissingChannel, ChannelNotOpened, or on to the next hop.
CheckChannel ==
    /\ pc = "channel"
    /\ \/ /\ ~ChannelIsOpen
          /\ pc' = "refused"
          /\ UNCHANGED ticket_issuer
       \/ /\ ChannelIsOpen
          /\ ticket_issuer' = Last(addrs)
          /\ pc' = "resolve"
    /\ UNCHANGED <<resolver, origin, path, keys, addrs, source, seen_facts>>

Running == pc \in {"origin", "resolve", "channel"}

\* The resolver returns an error, and new() with it.
ResolverFails ==
    /\ Running
    /\ pc' = "resolver failed"
    /\ UNCHANGED <<resolver, origin, path, ticket_issuer, keys, addrs, source, seen_facts>>

(* The resolver's view of the chain                                         *)

Changes ==
    /\ Running
    /\ changes < MaxChanges
    /\ changes' = changes + 1
    /\ bound' = bound \cup Bindings(registry')
    /\ opened' = opened \cup open'
    /\ UNCHANGED <<origin, path, pc, ticket_issuer, keys, addrs, source>>

ChannelChanges ==
    /\ \E e \in Edge : open' = open \cup {e} \/ open' = open \ {e}
    /\ UNCHANGED registry
    /\ Changes

\* A node announces another key.
KeyChanges ==
    /\ \E k \in OffchainPublicKey, a \in Address :
        registry' = [registry EXCEPT !.addrOf[k] = a, !.keyOf[a] = k]
    /\ UNCHANGED open
    /\ Changes

Next == ResolveOrigin \/ ResolveHop \/ CheckChannel \/ ResolverFails
        \/ ChannelChanges \/ KeyChanges

Spec == Init /\ [][Next]_vars

-----------------------------------------------------------------------------
(* Properties                                                               *)

\* The edges on which a packet along route addrs from issuer first needs a channel:
\* all but the last, which carries no ticket.
PaidEdges(first, as) ==
    {<<IF i = 1 THEN first ELSE as[i - 1], as[i]>> : i \in 1 .. Len(as) - 1}

\* What a valid path is, without the order of the checks: all nodes are known, no
\* address comes twice, the first hop is not the origin, and the channels are open.
Valid ==
    LET as == [i \in 1 .. Len(path) |-> AddressOf(path[i])] IN
    /\ path # <<>>
    /\ AddressOf(origin) # None /\ \A i \in 1 .. Len(path) :
            AddressOf(path[i]) # None /\ KeyOf(path[i]) # None
    /\ IsInjective(as) /\ as[1] # AddressOf(origin)
    /\ PaidEdges(AddressOf(origin), as) \subseteq open

\* While the chain stands still, the hop-by-hop validation accepts exactly the valid
\* paths, and the two halves of the result are the two names of the same nodes.
DecidesValidity ==
    changes = 0 =>
        /\ pc = "refused" => ~Valid
        /\ pc = "ok" => /\ Valid
                        /\ \A i \in 1 .. Len(path) :
                            addrs[i] = AddressOf(path[i]) /\ keys[i] = KeyOf(path[i])

\* However the chain changes between the awaits, an accepted path has one key and one
\* address per hop, visits no address twice and does not return to its origin at once.
AcceptedIsLoopFree ==
    pc = "ok" =>
        /\ Len(keys) = Len(path) /\ Len(addrs) = Len(path)
        /\ IsInjective(addrs) /\ addrs[1] # source

\* However the chain changes, everything an accepted path relies on was true at some
\* moment of the validation: each key was bound to the address at its place, and each
\* channel but the last was open.
AcceptedWasTrue ==
    pc = "ok" =>
        /\ \A i \in 1 .. Len(path) : <<keys[i], addrs[i]>> \in bound
        /\ PaidEdges(source, addrs) \subseteq opened
=============================================================================
