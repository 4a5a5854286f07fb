------------------------ MODULE PathValidation_proofs ------------------------
(***************************************************************************)
(* What the path validation promises for paths of any length, any          *)
(* registries and any changes of the resolver's view.                      *)
(*                                                                         *)
(* The hops accepted so far form a valid beginning (LoopFree, WasTrue),    *)
(* and the ticket issuer is the hop before the next one (Shape).  As long  *)
(* as nothing changed the beginning is also what Valid asks for, and every *)
(* refusal names a part of Valid that fails (Still).                       *)
(***************************************************************************)
EXTENDS PathValidation, SequenceTheorems, TLAPS

\* The node that issues the ticket to hop i.
IssuerAt(i) == IF i = 1 THEN source ELSE addrs[i - 1]

Shape ==
    /\ Len(keys) = Len(addrs) /\ Len(addrs) <= Len(path)
    /\ pc = "origin" => Len(addrs) = 0
    /\ pc \in {"resolve", "channel", "ok"} => source \in Address
    /\ pc = "resolve" => Len(addrs) < Len(path) /\ ticket_issuer = IssuerAt(Len(addrs) + 1)
    /\ pc = "channel" => Len(addrs) \in 1 .. Len(path) - 1 /\ ticket_issuer = IssuerAt(Len(addrs))
    /\ pc = "ok" => Len(addrs) = Len(path) /\ path # <<>>

LoopFree ==
    /\ \A i, j \in 1 .. Len(addrs) : addrs[i] = addrs[j] => i = j
    /\ \A i \in 1 .. Len(addrs) : i = 1 => addrs[i] # source

\* The hops to which a channel was found open.
Paid == IF pc = "resolve" THEN 1 .. Len(addrs) ELSE 1 .. Len(addrs) - 1

WasTrue ==
    /\ Bindings(registry) \subseteq bound /\ open \subseteq opened
    /\ \A i \in 1 .. Len(addrs) : <<keys[i], addrs[i]>> \in bound
    /\ \A i \in Paid : <<IssuerAt(i), addrs[i]>> \in opened

Still ==
    changes = 0 =>
        /\ \A i \in 1 .. Len(addrs) : addrs[i] = AddressOf(path[i]) /\ keys[i] = KeyOf(path[i])
        /\ pc \in {"resolve", "channel", "ok"} => source = AddressOf(origin)
        /\ \A i \in Paid : <<IssuerAt(i), addrs[i]>> \in open
        /\ pc = "refused" => ~Valid

IInv == TypeOK /\ Shape /\ LoopFree /\ WasTrue /\ Still

-----------------------------------------------------------------------------
\* Types of what the variables hold, as the steps need them.
LEMMA Types ==
    ASSUME TypeOK
    PROVE  /\ path \in Seq(NodeId) /\ Len(path) \in Nat /\ origin \in NodeId
           /\ Len(addrs) \in Nat /\ Len(keys) \in Nat
           /\ \A i \in 1 .. Len(addrs) : addrs[i] \in Address
           /\ DOMAIN addrs = 1 .. Len(addrs)
           /\ \A i \in 1 .. Len(path) : path[i] \in NodeId
           /\ path # <<>> <=> Len(path) > 0
<1>1. path \in Seq(NodeId) /\ origin \in NodeId
    BY NodeAssumption DEF TypeOK
<1>2. addrs \in Seq(Address) /\ keys \in Seq(OffchainPublicKey)
    BY DEF TypeOK
<1> QED
    BY <1>1, <1>2, LenProperties, ElementOfSeq, EmptySeq

\* The two names of a node, where it has them, and that the registry binds them.
LEMMA NamesOf ==
    ASSUME TypeOK, NEW n \in NodeId
    PROVE  /\ AddressOf(n) \in Address \cup {None} /\ KeyOf(n) \in OffchainPublicKey \cup {None}
           /\ ~Unknown(n) => /\ AddressOf(n) \in Address /\ KeyOf(n) \in OffchainPublicKey
                             /\ <<KeyOf(n), AddressOf(n)>> \in Bindings(registry)
<1>1. /\ registry.addrOf \in [OffchainPublicKey -> Address \cup {None}]
      /\ registry.keyOf \in [Address -> OffchainPublicKey \cup {None}]
    BY DEF TypeOK, Registry
<1>2. AddressOf(n) \in Address \cup {None} /\ KeyOf(n) \in OffchainPublicKey \cup {None}
    BY <1>1 DEF AddressOf, KeyOf, NodeId
<1>3. ASSUME ~Unknown(n)
      PROVE  /\ AddressOf(n) \in Address /\ KeyOf(n) \in OffchainPublicKey
             /\ <<KeyOf(n), AddressOf(n)>> \in Bindings(registry)
    <2>1. AddressOf(n) \in Address /\ KeyOf(n) \in OffchainPublicKey
        BY <1>2, <1>3 DEF Unknown
    <2>2. registry.addrOf[KeyOf(n)] = AddressOf(n) \/ registry.keyOf[AddressOf(n)] = KeyOf(n)
        BY DEF AddressOf, KeyOf
    <2> QED
        BY <2>1, <2>2 DEF Bindings
<1> QED
    BY <1>2, <1>3

\* What Valid says of the hops.
LEMMA ValidHops ==
    ASSUME TypeOK, Valid
    PROVE  /\ path # <<>> /\ AddressOf(origin) # None
           /\ \A i \in 1 .. Len(path) : ~Unknown(path[i])
           /\ \A i, j \in 1 .. Len(path) : AddressOf(path[i]) = AddressOf(path[j]) => i = j
           /\ AddressOf(path[1]) # AddressOf(origin)
           /\ \A i \in 1 .. Len(path) - 1 :
                 <<IF i = 1 THEN AddressOf(origin) ELSE AddressOf(path[i - 1]), AddressOf(path[i])>>
                     \in open
<1> DEFINE as == [i \in 1 .. Len(path) |-> AddressOf(path[i])]
<1>1. Len(path) \in Nat /\ path # <<>> /\ Len(path) > 0
    BY Types DEF Valid
<1>2. as \in [1 .. Len(path) -> Address \cup {None}]
    BY Types, NamesOf
<1>3. Len(as) = Len(path) /\ DOMAIN as = 1 .. Len(path)
    <2>1. as \in Seq(Address \cup {None})
        BY <1>1, <1>2, SeqDef
    <2> QED
        BY <1>1, <2>1, LenProperties
<1>4. /\ AddressOf(origin) # None
      /\ \A i \in 1 .. Len(path) : AddressOf(path[i]) # None /\ KeyOf(path[i]) # None
      /\ IsInjective(as) /\ as[1] # AddressOf(origin)
      /\ PaidEdges(AddressOf(origin), as) \subseteq open
    BY DEF Valid
<1>5. \A i \in 1 .. Len(path) - 1 :
         <<IF i = 1 THEN AddressOf(origin) ELSE as[i - 1], as[i]>> \in open
    BY <1>3, <1>4 DEF PaidEdges
<1>6. \A i \in 1 .. Len(path) : as[i] = AddressOf(path[i])
    OBVIOUS
<1> HIDE DEF as
<1>7. \A i, j \in 1 .. Len(path) : AddressOf(path[i]) = AddressOf(path[j]) => i = j
    BY <1>3, <1>4, <1>6 DEF IsInjective
<1>8. ASSUME NEW i \in 1 .. Len(path) - 1
      PROVE  <<IF i = 1 THEN AddressOf(origin) ELSE AddressOf(path[i - 1]), AddressOf(path[i])>>
                 \in open
    <2>1. i \in 1 .. Len(path) /\ (i # 1 => i - 1 \in 1 .. Len(path))
        BY <1>1
    <2> QED
        BY <1>5, <1>6, <2>1
<1>9. AddressOf(path[1]) # AddressOf(origin)
    <2>1. 1 \in 1 .. Len(path)
        BY <1>1
    <2> QED
        BY <1>4, <1>6, <2>1
<1> QED
    BY <1>1, <1>4, <1>7, <1>8, <1>9 DEF Unknown

-----------------------------------------------------------------------------
LEMMA InitIInv == Init => IInv
<1> SUFFICES ASSUME Init PROVE IInv
    OBVIOUS
<1>1. keys = <<>> /\ addrs = <<>> /\ Len(<<>>) = 0
    BY DEF Init
<1>2. <<>> \in Seq(OffchainPublicKey) /\ <<>> \in Seq(Address)
    OBVIOUS
<1>3. registry \in Registry /\ Bindings(registry) \subseteq OffchainPublicKey \X Address
    BY RegistryAssumption DEF Init, Bindings
<1>4. TypeOK
    BY <1>1, <1>2, <1>3, ChangesAssumption DEF Init, TypeOK
<1>5. Len(path) \in Nat
    BY <1>4, Types
<1> QED
    BY <1>1, <1>4, <1>5 DEF Init, IInv, Shape, LoopFree, WasTrue, Paid, Still

LEMMA ResolveOriginKeepsIInv == IInv /\ ResolveOrigin => IInv'
<1> SUFFICES ASSUME IInv, ResolveOrigin PROVE IInv'
    OBVIOUS
<1>1. /\ TypeOK /\ Shape /\ WasTrue /\ pc = "origin" /\ Len(addrs) = 0
      /\ UNCHANGED <<registry, open, changes, origin, path, keys, addrs, bound, opened>>
      /\ ticket_issuer' = AddressOf(origin) /\ source' = AddressOf(origin)
      /\ pc' = IF path = <<>> \/ AddressOf(origin) = None THEN "refused" ELSE "resolve"
    BY DEF IInv, Shape, ResolveOrigin, resolver, seen_facts
<1>2. AddressOf(origin) \in Address \cup {None}
    BY <1>1, Types, NamesOf
<1>3. TypeOK'
    BY <1>1, <1>2 DEF TypeOK
<1>4. Shape'
    BY <1>1, <1>2, Types DEF Shape, IssuerAt
<1>5. LoopFree' /\ WasTrue'
    BY <1>1 DEF LoopFree, WasTrue, Paid
<1>6. Still'
    <2>1. pc' = "refused" => ~Valid
        BY <1>1, ValidHops
    <2>2. Valid' <=> Valid
        BY <1>1 DEF Valid, AddressOf, KeyOf
    <2>3. AddressOf(origin)' = AddressOf(origin)
        BY <1>1 DEF AddressOf
    <2> QED
        BY <1>1, <2>1, <2>2, <2>3 DEF Still, Paid
<1> QED
    BY <1>3, <1>4, <1>5, <1>6 DEF IInv

\* A beginning that is one shorter is a beginning.
LEMMA Shorter == ASSUME NEW n \in Nat PROVE 1 .. n - 1 \subseteq 1 .. n
OBVIOUS

\* A refusal is no step of the hops: what holds of those accepted still does.
LEMMA RefusalKeepsIInv ==
    ASSUME IInv, Running, pc' \in {"refused", "resolver failed"},
           UNCHANGED <<resolver, origin, path, ticket_issuer, keys, addrs, source, seen_facts>>,
           changes = 0 /\ pc' = "refused" => ~Valid
    PROVE  IInv'
<1>1. UNCHANGED <<registry, open, changes, bound, opened, origin, path, ticket_issuer, keys, addrs,
                  source>>
    BY DEF resolver, seen_facts
<1>2. TypeOK' /\ Shape' /\ LoopFree'
    BY <1>1 DEF IInv, TypeOK, Shape, LoopFree
<1>3. Paid' \subseteq Paid /\ \A i : IssuerAt(i)' = IssuerAt(i)
    <2>1. Len(addrs) \in Nat /\ pc' # "resolve"
        BY Types DEF IInv
    <2>2. Paid' = 1 .. Len(addrs) - 1
        BY <1>1, <2>1 DEF Paid
    <2>3. \A i : IssuerAt(i)' = IssuerAt(i)
        BY <1>1 DEF IssuerAt
    <2>4. 1 .. Len(addrs) - 1 \subseteq 1 .. Len(addrs)
        BY <2>1, Shorter
    <2>5. Paid' \subseteq Paid
        BY <2>2, <2>4 DEF Paid
    <2> QED
        BY <2>3, <2>5
<1>4. WasTrue'
    BY <1>1, <1>3 DEF IInv, WasTrue
<1>5. Still'
    <2>1. Valid' <=> Valid
        BY <1>1 DEF Valid, AddressOf, KeyOf
    <2>2. \A n : AddressOf(n)' = AddressOf(n) /\ KeyOf(n)' = KeyOf(n)
        BY <1>1 DEF AddressOf, KeyOf
    <2>3. changes = 0 => \A i \in Paid' : <<IssuerAt(i)', addrs[i]>> \in open
        BY <1>3 DEF IInv, Still
    <2> QED
        BY <1>1, <2>1, <2>2, <2>3 DEF IInv, Still
<1> QED
    BY <1>2, <1>4, <1>5 DEF IInv

\* A hop that is accepted extends every list by its names and every claim by one hop.
LEMMA AcceptKeepsIInv ==
    ASSUME IInv, ResolveHop, pc' # "refused"
    PROVE  IInv'
<1> DEFINE n == Len(addrs) + 1  hop == path[n]
<1>1. /\ TypeOK /\ Shape /\ LoopFree /\ WasTrue /\ Still /\ pc = "resolve"
      /\ UNCHANGED <<registry, open, changes, bound, opened, origin, path, ticket_issuer, source>>
      /\ ~Unknown(hop) /\ ~Loops(AddressOf(hop))
      /\ keys' = Append(keys, KeyOf(hop)) /\ addrs' = Append(addrs, AddressOf(hop))
      /\ pc' = IF n < Len(path) THEN "channel" ELSE "ok"
    BY DEF IInv, ResolveHop, NeedsChannel, resolver, seen_facts
<1>2. /\ n \in 1 .. Len(path) /\ hop \in NodeId /\ Len(addrs) \in Nat /\ Len(path) \in Nat
      /\ source \in Address
    BY <1>1, Types DEF Shape
<1>3. /\ AddressOf(hop) \in Address /\ KeyOf(hop) \in OffchainPublicKey
      /\ <<KeyOf(hop), AddressOf(hop)>> \in Bindings(registry)
    BY <1>1, <1>2, NamesOf
<1> HIDE DEF hop
<1>4. /\ addrs' \in Seq(Address) /\ Len(addrs') = n
      /\ \A i \in 1 .. n : addrs'[i] = IF i = n THEN AddressOf(hop) ELSE addrs[i]
    BY <1>1, <1>2, <1>3 DEF TypeOK
<1>5. /\ keys' \in Seq(OffchainPublicKey) /\ Len(keys') = n
      /\ \A i \in 1 .. n : keys'[i] = IF i = n THEN KeyOf(hop) ELSE keys[i]
    BY <1>1, <1>2, <1>3 DEF TypeOK, Shape
<1>6. \A i \in 1 .. n : i # n => i \in 1 .. Len(addrs)
    BY <1>2
<1>7. \A i \in 1 .. n : IssuerAt(i)' = IssuerAt(i)
    <2>1. \A i \in 1 .. n : i # 1 => i - 1 \in 1 .. n /\ i - 1 # n
        BY <1>2
    <2> QED
        BY <1>1, <1>4, <2>1 DEF IssuerAt
<1>8. ticket_issuer = IssuerAt(n) /\ Paid' = 1 .. Len(addrs) /\ Paid = 1 .. Len(addrs)
    <2>1. Len(addrs') - 1 = Len(addrs) /\ pc' # "resolve"
        BY <1>1, <1>2, <1>4
    <2> QED
        BY <1>1, <2>1 DEF Shape, Paid
<1>9. TypeOK'
    BY <1>1, <1>4, <1>5 DEF TypeOK
<1>10. Shape'
    BY <1>1, <1>2, <1>4, <1>5, <1>7, <1>8, Types DEF Shape
<1>11. LoopFree'
    <2>1. \A i \in 1 .. Len(addrs) : addrs[i] # AddressOf(hop)
        BY <1>1, Types DEF Loops, ToSet
    <2>2. n = 1 => AddressOf(hop) # source
        BY <1>1, <1>8 DEF Loops, IssuerAt
    <2>3. ASSUME NEW i \in 1 .. n, NEW j \in 1 .. n, addrs'[i] = addrs'[j]
          PROVE  i = j
        BY <1>1, <1>4, <1>6, <2>1, <2>3 DEF LoopFree
    <2>4. ASSUME NEW i \in 1 .. n, i = 1
          PROVE  addrs'[i] # source
        BY <1>1, <1>4, <1>6, <2>2, <2>4 DEF LoopFree
    <2> QED
        BY <1>1, <1>4, <2>3, <2>4 DEF LoopFree
<1>12. \A i \in 1 .. Len(addrs) : i \in 1 .. n /\ i # n
    BY <1>2
<1>13. WasTrue'
    <2>1. \A i \in 1 .. n : <<keys'[i], addrs'[i]>> \in bound
        BY <1>1, <1>3, <1>4, <1>5, <1>6 DEF WasTrue
    <2>2. \A i \in Paid' : <<IssuerAt(i)', addrs'[i]>> \in opened
        BY <1>1, <1>4, <1>7, <1>8, <1>12 DEF WasTrue
    <2> QED
        BY <1>1, <1>4, <2>1, <2>2 DEF WasTrue
<1>14. Still'
    <2>1. \A m : AddressOf(m)' = AddressOf(m) /\ KeyOf(m)' = KeyOf(m)
        BY <1>1 DEF AddressOf, KeyOf
    <2>2. changes = 0 => \A i \in 1 .. n :
                addrs'[i] = AddressOf(path[i]) /\ keys'[i] = KeyOf(path[i])
        BY <1>1, <1>4, <1>5, <1>6 DEF Still, hop
    <2>3. changes = 0 => \A i \in Paid' : <<IssuerAt(i)', addrs'[i]>> \in open
        BY <1>1, <1>4, <1>7, <1>8, <1>12 DEF Still
    <2>4. changes = 0 => source = AddressOf(origin)
        BY <1>1 DEF Still
    <2> QED
        BY <1>1, <1>4, <2>1, <2>2, <2>3, <2>4 DEF Still
<1> QED
    BY <1>9, <1>10, <1>11, <1>13, <1>14 DEF IInv

\* A hop is refused for what Valid forbids, if nothing changed.
LEMMA RefusedHopIsInvalid ==
    ASSUME IInv, pc = "resolve", changes = 0, Valid,
           LET hop == path[Len(addrs) + 1] IN Unknown(hop) \/ Loops(AddressOf(hop))
    PROVE  FALSE
<1> DEFINE n == Len(addrs) + 1
<1>1. TypeOK /\ Shape /\ Still
    BY DEF IInv
<1>2. /\ n \in 1 .. Len(path) /\ Len(addrs) \in Nat /\ DOMAIN addrs = 1 .. Len(addrs)
      /\ ticket_issuer = IssuerAt(n)
    BY <1>1, Types DEF Shape
<1>3. /\ \A i \in 1 .. Len(path) : ~Unknown(path[i])
      /\ \A i, j \in 1 .. Len(path) : AddressOf(path[i]) = AddressOf(path[j]) => i = j
      /\ AddressOf(path[1]) # AddressOf(origin)
    BY <1>1, ValidHops
<1>4. /\ \A i \in 1 .. Len(addrs) : addrs[i] = AddressOf(path[i])
      /\ source = AddressOf(origin)
    BY <1>1 DEF Still
<1>5. \A i \in 1 .. Len(addrs) : i \in 1 .. Len(path) /\ i # n
    BY <1>2
<1>6. \A i \in 1 .. Len(addrs) : AddressOf(path[n]) # addrs[i]
    BY <1>2, <1>3, <1>4, <1>5
<1>7. AddressOf(path[n]) = ticket_issuer
    BY <1>2, <1>3, <1>6 DEF Loops, ToSet
<1>8. CASE n = 1
    BY <1>2, <1>3, <1>4, <1>7, <1>8 DEF IssuerAt
<1>9. CASE n # 1
    BY <1>2, <1>6, <1>7, <1>9 DEF IssuerAt
<1> QED
    BY <1>8, <1>9

LEMMA ResolveHopKeepsIInv == IInv /\ ResolveHop => IInv'
<1> SUFFICES ASSUME IInv, ResolveHop PROVE IInv'
    OBVIOUS
<1>1. CASE pc' = "refused"
    <2>1. /\ pc = "resolve"
          /\ LET hop == path[Len(addrs) + 1] IN Unknown(hop) \/ Loops(AddressOf(hop))
          /\ UNCHANGED <<resolver, origin, path, ticket_issuer, keys, addrs, source, seen_facts>>
        BY <1>1 DEF ResolveHop
    <2>2. changes = 0 => ~Valid
        BY <2>1, RefusedHopIsInvalid
    <2> QED
        BY <1>1, <2>1, <2>2, RefusalKeepsIInv DEF Running
<1> QED
    BY <1>1, AcceptKeepsIInv

LEMMA CheckChannelKeepsIInv == IInv /\ CheckChannel => IInv'
<1> SUFFICES ASSUME IInv, CheckChannel PROVE IInv'
    OBVIOUS
<1> DEFINE n == Len(addrs)
<1>1. /\ TypeOK /\ Shape /\ LoopFree /\ WasTrue /\ Still /\ pc = "channel"
      /\ UNCHANGED <<registry, open, changes, bound, opened, origin, path, keys, addrs, source>>
    BY DEF IInv, CheckChannel, resolver, seen_facts
<1>2. /\ n \in 1 .. Len(path) - 1 /\ n \in Nat /\ Len(path) \in Nat /\ addrs[n] \in Address
      /\ ticket_issuer = IssuerAt(n) /\ Last(addrs) = addrs[n]
    BY <1>1, Types DEF Shape, Last
<1>3. CASE ~ChannelIsOpen
    <2>1. pc' = "refused" /\ ticket_issuer' = ticket_issuer
        BY <1>1, <1>3 DEF CheckChannel
    <2>2. changes = 0 => ~Valid
        <3> SUFFICES ASSUME changes = 0, Valid PROVE FALSE
            OBVIOUS
        <3>1. <<IF n = 1 THEN AddressOf(origin) ELSE AddressOf(path[n - 1]), AddressOf(path[n])>>
                  \in open
            BY <1>1, <1>2, ValidHops
        <3>2. addrs[n] = AddressOf(path[n]) /\ (n # 1 => addrs[n - 1] = AddressOf(path[n - 1]))
            <4>1. n \in 1 .. n /\ (n # 1 => n - 1 \in 1 .. n)
                <5>1. n \in Nat /\ n >= 1
                    BY <1>2
                <5> HIDE DEF n
                <5> QED
                    BY <5>1
            <4> QED
                BY <1>1, <4>1 DEF Still
        <3>3. source = AddressOf(origin)
            BY <1>1 DEF Still
        <3>4. <<ticket_issuer, addrs[n]>> \in open
            BY <1>2, <3>1, <3>2, <3>3 DEF IssuerAt
        <3> QED
            BY <1>2, <1>3, <3>4 DEF ChannelIsOpen
    <2> QED
        BY <1>1, <2>1, <2>2, RefusalKeepsIInv DEF Running, CheckChannel
<1>4. CASE ChannelIsOpen
    <2>1. ticket_issuer' = addrs[n] /\ pc' = "resolve"
        BY <1>1, <1>2, <1>4 DEF CheckChannel
    <2>2. \A i : IssuerAt(i)' = IssuerAt(i)
        BY <1>1 DEF IssuerAt
    <2>3. Paid' = 1 .. n /\ Paid = 1 .. n - 1
        BY <1>1, <2>1 DEF Paid
    <2>4. TypeOK'
        BY <1>1, <1>2, <2>1 DEF TypeOK
    <2>5. Shape'
        <3>1. IssuerAt(n + 1) = addrs[n]
            BY <1>2 DEF IssuerAt
        <3>2. n < Len(path)
            BY <1>2
        <3> QED
            BY <1>1, <2>1, <2>2, <3>1, <3>2 DEF Shape
    <2>6. LoopFree'
        BY <1>1 DEF LoopFree
    <2>7. <<IssuerAt(n), addrs[n]>> \in open
        BY <1>2, <1>4 DEF ChannelIsOpen
    <2>8. \A i \in Paid' : i \in Paid \/ i = n
        BY <1>2, <2>3
    <2>9. WasTrue'
        <3>1. \A i \in Paid' : <<IssuerAt(i)', addrs[i]>> \in opened
            BY <1>1, <2>2, <2>7, <2>8 DEF WasTrue
        <3> QED
            BY <1>1, <3>1 DEF WasTrue
    <2>10. Still'
        <3>1. \A m : AddressOf(m)' = AddressOf(m) /\ KeyOf(m)' = KeyOf(m)
            BY <1>1 DEF AddressOf, KeyOf
        <3>2. changes = 0 => \A i \in Paid' : <<IssuerAt(i)', addrs[i]>> \in open
            BY <1>1, <2>2, <2>7, <2>8 DEF Still
        <3> QED
            BY <1>1, <2>1, <3>1, <3>2 DEF Still
    <2> QED
        BY <2>4, <2>5, <2>6, <2>9, <2>10 DEF IInv
<1> QED
    BY <1>3, <1>4

LEMMA ResolverFailsKeepsIInv == IInv /\ ResolverFails => IInv'
BY RefusalKeepsIInv DEF ResolverFails

\* A change of the view leaves the validation alone, and history keeps what was true.
LEMMA ChangesKeepIInv ==
    ASSUME IInv, Changes, registry' \in Registry, open' \subseteq Edge
    PROVE  IInv'
<1>1. /\ TypeOK /\ Shape /\ LoopFree /\ WasTrue
      /\ UNCHANGED <<origin, path, pc, ticket_issuer, keys, addrs, source>>
      /\ changes' = changes + 1 /\ changes < MaxChanges
      /\ bound' = bound \cup Bindings(registry') /\ opened' = opened \cup open'
    BY DEF IInv, Changes
<1>2. Bindings(registry') \subseteq OffchainPublicKey \X Address
    BY DEF Bindings
<1>3. TypeOK'
    <2>1. changes \in 0 .. MaxChanges
        BY <1>1 DEF TypeOK
    <2>2. changes' \in 0 .. MaxChanges /\ changes' # 0
        BY <1>1, <2>1, ChangesAssumption
    <2> QED
        BY <1>1, <1>2, <2>2 DEF TypeOK
<1>4. Shape' /\ LoopFree'
    BY <1>1 DEF Shape, LoopFree, IssuerAt
<1>5. \A i : IssuerAt(i)' = IssuerAt(i)
    BY <1>1 DEF IssuerAt
<1>6. Bindings(registry)' = Bindings(registry') /\ Paid' = Paid
    BY <1>1 DEF Bindings, Paid
<1>7. WasTrue'
    BY <1>1, <1>5, <1>6 DEF WasTrue
<1>8. Still'
    <2>1. changes \in 0 .. MaxChanges
        BY <1>1 DEF TypeOK
    <2>2. changes' # 0
        BY <1>1, <2>1, ChangesAssumption
    <2> QED
        BY <2>2 DEF Still
<1> QED
    BY <1>3, <1>4, <1>7, <1>8 DEF IInv

LEMMA ChannelChangesKeepsIInv == IInv /\ ChannelChanges => IInv'
<1> SUFFICES ASSUME IInv, ChannelChanges PROVE IInv'
    OBVIOUS
<1>1. registry' \in Registry /\ open' \subseteq Edge /\ Changes
    BY DEF IInv, TypeOK, ChannelChanges
<1> QED
    BY <1>1, ChangesKeepIInv

LEMMA KeyChangesKeepsIInv == IInv /\ KeyChanges => IInv'
<1> SUFFICES ASSUME IInv, KeyChanges PROVE IInv'
    OBVIOUS
<1>1. PICK k \in OffchainPublicKey, a \in Address :
         registry' = [registry EXCEPT !.addrOf[k] = a, !.keyOf[a] = k]
    BY DEF KeyChanges
<1>2. /\ registry.addrOf \in [OffchainPublicKey -> Address \cup {None}]
      /\ registry.keyOf \in [Address -> OffchainPublicKey \cup {None}]
      /\ registry \in Registry
    BY DEF IInv, TypeOK, Registry
<1>3. registry' = [addrOf |-> [registry.addrOf EXCEPT ![k] = a],
                   keyOf |-> [registry.keyOf EXCEPT ![a] = k]]
    BY <1>1, <1>2 DEF Registry
<1>4. registry' \in Registry
    BY <1>2, <1>3 DEF Registry
<1> QED
    BY <1>4, ChangesKeepIInv DEF KeyChanges, IInv, TypeOK

LEMMA NextIInv == IInv /\ [Next]_vars => IInv'
<1> SUFFICES ASSUME IInv, [Next]_vars PROVE IInv'
    OBVIOUS
<1>1. CASE UNCHANGED vars
    <2>1. UNCHANGED <<registry, open, changes, bound, opened, origin, path, ticket_issuer, keys,
                      addrs, source, pc>>
        BY <1>1 DEF vars, resolver, seen_facts
    <2>2. TypeOK' /\ Shape' /\ LoopFree' /\ WasTrue'
        BY <2>1 DEF IInv, TypeOK, Shape, LoopFree, WasTrue, Paid, IssuerAt, Bindings
    <2>3. Still'
        BY <2>1 DEF IInv, Still, Paid, IssuerAt, Valid, AddressOf, KeyOf
    <2> QED
        BY <2>2, <2>3 DEF IInv
<1> QED
    BY <1>1, ResolveOriginKeepsIInv, ResolveHopKeepsIInv, CheckChannelKeepsIInv,
       ResolverFailsKeepsIInv, ChannelChangesKeepsIInv, KeyChangesKeepsIInv DEF Next

LEMMA Invariance == Spec => []IInv
BY InitIInv, NextIInv, PTL DEF Spec

-----------------------------------------------------------------------------
\* A path that is done and of which nothing changed is valid, with its two names.
LEMMA DoneIsValid ==
    ASSUME IInv, pc = "ok", changes = 0
    PROVE  /\ Valid
           /\ \A i \in 1 .. Len(path) : addrs[i] = AddressOf(path[i]) /\ keys[i] = KeyOf(path[i])
<1> DEFINE as == [i \in 1 .. Len(path) |-> AddressOf(path[i])]
<1>1. /\ TypeOK /\ Shape /\ LoopFree /\ Still
      /\ Len(addrs) = Len(path) /\ path # <<>> /\ source \in Address
      /\ Len(path) \in Nat /\ Len(path) > 0 /\ Len(keys) = Len(addrs)
    BY Types DEF IInv, Shape
<1>2. /\ \A i \in 1 .. Len(path) : addrs[i] = AddressOf(path[i]) /\ keys[i] = KeyOf(path[i])
      /\ source = AddressOf(origin)
      /\ \A i \in 1 .. Len(path) - 1 : <<IssuerAt(i), addrs[i]>> \in open
    BY <1>1 DEF Still, Paid
<1>3. addrs \in [1 .. Len(path) -> Address] /\ keys \in [1 .. Len(path) -> OffchainPublicKey]
    BY <1>1, LenProperties DEF TypeOK
<1>4. as = addrs
    BY <1>2, <1>3
<1>5. \A i \in 1 .. Len(path) : AddressOf(path[i]) # None /\ KeyOf(path[i]) # None
    BY <1>2, <1>3, NodeAssumption DEF NodeId
<1>6. IsInjective(addrs)
    BY <1>1, <1>3 DEF LoopFree, IsInjective
<1>7. addrs[1] # AddressOf(origin) /\ AddressOf(origin) # None
    BY <1>1, <1>2, NodeAssumption DEF LoopFree, NodeId
<1>8. PaidEdges(AddressOf(origin), addrs) \subseteq open
    BY <1>1, <1>2 DEF PaidEdges, IssuerAt
<1> HIDE DEF as
<1>9. Valid
    BY <1>1, <1>4, <1>5, <1>6, <1>7, <1>8 DEF Valid, as
<1> QED
    BY <1>2, <1>9

\* The variables of ValidatedPath::new keep their types, for paths of any length.
THEOREM TypeCorrect == Spec => []TypeOK
<1>1. IInv => TypeOK
    BY DEF IInv
<1> QED
    BY <1>1, Invariance, PTL

\* ValidatedPath::new decides validity hop by hop while the chain stands still.
THEOREM ValidationDecides == Spec => []DecidesValidity
<1>1. IInv => DecidesValidity
    BY DoneIsValid DEF IInv, Still, DecidesValidity
<1> QED
    BY <1>1, Invariance, PTL

\* No accepted path visits an address twice, however the chain changes meanwhile.
THEOREM AcceptedPathsAreLoopFree == Spec => []AcceptedIsLoopFree
<1>1. IInv => AcceptedIsLoopFree
    <2> SUFFICES ASSUME IInv, pc = "ok"
                 PROVE  /\ Len(keys) = Len(path) /\ Len(addrs) = Len(path)
                        /\ IsInjective(addrs) /\ addrs[1] # source
        BY DEF AcceptedIsLoopFree
    <2>1. /\ Len(keys) = Len(path) /\ Len(addrs) = Len(path) /\ 1 \in 1 .. Len(addrs)
          /\ DOMAIN addrs = 1 .. Len(addrs)
        BY Types DEF IInv, Shape
    <2> QED
        BY <2>1 DEF IInv, LoopFree, IsInjective
<1> QED
    BY <1>1, Invariance, PTL

\* All that an accepted path relies on was true at some moment of its validation.
THEOREM AcceptedPathsWereTrue == Spec => []AcceptedWasTrue
<1>1. IInv => AcceptedWasTrue
    <2> SUFFICES ASSUME IInv, pc = "ok"
                 PROVE  /\ \A i \in 1 .. Len(path) : <<keys[i], addrs[i]>> \in bound
                        /\ PaidEdges(source, addrs) \subseteq opened
        BY DEF AcceptedWasTrue
    <2>1. Len(addrs) = Len(path) /\ Paid = 1 .. Len(addrs) - 1
        BY DEF IInv, Shape, Paid
    <2> QED
        BY <2>1 DEF IInv, WasTrue, PaidEdges, IssuerAt
<1> QED
    BY <1>1, Invariance, PTL
=============================================================================
