--------------------------- MODULE MCPathValidation ---------------------------
(* Instances of PathValidation for TLC.                                     *)
EXTENDS PathValidation, TLC

CONSTANTS a, b, c, ka, kb, kc

\* One node did not announce its key; a second key leads to the address of another
\* node, as after a change of keys.
OneSilent == [addrOf |-> (ka :> a @@ kb :> b @@ kc :> None),
              keyOf |-> (a :> ka @@ b :> kb @@ c :> None)]
Aliased == [addrOf |-> (ka :> a @@ kb :> b @@ kc :> b),
            keyOf |-> (a :> ka @@ b :> kb @@ c :> kc)]

SomeRegistries == {OneSilent, Aliased}

\* Every path of up to two hops over both kinds of names, and every path of three hops
\* over one kind, as the callers have them (ChannelPath and TransportPath).
Paths == BoundedSeq(NodeId, 2) \cup [1 .. 3 -> Address] \cup [1 .. 3 -> OffchainPublicKey]
=============================================================================
