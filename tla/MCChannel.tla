------------------------------ MODULE MCChannel ------------------------------
(* Instances for TLC of the two modules in which a node follows the chain:  *)
(* Channel and Services share nothing but the chain, so that each behaviour *)
(* of FollowSpec runs one of them while the other waits at its start.       *)
EXTENDS Channel, TLC

CONSTANTS ServiceTypes, Node, Safe, Owner, MetadataValue, MetadataLength, MaxLength, MaxLogs, MaxBlock

VARIABLES block, entries, types, log, start, read, mirror, known

MCMetadata == [value : MetadataValue, length : MetadataLength]

S == INSTANCE Services WITH Metadata <- MCMetadata, MaxTime <- MaxBlock

\* None is neither an entry nor an event.
ASSUME FollowAssumption ==
    /\ MetadataLength \subseteq Nat /\ MaxLength \in Nat
    /\ None \notin S!Entry
    /\ None \notin [kind : {"Registered", "Updated"}, key : S!Key, entry : S!Entry]
    /\ None \notin [kind : {"ServiceDeregistered"}, key : S!Key]
    /\ None \notin [kind : {"ServiceTypeRegistered", "ServiceTypeOwnerChanged"},
                    type : ServiceTypes, owner : S!TypeOwner]

MirrorAgrees == S!MirrorAgrees
ServicesTypeOK == S!TypeOK

FollowInit == Init /\ S!Init

serviceVars == <<block, entries, types, log, start, read, mirror, known>>

FollowNext ==
    \/ Next /\ block = 1 /\ log = <<>> /\ UNCHANGED serviceVars
    \/ S!Next /\ Init /\ UNCHANGED vars

FollowSpec == FollowInit /\ [][FollowNext]_<<vars, serviceVars>>
=============================================================================
