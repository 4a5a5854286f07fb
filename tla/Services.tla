------------------------------ MODULE Services ------------------------------
(***************************************************************************)
(* The types of the service registry (src/internal/service.rs) and the     *)
(* events that carry them (src/chain/chain_events.rs).  A node that        *)
(* follows the registry converts each of its logs to a ChainEvent and      *)
(* keeps a copy of the entries.  An Updated log leaves out when the entry  *)
(* was registered; the copy keeps the time it knows, and a node that began *)
(* to follow after the registration knows none.                            *)
(*                                                                         *)
(* The contract and the keeping of the copy are external; both are taken   *)
(* from what service.rs and chain_events.rs say of them.  Times are in     *)
(* seconds, metadata is told apart by a value and its length.              *)
(***************************************************************************)
EXTENDS Integers, Sequences

CONSTANTS
    ServiceTypes,   \* the ids in use
    Node, Safe, Owner,
    Metadata,       \* [value, length] of the metadata in use
    MaxLength,      \* ServiceMetadata::MAX_LENGTH
    None,
    MaxTime,        \* bound: block time
    MaxLogs         \* bound: logs of the registry

VARIABLES
    block,          \* time of the current block
    entries, types, \* the contract: entries by type and node; types with their owner
    log,            \* what the contract emitted
    start, read,    \* the node: the logs it skipped, and those it has processed
    mirror, known   \* the node: its copy of the entries and of the types

vars == <<block, entries, types, log, start, read, mirror, known>>

Key == ServiceTypes \X Node
ServiceMetadata == {m \in Metadata : m.length <= MaxLength}
Entry == [safe : Safe, metadata : ServiceMetadata, registered_at : Nat, updated_at : Nat]
Abandoned == "abandoned"
TypeOwner == Owner \cup {Abandoned}

TypeOK ==
    /\ block \in 1 .. MaxTime
    /\ entries \in [Key -> Entry \cup {None}] /\ mirror \in [Key -> Entry \cup {None}]
    /\ types \in [ServiceTypes -> TypeOwner \cup {None}]
    /\ known \in [ServiceTypes -> TypeOwner \cup {None}]
    /\ start \in 0 .. read /\ read \in 0 .. Len(log)

-----------------------------------------------------------------------------
(* Conversion of logs                                                       *)

\* A slip: an entry that was never updated is refused.
ServiceEntryStrict(safe, metadata, registered_at, updated_at) ==
    IF registered_at <= 0 \/ updated_at <= registered_at \/ metadata.length > MaxLength
      THEN None
      ELSE [safe |-> safe, metadata |-> metadata,
            registered_at |-> registered_at, updated_at |-> updated_at]

\* ServiceEntry::new with the conversion of its metadata; None is an error.
ServiceEntry(safe, metadata, registered_at, updated_at) ==
    IF registered_at <= 0 \/ updated_at < registered_at \/ metadata.length > MaxLength
      THEN None
      ELSE [safe |-> safe, metadata |-> metadata,
            registered_at |-> registered_at, updated_at |-> updated_at]

\* TryFrom<&Registered>: the event has one time, which is both.
FromRegistered(e) == ServiceEntry(e.safe, e.metadata, e.at, e.at)

\* A slip: the time an Updated log does not have is read as zero.
FromUpdatedZero(e) == ServiceEntry(e.safe, e.metadata, 0, e.at)

\* TryFrom<&Updated>: the time of the update stands for both.
FromUpdated(e) == ServiceEntry(e.safe, e.metadata, e.at, e.at)

\* The ChainEvent of a log, or None if the conversion fails.
ChainEvent(e) ==
    LET entry == IF e.kind = "Registered" THEN FromRegistered(e) ELSE FromUpdated(e)
    IN  IF e.kind \notin {"Registered", "Updated"} THEN e
        ELSE IF entry = None THEN None
        ELSE [kind |-> e.kind, key |-> e.key, entry |-> entry]

-----------------------------------------------------------------------------
(* The contract                                                             *)

Init ==
    /\ block = 1
    /\ entries = [k \in Key |-> None] /\ mirror = entries
    /\ types = [t \in ServiceTypes |-> None] /\ known = types
    /\ log = <<>> /\ start = 0 /\ read = 0

Tick ==
    /\ block < MaxTime
    /\ block' = block + 1
    /\ UNCHANGED <<entries, types, log, start, read, mirror, known>>

Emit(e) ==
    /\ Len(log) < MaxLogs
    /\ log' = Append(log, e)
    /\ UNCHANGED <<block, start, read, mirror, known>>

RegisterServiceType(t, owner) ==
    /\ types[t] = None
    /\ types' = [types EXCEPT ![t] = owner]
    /\ Emit([kind |-> "ServiceTypeRegistered", type |-> t, owner |-> owner])
    /\ UNCHANGED entries

\* An abandoned type has no owner ever after.
ChangeOwner(t, owner) ==
    /\ types[t] \notin {None, Abandoned, owner}
    /\ types' = [types EXCEPT ![t] = owner]
    /\ Emit([kind |-> "ServiceTypeOwnerChanged", type |-> t, owner |-> owner])
    /\ UNCHANGED entries

Write(kind, k, safe, metadata, registered_at) ==
    /\ entries' = [entries EXCEPT ![k] = [safe |-> safe, metadata |-> metadata,
                                          registered_at |-> registered_at, updated_at |-> block]]
    /\ Emit([kind |-> kind, key |-> k, safe |-> safe, metadata |-> metadata, at |-> block])
    /\ UNCHANGED types

Register(k, safe, metadata) ==
    /\ types[k[1]] # None /\ entries[k] = None
    /\ Write("Registered", k, safe, metadata, block)

Update(k, safe, metadata) ==
    /\ entries[k] # None
    /\ Write("Updated", k, safe, metadata, entries[k].registered_at)

Deregister(k) ==
    /\ entries[k] # None
    /\ entries' = [entries EXCEPT ![k] = None]
    /\ Emit([kind |-> "ServiceDeregistered", key |-> k])
    /\ UNCHANGED types

-----------------------------------------------------------------------------
(* The node                                                                 *)

\* It begins to follow after some logs were emitted.
StartLate ==
    /\ read = 0 /\ log # <<>>
    /\ read' = Len(log) /\ start' = Len(log)
    /\ UNCHANGED <<block, entries, types, log, mirror, known>>

\* A consumer that holds the entry keeps its own registered_at.
Kept(k, entry) ==
    IF mirror[k] = None THEN entry ELSE [entry EXCEPT !.registered_at = mirror[k].registered_at]

Follow ==
    /\ read < Len(log)
    /\ read' = read + 1
    /\ LET e == ChainEvent(log[read + 1])
       IN  /\ mirror' = IF e = None THEN mirror ELSE
                CASE e.kind = "Registered" -> [mirror EXCEPT ![e.key] = e.entry]
                  [] e.kind = "Updated" -> [mirror EXCEPT ![e.key] = Kept(e.key, e.entry)]
                  [] e.kind = "ServiceDeregistered" -> [mirror EXCEPT ![e.key] = None]
                  [] OTHER -> mirror
           /\ known' = IF e # None /\ e.kind \in {"ServiceTypeRegistered", "ServiceTypeOwnerChanged"}
                         THEN [known EXCEPT ![e.type] = e.owner] ELSE known
    /\ UNCHANGED <<block, entries, types, log, start>>

Next ==
    \/ Tick
    \/ \E t \in ServiceTypes :
          \/ \E owner \in Owner : RegisterServiceType(t, owner)
          \/ \E owner \in TypeOwner : ChangeOwner(t, owner)
    \/ \E k \in Key : \E safe \in Safe, metadata \in ServiceMetadata :
          \/ Register(k, safe, metadata)
          \/ Update(k, safe, metadata)
    \/ \E k \in Key : Deregister(k)
    \/ StartLate
    \/ Follow

Spec == Init /\ [][Next]_vars

-----------------------------------------------------------------------------
\* The logs the node saw that write this entry.
Writes(k) ==
    {i \in start + 1 .. read : log[i].kind \in {"Registered", "Updated"} /\ log[i].key = k}

\* The conversions of the logs: once a node has processed every log its copy is the
\* registry.  A node that started late has the entries written since, with a registered_at
\* that is never before the true one and never after updated_at.
MirrorAgrees ==
    read = Len(log) =>
        /\ start = 0 => mirror = entries /\ known = types
        /\ \A k \in Key :
              IF entries[k] = None \/ Writes(k) = {}
                THEN mirror[k] = None
                ELSE /\ mirror[k] # None
                     /\ mirror[k] = [entries[k] EXCEPT !.registered_at = mirror[k].registered_at]
                     /\ entries[k].registered_at <= mirror[k].registered_at
                     /\ mirror[k].registered_at <= mirror[k].updated_at
=============================================================================
