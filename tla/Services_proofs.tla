---------------------------- MODULE Services_proofs ----------------------------
(***************************************************************************)
(* What a node that follows the service registry ends up with, for any     *)
(* nodes, types, metadata and length of the log.                           *)
(*                                                                         *)
(* The log alone determines the entries: some history of the registry has  *)
(* its initial state at 0, its present one at the end of the log, and one  *)
(* log between one state and the next.  The copy of the node is related to *)
(* the state of that history at the log it has read, not to the present    *)
(* one, and that relation is kept by each log the node processes.          *)
(***************************************************************************)
EXTENDS MCChannel, Sequences, TLAPS

\* What the contract emits.
WriteLog == [kind : {"Registered", "Updated"}, key : S!Key, safe : Safe,
             metadata : S!ServiceMetadata, at : Nat \ {0}]
DeregisterLog == [kind : {"ServiceDeregistered"}, key : S!Key]
TypeLog == [kind : {"ServiceTypeRegistered", "ServiceTypeOwnerChanged"},
            type : ServiceTypes, owner : S!TypeOwner]
Log == WriteLog \cup DeregisterLog \cup TypeLog

Entries == [S!Key -> S!Entry \cup {None}]
Types == [ServiceTypes -> S!TypeOwner \cup {None}]
NoEntries == [k \in S!Key |-> None]
NoTypes == [t \in ServiceTypes |-> None]

\* The state of the registry that a log leaves behind.
EntriesAfter(es, e) ==
    CASE e.kind = "Registered" ->
           [es EXCEPT ![e.key] = [safe |-> e.safe, metadata |-> e.metadata,
                                  registered_at |-> e.at, updated_at |-> e.at]]
      [] e.kind = "Updated" ->
           [es EXCEPT ![e.key] = [safe |-> e.safe, metadata |-> e.metadata,
                                  registered_at |-> es[e.key].registered_at, updated_at |-> e.at]]
      [] e.kind = "ServiceDeregistered" -> [es EXCEPT ![e.key] = None]
      [] OTHER -> es

TypesAfter(ts, e) ==
    IF e.kind \in {"ServiceTypeRegistered", "ServiceTypeOwnerChanged"}
      THEN [ts EXCEPT ![e.type] = e.owner] ELSE ts

\* An update finds an entry, and is no older than it.
UpdateFits(es, e) ==
    e.kind = "Updated" =>
        /\ es[e.key] # None
        /\ es[e.key].registered_at <= es[e.key].updated_at
        /\ es[e.key].updated_at <= e.at

\* h and g are the entries and the types after each log.
History(h, g) ==
    /\ h \in [0 .. Len(log) -> Entries] /\ h[0] = NoEntries /\ h[Len(log)] = entries
    /\ g \in [0 .. Len(log) -> Types] /\ g[0] = NoTypes /\ g[Len(log)] = types
    /\ \A i \in 1 .. Len(log) :
         /\ h[i] = EntriesAfter(h[i - 1], log[i]) /\ g[i] = TypesAfter(g[i - 1], log[i])
         /\ UpdateFits(h[i - 1], log[i])

\* One entry of the copy against the entry es of the registry at that log.
CopiedEntry(k, entry) ==
    IF entry = None \/ S!Writes(k) = {}
      THEN mirror[k] = None
      ELSE /\ mirror[k] # None
           /\ mirror[k] = [entry EXCEPT !.registered_at = mirror[k].registered_at]
           /\ entry.registered_at <= mirror[k].registered_at
           /\ mirror[k].registered_at <= mirror[k].updated_at

Copied(es, ts) ==
    /\ start = 0 => mirror = es /\ known = ts
    /\ \A k \in S!Key : CopiedEntry(k, es[k])

Typed ==
    /\ block \in Nat \ {0}
    /\ entries \in Entries /\ types \in Types
    /\ mirror \in Entries /\ known \in Types
    /\ log \in Seq(Log)
    /\ read \in 0 .. Len(log) /\ start \in 0 .. read
    /\ read = 0 => mirror = NoEntries /\ known = NoTypes
    /\ \A k \in S!Key : entries[k] # None =>
         entries[k].registered_at <= entries[k].updated_at /\ entries[k].updated_at <= block

Explained == \E h, g : History(h, g) /\ Copied(h[read], g[read])

IInv == Typed /\ Explained

-----------------------------------------------------------------------------
\* The conversions fail for no log of the contract.
LEMMA WriteConverted ==
    ASSUME NEW e \in WriteLog
    PROVE  /\ S!ChainEvent(e) # None
           /\ S!ChainEvent(e) = [kind |-> e.kind, key |-> e.key,
                 entry |-> [safe |-> e.safe, metadata |-> e.metadata,
                            registered_at |-> e.at, updated_at |-> e.at]]
<1> DEFINE entry == [safe |-> e.safe, metadata |-> e.metadata,
                     registered_at |-> e.at, updated_at |-> e.at]
<1>1. /\ e.kind \in {"Registered", "Updated"} /\ e.key \in S!Key /\ e.safe \in Safe
      /\ e.metadata \in S!ServiceMetadata /\ e.at \in Nat /\ e.at # 0
    BY DEF WriteLog
<1>2. e.metadata.length \in Nat /\ e.metadata.length <= MaxLength
    BY <1>1, FollowAssumption DEF S!ServiceMetadata, MCMetadata
<1>3. entry \in S!Entry /\ entry # None
    BY <1>1, FollowAssumption DEF S!Entry
<1>4. S!ServiceEntry(e.safe, e.metadata, e.at, e.at) = entry
    BY <1>1, <1>2, FollowAssumption DEF S!ServiceEntry
<1> HIDE DEF entry
<1>5. S!ChainEvent(e) = [kind |-> e.kind, key |-> e.key, entry |-> entry]
    BY <1>1, <1>3, <1>4 DEF S!ChainEvent, S!FromRegistered, S!FromUpdated
<1>6. [kind |-> e.kind, key |-> e.key, entry |-> entry] # None
    BY <1>1, <1>3, FollowAssumption
<1> QED
    BY <1>5, <1>6 DEF entry

LEMMA OtherConverted ==
    ASSUME NEW e \in DeregisterLog \cup TypeLog
    PROVE  S!ChainEvent(e) = e /\ e # None
<1>1. e.kind \notin {"Registered", "Updated"}
    BY DEF DeregisterLog, TypeLog
<1>2. e # None
    BY FollowAssumption DEF DeregisterLog, TypeLog
<1> QED
    BY <1>1, <1>2 DEF S!ChainEvent

\* The states of a history are states of the registry.
LEMMA EntriesAfterType ==
    ASSUME NEW es \in Entries, NEW e \in Log, UpdateFits(es, e)
    PROVE  EntriesAfter(es, e) \in Entries
<1>1. CASE e \in WriteLog
    <2>1. /\ e.kind \in {"Registered", "Updated"} /\ e.key \in S!Key /\ e.safe \in Safe
          /\ e.metadata \in S!ServiceMetadata /\ e.at \in Nat
        BY <1>1 DEF WriteLog
    <2>2. CASE e.kind = "Registered"
        <3>1. [safe |-> e.safe, metadata |-> e.metadata,
               registered_at |-> e.at, updated_at |-> e.at] \in S!Entry
            BY <2>1 DEF S!Entry
        <3> QED
            BY <2>1, <2>2, <3>1 DEF EntriesAfter, Entries
    <2>3. CASE e.kind = "Updated"
        <3>1. es[e.key] \in S!Entry
            BY <2>1, <2>3 DEF UpdateFits, Entries
        <3>2. es[e.key].registered_at \in Nat
            BY <3>1 DEF S!Entry
        <3>3. [safe |-> e.safe, metadata |-> e.metadata,
               registered_at |-> es[e.key].registered_at, updated_at |-> e.at] \in S!Entry
            BY <2>1, <3>2 DEF S!Entry
        <3> QED
            BY <2>1, <2>3, <3>3 DEF EntriesAfter, Entries
    <2> QED
        BY <2>1, <2>2, <2>3
<1>2. CASE e \in DeregisterLog \cup TypeLog
    BY <1>2 DEF DeregisterLog, TypeLog, EntriesAfter, Entries
<1> QED
    BY <1>1, <1>2 DEF Log

LEMMA TypesAfterType ==
    ASSUME NEW ts \in Types, NEW e \in Log
    PROVE  TypesAfter(ts, e) \in Types
BY DEF Log, WriteLog, DeregisterLog, TypeLog, TypesAfter, Types

-----------------------------------------------------------------------------
(* The contract emits a log                                                 *)

\* Writes to one entry that the node has seen are the same in a longer log.
LEMMA WritesKept ==
    ASSUME Typed, NEW e, log' = Append(log, e), UNCHANGED <<start, read>>, NEW k
    PROVE  S!Writes(k)' = S!Writes(k)
<1>1. \A i \in start + 1 .. read : i \in 1 .. Len(log)
    BY DEF Typed
<1>2. \A i \in 1 .. Len(log) : log'[i] = log[i]
    BY DEF Typed
<1> QED
    BY <1>1, <1>2 DEF S!Writes

LEMMA Emitted ==
    ASSUME IInv, NEW e \in Log, UpdateFits(entries, e),
           log' = Append(log, e), entries' = EntriesAfter(entries, e), types' = TypesAfter(types, e),
           UNCHANGED <<start, read, mirror, known>>
    PROVE  Explained' /\ entries' \in Entries /\ types' \in Types /\ log' \in Seq(Log)
                      /\ Len(log') = Len(log) + 1
<1>0. /\ log \in Seq(Log) /\ Len(log) \in Nat /\ read \in 0 .. Len(log)
      /\ entries \in Entries /\ types \in Types
    BY DEF IInv, Typed
<1>1. entries' \in Entries /\ types' \in Types
    BY <1>0, EntriesAfterType, TypesAfterType
<1>2. PICK h, g : History(h, g) /\ Copied(h[read], g[read])
    BY DEF IInv, Explained
<1>a. PICK n : n = Len(log) + 1
    OBVIOUS
<1>b. PICK hh : hh = [i \in 0 .. n |-> IF i < n THEN h[i] ELSE entries']
    OBVIOUS
<1>c. PICK gg : gg = [i \in 0 .. n |-> IF i < n THEN g[i] ELSE types']
    OBVIOUS
<1>3. /\ log' \in Seq(Log) /\ Len(log') = n /\ log'[n] = e
      /\ \A i \in 1 .. Len(log) : log'[i] = log[i]
    BY <1>0, <1>a
<1>4. /\ h \in [0 .. Len(log) -> Entries] /\ h[0] = NoEntries /\ h[Len(log)] = entries
      /\ g \in [0 .. Len(log) -> Types] /\ g[0] = NoTypes /\ g[Len(log)] = types
    BY <1>2 DEF History
<1>5. /\ \A i \in 0 .. Len(log) : hh[i] = h[i] /\ gg[i] = g[i]
      /\ hh[n] = entries' /\ gg[n] = types'
      /\ hh \in [0 .. n -> Entries] /\ gg \in [0 .. n -> Types]
    <2>1. \A i \in 0 .. n : i < n => i \in 0 .. Len(log)
        BY <1>0, <1>a
    <2>2. \A i \in 0 .. Len(log) : i \in 0 .. n /\ i < n
        BY <1>0, <1>a
    <2>3. n \in 0 .. n /\ ~(n < n)
        BY <1>0, <1>a
    <2> QED
        BY <1>1, <1>4, <1>b, <1>c, <2>1, <2>2, <2>3
<1>6. ASSUME NEW i \in 1 .. n
      PROVE  /\ hh[i] = EntriesAfter(hh[i - 1], log'[i]) /\ gg[i] = TypesAfter(gg[i - 1], log'[i])
             /\ UpdateFits(hh[i - 1], log'[i])
    <2>1. CASE i = n
        <3>1. i - 1 = Len(log) /\ Len(log) \in 0 .. Len(log)
            BY <1>0, <1>a, <2>1
        <3> QED
            BY <1>3, <1>4, <1>5, <2>1, <3>1
    <2>2. CASE i # n
        <3>1. i \in 1 .. Len(log) /\ i \in 0 .. Len(log) /\ i - 1 \in 0 .. Len(log)
            BY <1>0, <1>a, <2>2
        <3>2. /\ h[i] = EntriesAfter(h[i - 1], log[i]) /\ g[i] = TypesAfter(g[i - 1], log[i])
              /\ UpdateFits(h[i - 1], log[i])
            BY <1>2, <3>1 DEF History
        <3> QED
            BY <1>3, <1>5, <3>1, <3>2
    <2> QED
        BY <2>1, <2>2
<1>7. History(hh, gg)'
    <2>1. hh[0] = NoEntries /\ gg[0] = NoTypes
        BY <1>0, <1>4, <1>5
    <2> QED
        BY <1>3, <1>5, <1>6, <2>1 DEF History
<1>8. Copied(hh[read], gg[read])'
    <2>1. hh[read] = h[read] /\ gg[read] = g[read]
        BY <1>0, <1>5
    <2>2. \A k : S!Writes(k)' = S!Writes(k)
        BY WritesKept DEF IInv
    <2>3. Copied(h[read], g[read])
        BY <1>2
    <2> QED
        BY <2>1, <2>2, <2>3 DEF Copied, CopiedEntry
<1>9. Explained'
    BY <1>7, <1>8 DEF Explained
<1> QED
    BY <1>1, <1>3, <1>9, <1>a

-----------------------------------------------------------------------------
(* The node processes a log                                                 *)

\* One more log is seen; it writes one entry at most.
LEMMA WritesGrow ==
    ASSUME Typed, read < Len(log), read' = read + 1, UNCHANGED <<start, log>>, NEW k
    PROVE  S!Writes(k)' = S!Writes(k) \cup
              (IF log[read + 1].kind \in {"Registered", "Updated"} /\ log[read + 1].key = k
                 THEN {read + 1} ELSE {})
<1>1. start + 1 .. read' = (start + 1 .. read) \cup {read + 1}
    BY DEF Typed
<1> QED
    BY <1>1 DEF S!Writes

LEMMA FollowCopied ==
    ASSUME Typed, S!Follow, NEW h, NEW g, History(h, g), Copied(h[read], g[read])
    PROVE  /\ Copied(h[read], g[read])'
           /\ mirror' \in Entries /\ known' \in Types
<1>a. PICK e : e = log[read + 1]
    OBVIOUS
<1>b. PICK es : es = h[read]
    OBVIOUS
<1>c. PICK ts : ts = g[read]
    OBVIOUS
<1>1. /\ read \in Nat /\ Len(log) \in Nat /\ read < Len(log) /\ read' = read + 1 /\ UNCHANGED <<log, start>>
      /\ log \in Seq(Log) /\ mirror \in Entries /\ known \in Types /\ start \in 0 .. read
    BY DEF Typed, S!Follow
<1>2. e \in Log /\ read + 1 \in 1 .. Len(log) /\ read \in 0 .. Len(log)
    BY <1>1, <1>a
<1>3. es \in Entries /\ ts \in Types
    BY <1>2, <1>b, <1>c DEF History
<1>4. /\ h[read'] = EntriesAfter(es, e) /\ g[read'] = TypesAfter(ts, e)
      /\ UpdateFits(es, e)
    <2>1. read + 1 - 1 = read
        BY <1>1
    <2> QED
        BY <1>1, <1>2, <1>a, <1>b, <1>c, <2>1 DEF History
<1>5. \A k : S!Writes(k)' = S!Writes(k) \cup
              (IF e.kind \in {"Registered", "Updated"} /\ e.key = k THEN {read + 1} ELSE {})
    BY <1>1, <1>a, WritesGrow
<1>6. /\ start = 0 => mirror = es /\ known = ts
      /\ \A k \in S!Key : CopiedEntry(k, es[k])
    BY <1>b, <1>c DEF Copied
<1>7. CASE e \in WriteLog
    <2> DEFINE entry == [safe |-> e.safe, metadata |-> e.metadata,
                         registered_at |-> e.at, updated_at |-> e.at]
    <2>1. /\ e.kind \in {"Registered", "Updated"} /\ e.key \in S!Key /\ e.safe \in Safe
          /\ e.metadata \in S!ServiceMetadata /\ e.at \in Nat
        BY <1>7 DEF WriteLog
    <2>2. entry \in S!Entry /\ entry # None
        BY <2>1, FollowAssumption DEF S!Entry
    <2>3. S!ChainEvent(e) # None /\ S!ChainEvent(e) = [kind |-> e.kind, key |-> e.key, entry |-> entry]
        BY <1>7, WriteConverted
    <2>4. known' = known /\ TypesAfter(ts, e) = ts
        BY <1>a, <2>1, <2>3 DEF S!Follow, TypesAfter
    <2>5. mirror' = IF e.kind = "Registered" THEN [mirror EXCEPT ![e.key] = entry]
                    ELSE [mirror EXCEPT ![e.key] = S!Kept(e.key, entry)]
        BY <1>a, <2>1, <2>3 DEF S!Follow
    <2>6. \A k \in S!Key \ {e.key} :
             mirror'[k] = mirror[k] /\ h[read'][k] = es[k] /\ S!Writes(k)' = S!Writes(k)
        BY <1>1, <1>3, <1>4, <1>5, <2>1, <2>5 DEF EntriesAfter, Entries
    <2>7. S!Writes(e.key)' # {}
        BY <1>5, <2>1
    <2>8. ASSUME NEW k \in S!Key, k # e.key
          PROVE  CopiedEntry(k, h[read][k])'
        BY <1>6, <2>6, <2>8 DEF CopiedEntry
    <2>9. CASE e.kind = "Registered"
        <3>1. mirror'[e.key] = entry /\ h[read'][e.key] = entry /\ mirror' \in Entries
            BY <1>1, <1>3, <1>4, <2>1, <2>2, <2>5, <2>9 DEF EntriesAfter, Entries
        <3>2. CopiedEntry(e.key, h[read][e.key])'
            BY <2>1, <2>2, <2>7, <3>1 DEF CopiedEntry
        <3>3. start = 0 => mirror' = h[read']
            BY <1>4, <1>6, <2>5, <2>9 DEF EntriesAfter
        <3> QED
            BY <1>1, <1>4, <1>6, <2>4, <2>8, <3>1, <3>2, <3>3 DEF Copied
    <2>10. CASE e.kind = "Updated"
        <3> DEFINE old == es[e.key]
                   mine == mirror[e.key]
                   written == [safe |-> e.safe, metadata |-> e.metadata,
                               registered_at |-> old.registered_at, updated_at |-> e.at]
        <3>1. /\ old # None /\ old \in S!Entry
              /\ old.registered_at \in Nat /\ old.updated_at \in Nat
              /\ old.registered_at <= old.updated_at /\ old.updated_at <= e.at
            BY <1>3, <1>4, <2>1, <2>10 DEF UpdateFits, Entries, S!Entry
        <3>2. h[read'][e.key] = written
            BY <1>3, <1>4, <2>1, <2>10 DEF EntriesAfter, Entries
        <3>3. written \in S!Entry /\ written # None
            BY <2>1, <3>1, FollowAssumption DEF S!Entry
        <3>4. CASE mine = None
            <4>1. mirror'[e.key] = entry /\ mirror' \in Entries
                BY <1>1, <2>1, <2>2, <2>5, <2>10, <3>4 DEF S!Kept, Entries
            <4>2. CopiedEntry(e.key, h[read][e.key])'
                BY <2>1, <2>2, <2>7, <3>1, <3>2, <3>3, <4>1 DEF CopiedEntry
            <4>3. start # 0
                BY <1>6, <3>1, <3>4
            <4> QED
                BY <1>1, <2>8, <4>1, <4>2, <4>3, <2>4 DEF Copied
        <3>5. CASE mine # None
            <4>1. /\ mine = [old EXCEPT !.registered_at = mine.registered_at]
                  /\ old.registered_at <= mine.registered_at
                  /\ mine.registered_at <= mine.updated_at
                  /\ mine \in S!Entry /\ mine.registered_at \in Nat
                BY <1>1, <1>6, <2>1, <3>5 DEF CopiedEntry, Entries, S!Entry
            <4>2. mine.updated_at = old.updated_at
                BY <3>1, <4>1 DEF S!Entry
            <4> DEFINE kept == [safe |-> e.safe, metadata |-> e.metadata,
                                registered_at |-> mine.registered_at, updated_at |-> e.at]
            <4>3. kept \in S!Entry /\ kept # None
                BY <2>1, <4>1, FollowAssumption DEF S!Entry
            <4>4. S!Kept(e.key, entry) = kept
                BY <3>5 DEF S!Kept
            <4>5. mirror' = [mirror EXCEPT ![e.key] = kept]
                BY <2>5, <2>10, <4>4
            <4>6. mirror'[e.key] = kept /\ mirror' \in Entries
                BY <1>1, <2>1, <4>3, <4>5 DEF Entries
            <4>7. mine.registered_at <= e.at
                BY <2>1, <3>1, <4>1, <4>2
            <4>8. CopiedEntry(e.key, h[read][e.key])'
                BY <2>7, <3>2, <3>3, <4>1, <4>3, <4>6, <4>7 DEF CopiedEntry
            <4>9. start = 0 => mirror' = h[read']
                BY <1>4, <1>6, <2>10, <4>5 DEF EntriesAfter
            <4> QED
                BY <1>1, <1>4, <1>6, <2>4, <2>8, <4>6, <4>8, <4>9 DEF Copied
        <3> QED
            BY <3>4, <3>5
    <2> QED
        BY <2>1, <2>9, <2>10
<1>8. CASE e \in DeregisterLog
    <2>1. e.kind = "ServiceDeregistered" /\ e.key \in S!Key
        BY <1>8 DEF DeregisterLog
    <2>2. S!ChainEvent(e) = e /\ e # None
        BY <1>8, OtherConverted
    <2>3. mirror' = [mirror EXCEPT ![e.key] = None] /\ known' = known
        BY <1>a, <2>1, <2>2 DEF S!Follow
    <2>4. /\ h[read'] = [es EXCEPT ![e.key] = None] /\ g[read'] = ts
          /\ \A k : S!Writes(k)' = S!Writes(k)
        BY <1>4, <1>5, <2>1 DEF EntriesAfter, TypesAfter
    <2>5. mirror' \in Entries
        BY <1>1, <2>3 DEF Entries
    <2>6. ASSUME NEW k \in S!Key
          PROVE  CopiedEntry(k, h[read][k])'
        <3>1. CASE k = e.key
            BY <1>1, <1>3, <2>3, <2>4, <3>1 DEF CopiedEntry, Entries
        <3>2. CASE k # e.key
            <4>1. mirror'[k] = mirror[k] /\ h[read'][k] = es[k]
                BY <1>1, <1>3, <2>3, <2>4, <3>2 DEF Entries
            <4> QED
                BY <1>6, <2>4, <4>1 DEF CopiedEntry
        <3> QED
            BY <3>1, <3>2
    <2> QED
        BY <1>1, <1>6, <2>3, <2>4, <2>5, <2>6 DEF Copied
<1>9. CASE e \in TypeLog
    <2>1. /\ e.kind \in {"ServiceTypeRegistered", "ServiceTypeOwnerChanged"}
          /\ e.type \in ServiceTypes /\ e.owner \in S!TypeOwner
        BY <1>9 DEF TypeLog
    <2>2. S!ChainEvent(e) = e /\ e # None
        BY <1>9, OtherConverted
    <2>3. mirror' = mirror /\ known' = [known EXCEPT ![e.type] = e.owner]
        BY <1>a, <2>1, <2>2 DEF S!Follow
    <2>4. /\ h[read'] = es /\ g[read'] = [ts EXCEPT ![e.type] = e.owner]
          /\ \A k : S!Writes(k)' = S!Writes(k)
        BY <1>4, <1>5, <2>1 DEF EntriesAfter, TypesAfter
    <2>5. known' \in Types
        BY <1>1, <2>1, <2>3 DEF Types
    <2> QED
        BY <1>1, <1>6, <2>3, <2>4, <2>5 DEF Copied, CopiedEntry
<1> QED
    BY <1>2, <1>7, <1>8, <1>9 DEF Log

-----------------------------------------------------------------------------
(* The specification                                                        *)

LEMMA InitIInv == S!Init => IInv
<1> SUFFICES ASSUME S!Init PROVE IInv
    OBVIOUS
<1>1. /\ block = 1 /\ log = <<>> /\ start = 0 /\ read = 0 /\ Len(log) = 0
      /\ entries = NoEntries /\ mirror = NoEntries /\ types = NoTypes /\ known = NoTypes
    BY DEF S!Init, NoEntries, NoTypes
<1>2. NoEntries \in Entries /\ NoTypes \in Types
    BY DEF NoEntries, NoTypes, Entries, Types
<1>3. Typed
    <2>1. \A k \in S!Key : NoEntries[k] = None
        BY DEF NoEntries
    <2>2. log \in Seq(Log)
        BY <1>1
    <2> QED
        BY <1>1, <1>2, <2>1, <2>2 DEF Typed
<1>a. PICK h : h = [i \in 0 .. 0 |-> NoEntries]
    OBVIOUS
<1>b. PICK g : g = [i \in 0 .. 0 |-> NoTypes]
    OBVIOUS
<1>4. History(h, g)
    BY <1>1, <1>2, <1>a, <1>b DEF History
<1>5. Copied(h[read], g[read])
    <2>1. h[0] = NoEntries /\ g[0] = NoTypes /\ \A k \in S!Key : NoEntries[k] = None
        BY <1>a, <1>b DEF NoEntries
    <2> QED
        BY <1>1, <2>1 DEF Copied, CopiedEntry
<1> QED
    BY <1>3, <1>4, <1>5 DEF IInv, Explained

\* The parts of the contract's state that its actions leave in order.
LEMMA EmitIInv ==
    ASSUME IInv, NEW e \in Log, UpdateFits(entries, e), S!Emit(e),
           entries' = EntriesAfter(entries, e), types' = TypesAfter(types, e),
           \A k \in S!Key : entries'[k] # None =>
              entries'[k].registered_at <= entries'[k].updated_at /\ entries'[k].updated_at <= block
    PROVE  IInv'
<1>1. log' = Append(log, e) /\ UNCHANGED <<block, start, read, mirror, known>>
    BY DEF S!Emit
<1>2. /\ Explained' /\ entries' \in Entries /\ types' \in Types /\ log' \in Seq(Log)
      /\ Len(log') = Len(log) + 1
    BY <1>1, Emitted
<1>3. Typed'
    BY <1>1, <1>2 DEF IInv, Typed
<1> QED
    BY <1>2, <1>3 DEF IInv

LEMMA WriteIInv ==
    ASSUME IInv, NEW kind \in {"Registered", "Updated"}, NEW k \in S!Key, NEW safe \in Safe,
           NEW metadata \in S!ServiceMetadata, NEW registered_at \in Nat, registered_at <= block,
           S!Write(kind, k, safe, metadata, registered_at),
           kind = "Registered" => registered_at = block,
           kind = "Updated" => entries[k] # None /\ registered_at = entries[k].registered_at
    PROVE  IInv'
<1>a. PICK e : e = [kind |-> kind, key |-> k, safe |-> safe, metadata |-> metadata, at |-> block]
    OBVIOUS
<1>b. PICK entry : entry = [safe |-> safe, metadata |-> metadata,
                            registered_at |-> registered_at, updated_at |-> block]
    OBVIOUS
<1>1. block \in Nat \ {0} /\ entries \in Entries /\ types \in Types
    BY DEF IInv, Typed
<1>2. e \in Log
    BY <1>1, <1>a DEF Log, WriteLog
<1>3. entries' = [entries EXCEPT ![k] = entry] /\ types' = types /\ S!Emit(e)
    BY <1>a, <1>b DEF S!Write
<1>4. entries' = EntriesAfter(entries, e) /\ types' = TypesAfter(types, e)
    BY <1>3, <1>a, <1>b DEF EntriesAfter, TypesAfter
<1>5. UpdateFits(entries, e)
    BY <1>a DEF UpdateFits, IInv, Typed
<1>6. ASSUME NEW j \in S!Key, entries'[j] # None
      PROVE  entries'[j].registered_at <= entries'[j].updated_at /\ entries'[j].updated_at <= block
    <2>1. CASE j = k
        <3>1. entries'[j] = entry
            BY <1>1, <1>3, <2>1 DEF Entries
        <3> QED
            BY <1>1, <1>b, <3>1
    <2>2. CASE j # k
        <3>1. entries'[j] = entries[j]
            BY <1>1, <1>3, <2>2 DEF Entries
        <3> QED
            BY <1>6, <3>1 DEF IInv, Typed
    <2> QED
        BY <2>1, <2>2
<1> QED
    BY <1>2, <1>3, <1>4, <1>5, <1>6, EmitIInv

LEMMA DeregisterIInv ==
    ASSUME IInv, NEW k \in S!Key, S!Deregister(k)
    PROVE  IInv'
<1>a. PICK e : e = [kind |-> "ServiceDeregistered", key |-> k]
    OBVIOUS
<1>1. e \in Log
    BY <1>a DEF Log, DeregisterLog
<1>2. entries' = [entries EXCEPT ![k] = None] /\ types' = types /\ S!Emit(e)
    BY <1>a DEF S!Deregister
<1>3. entries' = EntriesAfter(entries, e) /\ types' = TypesAfter(types, e) /\ UpdateFits(entries, e)
    BY <1>2, <1>a DEF EntriesAfter, TypesAfter, UpdateFits
<1>4. \A j \in S!Key : entries'[j] # None =>
              entries'[j].registered_at <= entries'[j].updated_at /\ entries'[j].updated_at <= block
    BY <1>2 DEF IInv, Typed, Entries
<1> QED
    BY <1>1, <1>2, <1>3, <1>4, EmitIInv

LEMMA TypeIInv ==
    ASSUME IInv, NEW t \in ServiceTypes, NEW owner \in S!TypeOwner,
           S!RegisterServiceType(t, owner) \/ S!ChangeOwner(t, owner)
    PROVE  IInv'
<1>1. PICK kind \in {"ServiceTypeRegistered", "ServiceTypeOwnerChanged"} :
         S!Emit([kind |-> kind, type |-> t, owner |-> owner])
    BY DEF S!RegisterServiceType, S!ChangeOwner
<1>a. PICK e : e = [kind |-> kind, type |-> t, owner |-> owner]
    OBVIOUS
<1>2. e \in Log
    BY <1>a DEF Log, TypeLog
<1>3. types' = [types EXCEPT ![t] = owner] /\ entries' = entries
    BY DEF S!RegisterServiceType, S!ChangeOwner
<1>4. entries' = EntriesAfter(entries, e) /\ types' = TypesAfter(types, e) /\ UpdateFits(entries, e)
    BY <1>3, <1>a DEF EntriesAfter, TypesAfter, UpdateFits
<1>5. \A j \in S!Key : entries'[j] # None =>
              entries'[j].registered_at <= entries'[j].updated_at /\ entries'[j].updated_at <= block
    BY <1>3 DEF IInv, Typed
<1> QED
    BY <1>1, <1>2, <1>4, <1>5, <1>a, EmitIInv

\* A node that begins to follow late has seen no write.
LEMMA StartLateIInv ==
    ASSUME IInv, S!StartLate
    PROVE  IInv'
<1>1. /\ read = 0 /\ log # <<>> /\ read' = Len(log) /\ start' = Len(log)
      /\ UNCHANGED <<block, entries, types, log, mirror, known>>
    BY DEF S!StartLate
<1>2. Len(log) \in Nat /\ Len(log) # 0 /\ mirror = NoEntries
    BY <1>1 DEF IInv, Typed
<1>3. Typed'
    BY <1>1, <1>2 DEF IInv, Typed
<1>4. PICK h, g : History(h, g)
    BY DEF IInv, Explained
<1>5. History(h, g)'
    BY <1>1, <1>4 DEF History
<1>6. \A k : S!Writes(k)' = {}
    BY <1>1, <1>2 DEF S!Writes
<1>7. Copied(h[read], g[read])'
    BY <1>1, <1>2, <1>6 DEF Copied, CopiedEntry, NoEntries
<1> QED
    BY <1>3, <1>5, <1>7 DEF IInv, Explained

LEMMA FollowIInv ==
    ASSUME IInv, S!Follow
    PROVE  IInv'
<1>1. /\ read < Len(log) /\ read' = read + 1
      /\ UNCHANGED <<block, entries, types, log, start>>
    BY DEF S!Follow
<1>2. PICK h, g : History(h, g) /\ Copied(h[read], g[read])
    BY DEF IInv, Explained
<1>3. Copied(h[read], g[read])' /\ mirror' \in Entries /\ known' \in Types
    BY <1>2, FollowCopied DEF IInv
<1>4. Typed'
    BY <1>1, <1>3 DEF IInv, Typed
<1>5. History(h, g)'
    BY <1>1, <1>2 DEF History
<1> QED
    BY <1>3, <1>4, <1>5 DEF IInv, Explained

LEMMA UnchangedIInv ==
    ASSUME IInv, UNCHANGED <<entries, types, log, start, read, mirror, known>>,
           block' = block \/ block' = block + 1
    PROVE  IInv'
<1>0. Typed /\ block \in Nat \ {0}
    BY DEF IInv, Typed
<1>1. Typed'
    <2>1. block' \in Nat \ {0} /\ block <= block' /\ block \in Int /\ block' \in Int
        BY <1>0
    <2>2. ASSUME NEW k \in S!Key, entries[k] # None
          PROVE  entries[k].registered_at <= entries[k].updated_at /\ entries[k].updated_at <= block'
        <3>1. entries[k] \in S!Entry
            BY <1>0, <2>2 DEF Typed, Entries
        <3>2. entries[k].updated_at \in Nat
            BY <3>1 DEF S!Entry
        <3>3. entries[k].registered_at <= entries[k].updated_at /\ entries[k].updated_at <= block
            BY <1>0, <2>2 DEF Typed
        <3> QED
            BY <2>1, <3>2, <3>3
    <2> QED
        BY <1>0, <2>1, <2>2 DEF Typed
<1>2. PICK h, g : History(h, g) /\ Copied(h[read], g[read])
    BY DEF IInv, Explained
<1>3. History(h, g)'
    BY <1>2 DEF History
<1>4. \A k : S!Writes(k)' = S!Writes(k)
    BY DEF S!Writes
<1>5. Copied(h[read], g[read])'
    BY <1>2, <1>4 DEF Copied, CopiedEntry
<1> QED
    BY <1>1, <1>3, <1>5 DEF IInv, Explained

LEMMA NextIInv == IInv /\ [FollowNext]_<<vars, serviceVars>> => IInv'
<1> SUFFICES ASSUME IInv, [FollowNext]_<<vars, serviceVars>> PROVE IInv'
    OBVIOUS
<1>1. CASE UNCHANGED serviceVars
    BY <1>1, UnchangedIInv DEF serviceVars
<1>2. CASE S!Tick
    BY <1>2, UnchangedIInv DEF S!Tick
<1>3. ASSUME NEW t \in ServiceTypes, NEW owner \in Owner, S!RegisterServiceType(t, owner)
      PROVE  IInv'
    BY <1>3, TypeIInv DEF S!TypeOwner
<1>4. ASSUME NEW t \in ServiceTypes, NEW owner \in S!TypeOwner, S!ChangeOwner(t, owner)
      PROVE  IInv'
    BY <1>4, TypeIInv
<1>5. ASSUME NEW k \in S!Key, NEW safe \in Safe, NEW metadata \in S!ServiceMetadata,
             S!Register(k, safe, metadata)
      PROVE  IInv'
    <2>1. block \in Nat /\ block <= block
        BY DEF IInv, Typed
    <2>2. S!Write("Registered", k, safe, metadata, block)
        BY <1>5 DEF S!Register
    <2> QED
        BY <2>1, <2>2, WriteIInv
<1>6. ASSUME NEW k \in S!Key, NEW safe \in Safe, NEW metadata \in S!ServiceMetadata,
             S!Update(k, safe, metadata)
      PROVE  IInv'
    <2>1. entries[k] # None /\ S!Write("Updated", k, safe, metadata, entries[k].registered_at)
        BY <1>6 DEF S!Update
    <2>2. entries[k] \in S!Entry /\ block \in Nat
        BY <2>1 DEF IInv, Typed, Entries
    <2>3. entries[k].registered_at \in Nat /\ entries[k].updated_at \in Nat
        BY <2>2 DEF S!Entry
    <2>4. entries[k].registered_at <= block
        BY <2>1, <2>2, <2>3 DEF IInv, Typed
    <2> QED
        BY <2>1, <2>3, <2>4, WriteIInv
<1>7. ASSUME NEW k \in S!Key, S!Deregister(k)
      PROVE  IInv'
    BY <1>7, DeregisterIInv
<1>8. CASE S!StartLate
    BY <1>8, StartLateIInv
<1>9. CASE S!Follow
    BY <1>9, FollowIInv
<1> QED
    BY <1>1, <1>2, <1>3, <1>4, <1>5, <1>6, <1>7, <1>8, <1>9
    DEF FollowNext, S!Next, vars

\* A node that has processed every log has the registry, and one that began
\* late has what was written since, with a time of registration that is off in
\* one direction only (the conversions of service.rs and chain_events.rs).
THEOREM CopiesAgree == FollowSpec => []MirrorAgrees
<1>1. FollowInit => IInv
    BY InitIInv DEF FollowInit
<1>2. IInv /\ [FollowNext]_<<vars, serviceVars>> => IInv'
    BY NextIInv
<1>3. IInv => MirrorAgrees
    <2> SUFFICES ASSUME IInv, read = Len(log)
                 PROVE  /\ start = 0 => mirror = entries /\ known = types
                        /\ \A k \in S!Key : CopiedEntry(k, entries[k])
        BY DEF MirrorAgrees, S!MirrorAgrees, CopiedEntry
    <2>1. PICK h, g : History(h, g) /\ Copied(h[read], g[read])
        BY DEF IInv, Explained
    <2>2. h[read] = entries /\ g[read] = types
        BY <2>1 DEF History
    <2> QED
        BY <2>1, <2>2 DEF Copied
<1> QED
    BY <1>1, <1>2, <1>3, PTL DEF FollowSpec
=============================================================================
