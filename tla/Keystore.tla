------------------------------- MODULE Keystore -------------------------------
(***************************************************************************)
(* The identity file of a node (src/keypair/key_pair.rs): HoprKeys::init   *)
(* in the modes FromFile and FromIdIntoFile, with read_eth_keystore, the   *)
(* migration of the formats V1 and V2, and write_eth_keystore.             *)
(*                                                                         *)
(* Several processes may start on one path.  A start is a sequence of      *)
(* separate calls of the file system: fs::metadata, fs::read_to_string,    *)
(* and the two halves of fs::write, which truncates the file and then      *)
(* writes it.  A process may be killed between any two of them, and any of *)
(* them may fail.  A failed read or write makes init return the error; a   *)
(* failed fs::metadata does not, whatever its reason: it counts as "there  *)
(* is no file", and the start goes on to create one (variable missed).     *)
(* All keystores of a format are equally long, so that the last of two     *)
(* overlapping writes is what remains.  Every random key is new.           *)
(* FromPrivateKey touches no file and is not part of this module.          *)
(***************************************************************************)
EXTENDS Integers

CONSTANTS
    Process,
    Password,
    None,           \* a key the format does not have
    Absent, Torn,   \* no file; an empty or half-written one
    InitialFile,    \* what may lie at the path at the beginning
    MaxFresh        \* bound: rounds of random keys

\* Keys are numbers: 0 for those of an initial file, 1, 2, ... for random ones.
Key == 0 .. MaxFresh

KeyName == {"packet", "chain", "bjj"}
HoprKeys == [KeyName -> Key]

\* V1 holds the chain key only, V2 lacks the Baby Jubjub key.
HasKey(version, k) ==
    \/ version = "V3"
    \/ version = "V2" /\ k # "bjj"
    \/ version = "V1" /\ k = "chain"

Keystore == {f \in [version : {"V1", "V2", "V3"}, keys : [KeyName -> Key \cup {None}],
                    password : Password] :
                \A k \in KeyName : (f.keys[k] # None) <=> HasKey(f.version, k)}

File == Keystore \cup {Absent, Torn}

ASSUME BoundAssumption == MaxFresh \in Nat
ASSUME NoneAssumption == None \notin Int
ASSUME FileAssumption ==
    /\ Absent # Torn /\ Absent \notin Keystore /\ Torn \notin Keystore
    /\ InitialFile \subseteq File

VARIABLES
    file,       \* the file at id_path
    pc,         \* per process: the call that comes next; "off" before and after
    keys,       \* per process: the HoprKeys it made or read
    password,   \* per process: the password it was started with
    fresh,      \* rounds of random keys drawn so far
    initial,    \* history: the file at the beginning
    returned,   \* history: the keys that starts returned as Ok
    overlapped, \* history: a start began while another one was under way
    missed      \* history: fs::metadata failed for a file that is there

vars == <<file, pc, keys, password, fresh, initial, returned, overlapped, missed>>

Step == {"off", "read", "truncate", "write", "running"}

TypeOK ==
    /\ file \in File
    /\ pc \in [Process -> Step]
    /\ keys \in [Process -> HoprKeys]
    /\ password \in [Process -> Password]
    /\ fresh \in 0 .. MaxFresh
    /\ initial \in File
    /\ returned \subseteq HoprKeys
    /\ overlapped \in BOOLEAN
    /\ missed \in BOOLEAN

Init ==
    /\ initial \in InitialFile
    /\ file = initial
    /\ pc = [p \in Process |-> "off"]
    /\ keys \in [Process -> {[k \in KeyName |-> 0]}]
    /\ password \in {[p \in Process |-> w] : w \in Password}
    /\ fresh = 0
    /\ returned = {}
    /\ overlapped = FALSE
    /\ missed = FALSE

-----------------------------------------------------------------------------
\* A slip: an empty file counts as none.
IsOkUnlessEmpty(answered) == answered /\ file \notin {Absent, Torn}

\* fs::metadata(id_path).is_ok(): FALSE without a file, and also whenever the call
\* cannot be answered (no permission on a directory, a failing or stalled mount).
IsOk(answered) == answered /\ file # Absent

\* A slip: the Baby Jubjub key is drawn whatever the keystore holds.
KeysReadDrawingBjj(f) ==
    [k \in KeyName |-> IF HasKey(f.version, k) /\ k # "bjj" THEN f.keys[k] ELSE fresh + 1]

\* The keys a reader gets from keystore f: the ones it lacks are drawn at random.
KeysRead(f) == [k \in KeyName |-> IF HasKey(f.version, k) THEN f.keys[k] ELSE fresh + 1]

\* Slips of the second result of read_eth_keystore.
MigratesV1Only(f) == f.version = "V1"
MigratesAlways(f) == TRUE

NeedsMigration(f) == f.version # "V3"

\* A slip: the keys are written in the format they came from.
WrittenV2(p) == [version |-> "V2", keys |-> keys[p], password |-> password[p]]

\* The keystore that write_eth_keystore makes of process p's keys.
Written(p) == [version |-> "V3", keys |-> keys[p], password |-> password[p]]

Return(p, ks) ==
    /\ pc' = [pc EXCEPT ![p] = "running"]
    /\ returned' = returned \cup {ks}

\* HoprKeys::init looks whether the file exists.  FromIdIntoFile fails if it does
\* and leaves no trace, so that only FromFile goes on to read; if the answer is no,
\* for want of a file or of an answer, both modes draw random keys and go on to
\* write them.
Start(p, w, answered) ==
    /\ pc[p] = "off"
    /\ overlapped' = (overlapped \/ \E q \in Process : pc[q] \in {"read", "truncate", "write"})
    /\ password' = [password EXCEPT ![p] = w]
    /\ missed' = (missed \/ (~answered /\ file # Absent))
    /\ \/ /\ IsOk(answered)
          /\ pc' = [pc EXCEPT ![p] = "read"]
          /\ UNCHANGED <<keys, fresh>>
       \/ /\ ~IsOk(answered)
          /\ fresh < MaxFresh
          /\ fresh' = fresh + 1
          /\ keys' = [keys EXCEPT ![p] = [k \in KeyName |-> fresh + 1]]
          /\ pc' = [pc EXCEPT ![p] = "truncate"]
    /\ UNCHANGED <<file, initial, returned>>

\* read_eth_keystore is Ok: the JSON parses and the MAC fits the password.  A
\* complete keystore ends the start; an old one is migrated first.
Read(p) ==
    /\ pc[p] = "read"
    /\ file \in Keystore
    /\ file.password = password[p]
    /\ file.version = "V3" \/ fresh < MaxFresh
    /\ fresh' = IF file.version = "V3" THEN fresh ELSE fresh + 1
    /\ keys' = [keys EXCEPT ![p] = KeysRead(file)]
    /\ \/ /\ NeedsMigration(file)
          /\ pc' = [pc EXCEPT ![p] = "truncate"]
          /\ UNCHANGED returned
       \/ /\ ~NeedsMigration(file)
          /\ Return(p, KeysRead(file))
    /\ UNCHANGED <<file, password, initial, overlapped, missed>>

\* A slip: keys are created for a file that cannot be read.
ReadFailsAndCreates(p) ==
    /\ pc[p] = "read"
    /\ file \in Keystore => file.password # password[p]
    /\ fresh < MaxFresh
    /\ fresh' = fresh + 1
    /\ keys' = [keys EXCEPT ![p] = [k \in KeyName |-> fresh + 1]]
    /\ pc' = [pc EXCEPT ![p] = "truncate"]
    /\ UNCHANGED <<file, password, initial, returned, overlapped, missed>>

\* read_eth_keystore fails, and init with it: no keystore, or another password.
ReadFails(p) ==
    /\ pc[p] = "read"
    /\ file \in Keystore => file.password # password[p]
    /\ pc' = [pc EXCEPT ![p] = "off"]
    /\ UNCHANGED <<file, keys, password, fresh, initial, returned, overlapped, missed>>

\* fs::write opens the file with truncation ...
Truncate(p) ==
    /\ pc[p] = "truncate"
    /\ file' = Torn
    /\ pc' = [pc EXCEPT ![p] = "write"]
    /\ UNCHANGED <<keys, password, fresh, initial, returned, overlapped, missed>>

\* ... and writes it, after which init is Ok.
Write(p) ==
    /\ pc[p] = "write"
    /\ file' = Written(p)
    /\ Return(p, keys[p])
    /\ UNCHANGED <<keys, password, fresh, initial, overlapped, missed>>

\* The process ends: it is killed at any point, or its call to read or write the file
\* fails and init returns the error.
End(p) ==
    /\ pc[p] # "off"
    /\ pc' = [pc EXCEPT ![p] = "off"]
    /\ UNCHANGED <<file, keys, password, fresh, initial, returned, overlapped, missed>>

Next == \E p \in Process :
    \/ \E w \in Password, answered \in BOOLEAN : Start(p, w, answered)
    \/ Read(p) \/ ReadFails(p) \/ Truncate(p) \/ Write(p) \/ End(p)

Spec == Init /\ [][Next]_vars

-----------------------------------------------------------------------------
(* Properties.  A start that gets no answer from fs::metadata replaces      *)
(* whatever file is there: every property below is about behaviours in      *)
(* which that has not happened, and fails without "~missed".                *)

Complete == file \in Keystore /\ file.version = "V3"

\* Across starts, crashes and migrations no two starts of a node return different
\* keys: a start that is cut off never leads to a second identity.  It takes starts
\* that do not overlap and find a file that is there.
OneIdentity == ~overlapped /\ ~missed => \A a, b \in returned : a = b

\* What a process runs with is what the file holds, so that the next start finds it:
\* no key is used that was not stored first.  It takes starts that do not overlap and
\* find a file that is there.
RunningIsDurable ==
    ~overlapped /\ ~missed => \A p \in Process : pc[p] = "running" =>
        Complete /\ file.keys = keys[p]

\* Starts that do not overlap and find a file that is there never write to a complete
\* identity file again: one that finds it reads it, and one that found none or an old
\* one is alone.
CompleteFileStays ==
    [][Complete /\ ~overlapped /\ ~missed => file' = file]_vars

\* The test test_should_not_overwrite_existing, for starts at any time that find a
\* file that is there: a complete identity file is never written again.  Starts that
\* overlap break it: each may have found no file before another created one.
CompleteFileUntouched ==
    [][Complete /\ ~missed => file' = file]_vars

\* The keys of a file that was there at the beginning are the ones every start works
\* with and every later file holds, also when several starts migrate it at once, as
\* long as every start finds the file.
ExistingKeysKept ==
    initial \in Keystore /\ ~missed => \A k \in KeyName : HasKey(initial.version, k) =>
        /\ file \in Keystore => file.keys[k] = initial.keys[k]
        /\ \A p \in Process : pc[p] \in {"truncate", "write", "running"} =>
                keys[p][k] = initial.keys[k]

Writing == {p \in Process : pc[p] \in {"truncate", "write"}}

\* A file that cannot be read is never replaced by a start that finds it.  Once it is
\* torn and no start that looked earlier is left to write it, it stays as it is, no
\* start gets as far as writing, and none returns keys, until one misses the file.
DamagedFileIsNotReplaced ==
    [][(file = Torn /\ Writing = {} /\ ~missed')
        => (file' = Torn /\ Writing' = {} /\ returned' = returned)]_vars
=============================================================================
