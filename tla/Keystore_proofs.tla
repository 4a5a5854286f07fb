--------------------------- MODULE Keystore_proofs ---------------------------
(***************************************************************************)
(* What the identity file guarantees, for any processes, passwords and     *)
(* number of starts, until a start gets no answer from fs::metadata for a  *)
(* file that is there: the keys of an existing file survive concurrent     *)
(* migrations and kills (ExistingKeysKept), and starts that do not overlap *)
(* never yield two identities (OneIdentity, RunningIsDurable,              *)
(* CompleteFileStays).                                                     *)
(***************************************************************************)
EXTENDS Keystore, TLAPS

(* Types *)

LEMMA KeysReadType ==
  ASSUME NEW f \in Keystore, fresh \in 0 .. MaxFresh,
         f.version = "V3" \/ fresh < MaxFresh
  PROVE  KeysRead(f) \in HoprKeys
<1>1. ASSUME NEW k \in KeyName, HasKey(f.version, k) PROVE f.keys[k] \in Key
  BY <1>1 DEF Keystore
<1>2. f.version # "V3" => fresh + 1 \in Key
  BY BoundAssumption DEF Key
<1>3. ASSUME NEW k \in KeyName
      PROVE  (IF HasKey(f.version, k) THEN f.keys[k] ELSE fresh + 1) \in Key
  BY <1>1, <1>2 DEF HasKey
<1> QED BY <1>3 DEF KeysRead, HoprKeys

LEMMA WrittenType ==
  ASSUME TypeOK, NEW p \in Process
  PROVE  Written(p) \in Keystore /\ Written(p).version = "V3" /\ Written(p).keys = keys[p]
<1>1. \A k \in KeyName : keys[p][k] \in Key /\ keys[p][k] # None
  BY BoundAssumption, NoneAssumption DEF TypeOK, HoprKeys, Key
<1>2. keys[p] \in [KeyName -> Key \cup {None}]
  BY DEF TypeOK, HoprKeys
<1> QED BY <1>1, <1>2 DEF Written, Keystore, HasKey, TypeOK

LEMMA InitType == Init => TypeOK
<1> SUFFICES ASSUME Init PROVE TypeOK
  OBVIOUS
<1>1. [k \in KeyName |-> 0] \in HoprKeys
  BY BoundAssumption DEF HoprKeys, Key
<1>2. overlapped \in BOOLEAN /\ missed \in BOOLEAN
  BY DEF Init
<1>3. password \in [Process -> Password] /\ file \in File /\ initial \in File /\ fresh \in 0 .. MaxFresh
  BY BoundAssumption, FileAssumption DEF Init
<1>4. keys \in [Process -> HoprKeys] /\ pc \in [Process -> Step] /\ returned \subseteq HoprKeys
  BY <1>1 DEF Init, Step
<1> QED BY <1>2, <1>3, <1>4 DEF TypeOK

LEMMA StepType == TypeOK /\ [Next]_vars => TypeOK'
<1> SUFFICES ASSUME TypeOK, [Next]_vars PROVE TypeOK'
  OBVIOUS
<1>1. ASSUME NEW p \in Process, NEW w \in Password, NEW answered \in BOOLEAN, Start(p, w, answered)
      PROVE  TypeOK'
  <2>1. fresh < MaxFresh => [k \in KeyName |-> fresh + 1] \in HoprKeys
    BY BoundAssumption DEF TypeOK, HoprKeys, Key
  <2>2. fresh' \in 0 .. MaxFresh
    BY <1>1, BoundAssumption DEF Start, TypeOK
  <2>3. keys' \in [Process -> HoprKeys]
    BY <1>1, <2>1 DEF Start, TypeOK
  <2>4. pc' \in [Process -> Step] /\ password' \in [Process -> Password]
    BY <1>1 DEF Start, TypeOK, Step
  <2>5. missed' \in BOOLEAN /\ overlapped' \in BOOLEAN
    BY <1>1 DEF Start, TypeOK
  <2> QED BY <1>1, <2>2, <2>3, <2>4, <2>5 DEF Start, TypeOK
<1>2. ASSUME NEW p \in Process, Read(p) PROVE TypeOK'
  <2>1. KeysRead(file) \in HoprKeys
    BY <1>2, KeysReadType DEF Read, TypeOK
  <2>2. fresh' \in 0 .. MaxFresh
    BY <1>2, BoundAssumption DEF Read, TypeOK
  <2>3. pc' \in [Process -> Step] /\ returned' \subseteq HoprKeys
    BY <1>2, <2>1 DEF Read, Return, TypeOK, Step
  <2> QED BY <1>2, <2>1, <2>2, <2>3 DEF Read, TypeOK
<1>3. ASSUME NEW p \in Process, ReadFails(p) PROVE TypeOK'
  BY <1>3 DEF ReadFails, TypeOK, Step
<1>4. ASSUME NEW p \in Process, Truncate(p) PROVE TypeOK'
  BY <1>4 DEF Truncate, TypeOK, Step, File
<1>5. ASSUME NEW p \in Process, Write(p) PROVE TypeOK'
  <2>1. Written(p) \in File
    BY WrittenType DEF File
  <2>2. pc' \in [Process -> Step] /\ returned' \subseteq HoprKeys
    BY <1>5 DEF Write, Return, TypeOK, Step
  <2> QED BY <1>5, <2>1, <2>2 DEF Write, TypeOK
<1>6. ASSUME NEW p \in Process, End(p) PROVE TypeOK'
  BY <1>6 DEF End, TypeOK, Step
<1>7. CASE UNCHANGED vars
  BY <1>7 DEF vars, TypeOK
<1> QED BY <1>1, <1>2, <1>3, <1>4, <1>5, <1>6, <1>7 DEF Next

\* Every variable keeps its type; in particular what write_eth_keystore writes is a
\* complete keystore, and what read_eth_keystore returns has all three keys.
THEOREM TypeCorrect == Spec => []TypeOK
  BY InitType, StepType, PTL DEF Spec

-----------------------------------------------------------------------------
(* The keys of an existing file *)

\* An existing file does not go away, so that no start that finds it draws a new
\* chain key.
KeptInv ==
  /\ TypeOK
  /\ ExistingKeysKept
  /\ initial # Absent => file # Absent

LEMMA InitialKey ==
  ASSUME TypeOK, initial \in Keystore, NEW k \in KeyName, HasKey(initial.version, k)
  PROVE  initial.keys[k] # None
  BY DEF Keystore

LEMMA StepKept == KeptInv /\ [Next]_vars => KeptInv'
<1> SUFFICES ASSUME KeptInv, [Next]_vars PROVE ExistingKeysKept' /\ (initial' # Absent => file' # Absent)
  BY StepType DEF KeptInv
<1> USE DEF KeptInv
<1>1. ASSUME NEW p \in Process, NEW w \in Password, NEW answered \in BOOLEAN,
             Start(p, w, answered)
      PROVE  ExistingKeysKept' /\ (initial' # Absent => file' # Absent)
  <2>1. CASE initial = Absent
    BY <1>1, <2>1, FileAssumption DEF Start, ExistingKeysKept
  <2>2. CASE initial # Absent
    <3>1. file # Absent /\ UNCHANGED <<file, initial>>
      BY <1>1, <2>2 DEF Start
    <3>2. missed \/ ~answered => missed'
      BY <1>1, <3>1 DEF Start
    <3>3. answered => pc' = [pc EXCEPT ![p] = "read"] /\ UNCHANGED keys
      BY <1>1, <3>1 DEF Start, IsOk
    <3> QED BY <2>2, <3>1, <3>2, <3>3 DEF ExistingKeysKept, TypeOK
  <2> QED BY <2>1, <2>2
<1>2. ASSUME NEW p \in Process, Read(p)
      PROVE  ExistingKeysKept' /\ (initial' # Absent => file' # Absent)
  <2>1. ASSUME initial \in Keystore, ~missed, NEW k \in KeyName, HasKey(initial.version, k)
        PROVE  KeysRead(file)[k] = initial.keys[k]
    <3>1. file.keys[k] = initial.keys[k]
      BY <1>2, <2>1 DEF Read, ExistingKeysKept
    <3>2. HasKey(file.version, k)
      BY <3>1, <1>2, <2>1, InitialKey DEF Read, Keystore
    <3> QED BY <3>1, <3>2 DEF KeysRead
  <2>2. \A q \in Process \ {p} : pc'[q] = pc[q] /\ keys'[q] = keys[q]
    BY <1>2 DEF Read, Return, TypeOK
  <2>3. keys'[p] = KeysRead(file)
    BY <1>2 DEF Read, TypeOK
  <2> QED BY <1>2, <2>1, <2>2, <2>3 DEF Read, ExistingKeysKept
<1>3. ASSUME NEW p \in Process, ReadFails(p) \/ End(p)
      PROVE  ExistingKeysKept' /\ (initial' # Absent => file' # Absent)
  BY <1>3 DEF ReadFails, End, ExistingKeysKept, TypeOK
<1>4. ASSUME NEW p \in Process, Truncate(p)
      PROVE  ExistingKeysKept' /\ (initial' # Absent => file' # Absent)
  BY <1>4, FileAssumption DEF Truncate, ExistingKeysKept, TypeOK
<1>5. ASSUME NEW p \in Process, Write(p)
      PROVE  ExistingKeysKept' /\ (initial' # Absent => file' # Absent)
  <2>1. file' \in Keystore /\ file'.keys = keys[p]
    BY <1>5, WrittenType DEF Write
  <2> QED BY <1>5, <2>1, FileAssumption DEF Write, Return, ExistingKeysKept, TypeOK
<1>6. CASE UNCHANGED vars
  BY <1>6 DEF vars, ExistingKeysKept
<1> QED BY <1>1, <1>2, <1>3, <1>4, <1>5, <1>6 DEF Next

LEMMA InitKept == Init => KeptInv
  BY InitType DEF Init, KeptInv, ExistingKeysKept

\* The keys of a file that was there at the beginning are in every later file and in
\* every start that gets past reading, whatever processes migrate it at once and
\* wherever they are killed, as long as every start finds the file.
THEOREM ExistingKeysSurvive == Spec => []ExistingKeysKept
<1>1. KeptInv => ExistingKeysKept
  BY DEF KeptInv
<1> QED BY <1>1, InitKept, StepKept, PTL DEF Spec

-----------------------------------------------------------------------------
(* Damaged files *)

\* A file that is torn while nobody writes it stays torn, and no start that finds it
\* gets past it.
THEOREM DamagedFilesStay == Spec => DamagedFileIsNotReplaced
<1>1. TypeOK /\ [Next]_vars => [(file = Torn /\ Writing = {} /\ ~missed')
            => (file' = Torn /\ Writing' = {} /\ returned' = returned)]_vars
  <2> SUFFICES ASSUME TypeOK, Next, file = Torn, Writing = {}, ~missed'
               PROVE  file' = Torn /\ Writing' = {} /\ returned' = returned
    BY DEF vars
  <2>1. \A q \in Process : pc[q] \notin {"truncate", "write"}
    BY DEF Writing
  <2>2. PICK p \in Process : \/ \E w \in Password, answered \in BOOLEAN : Start(p, w, answered)
                           \/ ReadFails(p) \/ End(p)
    BY <2>1, FileAssumption DEF Next, Read, Truncate, Write
  <2>3. UNCHANGED <<file, returned>>
    BY <2>2 DEF Start, ReadFails, End
  <2>4. \E s \in {"off", "read"} : pc' = [pc EXCEPT ![p] = s]
    <3>1. ASSUME NEW w \in Password, NEW answered \in BOOLEAN, Start(p, w, answered)
          PROVE  pc' = [pc EXCEPT ![p] = "read"]
      BY <3>1, FileAssumption DEF Start, IsOk
    <3> QED BY <2>2, <3>1 DEF ReadFails, End
  <2> QED BY <2>1, <2>3, <2>4 DEF Writing, TypeOK
<1> QED BY <1>1, TypeCorrect, PTL DEF Spec, DamagedFileIsNotReplaced

-----------------------------------------------------------------------------
(* Starts that do not overlap *)

Starting(p) == pc[p] \in {"read", "truncate", "write"}

\* A start writes only where there is no complete keystore, and Ok has been returned
\* only for the keys of a complete one.
AloneInv ==
  /\ \A p, q \in Process : Starting(p) /\ Starting(q) => p = q
  /\ \A p \in Process : pc[p] = "truncate" => ~Complete
  /\ \A p \in Process : pc[p] = "write" => file = Torn
  /\ \A ks \in returned : Complete /\ file.keys = ks
  /\ \A p \in Process : pc[p] = "running" => keys[p] \in returned

ExclusiveInv ==
  /\ TypeOK
  /\ ~overlapped /\ ~missed => AloneInv

LEMMA InitExclusive == Init => ExclusiveInv
  BY InitType DEF Init, ExclusiveInv, AloneInv, Starting

LEMMA StepOverlapped ==
    [Next]_vars /\ ~overlapped' /\ ~missed' => ~overlapped /\ ~missed
<1> SUFFICES ASSUME Next PROVE (overlapped => overlapped') /\ (missed => missed')
  BY DEF vars
<1>1. ASSUME NEW p \in Process, NEW w \in Password, NEW answered \in BOOLEAN,
             Start(p, w, answered)
      PROVE  (overlapped => overlapped') /\ (missed => missed')
  BY <1>1 DEF Start
<1>2. ASSUME NEW p \in Process, Read(p) \/ ReadFails(p) \/ Truncate(p) \/ Write(p) \/ End(p)
      PROVE  UNCHANGED <<overlapped, missed>>
  BY <1>2 DEF Read, ReadFails, Truncate, Write, End
<1> QED BY <1>1, <1>2 DEF Next

LEMMA StepExclusive == ExclusiveInv /\ [Next]_vars => ExclusiveInv'
<1> SUFFICES ASSUME ExclusiveInv, [Next]_vars, ~overlapped', ~missed' PROVE AloneInv'
  BY StepType DEF ExclusiveInv
<1>0. TypeOK /\ TypeOK' /\ AloneInv
  BY StepType, StepOverlapped DEF ExclusiveInv
<1> USE <1>0 DEF AloneInv, Starting
<1>1. ASSUME NEW p \in Process, NEW w \in Password, NEW answered \in BOOLEAN,
             Start(p, w, answered)
      PROVE  AloneInv'
  <2>1. \A q \in Process : ~Starting(q)
    BY <1>1 DEF Start
  <2>2. pc' \in [Process -> Step] /\ \A q \in Process \ {p} : pc'[q] = pc[q] /\ keys'[q] = keys[q]
    BY <1>1 DEF Start, TypeOK
  <2>3. pc'[p] \in {"read", "truncate"} /\ (pc'[p] = "truncate" => file = Absent)
    <3>1. file # Absent => answered
      BY <1>1 DEF Start
    <3> QED BY <1>1, <3>1 DEF Start, IsOk, TypeOK
  <2>4. Complete' <=> Complete
    BY <1>1 DEF Start, Complete
  <2>5. UNCHANGED <<file, returned>>
    BY <1>1 DEF Start
  <2>6. file = Absent => ~Complete
    BY FileAssumption DEF Complete
  <2> QED BY <2>1, <2>2, <2>3, <2>4, <2>5, <2>6
<1>2. ASSUME NEW p \in Process, Read(p) PROVE AloneInv'
  <2>1. \A q \in Process \ {p} : pc'[q] = pc[q] /\ keys'[q] = keys[q]
    BY <1>2 DEF Read, Return, TypeOK
  <2>2. Complete' <=> Complete
    BY <1>2 DEF Read, Complete
  <2>3. UNCHANGED file /\ keys'[p] = KeysRead(file) /\ pc[p] = "read"
    BY <1>2 DEF Read, TypeOK
  <2>4. CASE NeedsMigration(file)
    <3>1. pc'[p] = "truncate" /\ UNCHANGED returned /\ ~Complete
      BY <1>2, <2>4 DEF Read, NeedsMigration, Complete, TypeOK
    <3> QED BY <2>1, <2>2, <2>3, <3>1
  <2>5. CASE ~NeedsMigration(file)
    <3>1. /\ pc'[p] = "running" /\ Complete
          /\ returned' = returned \cup {KeysRead(file)}
      BY <1>2, <2>5 DEF Read, Return, NeedsMigration, Complete, TypeOK
    <3>2. KeysRead(file) = file.keys
      BY <3>1 DEF KeysRead, HasKey, Complete, Keystore
    <3> QED BY <2>1, <2>2, <2>3, <3>1, <3>2
  <2> QED BY <2>4, <2>5
<1>3. ASSUME NEW p \in Process, ReadFails(p) \/ End(p) PROVE AloneInv'
  <2>1. pc' = [pc EXCEPT ![p] = "off"] /\ UNCHANGED <<file, keys, returned>>
    BY <1>3 DEF ReadFails, End
  <2> QED BY <2>1 DEF TypeOK, Complete
<1>4. ASSUME NEW p \in Process, Truncate(p) PROVE AloneInv'
  <2>1. returned = {}
    BY <1>4 DEF Truncate
  <2>2. pc' = [pc EXCEPT ![p] = "write"] /\ pc[p] = "truncate" /\ UNCHANGED <<keys, returned>>
        /\ file' = Torn
    BY <1>4 DEF Truncate
  <2>3. ~Complete'
    BY <2>2, FileAssumption DEF Complete
  <2> QED BY <2>1, <2>2, <2>3 DEF TypeOK
<1>5. ASSUME NEW p \in Process, Write(p) PROVE AloneInv'
  <2>1. returned = {}
    <3>1. file = Torn
      BY <1>5 DEF Write
    <3> QED BY <3>1, FileAssumption DEF Complete
  <2>2. /\ pc' = [pc EXCEPT ![p] = "running"] /\ pc[p] = "write"
        /\ returned' = {keys[p]} /\ UNCHANGED keys /\ file' = Written(p)
    BY <1>5, <2>1 DEF Write, Return
  <2>3. Complete' /\ file'.keys = keys[p]
    BY <2>2, WrittenType DEF Complete
  <2> QED BY <2>1, <2>2, <2>3 DEF TypeOK
<1>6. CASE UNCHANGED vars
  BY <1>6 DEF vars, Complete
<1> QED BY <1>1, <1>2, <1>3, <1>4, <1>5, <1>6 DEF Next

LEMMA ExclusiveAlways == Spec => []ExclusiveInv
  BY InitExclusive, StepExclusive, PTL DEF Spec

\* Starts that do not overlap and find a file that is there never return two different
\* sets of keys, wherever the earlier ones were killed.
THEOREM StartsAgree == Spec => []OneIdentity
<1>1. ExclusiveInv => OneIdentity
  BY DEF ExclusiveInv, AloneInv, OneIdentity
<1> QED BY <1>1, ExclusiveAlways, PTL

\* The keys a process runs with are those of the file, if starts do not overlap and
\* find a file that is there.
THEOREM RunningKeysAreStored == Spec => []RunningIsDurable
<1>1. ExclusiveInv => RunningIsDurable
  BY DEF ExclusiveInv, AloneInv, RunningIsDurable
<1> QED BY <1>1, ExclusiveAlways, PTL

\* Starts that do not overlap and find a file that is there never write to a complete
\* identity file.
THEOREM CompleteFilesStay == Spec => CompleteFileStays
<1>1. ExclusiveInv /\ [Next]_vars => [Complete /\ ~overlapped /\ ~missed => file' = file]_vars
  <2> SUFFICES ASSUME ExclusiveInv, Next, Complete, ~overlapped, ~missed PROVE file' = file
    BY DEF vars
  <2>1. ASSUME NEW p \in Process, Truncate(p) \/ Write(p) PROVE FALSE
    BY <2>1, FileAssumption DEF ExclusiveInv, AloneInv, Truncate, Write, Complete
  <2> QED BY <2>1 DEF Next, Start, Read, ReadFails, End
<1> QED BY <1>1, ExclusiveAlways, PTL DEF Spec, CompleteFileStays
=============================================================================
