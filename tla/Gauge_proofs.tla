----------------------------- MODULE Gauge_proofs -----------------------------
(***************************************************************************)
(* The proofs about telemetry, for any threads, labels, names, providers   *)
(* and any bounds. Gauge implements AtomicGauge: the exchange loop loses no*)
(* update. The exported value and what the guards claim are sums of what   *)
(* the operations of finitely many threads have still to do. The global    *)
(* state of the metrics feeds what its callers expect, and a counter's     *)
(* series is the sum of the instruments behind it.                         *)
(***************************************************************************)
EXTENDS MCGauge, FiniteSetTheorems, SequenceTheorems, WellFoundedInduction, TLAPS

(* Type correctness *)

\* An operation is the one of a call or of Init; every addition is of integers.
LEMMA TypeInit == Init => TypeOK
  BY LabelAssumption, ValueAssumption, CallsAssumption DEF Init, TypeOK, Step, Operation

LEMMA CallType ==
  ASSUME TypeOK, NEW t \in Thread, NEW o \in Operation, Call(t, o),
         guard' \in [Thread -> Guard \cup {None}]
  PROVE  TypeOK'
<1>1. pc' \in [Thread -> Step]
  BY DEF TypeOK, Call, Goto, Step
<1>2. op' \in [Thread -> Operation]
  BY DEF TypeOK, Call
<1>3. calls' \in [Thread -> 0 .. MaxCalls]
  <2>1. calls[t] + 1 \in 0 .. MaxCalls
    BY CallsAssumption DEF TypeOK, Call
  <2> QED BY <2>1 DEF TypeOK, Call
<1> QED BY <1>1, <1>2, <1>3 DEF TypeOK, Call

\* Once its entry exists, an operation works on an integer.
EntryExists ==
  \A t \in Thread : pc[t] \in {"load", "cas", "swap", "settle", "return"} => Entry(t) # None

\* Additions go through the exchange loop, sets through the swap.
KindFits ==
  \A t \in Thread :
    /\ pc[t] \in {"export", "load", "cas"} => op[t].kind = "add"
    /\ pc[t] \in {"swap", "settle"} => op[t].kind = "set"

Inv == TypeOK /\ EntryExists /\ KindFits

\* Every call, with or without a guard, begins one operation.
LEMMA CallsBegin ==
  ASSUME TypeOK, NEW t \in Thread, Calls(t)
  PROVE  \E o \in Operation : Call(t, o) /\ guard' \in [Thread -> Guard \cup {None}]
<1> DEFINE G == [Thread -> Guard \cup {None}]
<1>1. ASSUME NEW l \in Label, NEW by \in Int PROVE
        [kind |-> "add", label |-> l, arg |-> by] \in Operation
  BY DEF Operation
<1>2. ASSUME NEW l \in Label, NEW by \in Delta, Add(t, l, by)
      PROVE  \E o \in Operation : Call(t, o) /\ guard' \in G
  BY <1>1, <1>2, ValueAssumption DEF Add, TypeOK
<1>3. ASSUME NEW l \in Label, NEW v \in Value, Set(t, l, v)
      PROVE  \E o \in Operation : Call(t, o) /\ guard' \in G
  <2>1. [kind |-> "set", label |-> l, arg |-> v] \in Operation
    BY ValueAssumption DEF Operation
  <2> QED BY <2>1, <1>3 DEF Set, TypeOK
<1>4. ASSUME NEW l \in Label, NEW by \in GuardBy, NewGuard(t, l, by)
      PROVE  \E o \in Operation : Call(t, o) /\ guard' \in G
  <2>1. guard' \in G
    BY <1>4 DEF NewGuard, TypeOK, Guard
  <2> QED BY <2>1, <1>1, <1>4, ValueAssumption DEF NewGuard
<1>5. ASSUME DropGuard(t)
      PROVE  \E o \in Operation : Call(t, o) /\ guard' \in G
  <2>1. guard[t].label \in Label /\ guard[t].by \in Int
    BY <1>5, ValueAssumption DEF DropGuard, TypeOK, Guard
  <2>2. \A x \in Int : -x \in Int
    OBVIOUS
  <2>3. guard' \in G
    BY <1>5 DEF DropGuard, TypeOK
  <2> QED BY <2>1, <2>2, <2>3, <1>1, <1>5 DEF DropGuard
<1> QED BY <1>2, <1>3, <1>4, <1>5, LabelAssumption DEF Calls

LEMMA CallsInv ==
  ASSUME Inv, NEW t \in Thread, Calls(t)
  PROVE  Inv'
<1>1. PICK o \in Operation : Call(t, o) /\ guard' \in [Thread -> Guard \cup {None}]
  BY CallsBegin DEF Inv
<1>2. TypeOK'
  BY <1>1, CallType DEF Inv
<1>3. EntryExists'
  BY <1>1 DEF Inv, TypeOK, EntryExists, Entry, Call, Goto
<1>4. KindFits'
  BY <1>1 DEF Inv, TypeOK, KindFits, Operation, Call, Goto
<1> QED BY <1>2, <1>3, <1>4 DEF Inv

LEMMA RunsInv ==
  ASSUME Inv, NEW t \in Thread, Runs(t)
  PROVE  Inv'
<1> USE DEF Inv, TypeOK, EntryExists, KindFits, Entry, Goto, Step, Operation
<1>1. CASE Export(t)
  <2>1. exported[op[t].label] + op[t].arg \in Int
    OBVIOUS
  <2> QED BY <2>1, <1>1 DEF Export
<1>2. CASE Ensure(t)
  BY <1>2 DEF Ensure, AfterEnsure
<1>3. CASE Insert(t)
  <2>1. InitialEntry(t) \in Int
    BY DEF InitialEntry
  <2>2. InitialEntry(t) # None
    BY <2>1, NoneAssumption
  <2> QED BY <2>1, <2>2, <1>3 DEF Insert, AfterEnsure
<1>4. CASE Load(t)
  <2>1. Entry(t) \in Int
    BY <1>4 DEF Load
  <2> QED BY <2>1, <1>4 DEF Load
<1>5. CASE CasOk(t)
  <2>1. old[t] + op[t].arg \in Int
    OBVIOUS
  <2> QED BY <2>1, <1>5, NoneAssumption DEF CasOk
<1>6. CASE CasFails(t)
  BY <1>6 DEF CasFails
<1>7. CASE Swap(t)
  <2>1. Entry(t) \in Int
    BY <1>7 DEF Swap
  <2> QED BY <2>1, <1>7, NoneAssumption DEF Swap
<1>8. CASE Settle(t)
  <2>1. exported[op[t].label] + op[t].arg - old[t] \in Int
    OBVIOUS
  <2> QED BY <2>1, <1>8 DEF Settle
<1>9. CASE Return(t)
  BY <1>9 DEF Return
<1> QED BY <1>1, <1>2, <1>3, <1>4, <1>5, <1>6, <1>7, <1>8, <1>9 DEF Runs

LEMMA InitInv == Init => Inv
  BY TypeInit DEF Init, Inv, EntryExists, KindFits

LEMMA StepInv == Inv /\ [Next]_vars => Inv'
<1>1. ASSUME Inv, UNCHANGED vars PROVE Inv'
  BY <1>1 DEF Inv, TypeOK, EntryExists, KindFits, Entry, vars
<1> QED BY <1>1, CallsInv, RunsInv DEF Next

LEMMA InvAlways == Spec => []Inv
  BY InitInv, StepInv, PTL DEF Spec

\* Every variable keeps its type for any number of threads and calls; with it, every
\* access to the shadow map after ensure_shadow finds an entry (Inv).
THEOREM TypeCorrect == Spec => []TypeOK
<1>1. Inv => TypeOK
  BY DEF Inv
<1> QED BY <1>1, InvAlways, PTL

-----------------------------------------------------------------------------
(* The refinement *)

\* The abstract calls of the refinement mapping.
AbstractCall == [t \in Thread |-> CallOf(t)]

\* An abstract step that moves the call of one thread.
LEMMA OneCallMoves ==
  ASSUME NEW t \in Thread,
         \A u \in Thread \ {t} : pc'[u] = pc[u] /\ op'[u] = op[u]
  PROVE  AbstractCall' = [AbstractCall EXCEPT ![t] = CallOf(t)']
<1>1. \A u \in Thread \ {t} : CallOf(u)' = CallOf(u)
  BY DEF CallOf
<1> QED BY <1>1 DEF AbstractCall

LEMMA CallRefines ==
  ASSUME Inv, NEW t \in Thread, NEW o \in Operation, Call(t, o)
  PROVE  Abstract!Begin(t)
<1>1. AbstractCall' = [AbstractCall EXCEPT ![t] = CallOf(t)']
  <2>1. \A u \in Thread \ {t} : pc'[u] = pc[u] /\ op'[u] = op[u]
    BY DEF Inv, TypeOK, Call, Goto
  <2> QED BY <2>1, OneCallMoves
<1>2. CallOf(t)' = [phase |-> "open", op |-> o]
  <2>1. pc'[t] \in {"export", "ensure"} /\ op'[t] = o
    BY DEF Inv, TypeOK, Call, Goto
  <2> QED BY <2>1 DEF CallOf
<1>3. AbstractCall[t].phase = "idle"
  BY DEF AbstractCall, CallOf, Call
<1>4. AbstractCall'[t] = CallOf(t)'
  BY DEF AbstractCall
<1>5. o \in Abstract!Operation
  BY DEF Operation, Abstract!Operation
<1>6. UNCHANGED shadow
  BY DEF Call
<1> QED BY <1>1, <1>2, <1>3, <1>4, <1>5, <1>6 DEF Abstract!Begin, AbstractCall, CallOf

\* The steps that only the thread itself can see.
LEMMA StutterRefines ==
  ASSUME Inv, NEW t \in Thread,
         Export(t) \/ Ensure(t) \/ Load(t) \/ CasFails(t) \/ Settle(t)
  PROVE  UNCHANGED <<shadow, AbstractCall>>
<1>1. UNCHANGED <<shadow, op>>
  BY DEF Export, Ensure, Load, CasFails, Settle
<1>2. \A u \in Thread : CallOf(u)' = CallOf(u)
  BY <1>1 DEF Inv, TypeOK, Step, CallOf, Goto, AfterEnsure,
              Export, Ensure, Load, CasFails, Settle
<1> QED BY <1>1, <1>2 DEF AbstractCall

\* The write lock of ensure_shadow makes the entry appear, or finds that another
\* thread made it since the read lock was given back.
LEMMA InsertRefines ==
  ASSUME Inv, NEW t \in Thread, Insert(t)
  PROVE  Abstract!Appear(t) \/ UNCHANGED <<shadow, AbstractCall>>
<1>1. UNCHANGED op /\ pc[t] = "insert"
  BY DEF Insert
<1>2. UNCHANGED AbstractCall
  <2>1. \A u \in Thread : CallOf(u)' = CallOf(u)
    BY <1>1 DEF Inv, TypeOK, Step, CallOf, Goto, AfterEnsure, Insert
  <2> QED BY <2>1 DEF AbstractCall
<1>3. CASE Entry(t) = None
  <2>1. AbstractCall[t].phase = "open" /\ AbstractCall[t].op = op[t]
    BY <1>1 DEF AbstractCall, CallOf
  <2>2. shadow' = [shadow EXCEPT ![op[t].label] = 0]
    BY <1>3 DEF Insert, InitialEntry
  <2> QED BY <1>2, <1>3, <2>1, <2>2 DEF Abstract!Appear, AbstractCall, Entry
<1>4. CASE Entry(t) # None
  <2>1. shadow' = shadow
    BY <1>4 DEF Insert, InitialEntry, Entry, Inv, TypeOK
  <2> QED BY <1>2, <2>1
<1> QED BY <1>3, <1>4

\* The exchange and the swap are where an operation takes effect.
LEMMA EffectRefines ==
  ASSUME Inv, NEW t \in Thread, CasOk(t) \/ Swap(t)
  PROVE  Abstract!Apply(t)
<1>1. UNCHANGED op /\ pc[t] \in {"cas", "swap"}
  BY DEF CasOk, Swap
<1>2. AbstractCall' = [AbstractCall EXCEPT ![t] = CallOf(t)']
  <2>1. \A u \in Thread \ {t} : pc'[u] = pc[u] /\ op'[u] = op[u]
    BY <1>1 DEF Inv, TypeOK, CasOk, Swap, Goto
  <2> QED BY <2>1, OneCallMoves
<1>3. CallOf(t)' = [phase |-> "done"]
  BY DEF Inv, TypeOK, CasOk, Swap, Goto, CallOf
<1>4. AbstractCall[t].phase = "open" /\ AbstractCall[t].op = op[t]
  BY <1>1 DEF AbstractCall, CallOf
<1>5. Entry(t) # None
  BY <1>1 DEF Inv, EntryExists
<1>6. shadow' = [shadow EXCEPT ![op[t].label] = Abstract!Effect(op[t], Entry(t))]
  <2>1. CASE CasOk(t)
    BY <2>1 DEF CasOk, Swaps, Inv, KindFits, Abstract!Effect
  <2>2. CASE Swap(t)
    BY <2>2 DEF Swap, Inv, KindFits, Abstract!Effect
  <2> QED BY <2>1, <2>2
<1> QED BY <1>2, <1>3, <1>4, <1>5, <1>6 DEF Abstract!Apply, AbstractCall, Entry

LEMMA ReturnRefines ==
  ASSUME Inv, NEW t \in Thread, Return(t)
  PROVE  Abstract!Return(t)
<1>1. UNCHANGED <<shadow, op>> /\ pc[t] = "return"
  BY DEF Return
<1>2. AbstractCall' = [AbstractCall EXCEPT ![t] = CallOf(t)']
  <2>1. \A u \in Thread \ {t} : pc'[u] = pc[u] /\ op'[u] = op[u]
    BY <1>1 DEF Inv, TypeOK, Return, Goto
  <2> QED BY <2>1, OneCallMoves
<1>3. CallOf(t)' = [phase |-> "idle"]
  BY DEF Inv, TypeOK, Return, Goto, CallOf
<1>4. AbstractCall[t].phase = "done"
  BY <1>1 DEF AbstractCall, CallOf
<1> QED BY <1>1, <1>2, <1>3, <1>4 DEF Abstract!Return, AbstractCall

LEMMA StepRefines ==
  Inv /\ [Next]_vars => [Abstract!Next]_<<shadow, AbstractCall>>
<1>1. ASSUME Inv, UNCHANGED vars PROVE UNCHANGED <<shadow, AbstractCall>>
  BY <1>1 DEF vars, AbstractCall, CallOf
<1>2. ASSUME Inv, NEW t \in Thread, Calls(t) PROVE Abstract!Begin(t)
  BY <1>2, CallsBegin, CallRefines DEF Inv
<1>3. ASSUME Inv, NEW t \in Thread, Runs(t)
      PROVE  \/ Abstract!Appear(t) \/ Abstract!Apply(t) \/ Abstract!Return(t)
             \/ UNCHANGED <<shadow, AbstractCall>>
  BY <1>3, StutterRefines, InsertRefines, EffectRefines, ReturnRefines DEF Runs
<1> QED BY <1>1, <1>2, <1>3 DEF Next, Abstract!Next

LEMMA InitRefines == Init => Abstract!Init
  BY DEF Init, Abstract!Init, CallOf

\* The concurrent gauge implements the atomic one: each increment, decrement and set
\* takes effect once, between its call and its return, however the loops of the
\* compare-and-swap and the lock of the map interleave.
THEOREM ImplementsAtomicGauge == Spec => AbstractSpec
<1>1. Inv /\ [Next]_vars => [Abstract!Next]_<<shadow, [t \in Thread |-> CallOf(t)]>>
  BY StepRefines DEF AbstractCall
<1> QED BY <1>1, InitRefines, InvAlways, PTL DEF Spec, AbstractSpec, Abstract!Spec

-----------------------------------------------------------------------------
(* Sums over finite sets *)

LEMMA LeastNat ==
  ASSUME NEW T, T \subseteq Nat, T # {}
  PROVE  \E x \in T : \A y \in T : ~(y < x)
<1>1. IsWellFoundedOn(OpToRel(<, Nat), Nat)
  BY NatLessThanWellFounded
<1>2. \E x \in T : \A y \in T : ~(<<y, x>> \in OpToRel(<, Nat))
  BY <1>1, WFMin, Zenon
<1>3. \A x, y \in Nat : y < x => <<y, x>> \in OpToRel(<, Nat)
  BY DEF OpToRel
<1> QED BY <1>2, <1>3

\* Induction over the subsets of a finite set, as the absence of infinite descent.
LEMMA NoDescent ==
  ASSUME NEW S, IsFiniteSet(S), NEW B, B \subseteq SUBSET S,
         \A s \in B : \E r \in B : r \subseteq s /\ r # s
  PROVE  B = {}
<1> SUFFICES ASSUME B # {} PROVE FALSE
  OBVIOUS
<1> DEFINE T == {Cardinality(s) : s \in B}
<1>1. \A s \in B : IsFiniteSet(s) /\ Cardinality(s) \in Nat
  BY FS_Subset, FS_CardinalityType
<1>2. T \subseteq Nat /\ T # {}
  BY <1>1
<1>3. PICK c \in T : \A d \in T : ~(d < c)
  <2> HIDE DEF T
  <2> QED BY <1>2, LeastNat
<1>4. PICK s \in B : Cardinality(s) = c
  OBVIOUS
<1>5. PICK r \in B : r \subseteq s /\ r # s
  OBVIOUS
<1>6. Cardinality(r) <= Cardinality(s) /\ (Cardinality(r) = Cardinality(s) => r = s)
  BY <1>1, <1>5, FS_Subset
<1>7. ~(Cardinality(r) < Cardinality(s))
  BY <1>3, <1>4
<1> QED BY <1>1, <1>5, <1>6, <1>7

Pick(s) == CHOOSE x \in s : TRUE

\* H[s] is the sum of the w[x] with x in s, for every s \subseteq S.
Adds(H, w, S) ==
  /\ w \in [S -> Int] /\ H \in [SUBSET S -> Int] /\ H[{}] = 0
  /\ \A s \in SUBSET S : s # {} => H[s] = w[Pick(s)] + H[s \ {Pick(s)}]

LEMMA PickIn ==
  ASSUME NEW s, s # {}
  PROVE  Pick(s) \in s /\ s \ {Pick(s)} \subseteq s /\ s \ {Pick(s)} # s
<1>1. Pick(s) \in s
  BY DEF Pick
<1> QED BY <1>1

LEMMA SumsAgree ==
  ASSUME NEW R, IsFiniteSet(R), NEW S, NEW T, R \subseteq S, R \subseteq T,
         NEW w, NEW v, \A x \in R : w[x] = v[x],
         NEW H, NEW K, Adds(H, w, S), Adds(K, v, T)
  PROVE  H[R] = K[R]
<1> DEFINE B == {r \in SUBSET R : H[r] # K[r]}
<1>1. ASSUME NEW s \in B PROVE \E r \in B : r \subseteq s /\ r # s
  <2>1. s # {} /\ s \in SUBSET S /\ s \in SUBSET T /\ s \subseteq R /\ H[s] # K[s]
    BY DEF Adds
  <2>2. Pick(s) \in s /\ s \ {Pick(s)} \subseteq s /\ s \ {Pick(s)} # s
    BY <2>1, PickIn
  <2>3. H[s] = w[Pick(s)] + H[s \ {Pick(s)}] /\ K[s] = v[Pick(s)] + K[s \ {Pick(s)}]
    BY <2>1 DEF Adds
  <2>4. w[Pick(s)] = v[Pick(s)]
    BY <2>1, <2>2
  <2>5. s \ {Pick(s)} \in B
    BY <2>1, <2>2, <2>3, <2>4
  <2> QED BY <2>2, <2>5
<1>2. B = {}
  <2>1. B \subseteq SUBSET R
    OBVIOUS
  <2> HIDE DEF B
  <2> QED BY <1>1, <2>1, NoDescent
<1>3. R \notin B
  <2> HIDE DEF B
  <2> QED BY <1>2
<1> QED BY <1>3

LEMMA SumsExist ==
  ASSUME NEW S, IsFiniteSet(S), NEW w \in [S -> Int]
  PROVE  \E H : Adds(H, w, S)
<1> DEFINE On(r) == [x \in r |-> w[x]]
           B == {s \in SUBSET S : ~\E H : Adds(H, On(s), s)}
<1>1. ASSUME NEW s \in B PROVE \E r \in B : r \subseteq s /\ r # s
  <2>0. SUFFICES ASSUME \A r \in SUBSET s : r # s => \E H : Adds(H, On(r), r) PROVE FALSE
    OBVIOUS
  <2>1. \A r \in SUBSET s : On(r) \in [r -> Int] /\ \A x \in r : On(r)[x] = w[x]
    OBVIOUS
  <2>2. s \subseteq S /\ IsFiniteSet(s) /\ \A r \in SUBSET s : IsFiniteSet(r)
    BY FS_Subset
  <2> HIDE DEF On
  <2> DEFINE Sol(r) == CHOOSE H : Adds(H, On(r), r)
             V(r) == Sol(r)[r]
             H == [r \in SUBSET s |-> IF r = {} THEN 0
                                      ELSE IF r = s THEN w[Pick(s)] + V(s \ {Pick(s)})
                                      ELSE V(r)]
  <2>4. ASSUME NEW r \in SUBSET s, r # s PROVE Adds(Sol(r), On(r), r) /\ V(r) \in Int
    <3>1. Adds(Sol(r), On(r), r)
      BY <2>0, <2>4
    <3> QED BY <3>1 DEF Adds
  <2>5. ASSUME NEW r \in SUBSET s, r # s, r # {}
        PROVE  V(r) = w[Pick(r)] + V(r \ {Pick(r)})
    <3> DEFINE q == r \ {Pick(r)}
    <3>0. r \subseteq s /\ q \subseteq r /\ q # r /\ Pick(r) \in r
      BY <2>5, PickIn
    <3>1. q \in SUBSET s /\ q # s /\ q \subseteq q /\ IsFiniteSet(q)
      BY <2>2, <2>5, <3>0
    <3>2. Adds(Sol(r), On(r), r) /\ Adds(Sol(q), On(q), q)
      BY <2>4, <2>5, <3>1
    <3>4. Sol(r)[r] = w[Pick(r)] + Sol(r)[q]
      <4>1. On(r)[Pick(r)] = w[Pick(r)]
        BY <2>1, <3>0
      <4> HIDE DEF Sol
      <4> QED BY <2>5, <3>2, <4>1 DEF Adds
    <3>5. \A x \in q : On(r)[x] = On(q)[x]
      BY <2>1, <3>0, <3>1
    <3> HIDE DEF Sol, q
    <3>3. Sol(r)[q] = Sol(q)[q]
      BY <3>0, <3>1, <3>2, <3>5, SumsAgree
    <3> QED BY <3>3, <3>4 DEF q
  <2>6. V({}) = 0 \/ s = {}
    <3> HIDE DEF Sol
    <3> QED BY <2>4 DEF Adds
  <2> HIDE DEF V
  <2>7. \A x \in s : w[x] \in Int
    BY <2>2
  <2>8. ASSUME s # {} PROVE Pick(s) \in s /\ s \ {Pick(s)} \in SUBSET s /\ s \ {Pick(s)} # s
    BY <2>8, PickIn
  <2>9. H \in [SUBSET s -> Int]
    <3> SUFFICES ASSUME NEW r \in SUBSET s PROVE H[r] \in Int
      OBVIOUS
    <3>1. CASE r = {} \/ r # s
      BY <2>4, <3>1
    <3>2. CASE r = s /\ r # {}
      <4>1. w[Pick(s)] \in Int /\ V(s \ {Pick(s)}) \in Int
        BY <2>4, <2>7, <2>8, <3>2
      <4> QED BY <3>2, <4>1
    <3> QED BY <3>1, <3>2
  <2>10. ASSUME NEW r \in SUBSET s, r # {} PROVE H[r] = w[Pick(r)] + H[r \ {Pick(r)}]
    <3> DEFINE q == r \ {Pick(r)}
    <3>1. q \in SUBSET s /\ q # s /\ q # r
      BY <2>10, PickIn
    <3>2. H[q] = V(q)
      <4> HIDE DEF q
      <4> QED BY <2>6, <3>1
    <3>3. H[r] = w[Pick(r)] + V(q)
      <4>1. CASE r = s
        BY <2>10, <4>1
      <4>2. CASE r # s
        BY <2>5, <2>10, <4>2
      <4> QED BY <4>1, <4>2
    <3> HIDE DEF H
    <3> QED BY <3>2, <3>3
  <2>11. Adds(H, On(s), s)
    <3>1. H[{}] = 0
      OBVIOUS
    <3> HIDE DEF H
    <3>2. \A r \in SUBSET s : r # {} => H[r] = On(s)[Pick(r)] + H[r \ {Pick(r)}]
      <4> SUFFICES ASSUME NEW r \in SUBSET s, r # {}
                   PROVE  H[r] = On(s)[Pick(r)] + H[r \ {Pick(r)}]
        OBVIOUS
      <4>1. Pick(r) \in s
        BY PickIn
      <4>2. On(s)[Pick(r)] = w[Pick(r)]
        BY <2>1, <4>1
      <4> QED BY <2>10, <4>2
    <3> QED BY <2>1, <2>9, <3>1, <3>2 DEF Adds
  <2> HIDE DEF H
  <2> QED BY <2>11
<1>2. B = {}
  <2>1. B \subseteq SUBSET S
    OBVIOUS
  <2> HIDE DEF B
  <2> QED BY <1>1, <2>1, NoDescent
<1>3. S \notin B
  <2> HIDE DEF B
  <2> QED BY <1>2
<1>4. On(S) = w
  OBVIOUS
<1> HIDE DEF On
<1>5. \E H : Adds(H, On(S), S)
  BY <1>3
<1> QED BY <1>4, <1>5

\* The order does not matter.
LEMMA SumInsert ==
  ASSUME NEW S, IsFiniteSet(S), NEW w, NEW H, Adds(H, w, S),
         NEW s, s \subseteq S, NEW a \in S, a \notin s
  PROVE  H[s \cup {a}] = H[s] + w[a]
<1> DEFINE Wrong(r, b) == b \notin r /\ H[r \cup {b}] # H[r] + w[b]
           B == {r \in SUBSET S : \E b \in S : Wrong(r, b)}
<1>1. ASSUME NEW r \in B PROVE \E q \in B : q \subseteq r /\ q # r
  <2>2. PICK b \in S : b \notin r /\ H[r \cup {b}] # H[r] + w[b]
    OBVIOUS
  <2>0. \A p \in SUBSET S : H[p] \in Int
    BY DEF Adds
  <2>3. PICK u : u = r \cup {b}
    OBVIOUS
  <2>4. u \in SUBSET S /\ u # {} /\ r \in SUBSET S
    BY <2>3
  <2>5. PICK x : x = Pick(u)
    OBVIOUS
  <2>6. x \in u /\ H[u] = w[x] + H[u \ {x}]
    BY <2>4, <2>5, PickIn DEF Adds
  <2>7. x # b
    <3> SUFFICES ASSUME x = b PROVE FALSE
      OBVIOUS
    <3>1. u \ {x} = r
      BY <2>2, <2>3
    <3>2. w[b] \in Int /\ H[r] \in Int
      BY <2>0, <2>4 DEF Adds
    <3>3. H[u] = w[b] + H[r]
      BY <2>6, <3>1
    <3> QED BY <2>2, <2>3, <3>2, <3>3
  <2>8. PICK q : q = r \ {x}
    OBVIOUS
  <2>9. x \in r /\ x \in S /\ q \subseteq r /\ q # r /\ q \in SUBSET S /\ x \notin q /\ b \notin q
    BY <2>2, <2>3, <2>4, <2>6, <2>7, <2>8
  <2>10. u \ {x} = q \cup {b} /\ q \cup {x} = r
    BY <2>3, <2>7, <2>8, <2>9
  <2>11. q \in B
    <3> SUFFICES ASSUME q \notin B PROVE FALSE
      OBVIOUS
    <3>1. H[q \cup {b}] = H[q] + w[b] /\ H[q \cup {x}] = H[q] + w[x]
      BY <2>9
    <3>2. H[q] \in Int /\ w[x] \in Int /\ w[b] \in Int
      BY <2>0, <2>9 DEF Adds
    <3>3. H[u] = w[x] + (H[q] + w[b]) /\ H[r] = H[q] + w[x]
      BY <2>6, <2>10, <3>1
    <3> QED BY <2>2, <2>3, <3>2, <3>3
  <2> QED BY <2>9, <2>11
<1>2. B = {}
  <2>1. B \subseteq SUBSET S
    OBVIOUS
  <2> HIDE DEF B
  <2> QED BY <1>1, <2>1, NoDescent
<1>3. s \notin B
  <2> HIDE DEF B
  <2> QED BY <1>2
<1> QED BY <1>3

LEMMA SumWithout ==
  ASSUME NEW S, IsFiniteSet(S), NEW w, NEW H, Adds(H, w, S), NEW a \in S
  PROVE  H[S] = H[S \ {a}] + w[a]
<1>0. PICK R : R = S \ {a}
  OBVIOUS
<1>1. R \subseteq S /\ a \notin R /\ R \cup {a} = S
  BY <1>0
<1>2. H[R \cup {a}] = H[R] + w[a]
  BY <1>1, SumInsert
<1> QED BY <1>0, <1>1, <1>2

\* One summand changes.
LEMMA SumMoves ==
  ASSUME NEW S, IsFiniteSet(S), NEW w, NEW v, NEW a \in S,
         \A x \in S : x # a => v[x] = w[x], NEW H, NEW K, Adds(H, w, S), Adds(K, v, S)
  PROVE  K[S] = H[S] + (v[a] - w[a])
<1>0. PICK R : R = S \ {a}
  OBVIOUS
<1>1. R \subseteq S /\ a \notin R /\ R \cup {a} = S /\ IsFiniteSet(R) /\ R \in SUBSET S
  BY <1>0, FS_Subset
<1>2. \A x \in R : w[x] = v[x]
  BY <1>0
<1>3. H[R] = K[R]
  BY <1>1, <1>2, SumsAgree
<1>4. H[R] \in Int /\ w[a] \in Int /\ v[a] \in Int
  BY <1>1 DEF Adds
<1>5. H[S] = H[R] + w[a]
  BY <1>0, SumWithout
<1>6. K[S] = K[R] + v[a]
  BY <1>0, SumWithout
<1>7. \A h, k, x, y \in Int : (k + y) = (k + x) + (y - x)
  OBVIOUS
<1> HIDE DEF Adds
<1> QED BY <1>3, <1>4, <1>5, <1>6, <1>7

\* Summands that are 0 add nothing.
LEMMA SumZeros ==
  ASSUME NEW S, IsFiniteSet(S), NEW w, NEW H, Adds(H, w, S),
         NEW R, R \subseteq S, \A x \in S \ R : w[x] = 0
  PROVE  H[S] = H[R]
<1> DEFINE B == {r \in SUBSET (S \ R) : H[R \cup r] # H[R]}
<1>1. ASSUME NEW r \in B PROVE \E q \in B : q \subseteq r /\ q # r
  <2>1. r \subseteq S \ R /\ H[R \cup r] # H[R]
    OBVIOUS
  <2>2. r # {}
    <3> SUFFICES ASSUME r = {} PROVE FALSE
      OBVIOUS
    <3>1. R \cup r = R
      OBVIOUS
    <3> QED BY <2>1, <3>1
  <2>3. PICK x \in r : TRUE
    BY <2>2
  <2>4. PICK q : q = r \ {x}
    OBVIOUS
  <2>5. PICK p : p = R \cup q
    OBVIOUS
  <2>6. x \in S /\ x \notin p /\ p \subseteq S /\ p \cup {x} = R \cup r /\ w[x] = 0
    BY <2>1, <2>4, <2>5
  <2>7. H[p] \in Int
    BY <2>6 DEF Adds
  <2>8. H[p \cup {x}] = H[p] + w[x]
    BY <2>6, SumInsert
  <2>9. H[p] # H[R]
    <3>1. p \cup {x} = R \cup r /\ w[x] = 0
      BY <2>6
    <3>2. H[R \cup r] = H[p] + 0
      BY <2>8, <3>1
    <3>3. H[p] + 0 = H[p]
      BY <2>7
    <3> QED BY <2>1, <3>2, <3>3
  <2>10. q \in SUBSET (S \ R) /\ q \subseteq r /\ q # r
    BY <2>1, <2>4
  <2>11. q \in B
    BY <2>5, <2>9, <2>10
  <2> QED BY <2>10, <2>11
<1>2. B = {}
  <2>1. B \subseteq SUBSET (S \ R) /\ IsFiniteSet(S \ R)
    BY FS_Subset
  <2> HIDE DEF B
  <2> QED BY <1>1, <2>1, NoDescent
<1>3. S \ R \notin B
  <2> HIDE DEF B
  <2> QED BY <1>2
<1>4. R \cup (S \ R) = S
  OBVIOUS
<1> QED BY <1>3, <1>4
LEMMA SumOfZeros ==
  ASSUME NEW S, IsFiniteSet(S), NEW w, NEW H, Adds(H, w, S), \A x \in S : w[x] = 0
  PROVE  H[S] = 0
<1>1. H[S] = H[{}]
  BY SumZeros
<1> QED BY <1>1 DEF Adds

-----------------------------------------------------------------------------
(* The exported value                                                       *)

\* What the operation of a thread has added to the exported counter of a label and not to
\* its shadow.
Pending(t, l) ==
    IF op[t].label # l THEN 0
    ELSE IF pc[t] = "settle" THEN old[t] - op[t].arg
    ELSE IF pc[t] \in {"ensure", "insert", "load", "cas"} /\ op[t].kind = "add" THEN op[t].arg
    ELSE 0

ShadowValue(l) == IF shadow[l] = None THEN 0 ELSE shadow[l]

PendingOf(l) == [t \in Thread |-> Pending(t, l)]

\* The exported value of a label is ahead of its shadow by what is pending.
Owed(l) ==
    \E H : Adds(H, PendingOf(l), Thread) /\ exported[l] = ShadowValue(l) + H[Thread]

AllOwed == \A l \in Label : Owed(l)

\* What is pending is an integer.
LEMMA PendingType ==
  ASSUME TypeOK, NEW t \in Thread, NEW l
  PROVE  Pending(t, l) \in Int
<1>1. op[t].arg \in Int /\ old[t] \in Int
  BY DEF TypeOK, Operation
<1> QED BY <1>1 DEF Pending

\* A step of one thread that changes both values and what it owes by matching amounts keeps
\* the account of a label.
LEMMA OwedMoves ==
  ASSUME TypeOK, TypeOK', NEW t \in Thread, NEW l \in Label, Owed(l),
         \A u \in Thread : u # t => Pending(u, l)' = Pending(u, l),
         exported'[l] - exported[l] =
            (ShadowValue(l)' - ShadowValue(l)) + (Pending(t, l)' - Pending(t, l))
  PROVE  Owed(l)'
<1> DEFINE p == PendingOf(l)  q == PendingOf(l)'
<1>1. p \in [Thread -> Int] /\ q \in [Thread -> Int]
  <2>1. \A u \in Thread : Pending(u, l) \in Int
    BY PendingType
  <2>2. \A u \in Thread : Pending(u, l)' \in Int
    <3> SUFFICES ASSUME NEW u \in Thread PROVE Pending(u, l)' \in Int
      OBVIOUS
    <3>1. op'[u].arg \in Int /\ old'[u] \in Int
      BY DEF TypeOK, Operation
    <3> QED BY <3>1 DEF Pending
  <2> QED BY <2>1, <2>2 DEF PendingOf
<1>2. /\ \A u \in Thread : u # t => q[u] = p[u]
      /\ p[t] = Pending(t, l) /\ q[t] = Pending(t, l)'
  BY DEF PendingOf
<1>3. PICK H : Adds(H, p, Thread) /\ exported[l] = ShadowValue(l) + H[Thread]
  BY DEF Owed
<1> HIDE DEF p, q
<1>4. PICK K : Adds(K, q, Thread)
  BY <1>1, SumsExist, ThreadAssumption
<1>5. K[Thread] = H[Thread] + (q[t] - p[t])
  <2>1. \A v, w : Adds(H, w, Thread) /\ Adds(K, v, Thread) /\ (\A u \in Thread : u # t => v[u] = w[u])
           => K[Thread] = H[Thread] + (v[t] - w[t])
    BY SumMoves, ThreadAssumption
  <2> QED BY <1>2, <1>3, <1>4, <2>1
<1>6. H[Thread] \in Int /\ K[Thread] \in Int /\ p[t] \in Int /\ q[t] \in Int
  BY <1>1, <1>3, <1>4 DEF Adds
<1>7. /\ exported[l] \in Int /\ exported'[l] \in Int /\ ShadowValue(l) \in Int
      /\ ShadowValue(l)' \in Int
  BY DEF TypeOK, ShadowValue
<1>8. exported'[l] = ShadowValue(l)' + K[Thread]
  BY <1>2, <1>3, <1>5, <1>6, <1>7
<1> QED BY <1>4, <1>8 DEF Owed, q

\* A step of one thread leaves alone what the others owe.
LEMMA OthersOwe ==
  ASSUME NEW t \in Thread, NEW l \in Label,
         \A u \in Thread : u # t => pc'[u] = pc[u] /\ op'[u] = op[u] /\ old'[u] = old[u]
  PROVE  \A u \in Thread : u # t => Pending(u, l)' = Pending(u, l)
BY DEF Pending

\* A call owes nothing when it begins.
LEMMA CallsOwed ==
  ASSUME Inv, Inv', AllOwed, NEW t \in Thread, Calls(t)
  PROVE  AllOwed'
<1>1. PICK o \in Operation : Call(t, o) /\ guard' \in [Thread -> Guard \cup {None}]
  BY CallsBegin DEF Inv
<1> SUFFICES ASSUME NEW l \in Label PROVE Owed(l)'
  BY DEF AllOwed
<1>2. \A u \in Thread : u # t => Pending(u, l)' = Pending(u, l)
  <2>1. \A u \in Thread : u # t => pc'[u] = pc[u] /\ op'[u] = op[u] /\ old'[u] = old[u]
    BY <1>1 DEF Inv, TypeOK, Call, Goto
  <2> QED BY <2>1, OthersOwe
<1>3. Pending(t, l) = 0 /\ Pending(t, l)' = 0
  <2>1. pc[t] = "idle" /\ op'[t] = o
    BY <1>1 DEF Inv, TypeOK, Call
  <2>2. pc'[t] = IF o.kind = "add" THEN "export" ELSE "ensure"
    BY <1>1 DEF Inv, TypeOK, Call, Goto
  <2> QED BY <2>1, <2>2 DEF Pending
<1>4. exported'[l] - exported[l] = 0 /\ ShadowValue(l)' - ShadowValue(l) = 0
  <2>1. exported' = exported /\ shadow' = shadow /\ exported[l] \in Int /\ ShadowValue(l) \in Int
    BY <1>1 DEF Call, Inv, TypeOK, ShadowValue
  <2> QED BY <2>1 DEF ShadowValue
<1> QED BY <1>2, <1>3, <1>4, OwedMoves DEF Inv, AllOwed

\* A step of an operation moves the same amount on one of the two values and on what is
\* pending, on its own label only.
LEMMA RunsOwed ==
  ASSUME Inv, Inv', AllOwed, NEW t \in Thread, Runs(t)
  PROVE  AllOwed'
<1> SUFFICES ASSUME NEW l \in Label PROVE Owed(l)'
  BY DEF AllOwed
<1> DEFINE E == exported'[l] - exported[l]
           V == ShadowValue(l)' - ShadowValue(l)
           P == Pending(t, l)' - Pending(t, l)
<1>1. \A u \in Thread : u # t => Pending(u, l)' = Pending(u, l)
  <2>1. \A u \in Thread : u # t => pc'[u] = pc[u] /\ op'[u] = op[u] /\ old'[u] = old[u]
    BY DEF Inv, TypeOK, Runs, Goto, Export, Ensure, Insert, Load, CasOk, CasFails, Swap,
           Settle, Return
  <2> QED BY <2>1, OthersOwe
<1>2. /\ op' = op /\ op[t].label \in Label /\ op[t].arg \in Int /\ op[t].kind \in {"add", "set"}
      /\ old[t] \in Int /\ exported[l] \in Int /\ shadow[l] \in Int \cup {None}
      /\ pc \in [Thread -> Step] /\ old \in [Thread -> Int]
      /\ exported \in [Label -> Int] /\ shadow \in [Label -> Int \cup {None}]
  BY DEF Inv, TypeOK, Operation, Runs, Export, Ensure, Insert, Load, CasOk, CasFails, Swap,
         Settle, Return
<1>3. E = V + P
  <2>1. CASE Export(t)
    <3>1. /\ pc[t] = "export" /\ pc'[t] = "ensure" /\ op[t].kind = "add" /\ shadow' = shadow
          /\ exported'[l] = IF op[t].label = l THEN exported[l] + op[t].arg ELSE exported[l]
      BY <1>2, <2>1 DEF Export, Goto, Inv, KindFits
    <3> QED BY <1>2, <3>1, NoneAssumption DEF Pending, ShadowValue
  <2>2. CASE Ensure(t)
    <3>1. /\ pc[t] = "ensure" /\ UNCHANGED <<exported, shadow>>
          /\ pc'[t] \in {AfterEnsure(t), "insert"}
      BY <1>2, <2>2 DEF Ensure, Goto
    <3> QED BY <1>2, <3>1, NoneAssumption DEF Pending, ShadowValue, AfterEnsure
  <2>3. CASE Insert(t)
    <3>1. pc[t] = "insert" /\ pc'[t] = AfterEnsure(t) /\ UNCHANGED exported
      BY <1>2, <2>3 DEF Insert, Goto
    <3>2. ShadowValue(l)' = ShadowValue(l)
      BY <1>2, <2>3, NoneAssumption DEF Insert, InitialEntry, Entry, ShadowValue
    <3>3. ShadowValue(l) \in Int
      BY <1>2 DEF ShadowValue
    <3> QED BY <1>2, <3>1, <3>2, <3>3 DEF Pending, AfterEnsure
  <2>4. CASE Load(t)
    <3>1. pc[t] = "load" /\ pc'[t] = "cas" /\ UNCHANGED <<exported, shadow>>
      BY <1>2, <2>4 DEF Load, Goto
    <3> QED BY <1>2, <3>1, NoneAssumption DEF Pending, ShadowValue
  <2>5. CASE CasOk(t)
    <3>1. /\ pc[t] = "cas" /\ pc'[t] = "return" /\ op[t].kind = "add" /\ UNCHANGED exported
          /\ shadow[op[t].label] = old[t] /\ old[t] + op[t].arg \in Int
          /\ shadow'[l] = IF op[t].label = l THEN old[t] + op[t].arg ELSE shadow[l]
      BY <1>2, <2>5 DEF CasOk, Swaps, Entry, Goto, Inv, KindFits
    <3> QED BY <1>2, <3>1, NoneAssumption DEF Pending, ShadowValue
  <2>6. CASE CasFails(t)
    <3>1. pc[t] = "cas" /\ pc'[t] = "load" /\ UNCHANGED <<exported, shadow>>
      BY <1>2, <2>6 DEF CasFails, Goto
    <3> QED BY <1>2, <3>1, NoneAssumption DEF Pending, ShadowValue
  <2>7. CASE Swap(t)
    <3>1. /\ pc[t] = "swap" /\ pc'[t] = "settle" /\ op[t].kind = "set" /\ UNCHANGED exported
          /\ old'[t] = shadow[op[t].label] /\ shadow[op[t].label] # None
          /\ shadow'[l] = IF op[t].label = l THEN op[t].arg ELSE shadow[l]
      BY <1>2, <2>7 DEF Swap, Entry, Goto, Inv, KindFits, EntryExists
    <3> QED BY <1>2, <3>1, NoneAssumption DEF Pending, ShadowValue
  <2>8. CASE Settle(t)
    <3>1. /\ pc[t] = "settle" /\ pc'[t] = "return" /\ UNCHANGED shadow
          /\ exported'[l] = IF op[t].label = l THEN exported[l] + op[t].arg - old[t]
                                               ELSE exported[l]
      BY <1>2, <2>8 DEF Settle, Goto
    <3> QED BY <1>2, <3>1, NoneAssumption DEF Pending, ShadowValue
  <2>9. CASE Return(t)
    <3>1. pc[t] = "return" /\ pc'[t] = "idle" /\ UNCHANGED <<exported, shadow>>
      BY <1>2, <2>9 DEF Return, Goto
    <3> QED BY <1>2, <3>1, NoneAssumption DEF Pending, ShadowValue
  <2> QED BY <2>1, <2>2, <2>3, <2>4, <2>5, <2>6, <2>7, <2>8, <2>9 DEF Runs
<1> QED BY <1>1, <1>3, OwedMoves DEF Inv, AllOwed

LEMMA InitOwed == Init => AllOwed
<1> SUFFICES ASSUME Init, NEW l \in Label PROVE Owed(l)
  BY DEF AllOwed
<1>1. PendingOf(l) \in [Thread -> Int] /\ \A t \in Thread : PendingOf(l)[t] = 0
  BY DEF Init, PendingOf, Pending
<1>2. PICK H : Adds(H, PendingOf(l), Thread)
  BY <1>1, SumsExist, ThreadAssumption
<1>3. H[Thread] = 0
  BY <1>1, <1>2, SumOfZeros, ThreadAssumption
<1>4. exported[l] = 0 /\ ShadowValue(l) = 0
  BY DEF Init, ShadowValue
<1>5. exported[l] = ShadowValue(l) + H[Thread]
  BY <1>3, <1>4
<1> QED BY <1>2, <1>5 DEF Owed

LEMMA StepOwed == Inv /\ AllOwed /\ [Next]_vars => AllOwed'
<1>1. ASSUME AllOwed, UNCHANGED vars PROVE AllOwed'
  <2>1. \A l : PendingOf(l)' = PendingOf(l) /\ ShadowValue(l)' = ShadowValue(l)
    BY <1>1 DEF vars, PendingOf, Pending, ShadowValue
  <2> QED BY <1>1, <2>1 DEF vars, AllOwed, Owed
<1> QED BY <1>1, StepInv, CallsOwed, RunsOwed DEF Next

\* Increments, decrements, sets and guards of any number of threads leave the exported gauge
\* at the value that get() reads, once none is running.
THEOREM NothingIsLost == Spec => []ExportedIsShadow
<1>1. Inv /\ AllOwed => ExportedIsShadow
  <2> SUFFICES ASSUME Inv, AllOwed, Quiet, NEW l \in Label
               PROVE  exported[l] = ShadowValue(l)
    BY DEF ExportedIsShadow, ShadowValue
  <2>1. PICK H : Adds(H, PendingOf(l), Thread) /\ exported[l] = ShadowValue(l) + H[Thread]
    BY DEF AllOwed, Owed
  <2>2. \A t \in Thread : PendingOf(l)[t] = 0
    BY DEF PendingOf, Pending, Quiet
  <2>3. H[Thread] = 0
    BY <2>1, <2>2, SumOfZeros, ThreadAssumption
  <2>4. ShadowValue(l) \in Int
    BY DEF Inv, TypeOK, ShadowValue
  <2> QED BY <2>1, <2>3, <2>4
<1> QED BY <1>1, InvAlways, InitOwed, StepOwed, PTL DEF Spec

-----------------------------------------------------------------------------
(* The guards *)

\* A label that guards alone change is only added to.
GuardedAdd ==
  \A t \in Thread : pc[t] # "idle" /\ op[t].label \in Guarded => op[t].kind = "add"

\* What the guard of a thread stands for in a label, and what its operation has not added
\* to the shadow yet.
Held(t, l) == IF guard[t] # None /\ guard[t].label = l THEN guard[t].by ELSE 0
Unapplied(t, l) ==
    IF op[t].label = l /\ pc[t] \in {"export", "ensure", "insert", "load", "cas"}
      THEN op[t].arg ELSE 0

Claims(l) == [t \in Thread |-> Held(t, l) - Unapplied(t, l)]

\* The shadow of a label is what the guards hold less what is not applied.
Claimed(l) == \E H : Adds(H, Claims(l), Thread) /\ ShadowValue(l) = H[Thread]

GInv == Inv /\ GuardedAdd /\ \A l \in Guarded : Claimed(l)

LEMMA ClaimTypes ==
  ASSUME TypeOK, NEW t \in Thread, NEW l
  PROVE  Held(t, l) \in Int /\ Unapplied(t, l) \in Int
<1>1. op[t].arg \in Int /\ guard[t] \in Guard \cup {None}
  BY DEF TypeOK, Operation
<1>2. guard[t] # None => guard[t].by \in Int
  BY <1>1, ValueAssumption DEF Guard
<1> QED BY <1>1, <1>2 DEF Held, Unapplied

\* A step that changes the shadow and the claim of one thread by the same amount.
LEMMA ClaimedMoves ==
  ASSUME TypeOK, TypeOK', NEW t \in Thread, NEW l \in Guarded, Claimed(l),
         \A u \in Thread : u # t =>
            Held(u, l)' = Held(u, l) /\ Unapplied(u, l)' = Unapplied(u, l),
         ShadowValue(l)' - ShadowValue(l) =
            (Held(t, l)' - Held(t, l)) - (Unapplied(t, l)' - Unapplied(t, l))
  PROVE  Claimed(l)'
<1> DEFINE p == Claims(l)  q == Claims(l)'
<1>1. \A u \in Thread : Held(u, l) \in Int /\ Unapplied(u, l) \in Int
  BY ClaimTypes
<1>2. \A u \in Thread : Held(u, l)' \in Int /\ Unapplied(u, l)' \in Int
  <2> SUFFICES ASSUME NEW u \in Thread PROVE Held(u, l)' \in Int /\ Unapplied(u, l)' \in Int
    OBVIOUS
  <2>1. op'[u].arg \in Int /\ guard'[u] \in Guard \cup {None}
    BY DEF TypeOK, Operation
  <2>2. guard'[u] # None => guard'[u].by \in Int
    BY <2>1, ValueAssumption DEF Guard
  <2> QED BY <2>1, <2>2 DEF Held, Unapplied
<1>3. /\ q \in [Thread -> Int]
      /\ \A u \in Thread : u # t => q[u] = p[u]
      /\ p[t] = Held(t, l) - Unapplied(t, l) /\ q[t] = Held(t, l)' - Unapplied(t, l)'
  BY <1>1, <1>2 DEF Claims
<1>4. PICK H : Adds(H, p, Thread) /\ ShadowValue(l) = H[Thread]
  BY DEF Claimed
<1> HIDE DEF p, q
<1>5. PICK K : Adds(K, q, Thread)
  BY <1>3, SumsExist, ThreadAssumption
<1>6. K[Thread] = H[Thread] + (q[t] - p[t])
  <2>1. \A v, w : Adds(H, w, Thread) /\ Adds(K, v, Thread)
                    /\ (\A u \in Thread : u # t => v[u] = w[u])
           => K[Thread] = H[Thread] + (v[t] - w[t])
    BY SumMoves, ThreadAssumption
  <2> QED BY <1>3, <1>4, <1>5, <2>1
<1>7. H[Thread] \in Int /\ K[Thread] \in Int
  BY <1>4, <1>5 DEF Adds
<1>8. ShadowValue(l) \in Int /\ ShadowValue(l)' \in Int
  BY LabelAssumption DEF TypeOK, ShadowValue
<1>9. ShadowValue(l)' = K[Thread]
  BY <1>1, <1>2, <1>3, <1>4, <1>6, <1>7, <1>8
<1> QED BY <1>5, <1>9 DEF Claimed, q

\* A new guard claims what its first operation has still to add, a dropped one what its
\* last has still to take away.
LEMMA CallsClaimed ==
  ASSUME GInv, Inv', NEW t \in Thread, Calls(t)
  PROVE  GInv'
<1>1. /\ pc[t] = "idle" /\ shadow' = shadow /\ pc \in [Thread -> Step]
      /\ op \in [Thread -> Operation] /\ guard \in [Thread -> Guard \cup {None}]
  BY DEF Calls, Add, Set, NewGuard, DropGuard, Call, GInv, Inv, TypeOK
<1>2. \A u \in Thread : u # t => pc'[u] = pc[u] /\ op'[u] = op[u] /\ guard'[u] = guard[u]
  BY <1>1 DEF Calls, Add, Set, NewGuard, DropGuard, Call, Goto
<1>3. \/ op'[t].label \notin Guarded /\ guard' = guard
      \/ /\ guard[t] = None /\ pc'[t] = "export" /\ op'[t].kind = "add"
         /\ guard'[t] # None /\ guard'[t].label = op'[t].label
         /\ op'[t].arg = guard'[t].by /\ guard'[t].by \in Int
      \/ /\ guard[t] # None /\ pc'[t] = "export" /\ op'[t].kind = "add"
         /\ guard'[t] = None /\ guard[t].label = op'[t].label
         /\ op'[t].arg = -guard[t].by /\ guard[t].by \in Int
  <2>1. CASE \E l \in Label \ Guarded : \/ \E by \in Delta : Add(t, l, by)
                                        \/ \E v \in Value : Set(t, l, v)
    BY <1>1, <2>1 DEF Add, Set, Call
  <2>2. ASSUME NEW l \in Guarded, NEW by \in GuardBy, NewGuard(t, l, by)
        PROVE  /\ guard[t] = None /\ pc'[t] = "export" /\ op'[t].kind = "add"
               /\ guard'[t] # None /\ guard'[t].label = op'[t].label
               /\ op'[t].arg = guard'[t].by /\ guard'[t].by \in Int
    <3>1. /\ op'[t] = [kind |-> "add", label |-> l, arg |-> by] /\ pc'[t] = "export"
          /\ guard[t] = None /\ guard'[t] = [label |-> l, by |-> by]
      BY <1>1, <2>2 DEF NewGuard, Call, Goto
    <3>2. guard'[t] # None /\ by \in Int
      <4>1. l \in Label /\ by \in Int
        BY LabelAssumption, ValueAssumption
      <4>2. [label |-> l, by |-> by] \in [label : Label, by : Int]
        BY <4>1
      <4> QED BY <3>1, <4>1, <4>2, NoneAssumption
    <3> QED BY <3>1, <3>2
  <2>3. ASSUME DropGuard(t)
        PROVE  /\ guard[t] # None /\ pc'[t] = "export" /\ op'[t].kind = "add"
               /\ guard'[t] = None /\ guard[t].label = op'[t].label
               /\ op'[t].arg = -guard[t].by /\ guard[t].by \in Int
    <3>1. /\ op'[t] = [kind |-> "add", label |-> guard[t].label, arg |-> -guard[t].by]
          /\ pc'[t] = "export" /\ guard[t] # None /\ guard'[t] = None
      BY <1>1, <2>3 DEF DropGuard, Call, Goto
    <3>2. guard[t].by \in Int
      BY <1>1, <3>1, ValueAssumption DEF Guard
    <3> QED BY <3>1, <3>2
  <2> QED BY <2>1, <2>2, <2>3 DEF Calls
<1>4. GuardedAdd'
  BY <1>2, <1>3 DEF GInv, GuardedAdd
<1>5. ASSUME NEW l \in Guarded PROVE Claimed(l)'
  <2>1. \A u \in Thread : u # t =>
            Held(u, l)' = Held(u, l) /\ Unapplied(u, l)' = Unapplied(u, l)
    BY <1>2 DEF Held, Unapplied
  <2>2. Unapplied(t, l) = 0 /\ ShadowValue(l)' = ShadowValue(l)
    BY <1>1 DEF Unapplied, ShadowValue
  <2>3. Held(t, l)' - Held(t, l) = Unapplied(t, l)'
    <3>1. CASE op'[t].label \notin Guarded /\ guard' = guard
      <4>1. Held(t, l)' = Held(t, l) /\ Unapplied(t, l)' = 0 /\ Held(t, l) \in Int
        BY <3>1, ClaimTypes DEF Held, Unapplied, GInv, Inv
      <4> QED BY <4>1
    <3>2. CASE /\ guard[t] = None /\ pc'[t] = "export" /\ op'[t].kind = "add"
               /\ guard'[t] # None /\ guard'[t].label = op'[t].label
               /\ op'[t].arg = guard'[t].by /\ guard'[t].by \in Int
      BY <3>2 DEF Held, Unapplied
    <3>3. CASE /\ guard[t] # None /\ pc'[t] = "export" /\ op'[t].kind = "add"
               /\ guard'[t] = None /\ guard[t].label = op'[t].label
               /\ op'[t].arg = -guard[t].by /\ guard[t].by \in Int
      BY <3>3 DEF Held, Unapplied
    <3> QED BY <1>3, <3>1, <3>2, <3>3
  <2>4. /\ Held(t, l)' \in Int /\ Held(t, l) \in Int /\ Unapplied(t, l)' \in Int
        /\ ShadowValue(l) \in Int
    <3>1. Held(t, l) \in Int
      BY ClaimTypes DEF GInv, Inv
    <3>2. Held(t, l)' \in Int /\ Unapplied(t, l)' \in Int
      <4>1. op'[t].arg \in Int /\ guard'[t] \in Guard \cup {None}
        BY DEF Inv, TypeOK, Operation
      <4>2. guard'[t] # None => guard'[t].by \in Int
        BY <4>1, ValueAssumption DEF Guard
      <4> QED BY <4>1, <4>2 DEF Held, Unapplied
    <3>3. ShadowValue(l) \in Int
      BY LabelAssumption DEF GInv, Inv, TypeOK, ShadowValue
    <3> QED BY <3>1, <3>2, <3>3
  <2>5. ShadowValue(l)' - ShadowValue(l) =
            (Held(t, l)' - Held(t, l)) - (Unapplied(t, l)' - Unapplied(t, l))
    BY <2>2, <2>3, <2>4
  <2> QED BY <2>1, <2>5, ClaimedMoves DEF GInv, Inv
<1> QED BY <1>4, <1>5 DEF GInv

\* The exchange applies what it takes off the claim; a swap is of another label.
LEMMA RunsClaimed ==
  ASSUME GInv, Inv', NEW t \in Thread, Runs(t)
  PROVE  GInv'
<1>1. /\ UNCHANGED <<op, guard>> /\ pc[t] # "idle"
      /\ \A u \in Thread : u # t => pc'[u] = pc[u]
  BY DEF GInv, Inv, TypeOK, Runs, Goto, Export, Ensure, Insert, Load, CasOk, CasFails, Swap,
         Settle, Return
<1>2. GuardedAdd'
  BY <1>1 DEF GInv, GuardedAdd
<1>3. ASSUME NEW l \in Guarded PROVE Claimed(l)'
  <2>1. /\ op[t].label \in Label /\ op[t].arg \in Int /\ l \in Label
        /\ old[t] \in Int /\ shadow[l] \in Int \cup {None}
        /\ pc \in [Thread -> Step] /\ shadow \in [Label -> Int \cup {None}]
        /\ op[t].label = l => op[t].kind = "add"
    BY <1>1, LabelAssumption DEF GInv, Inv, TypeOK, Operation, GuardedAdd
  <2>2. \A u \in Thread : u # t =>
            Held(u, l)' = Held(u, l) /\ Unapplied(u, l)' = Unapplied(u, l)
    BY <1>1 DEF Held, Unapplied
  <2>3. Held(t, l)' = Held(t, l) /\ Held(t, l) \in Int
    BY <1>1, ClaimTypes DEF Held, GInv, Inv
  <2>4. ShadowValue(l)' - ShadowValue(l) = Unapplied(t, l) - Unapplied(t, l)'
    <3>1. CASE Export(t)
      <4>1. pc[t] = "export" /\ pc'[t] = "ensure" /\ shadow' = shadow
        BY <2>1, <3>1 DEF Export, Goto
      <4> QED BY <1>1, <2>1, <4>1 DEF Unapplied, ShadowValue
    <3>2. CASE Ensure(t)
      <4>1. /\ pc[t] = "ensure" /\ shadow' = shadow
            /\ op[t].label = l => pc'[t] \in {"load", "insert"}
        BY <2>1, <3>2 DEF Ensure, Goto, AfterEnsure
      <4> QED BY <1>1, <2>1, <4>1 DEF Unapplied, ShadowValue
    <3>3. CASE Insert(t)
      <4>1. pc[t] = "insert" /\ (op[t].label = l => pc'[t] = "load")
        BY <2>1, <3>3 DEF Insert, Goto, AfterEnsure
      <4>2. ShadowValue(l)' = ShadowValue(l) /\ ShadowValue(l) \in Int
        BY <2>1, <3>3, NoneAssumption DEF Insert, InitialEntry, Entry, ShadowValue
      <4> QED BY <1>1, <2>1, <4>1, <4>2 DEF Unapplied
    <3>4. CASE Load(t)
      <4>1. pc[t] = "load" /\ pc'[t] = "cas" /\ shadow' = shadow
        BY <2>1, <3>4 DEF Load, Goto
      <4> QED BY <1>1, <2>1, <4>1 DEF Unapplied, ShadowValue
    <3>5. CASE CasOk(t)
      <4>1. /\ pc[t] = "cas" /\ pc'[t] = "return"
            /\ shadow[op[t].label] = old[t] /\ old[t] + op[t].arg \in Int
            /\ shadow'[l] = IF op[t].label = l THEN old[t] + op[t].arg ELSE shadow[l]
        BY <2>1, <3>5 DEF CasOk, Swaps, Entry, Goto
      <4> QED BY <1>1, <2>1, <4>1, NoneAssumption DEF Unapplied, ShadowValue
    <3>6. CASE CasFails(t)
      <4>1. pc[t] = "cas" /\ pc'[t] = "load" /\ shadow' = shadow
        BY <2>1, <3>6 DEF CasFails, Goto
      <4> QED BY <1>1, <2>1, <4>1 DEF Unapplied, ShadowValue
    <3>7. CASE Swap(t)
      <4>1. op[t].label # l
        BY <2>1, <3>7 DEF Swap, GInv, Inv, KindFits
      <4>2. shadow'[l] = shadow[l]
        BY <2>1, <3>7, <4>1 DEF Swap
      <4> QED BY <1>1, <2>1, <4>1, <4>2 DEF Unapplied, ShadowValue
    <3>8. CASE Settle(t)
      <4>1. pc[t] = "settle" /\ pc'[t] = "return" /\ shadow' = shadow
        BY <2>1, <3>8 DEF Settle, Goto
      <4> QED BY <1>1, <2>1, <4>1 DEF Unapplied, ShadowValue
    <3>9. CASE Return(t)
      <4>1. pc[t] = "return" /\ pc'[t] = "idle" /\ shadow' = shadow
        BY <2>1, <3>9 DEF Return, Goto
      <4> QED BY <1>1, <2>1, <4>1 DEF Unapplied, ShadowValue
    <3> QED BY <3>1, <3>2, <3>3, <3>4, <3>5, <3>6, <3>7, <3>8, <3>9 DEF Runs
  <2>5. Unapplied(t, l) \in Int /\ Unapplied(t, l)' \in Int
    BY <1>1, <2>1 DEF Unapplied
  <2>6. ShadowValue(l)' - ShadowValue(l) =
            (Held(t, l)' - Held(t, l)) - (Unapplied(t, l)' - Unapplied(t, l))
    BY <2>3, <2>4, <2>5
  <2> QED BY <2>2, <2>6, ClaimedMoves DEF GInv, Inv
<1> QED BY <1>2, <1>3 DEF GInv

LEMMA InitClaimed == Init => GInv
<1> SUFFICES ASSUME Init, NEW l \in Guarded PROVE Claimed(l)
  BY InitInv DEF GInv, GuardedAdd, Init
<1>1. Claims(l) \in [Thread -> Int] /\ \A t \in Thread : Claims(l)[t] = 0
  BY DEF Init, Claims, Held, Unapplied
<1>2. PICK H : Adds(H, Claims(l), Thread)
  BY <1>1, SumsExist, ThreadAssumption
<1>3. H[Thread] = 0
  BY <1>1, <1>2, SumOfZeros, ThreadAssumption
<1>4. ShadowValue(l) = 0
  BY LabelAssumption DEF Init, ShadowValue
<1> QED BY <1>2, <1>3, <1>4 DEF Claimed

LEMMA StepClaimed == GInv /\ [Next]_vars => GInv'
<1>1. ASSUME GInv, UNCHANGED vars PROVE GInv'
  <2>1. Inv'
    BY <1>1, StepInv DEF GInv
  <2>2. \A l : Claims(l)' = Claims(l) /\ ShadowValue(l)' = ShadowValue(l)
    BY <1>1 DEF vars, Claims, Held, Unapplied, ShadowValue
  <2> QED BY <1>1, <2>1, <2>2 DEF vars, GInv, GuardedAdd, Claimed
<1>2. ASSUME GInv, NEW t \in Thread, Calls(t) PROVE GInv'
  BY <1>2, CallsInv, CallsClaimed DEF GInv
<1>3. ASSUME GInv, NEW t \in Thread, Runs(t) PROVE GInv'
  BY <1>3, RunsInv, RunsClaimed DEF GInv
<1> QED BY <1>1, <1>2, <1>3 DEF Next

HeldBy(R) == MapThenSumSet(LAMBDA t : guard[t].by, R)

\* The sum over the guards that are held is any sum of what they hold.
LEMMA GuardSum ==
  ASSUME NEW R, IsFiniteSet(R), NEW S, R \subseteq S, NEW w, NEW H, Adds(H, w, S),
         \A t \in R : w[t] = guard[t].by
  PROVE  HeldBy(R) = H[R]
<1> DEFINE Rec(f) == [s \in SUBSET R |-> IF s = {} THEN 0
                        ELSE guard[CHOOSE x \in s : TRUE].by + f[s \ {CHOOSE x \in s : TRUE}]]
           C == CHOOSE f : f = Rec(f)
           K == [s \in SUBSET R |-> H[s]]
<1>1. HeldBy(R) = C[R]
  BY DEF HeldBy, MapThenSumSet, MapThenFoldSet
<1>2. K = Rec(K)
  <2>1. ASSUME NEW s \in SUBSET R PROVE K[s] = Rec(K)[s]
    <3>1. CASE s = {}
      BY <3>1 DEF Adds
    <3>2. CASE s # {}
      <4>1. H[s] = w[Pick(s)] + H[s \ {Pick(s)}]
        BY <3>2 DEF Adds
      <4>2. Pick(s) \in R /\ s \ {Pick(s)} \in SUBSET R
        BY <3>2, PickIn
      <4>3. K[s] = guard[Pick(s)].by + K[s \ {Pick(s)}]
        BY <4>1, <4>2
      <4> QED BY <3>2, <4>3 DEF Pick
    <3> QED BY <3>1, <3>2
  <2>2. DOMAIN K = DOMAIN Rec(K)
    OBVIOUS
  <2> QED BY <2>1, <2>2
<1>3. C = Rec(C)
  <2> HIDE DEF Rec, K
  <2> QED BY <1>2
<1> DEFINE B == {s \in SUBSET R : C[s] # H[s]}
<1> HIDE DEF C, K
<1>4. ASSUME NEW s \in B PROVE \E r \in B : r \subseteq s /\ r # s
  <2>1. s \in SUBSET R /\ s \in SUBSET S /\ C[s] # H[s] /\ C[s] = Rec(C)[s]
    BY <1>3
  <2>2. s # {}
    BY <2>1 DEF Adds
  <2>3. Pick(s) \in s /\ s \ {Pick(s)} \subseteq s /\ s \ {Pick(s)} # s
    BY <2>2, PickIn
  <2>4. C[s] = guard[Pick(s)].by + C[s \ {Pick(s)}]
    BY <2>1, <2>2 DEF Pick
  <2>5. H[s] = w[Pick(s)] + H[s \ {Pick(s)}] /\ w[Pick(s)] = guard[Pick(s)].by
    BY <2>1, <2>2, <2>3 DEF Adds
  <2>6. s \ {Pick(s)} \in B
    BY <2>1, <2>3, <2>4, <2>5
  <2> QED BY <2>3, <2>6
<1>5. R \notin B
  <2>1. B \subseteq SUBSET R
    OBVIOUS
  <2> HIDE DEF B
  <2>2. B = {}
    BY <1>4, <2>1, NoDescent
  <2> QED BY <2>2
<1>6. C[R] = H[R]
  BY <1>5
<1> QED BY <1>1, <1>6

\* Only guards change these labels, by adding when they are made and taking away as much when
\* they are dropped: get() reads the sum of those that are held, whatever overlapped, for any
\* number of threads and calls.
THEOREM GuardsAddUp == TelemetrySpec => []GuardsBalance
<1>1. GInv => GuardsBalance
  <2> SUFFICES ASSUME GInv, Quiet, NEW l \in Guarded
               PROVE  ShadowValue(l) =
                        HeldBy({t \in Thread : guard[t] # None /\ guard[t].label = l})
    BY DEF GuardsBalance, ShadowValue, HeldBy
  <2>1. PICK R : R = {t \in Thread : guard[t] # None /\ guard[t].label = l}
    OBVIOUS
  <2>2. R \subseteq Thread /\ IsFiniteSet(R)
    BY <2>1, ThreadAssumption, FS_Subset
  <2>3. PICK H : Adds(H, Claims(l), Thread) /\ ShadowValue(l) = H[Thread]
    BY DEF GInv, Claimed
  <2>4. \A t \in Thread : Claims(l)[t] = Held(t, l)
    <3>1. \A t \in Thread : Held(t, l) \in Int /\ Unapplied(t, l) = 0
      BY ClaimTypes DEF GInv, Inv, Quiet, Unapplied
    <3> QED BY <3>1 DEF Claims
  <2>5. /\ \A t \in R : Claims(l)[t] = guard[t].by
        /\ \A t \in Thread \ R : Claims(l)[t] = 0
    BY <2>1, <2>4 DEF Held
  <2>6. H[Thread] = H[R]
    BY <2>2, <2>3, <2>5, SumZeros, ThreadAssumption
  <2>7. HeldBy(R) = H[R]
    BY <2>2, <2>3, <2>5, GuardSum
  <2> QED BY <2>1, <2>3, <2>6, <2>7
<1>2. TelemetryInit => Init
  BY DEF TelemetryInit
<1>3. [TelemetryNext]_<<vars, metricVars>> => [Next]_vars
  BY DEF TelemetryNext
<1> QED BY <1>1, <1>2, <1>3, InitClaimed, StepClaimed, PTL DEF TelemetrySpec

-----------------------------------------------------------------------------
(* The list of prefixes *)

\* The entries that a prefix provider can be registered with.
Entries == [prefix : Prefix, provider : Provider \ {Builtin}]

Descends(list) ==
  \A i, j \in DOMAIN list : i < j => Len(list[i].prefix) >= Len(list[j].prefix)

LEMMA PrefixLength == \A e \in Entries : Len(e.prefix) \in Nat
<1>1. \A s \in Seq(STRING) : Len(s) \in Nat
  BY LenProperties
<1> QED BY <1>1, MetricAssumption DEF Entries

StableOrder(list, p) ==
  /\ p \in M!Bijection(DOMAIN list, DOMAIN list)
  /\ \A i, j \in DOMAIN list : i < j =>
        \/ Len(list[p[i]].prefix) > Len(list[p[j]].prefix)
        \/ Len(list[p[i]].prefix) = Len(list[p[j]].prefix) /\ p[i] < p[j]

\* Behind a list that is sorted, an entry goes to the end of those that are not shorter.
LEMMA OrderExists ==
  ASSUME NEW list \in Seq(Entries), Descends(list), NEW e \in Entries
  PROVE  \E p : StableOrder(Append(list, e), p)
<1> DEFINE n == Len(list)
           D == 1 .. n + 1
           L == Append(list, e)
           T == {i \in D : i = n + 1 \/ Len(list[i].prefix) < Len(e.prefix)}
<1>1. n \in Nat /\ DOMAIN list = 1 .. n /\ DOMAIN L = D /\ L[n + 1] = e
      /\ \A i \in 1 .. n : L[i] = list[i] /\ list[i] \in Entries
  BY AppendProperties, LenProperties, ElementOfSeq
<1>2. PICK m \in T : \A i \in T : ~(i < m)
  <2>1. T \subseteq Nat /\ n + 1 \in T
    BY <1>1
  <2> HIDE DEF T
  <2> QED BY <2>1, LeastNat
<1>3. m \in 1 .. n + 1 /\ m \in Nat
  BY <1>1
<1> DEFINE len(i) == Len(L[i].prefix)
<1>4. \A i \in D : len(i) \in Nat
  BY <1>1, PrefixLength
<1>5. \A i, j \in 1 .. n : i < j => len(i) >= len(j)
  BY <1>1 DEF Descends
<1>6. \A i \in 1 .. n : i < m => len(i) >= len(n + 1)
  <2> SUFFICES ASSUME NEW i \in 1 .. n, i < m PROVE len(i) >= len(n + 1)
    OBVIOUS
  <2>1. i \notin T
    BY <1>2
  <2>2. ~(Len(list[i].prefix) < Len(e.prefix))
    BY <1>1, <2>1
  <2>3. len(i) = Len(list[i].prefix) /\ len(n + 1) = Len(e.prefix) /\ i \in D /\ n + 1 \in D
    BY <1>1
  <2> HIDE DEF len
  <2> QED BY <1>4, <2>2, <2>3
<1>7. \A i \in 1 .. n : i >= m => len(i) < len(n + 1)
  <2> SUFFICES ASSUME NEW i \in 1 .. n, i >= m PROVE len(i) < len(n + 1)
    OBVIOUS
  <2>1. m \in 1 .. n /\ Len(list[m].prefix) < Len(e.prefix)
    BY <1>1, <1>3
  <2>2. len(m) = Len(list[m].prefix) /\ len(n + 1) = Len(e.prefix)
    BY <1>1, <2>1
  <2>3. len(m) >= len(i)
    BY <1>3, <1>5, <2>1, <1>4, <1>1
  <2>4. i \in D /\ m \in D /\ n + 1 \in D
    BY <1>1, <2>1
  <2> HIDE DEF len
  <2> QED BY <1>4, <2>1, <2>2, <2>3, <2>4
<1> DEFINE q == [k \in D |-> IF k < m THEN k ELSE IF k = m THEN n + 1 ELSE k - 1]
<1>8. q \in M!Bijection(D, D)
  <2>1. q \in [D -> D]
    BY <1>1, <1>3
  <2>2. \A a, b \in D : q[a] = q[b] => a = b
    BY <1>1, <1>3
  <2>3. ASSUME NEW b \in D PROVE \E a \in D : q[a] = b
    <3>1. CASE b < m
      BY <3>1
    <3>2. CASE b = n + 1
      <4>1. q[m] = b
        BY <1>1, <1>3, <3>2
      <4> QED BY <1>3, <4>1
    <3>3. CASE b >= m /\ b # n + 1
      <4>1. b + 1 \in D /\ q[b + 1] = b
        BY <1>1, <1>3, <3>3
      <4> QED BY <4>1
    <3> QED BY <1>1, <1>3, <3>1, <3>2, <3>3
  <2> HIDE DEF q
  <2> QED BY <2>1, <2>2, <2>3 DEF M!Bijection, M!Injection, M!Surjection, M!IsInjective
<1>9. ASSUME NEW i \in D, NEW j \in D, i < j
      PROVE  len(q[i]) > len(q[j]) \/ (len(q[i]) = len(q[j]) /\ q[i] < q[j])
  <2> HIDE DEF len
  <2>1. CASE j < m
    <3>1. q[i] = i /\ q[j] = j /\ i \in 1 .. n /\ j \in 1 .. n
      BY <1>1, <1>3, <1>9, <2>1
    <3> QED BY <1>4, <1>5, <1>9, <3>1
  <2>2. CASE j = m
    <3>1. q[i] = i /\ q[j] = n + 1 /\ i \in 1 .. n /\ i < m /\ n + 1 \in D
      BY <1>1, <1>3, <1>9, <2>2
    <3> QED BY <1>1, <1>4, <1>6, <3>1
  <2>3. CASE i < m /\ m < j
    <3>1. q[i] = i /\ q[j] = j - 1 /\ i \in 1 .. n /\ j - 1 \in 1 .. n /\ i < j - 1
      BY <1>1, <1>3, <1>9, <2>3
    <3>2. len(i) >= len(j - 1)
      BY <1>5, <3>1
    <3>3. len(i) \in Nat /\ len(j - 1) \in Nat
      BY <1>1, <1>4, <3>1
    <3> HIDE DEF q
    <3> QED BY <3>1, <3>2, <3>3
  <2>4. CASE i = m
    <3>1. q[i] = n + 1 /\ q[j] = j - 1 /\ j - 1 \in 1 .. n /\ j - 1 >= m
      BY <1>1, <1>3, <1>9, <2>4
    <3>2. len(j - 1) < len(n + 1)
      BY <1>7, <3>1
    <3>3. len(j - 1) \in Nat /\ len(n + 1) \in Nat
      BY <1>1, <1>3, <1>4, <3>1
    <3> HIDE DEF q
    <3> QED BY <3>1, <3>2, <3>3
  <2>5. CASE m < i
    <3>1. q[i] = i - 1 /\ q[j] = j - 1 /\ i - 1 \in 1 .. n /\ j - 1 \in 1 .. n /\ i - 1 < j - 1
      BY <1>1, <1>3, <1>9, <2>5
    <3>2. len(i - 1) >= len(j - 1)
      BY <1>5, <3>1
    <3>3. len(i - 1) \in Nat /\ len(j - 1) \in Nat
      BY <1>1, <1>4, <3>1
    <3> HIDE DEF q
    <3> QED BY <3>1, <3>2, <3>3
  <2> QED BY <1>1, <1>3, <1>9, <2>1, <2>2, <2>3, <2>4, <2>5
<1> HIDE DEF q
<1>10. StableOrder(L, q)
  BY <1>1, <1>8, <1>9 DEF StableOrder
<1> QED BY <1>10

\* Sorting moves entries about and leaves the longest prefixes first.
LEMMA SortedList ==
  ASSUME NEW n \in Nat, NEW L \in [1 .. n -> Entries], NEW q, StableOrder(L, q)
  PROVE  /\ M!Sorted(L) \in [1 .. n -> Entries]
         /\ Descends(M!Sorted(L))
         /\ \A i \in 1 .. n : \E j \in 1 .. n : M!Sorted(L)[i] = L[j]
         /\ \A j \in 1 .. n : \E i \in 1 .. n : M!Sorted(L)[i] = L[j]
<1>1. PICK p : StableOrder(L, p) /\ M!Sorted(L) = [i \in DOMAIN L |-> L[p[i]]]
  <2>1. PICK p : p = CHOOSE r \in M!Bijection(DOMAIN L, DOMAIN L) :
                        \A i, j \in DOMAIN L : i < j =>
                            \/ Len(L[r[i]].prefix) > Len(L[r[j]].prefix)
                            \/ Len(L[r[i]].prefix) = Len(L[r[j]].prefix) /\ r[i] < r[j]
    OBVIOUS
  <2>2. M!Sorted(L) = [i \in DOMAIN L |-> L[p[i]]]
    BY <2>1 DEF M!Sorted
  <2>3. StableOrder(L, p)
    BY <2>1 DEF StableOrder
  <2> QED BY <2>2, <2>3
<1>2. /\ p \in [1 .. n -> 1 .. n] /\ \A j \in 1 .. n : \E i \in 1 .. n : p[i] = j
  BY <1>1 DEF StableOrder, M!Bijection, M!Injection, M!Surjection
<1>3. PICK s : s = M!Sorted(L)
  OBVIOUS
<1>4. s \in [1 .. n -> Entries] /\ \A i \in 1 .. n : s[i] = L[p[i]]
  BY <1>1, <1>2, <1>3
<1>5. Descends(s)
  <2> SUFFICES ASSUME NEW i \in 1 .. n, NEW j \in 1 .. n, i < j
               PROVE  Len(s[i].prefix) >= Len(s[j].prefix)
    BY <1>4 DEF Descends
  <2>1. Len(s[i].prefix) \in Nat /\ Len(s[j].prefix) \in Nat
    BY <1>4, PrefixLength
  <2>2. Len(s[i].prefix) > Len(s[j].prefix) \/ Len(s[i].prefix) = Len(s[j].prefix)
    BY <1>1, <1>4 DEF StableOrder
  <2> QED BY <2>1, <2>2
<1>6. \A i \in 1 .. n : \E j \in 1 .. n : s[i] = L[j]
  BY <1>2, <1>4
<1>7. \A j \in 1 .. n : \E i \in 1 .. n : s[i] = L[j]
  BY <1>2, <1>4
<1> QED BY <1>3, <1>4, <1>5, <1>6, <1>7

\* The list and what was accepted last for each prefix.
ListAgrees(list, acc) ==
  /\ list \in Seq(Entries)
  /\ Descends(list)
  /\ \A i \in DOMAIN list : list[i].provider = acc[list[i].prefix]
  /\ \A q \in Prefix : acc[q] # None => \E i \in DOMAIN list : list[i].prefix = q

LEMMA Registers ==
  ASSUME NEW list, NEW acc \in [Prefix -> (Provider \ {Builtin}) \cup {None}],
         ListAgrees(list, acc), NEW e \in Entries
  PROVE  ListAgrees(M!Registered(list, e), [acc EXCEPT ![e.prefix] = e.provider])
<1>1. PICK n : n = Len(list)
  OBVIOUS
<1>2. n \in Nat /\ list \in [1 .. n -> Entries] /\ DOMAIN list = 1 .. n
  BY <1>1, LenProperties DEF ListAgrees
<1>3. e.prefix \in Prefix /\ e.provider \in Provider \ {Builtin}
      /\ \A i \in 1 .. n : list[i].prefix \in Prefix
  BY <1>2 DEF Entries
<1>4. PICK new : new = [acc EXCEPT ![e.prefix] = e.provider]
  OBVIOUS
<1>5. new[e.prefix] = e.provider /\ \A q \in Prefix : q # e.prefix => new[q] = acc[q]
  BY <1>3, <1>4
<1>6. \A k \in Nat : \A r \in [1 .. k -> Entries] : r \in Seq(Entries)
  BY SeqDef
<1>7. PICK s : s = M!Registered(list, e)
  OBVIOUS
<1>8. CASE \E i \in DOMAIN list : list[i].prefix = e.prefix
  <2>1. s = [i \in 1 .. n |-> IF list[i].prefix = e.prefix THEN e ELSE list[i]]
    BY <1>2, <1>7, <1>8 DEF M!Registered
  <2>2. s \in [1 .. n -> Entries] /\ \A i \in 1 .. n : s[i].prefix = list[i].prefix
    BY <1>2, <2>1
  <2>3. Descends(s)
    BY <1>2, <2>2 DEF ListAgrees, Descends
  <2>4. \A i \in 1 .. n : s[i].provider = new[s[i].prefix]
    BY <1>2, <1>3, <1>5, <2>1, <2>2 DEF ListAgrees
  <2>5. \A q \in Prefix : new[q] # None => \E i \in 1 .. n : s[i].prefix = q
    <3> SUFFICES ASSUME NEW q \in Prefix, new[q] # None PROVE \E i \in 1 .. n : s[i].prefix = q
      OBVIOUS
    <3>1. CASE q = e.prefix
      BY <1>2, <1>8, <2>2, <3>1
    <3>2. CASE q # e.prefix
      <4>1. acc[q] # None
        BY <1>5, <3>2
      <4>2. PICK i \in 1 .. n : list[i].prefix = q
        BY <1>2, <4>1 DEF ListAgrees
      <4> QED BY <2>2, <4>2
    <3> QED BY <3>1, <3>2
  <2>6. DOMAIN s = 1 .. n /\ s \in Seq(Entries)
    BY <1>2, <1>6, <2>2
  <2>7. ListAgrees(s, new)
    BY <2>3, <2>4, <2>5, <2>6 DEF ListAgrees
  <2> QED BY <1>4, <1>7, <2>7
<1>9. CASE ~\E i \in DOMAIN list : list[i].prefix = e.prefix
  <2>1. PICK L : L = Append(list, e)
    OBVIOUS
  <2>2. s = M!Sorted(L)
    BY <1>7, <1>9, <2>1 DEF M!Registered
  <2>3. /\ L \in [1 .. n + 1 -> Entries] /\ L[n + 1] = e
        /\ \A i \in 1 .. n : L[i] = list[i]
    <3>1. list \in Seq(Entries)
      BY DEF ListAgrees
    <3>2. L \in Seq(Entries) /\ Len(L) = n + 1 /\ (\A i \in 1 .. n : L[i] = list[i]) /\ L[n + 1] = e
      BY <1>1, <2>1, <3>1, AppendProperties
    <3>3. L \in [1 .. Len(L) -> Entries]
      BY <3>2, LenProperties
    <3> QED BY <3>2, <3>3
  <2>4. \E p : StableOrder(L, p)
    BY <2>1, OrderExists DEF ListAgrees
  <2>5. /\ s \in [1 .. n + 1 -> Entries] /\ Descends(s)
        /\ \A i \in 1 .. n + 1 : \E j \in 1 .. n + 1 : s[i] = L[j]
        /\ \A j \in 1 .. n + 1 : \E i \in 1 .. n + 1 : s[i] = L[j]
    <3>1. n + 1 \in Nat
      BY <1>2
    <3> QED BY <2>2, <2>3, <2>4, <3>1, SortedList
  <2>6. \A j \in 1 .. n + 1 : L[j].provider = new[L[j].prefix]
    BY <1>2, <1>3, <1>5, <1>9, <2>3 DEF ListAgrees
  <2>7. \A i \in 1 .. n + 1 : s[i].provider = new[s[i].prefix]
    <3> SUFFICES ASSUME NEW i \in 1 .. n + 1 PROVE s[i].provider = new[s[i].prefix]
      OBVIOUS
    <3>1. PICK j \in 1 .. n + 1 : s[i] = L[j]
      BY <2>5
    <3> QED BY <2>6, <3>1
  <2>8. ASSUME NEW q \in Prefix, new[q] # None PROVE \E i \in 1 .. n + 1 : s[i].prefix = q
    <3>1. \E j \in 1 .. n + 1 : L[j].prefix = q
      <4>1. CASE q = e.prefix
        BY <1>2, <2>3, <4>1
      <4>2. CASE q # e.prefix
        BY <1>2, <1>5, <2>3, <2>8, <4>2 DEF ListAgrees
      <4> QED BY <4>1, <4>2
    <3> QED BY <2>5, <3>1
  <2>9. DOMAIN s = 1 .. n + 1 /\ s \in Seq(Entries)
    BY <1>2, <1>6, <2>5
  <2> QED BY <1>4, <1>7, <2>5, <2>7, <2>8, <2>9 DEF ListAgrees
<1> QED BY <1>8, <1>9

\* What a name gets is what was accepted last for its longest prefix, else the state's.
LEMMA ChosenIsExpected ==
  ASSUME NEW n \in Name, ListAgrees(prefix_providers, accepted), state # None,
         None \notin Provider
  PROVE  /\ M!MeterForMetric(n) = M!Expected(n)
         /\ M!MeterForMetric(n) = state \/ M!MeterForMetric(n) \in Provider \ {Builtin}
<1>1. PICK list : list = prefix_providers
  OBVIOUS
<1>2. PICK k : k = Len(list)
  OBVIOUS
<1>3. k \in Nat /\ list \in [1 .. k -> Entries] /\ DOMAIN list = 1 .. k
  BY <1>1, <1>2, LenProperties DEF ListAgrees
<1> DEFINE I == {i \in 1 .. Len(list) : M!IsPrefix(list[i].prefix, n)}
           fits == {p \in Prefix : accepted[p] # None /\ M!IsPrefix(p, n)}
<1>4. \A i \in 1 .. k : list[i].prefix \in Prefix /\ list[i].provider \in Provider \ {Builtin}
  BY <1>3 DEF Entries
<1>5. \A i \in I : list[i].prefix \in fits /\ list[i].provider = accepted[list[i].prefix]
  <2> SUFFICES ASSUME NEW i \in I
               PROVE  list[i].prefix \in fits /\ list[i].provider = accepted[list[i].prefix]
    OBVIOUS
  <2>1. i \in 1 .. k /\ M!IsPrefix(list[i].prefix, n)
    BY <1>2
  <2>2. list[i].provider = accepted[list[i].prefix]
    BY <1>1, <1>3, <2>1 DEF ListAgrees
  <2> QED BY <1>4, <2>1, <2>2
<1>6. \A p \in fits : \E i \in I : list[i].prefix = p
  BY <1>1, <1>2, <1>3 DEF ListAgrees
<1>7. CASE I = {}
  <2>1. fits = {}
    BY <1>6, <1>7
  <2>2. M!Expected(n) = state
    BY <2>1 DEF M!Expected
  <2>3. M!SelectInSeq(prefix_providers, LAMBDA e : M!IsPrefix(e.prefix, n)) = 0
    BY <1>1, <1>7 DEF M!SelectInSeq
  <2>4. M!MeterForMetric(n) = M!GlobalState
    BY <2>3 DEF M!MeterForMetric
  <2> QED BY <2>2, <2>4 DEF M!GlobalState
<1>8. CASE I # {}
  <2>1. PICK i : i = CHOOSE x \in I : \A y \in I : x =< y
    OBVIOUS
  <2>2. I \subseteq Nat
    BY <1>2, <1>3
  <2>3. i \in I /\ \A y \in I : i <= y
    <3>1. \E x \in I : \A y \in I : ~(y < x)
      <4> HIDE DEF I
      <4> QED BY <1>8, <2>2, LeastNat
    <3>2. \E x \in I : \A y \in I : x =< y
      BY <2>2, <3>1
    <3> HIDE DEF I
    <3> QED BY <2>1, <3>2
  <2>4. M!SelectInSeq(prefix_providers, LAMBDA e : M!IsPrefix(e.prefix, n)) = i
    BY <1>1, <1>8, <2>1 DEF M!SelectInSeq, M!Min
  <2>5. i \in 1 .. k /\ i # 0
    BY <1>2, <1>3, <2>3
  <2>6. M!MeterForMetric(n) = list[i].provider
    BY <1>1, <2>4, <2>5 DEF M!MeterForMetric
  <2>7. \A q \in fits : Len(q) <= Len(list[i].prefix)
    <3> SUFFICES ASSUME NEW q \in fits PROVE Len(q) <= Len(list[i].prefix)
      OBVIOUS
    <3>1. PICK j \in I : list[j].prefix = q
      BY <1>6
    <3>2. j \in 1 .. k /\ i <= j
      BY <1>2, <2>3
    <3>3. Len(list[i].prefix) \in Nat /\ Len(q) \in Nat
      BY <1>3, <2>5, <3>1, <3>2, PrefixLength
    <3>4. i < j => Len(list[i].prefix) >= Len(list[j].prefix)
      BY <1>1, <1>3, <2>5, <3>2 DEF ListAgrees, Descends
    <3> QED BY <2>5, <3>1, <3>2, <3>3, <3>4
  <2>8. list[i].prefix \in fits
    BY <1>5, <2>3
  <2>9. PICK p : p = CHOOSE r \in fits : \A q \in fits : Len(q) <= Len(r)
    OBVIOUS
  <2>10. p \in fits /\ \A q \in fits : Len(q) <= Len(p)
    <3> HIDE DEF fits
    <3> QED BY <2>7, <2>8, <2>9
  <2>11. p = list[i].prefix
    <3>1. PICK r : r = list[i].prefix
      OBVIOUS
    <3>2. p \in Seq(STRING) /\ r \in Seq(STRING)
      BY <2>8, <2>10, <3>1, MetricAssumption
    <3>3. Len(p) \in Nat /\ Len(r) \in Nat
      BY <3>2, LenProperties
    <3>4. Len(p) = Len(r)
      BY <2>7, <2>8, <2>10, <3>1, <3>3
    <3>5. SubSeq(p, 1, Len(p)) = SubSeq(n, 1, Len(p)) /\ SubSeq(r, 1, Len(r)) = SubSeq(n, 1, Len(r))
      BY <2>8, <2>10, <3>1 DEF M!IsPrefix
    <3>6. SubSeq(p, 1, Len(p)) = p /\ SubSeq(r, 1, Len(r)) = r
      BY <3>2, SubSeqFull
    <3> QED BY <3>1, <3>4, <3>5, <3>6
  <2>12. M!Expected(n) = accepted[p]
    <3>1. fits # {}
      BY <2>8
    <3> QED BY <2>9, <3>1 DEF M!Expected
  <2>13. list[i].provider = accepted[list[i].prefix]
    BY <1>5, <2>3
  <2>14. list[i].provider \in Provider \ {Builtin}
    BY <1>4, <2>5
  <2> QED BY <2>6, <2>11, <2>12, <2>13, <2>14
<1> QED BY <1>7, <1>8

-----------------------------------------------------------------------------
(* The global state and what feeds it *)

JobType == [name : Name \cup {<<>>},
            entry : [prefix : Prefix \cup {<<>>}, provider : Provider],
            instrument : Nat]
MetricStep == {"idle", "resolve", "find", "register", "count"}

MetricTypes ==
  /\ state \in Provider \cup {None}
  /\ claimed \in (Provider \ {Builtin}) \cup {None}
  /\ accepted \in [Prefix -> (Provider \ {Builtin}) \cup {None}]
  /\ instruments \in Seq(M!Instrument)
  /\ at \in [Thread -> MetricStep]
  /\ job \in [Thread -> JobType]

\* What a call that is under way works on: a name is given its meter only when the state is
\* set, and a counter is counted up after it was made.
JobsFit ==
  \A t \in Thread :
    /\ at[t] = "register" => job[t].entry \in Entries
    /\ at[t] \in {"resolve", "find"} => job[t].name \in Name
    /\ at[t] = "find" => state # None
    /\ at[t] = "count" => /\ job[t].instrument \in DOMAIN instruments
                          /\ Kind[instruments[job[t].instrument].name] = "SimpleCounter"

\* The provider of an accepted initialisation is the state's, and nothing was made before it.
StateFeeds ==
  /\ claimed # None => state = claimed
  /\ claimed # None => \A i \in DOMAIN instruments : instruments[i].provider # Builtin
  /\ state = None => instruments = <<>>

MetricInv ==
  MetricTypes /\ JobsFit /\ StateFeeds /\ ListAgrees(prefix_providers, accepted)

LEMMA NoJobType ==
  /\ M!NoJob \in JobType
  /\ \A n \in Name : [M!NoJob EXCEPT !.name = n] \in JobType
                     /\ [M!NoJob EXCEPT !.name = n].name = n
  /\ \A e \in Entries : [M!NoJob EXCEPT !.entry = e] \in JobType
                     /\ [M!NoJob EXCEPT !.entry = e].entry = e
  /\ \A i \in Nat : [M!NoJob EXCEPT !.instrument = i] \in JobType
                     /\ [M!NoJob EXCEPT !.instrument = i].instrument = i
BY MetricAssumption DEF M!NoJob, JobType, Entries

\* The thread of a call moves and the others stay where they are.
Moves(t, step, args) ==
  /\ at' \in [Thread -> MetricStep] /\ job' \in [Thread -> JobType]
  /\ at'[t] = step /\ job'[t] = args
  /\ \A u \in Thread : u # t => at'[u] = at[u] /\ job'[u] = job[u]

LEMMA BeginMoves ==
  ASSUME MetricTypes, NEW t \in Thread, NEW step \in MetricStep, NEW args \in JobType,
         M!Begin(t, step, args)
  PROVE  Moves(t, step, args) /\ at[t] = "idle"
BY DEF MetricTypes, M!Begin, Moves

LEMMA ReturnMoves ==
  ASSUME MetricTypes, NEW t \in Thread, M!Return(t)
  PROVE  Moves(t, "idle", M!NoJob)
BY NoJobType DEF MetricTypes, M!Return, Moves, MetricStep

\* A call that begins or ends and changes nothing that was made.
LEMMA CallKeeps ==
  ASSUME MetricInv, NEW t \in Thread, NEW step \in MetricStep, NEW args, Moves(t, step, args),
         UNCHANGED <<instruments, prefix_providers, accepted>>,
         UNCHANGED claimed, state' \in Provider \cup {None},
         state' # state => state = None /\ claimed = None,
         step = "register" => args.entry \in Entries,
         step \in {"resolve", "find"} => args.name \in Name,
         step = "find" => state' # None,
         step = "count" => /\ args.instrument \in DOMAIN instruments
                           /\ Kind[instruments[args.instrument].name] = "SimpleCounter"
  PROVE  MetricInv'
<1>1. MetricTypes'
  BY DEF MetricInv, MetricTypes, Moves
<1>2. JobsFit'
  BY DEF MetricInv, JobsFit, Moves
<1>3. StateFeeds'
  BY DEF MetricInv, StateFeeds
<1>4. ListAgrees(prefix_providers, accepted)'
  BY DEF MetricInv, ListAgrees, Descends
<1> QED BY <1>1, <1>2, <1>3, <1>4 DEF MetricInv

\* An initialisation is accepted only while nothing was made.
LEMMA InitWithProviderKeeps ==
  ASSUME MetricInv, NEW t \in Thread, NEW p \in Provider \ {Builtin}, M!InitWithProvider(t, p)
  PROVE  MetricInv'
<1>1. Moves(t, "idle", M!NoJob)
  BY BeginMoves, NoJobType DEF M!InitWithProvider, MetricInv, MetricStep
<1>2. UNCHANGED <<instruments, prefix_providers, accepted>>
  BY DEF M!InitWithProvider
<1>3. CASE state # None
  <2>1. UNCHANGED <<state, claimed>> /\ state \in Provider \cup {None}
    BY <1>3 DEF M!InitWithProvider, MetricInv, MetricTypes
  <2> QED BY <1>1, <1>2, <2>1, CallKeeps DEF MetricStep
<1>4. CASE state = None
  <2>1. state' = p /\ claimed' = p /\ instruments = <<>> /\ p # None
    BY <1>4, MetricAssumption DEF M!InitWithProvider, MetricInv, StateFeeds
  <2>2. MetricTypes'
    BY <1>1, <1>2, <2>1 DEF MetricInv, MetricTypes, Moves
  <2>3. JobsFit'
    BY <1>1, <1>2, <2>1 DEF MetricInv, JobsFit, Moves
  <2>4. StateFeeds'
    <3>1. DOMAIN instruments = {}
      BY <2>1
    <3> QED BY <1>2, <2>1, <3>1 DEF StateFeeds
  <2>5. ListAgrees(prefix_providers, accepted)'
    BY <1>2 DEF MetricInv, ListAgrees, Descends
  <2> QED BY <2>2, <2>3, <2>4, <2>5 DEF MetricInv
<1> QED BY <1>3, <1>4

\* Registration of a prefix.
LEMMA RegisterKeeps ==
  ASSUME MetricInv, NEW t \in Thread, M!Register(t)
  PROVE  MetricInv'
<1>1. Moves(t, "idle", M!NoJob)
  BY ReturnMoves DEF M!Register, MetricInv
<1>2. PICK e \in Entries : e = job[t].entry
  BY DEF M!Register, MetricInv, JobsFit
<1>3. /\ prefix_providers' = M!Registered(prefix_providers, e)
      /\ accepted' = [accepted EXCEPT ![e.prefix] = e.provider]
      /\ UNCHANGED <<state, instruments, claimed>>
  BY <1>2 DEF M!Register
<1>4. MetricTypes'
  <2>1. e.prefix \in Prefix /\ e.provider \in Provider \ {Builtin}
    BY DEF Entries
  <2>2. accepted' \in [Prefix -> (Provider \ {Builtin}) \cup {None}]
    BY <1>3, <2>1 DEF MetricInv, MetricTypes
  <2> QED BY <1>1, <1>3, <2>2 DEF MetricInv, MetricTypes, Moves
<1>5. JobsFit'
  BY <1>1, <1>3 DEF MetricInv, JobsFit, Moves
<1>6. StateFeeds'
  BY <1>3 DEF MetricInv, StateFeeds
<1>7. ListAgrees(prefix_providers', accepted')
  <2>1. accepted \in [Prefix -> (Provider \ {Builtin}) \cup {None}]
    BY DEF MetricInv, MetricTypes
  <2> QED BY <1>3, <2>1, Registers DEF MetricInv
<1>8. ListAgrees(prefix_providers, accepted)'
  BY <1>7 DEF ListAgrees, Descends
<1> QED BY <1>4, <1>5, <1>6, <1>8 DEF MetricInv

\* A new instrument is behind the others and has the provider that its name gets.
LEMMA FindMakes ==
  ASSUME MetricInv, NEW t \in Thread, M!Find(t)
  PROVE  LET n == job[t].name  k == Len(instruments)
         IN  /\ n \in Name /\ k \in Nat /\ Len(instruments') = k + 1
             /\ instruments' \in Seq(M!Instrument)
             /\ \A i \in 1 .. k : instruments'[i] = instruments[i]
             /\ instruments'[k + 1] = [name |-> n, shadow |-> 0, provider |-> M!Expected(n)]
             /\ claimed # None => M!Expected(n) # Builtin
<1>1. PICK n \in Name : n = job[t].name
  BY DEF M!Find, MetricInv, JobsFit
<1>2. state # None /\ state \in Provider
  BY DEF M!Find, MetricInv, JobsFit, MetricTypes
<1>3. M!MeterForMetric(n) = M!Expected(n)
  BY <1>2, ChosenIsExpected, MetricAssumption DEF MetricInv
<1>4. PICK x : x = M!Expected(n)
  OBVIOUS
<1>5. instruments' = Append(instruments, [name |-> n, shadow |-> 0, provider |-> x])
  BY <1>1, <1>3, <1>4 DEF M!Find
<1>6. x \in Provider /\ (claimed # None => x # Builtin)
  <2>1. x = state \/ x \in Provider \ {Builtin}
    BY <1>2, <1>3, <1>4, ChosenIsExpected, MetricAssumption DEF MetricInv
  <2> QED BY <1>2, <2>1, MetricAssumption DEF MetricInv, MetricTypes, StateFeeds
<1>7. [name |-> n, shadow |-> 0, provider |-> x] \in M!Instrument
  BY <1>6 DEF M!Instrument
<1>8. instruments \in Seq(M!Instrument) /\ Len(instruments) \in Nat
  BY LenProperties DEF MetricInv, MetricTypes
<1>9. PICK r : r = [name |-> n, shadow |-> 0, provider |-> x]
  OBVIOUS
<1>10. /\ instruments' \in Seq(M!Instrument) /\ Len(instruments') = Len(instruments) + 1
       /\ \A i \in 1 .. Len(instruments) : instruments'[i] = instruments[i]
       /\ instruments'[Len(instruments) + 1] = r
  BY <1>5, <1>7, <1>8, <1>9, AppendProperties
<1> QED BY <1>1, <1>4, <1>6, <1>8, <1>9, <1>10

LEMMA FindKeeps ==
  ASSUME MetricInv, NEW t \in Thread, M!Find(t)
  PROVE  MetricInv'
<1>1. Moves(t, "idle", M!NoJob)
  BY ReturnMoves DEF M!Find, MetricInv
<1>2. /\ UNCHANGED <<state, claimed, prefix_providers, accepted>>
      /\ state # None
  BY DEF M!Find, MetricInv, JobsFit
<1>0. PICK n, k, x : n = job[t].name /\ k = Len(instruments) /\ x = M!Expected(n)
  OBVIOUS
<1>3. /\ n \in Name /\ k \in Nat /\ k = Len(instruments) /\ Len(instruments') = k + 1
      /\ instruments' \in Seq(M!Instrument)
      /\ \A i \in 1 .. k : instruments'[i] = instruments[i]
      /\ instruments'[k + 1] = [name |-> n, shadow |-> 0, provider |-> x]
      /\ claimed # None => x # Builtin
  BY <1>0, FindMakes
<1>4. DOMAIN instruments = 1 .. k /\ DOMAIN instruments' = 1 .. k + 1
  BY <1>3, LenProperties DEF MetricInv, MetricTypes
<1>5. MetricTypes'
  BY <1>1, <1>2, <1>3 DEF MetricInv, MetricTypes, Moves
<1>6. JobsFit'
  <2>1. \A i \in DOMAIN instruments : i \in DOMAIN instruments' /\ instruments'[i] = instruments[i]
    BY <1>3, <1>4
  <2> QED BY <1>1, <1>2, <2>1 DEF MetricInv, JobsFit, Moves
<1>7. StateFeeds'
  <2>1. ASSUME claimed # None, NEW i \in 1 .. k + 1 PROVE instruments'[i].provider # Builtin
    <3>1. CASE i = k + 1
      BY <1>3, <2>1, <3>1
    <3>2. CASE i # k + 1
      BY <1>3, <1>4, <2>1, <3>2 DEF MetricInv, StateFeeds
    <3> QED BY <3>1, <3>2
  <2> QED BY <1>2, <1>4, <2>1 DEF MetricInv, StateFeeds
<1>8. ListAgrees(prefix_providers, accepted)'
  BY <1>2 DEF MetricInv, ListAgrees, Descends
<1> QED BY <1>5, <1>6, <1>7, <1>8 DEF MetricInv

\* A count changes the shadow of one instrument.
LEMMA CountMakes ==
  ASSUME MetricInv, NEW t \in Thread, M!Count(t)
  PROVE  /\ instruments' \in Seq(M!Instrument) /\ Len(instruments') = Len(instruments)
         /\ Len(instruments) \in Nat
         /\ job[t].instrument \in 1 .. Len(instruments)
         /\ \A i \in 1 .. Len(instruments) :
              /\ instruments'[i].name = instruments[i].name
              /\ instruments'[i].provider = instruments[i].provider
              /\ instruments'[i].shadow = IF i = job[t].instrument
                                            THEN instruments[i].shadow + 1
                                            ELSE instruments[i].shadow
<1>1. PICK j : j = job[t].instrument
  OBVIOUS
<1>2. j \in DOMAIN instruments
  BY <1>1 DEF M!Count, MetricInv, JobsFit
<1>3. /\ instruments \in Seq(M!Instrument) /\ Len(instruments) \in Nat
      /\ DOMAIN instruments = 1 .. Len(instruments)
      /\ instruments \in [1 .. Len(instruments) -> M!Instrument]
  BY LenProperties DEF MetricInv, MetricTypes
<1>4. PICK r : r = [instruments[j] EXCEPT !.shadow = @ + 1]
  OBVIOUS
<1>5. /\ r \in M!Instrument /\ r.name = instruments[j].name
      /\ r.provider = instruments[j].provider /\ r.shadow = instruments[j].shadow + 1
  BY <1>2, <1>3, <1>4 DEF M!Instrument
<1>6. instruments' = [instruments EXCEPT ![j] = r]
  BY <1>1, <1>4 DEF M!Count, M!ShadowOf
<1>7. /\ instruments' \in Seq(M!Instrument) /\ Len(instruments') = Len(instruments)
      /\ \A i \in 1 .. Len(instruments) : instruments'[i] = IF i = j THEN r ELSE instruments[i]
  BY <1>2, <1>3, <1>5, <1>6, ExceptSeq
<1> QED BY <1>1, <1>2, <1>3, <1>5, <1>7

LEMMA CountKeeps ==
  ASSUME MetricInv, NEW t \in Thread, M!Count(t)
  PROVE  MetricInv'
<1>1. Moves(t, "idle", M!NoJob)
  BY ReturnMoves DEF M!Count, MetricInv
<1>2. UNCHANGED <<state, claimed, prefix_providers, accepted>>
  BY DEF M!Count
<1>3. /\ instruments' \in Seq(M!Instrument) /\ DOMAIN instruments' = DOMAIN instruments
      /\ \A i \in DOMAIN instruments :
            /\ instruments'[i].name = instruments[i].name
            /\ instruments'[i].provider = instruments[i].provider
      /\ instruments # <<>>
  <2>1. instruments \in Seq(M!Instrument)
    BY DEF MetricInv, MetricTypes
  <2> QED BY <2>1, CountMakes, LenProperties, EmptySeq
<1>4. MetricTypes'
  BY <1>1, <1>2, <1>3 DEF MetricInv, MetricTypes, Moves
<1>5. JobsFit'
  BY <1>1, <1>2, <1>3 DEF MetricInv, JobsFit, Moves
<1>6. StateFeeds'
  BY <1>2, <1>3 DEF MetricInv, StateFeeds
<1>7. ListAgrees(prefix_providers, accepted)'
  BY <1>2 DEF MetricInv, ListAgrees, Descends
<1> QED BY <1>4, <1>5, <1>6, <1>7 DEF MetricInv

\* A use of an instrument begins and ends at once, or goes on to count.
LEMMA UseMoves ==
  ASSUME MetricInv, NEW t \in Thread, NEW i \in DOMAIN instruments, NEW step \in MetricStep,
         NEW attrs, M!Use(t, i, step, attrs)
  PROVE  \E args \in JobType : args.instrument = i /\ Moves(t, step, args) /\ at[t] = "idle"
<1>1. i \in Nat
  BY LenProperties DEF MetricInv, MetricTypes
<1>2. PICK args \in JobType : args = [M!NoJob EXCEPT !.instrument = i] /\ args.instrument = i
  BY <1>1, NoJobType
<1>3. M!Begin(t, step, args)
  BY <1>2 DEF M!Use
<1> QED BY <1>2, <1>3, BeginMoves DEF MetricInv

LEMMA UseKeeps ==
  ASSUME MetricInv, NEW t \in Thread, NEW i \in DOMAIN instruments, NEW step \in {"idle", "count"},
         NEW attrs, M!Use(t, i, step, attrs),
         step = "count" => Kind[instruments[i].name] = "SimpleCounter"
  PROVE  MetricInv'
<1>1. step \in MetricStep
  BY DEF MetricStep
<1>2. PICK args \in JobType : args.instrument = i /\ Moves(t, step, args)
  BY <1>1, UseMoves
<1>3. UNCHANGED <<instruments, prefix_providers, accepted, claimed, state>>
  BY DEF M!Use
<1>4. state \in Provider \cup {None}
  BY DEF MetricInv, MetricTypes
<1> QED BY <1>1, <1>2, <1>3, <1>4, CallKeeps

LEMMA MetricStepKeeps == MetricInv /\ [M!Next]_metricVars => MetricInv'
<1> SUFFICES ASSUME MetricInv, [M!Next]_metricVars PROVE MetricInv'
  OBVIOUS
<1>0. CASE UNCHANGED metricVars
  BY <1>0 DEF metricVars, MetricInv, MetricTypes, JobsFit, StateFeeds, ListAgrees, Descends
<1>1. state \in Provider \cup {None} /\ M!NoJob \in JobType
  BY NoJobType DEF MetricInv, MetricTypes
<1>2. {"idle", "register", "resolve", "find"} \subseteq MetricStep
  BY DEF MetricStep
<1>3. ASSUME NEW t \in Thread, M!GatherAllMetrics(t) PROVE MetricInv'
  <2>1. Moves(t, "idle", M!NoJob)
    BY <1>1, <1>2, <1>3, BeginMoves DEF M!GatherAllMetrics, MetricInv
  <2>2. /\ UNCHANGED <<instruments, prefix_providers, accepted, claimed>>
        /\ state' = M!GlobalState
    BY <1>3 DEF M!GatherAllMetrics
  <2>3. state' \in Provider \cup {None} /\ (state' # state => state = None /\ claimed = None)
    BY <1>1, <2>2, MetricAssumption DEF M!GlobalState, MetricInv, StateFeeds
  <2> QED BY <1>2, <2>1, <2>2, <2>3, CallKeeps
<1>4. ASSUME NEW t \in Thread, NEW prefix \in Prefix, NEW p \in Provider \ {Builtin},
             M!RegisterPrefixProvider(t, prefix, p)
      PROVE  MetricInv'
  <2>1. UNCHANGED <<instruments, prefix_providers, accepted, claimed, state>>
    BY <1>4 DEF M!RegisterPrefixProvider
  <2>2. CASE prefix = <<>> \/ state = None
    <3>1. Moves(t, "idle", M!NoJob)
      BY <1>1, <1>2, <1>4, <2>2, BeginMoves DEF M!RegisterPrefixProvider, MetricInv
    <3> QED BY <1>1, <1>2, <2>1, <3>1, CallKeeps
  <2>3. CASE ~(prefix = <<>> \/ state = None)
    <3>1. PICK e \in Entries : e = [prefix |-> prefix, provider |-> p]
      BY DEF Entries
    <3>2. PICK args \in JobType : args = [M!NoJob EXCEPT !.entry = e] /\ args.entry = e
      BY NoJobType
    <3>3. M!Begin(t, "register", args)
      BY <1>4, <2>3, <3>1, <3>2 DEF M!RegisterPrefixProvider
    <3>4. Moves(t, "register", args)
      BY <1>2, <3>3, BeginMoves DEF MetricInv
    <3> QED BY <1>1, <1>2, <2>1, <3>2, <3>4, CallKeeps
  <2> QED BY <2>2, <2>3
<1>5. ASSUME NEW t \in Thread, NEW n \in Name, NEW labels \in 0 .. 1, M!NewInstrument(t, n, labels)
      PROVE  MetricInv'
  <2>1. UNCHANGED <<instruments, prefix_providers, accepted, claimed, state>>
    BY <1>5 DEF M!NewInstrument
  <2>2. CASE M!Multi(n) /\ labels = 0
    <3>1. Moves(t, "idle", M!NoJob)
      BY <1>1, <1>2, <1>5, <2>2, BeginMoves DEF M!NewInstrument, MetricInv
    <3> QED BY <1>1, <1>2, <2>1, <3>1, CallKeeps
  <2>3. CASE ~(M!Multi(n) /\ labels = 0)
    <3>1. PICK args \in JobType : args = [M!NoJob EXCEPT !.name = n] /\ args.name = n
      BY NoJobType
    <3>2. M!Begin(t, "resolve", args)
      BY <1>5, <2>3, <3>1 DEF M!NewInstrument
    <3>3. Moves(t, "resolve", args)
      BY <1>2, <3>2, BeginMoves DEF MetricInv
    <3> QED BY <1>1, <1>2, <2>1, <3>1, <3>3, CallKeeps
  <2> QED BY <2>2, <2>3
<1>6. ASSUME NEW t \in Thread, M!Resolve(t) PROVE MetricInv'
  <2>1. PICK args : args = job[t]
    OBVIOUS
  <2>2. Moves(t, "find", args) /\ args.name \in Name
    BY <1>2, <1>6, <2>1 DEF M!Resolve, Moves, MetricInv, MetricTypes, JobsFit
  <2>3. UNCHANGED <<instruments, prefix_providers, accepted, claimed>> /\ state' = M!GlobalState
    BY <1>6 DEF M!Resolve
  <2>4. /\ state' \in Provider \cup {None} /\ state' # None
        /\ state' # state => state = None /\ claimed = None
    BY <1>1, <2>3, MetricAssumption DEF M!GlobalState, MetricInv, StateFeeds
  <2> QED BY <1>2, <2>2, <2>3, <2>4, CallKeeps
<1>7. ASSUME NEW t \in Thread, NEW i \in DOMAIN instruments, M!IncrementSimple(t, i)
      PROVE  MetricInv'
  BY <1>7, UseKeeps DEF M!IncrementSimple
<1>8. ASSUME NEW t \in Thread, NEW i \in DOMAIN instruments, NEW v \in LabelValue, M!Observe(t, i, v)
      PROVE  MetricInv'
  BY <1>8, UseKeeps DEF M!Observe
<1>9. ASSUME NEW t \in Thread, NEW i \in DOMAIN instruments, M!RecordMeasure(t, i)
      PROVE  MetricInv'
  <2>1. PICK attrs : M!Use(t, i, "idle", attrs)
    BY <1>9 DEF M!RecordMeasure
  <2> QED BY <2>1, UseKeeps
<1>10. ASSUME NEW t \in Thread, NEW i \in DOMAIN instruments, NEW v \in LabelValue,
              M!StartMeasure(t, i, v)
       PROVE  MetricInv'
  <2>1. Moves(t, "idle", M!NoJob)
    BY <1>1, <1>2, <1>10, BeginMoves DEF M!StartMeasure, MetricInv
  <2>2. UNCHANGED <<instruments, prefix_providers, accepted, claimed, state>>
    BY <1>10 DEF M!StartMeasure
  <2> QED BY <1>1, <1>2, <2>1, <2>2, CallKeeps
<1>11. ASSUME NEW t \in Thread, M!CancelMeasure(t) PROVE MetricInv'
  <2>1. Moves(t, "idle", M!NoJob)
    BY <1>1, <1>2, <1>11, BeginMoves DEF M!CancelMeasure, MetricInv
  <2>2. UNCHANGED <<instruments, prefix_providers, accepted, claimed, state>>
    BY <1>11 DEF M!CancelMeasure
  <2> QED BY <1>1, <1>2, <2>1, <2>2, CallKeeps
<1> QED BY <1>0, <1>3, <1>4, <1>5, <1>6, <1>7, <1>8, <1>9, <1>10, <1>11, InitWithProviderKeeps,
           RegisterKeeps, FindKeeps, CountKeeps DEF M!Next

LEMMA MetricInitInv == M!Init => MetricInv
<1> SUFFICES ASSUME M!Init PROVE MetricInv
  OBVIOUS
<1>1. MetricTypes
  BY NoJobType, EmptySeq DEF M!Init, MetricTypes, MetricStep
<1>2. JobsFit
  BY DEF M!Init, JobsFit
<1>3. StateFeeds
  BY DEF M!Init, StateFeeds
<1>4. ListAgrees(prefix_providers, accepted)
  <2>1. prefix_providers = <<>> /\ \A p \in Prefix : accepted[p] = None
    BY DEF M!Init
  <2> QED BY <2>1, EmptySeq DEF ListAgrees, Descends
<1> QED BY <1>1, <1>2, <1>3, <1>4 DEF MetricInv

\* A behaviour of the run is one of the metrics.
LEMMA MetricInvAlways == TelemetrySpec => []MetricInv
<1>1. TelemetryInit => M!Init
  BY DEF TelemetryInit
<1>2. [TelemetryNext]_<<vars, metricVars>> => [M!Next]_metricVars
  BY DEF TelemetryNext
<1> QED BY <1>1, <1>2, MetricInitInv, MetricStepKeeps, PTL DEF TelemetrySpec

\* init_with_provider says true only where it sets the state, and every instrument goes
\* through a state that is set: from then on the state keeps that provider, and no instrument
\* that is or was being made feeds the builtin one.
THEOREM FeedsCustom == TelemetrySpec => []CustomFeedsAll
<1>1. MetricInv => CustomFeedsAll
  BY DEF MetricInv, StateFeeds, CustomFeedsAll, M!CustomFeedsAll
<1> QED BY <1>1, MetricInvAlways, PTL

\* An instrument gets the provider accepted last for the longest prefix of its name, else
\* that of the state, and keeps it: register_prefix_provider replaces or sorts, and the first
\* hit of meter_for_metric in the sorted list is the longest.
THEOREM PrefixesBind == TelemetrySpec => LongestPrefixBinds
<1>1. MetricInv /\ [M!Next]_metricVars =>
        [/\ Len(instruments') > Len(instruments) =>
              LET i == M!Last(instruments') IN i.provider = M!Expected(i.name)
         /\ \A i \in DOMAIN instruments :
              instruments'[i].provider = instruments[i].provider]_metricVars
  <2> SUFFICES ASSUME MetricInv, M!Next
               PROVE  /\ Len(instruments') > Len(instruments) =>
                            LET i == M!Last(instruments') IN i.provider = M!Expected(i.name)
                      /\ \A i \in DOMAIN instruments :
                            instruments'[i].provider = instruments[i].provider
    OBVIOUS
  <2>1. Len(instruments) \in Nat /\ DOMAIN instruments = 1 .. Len(instruments)
    BY LenProperties DEF MetricInv, MetricTypes
  <2>2. CASE UNCHANGED instruments
    BY <2>1, <2>2
  <2>3. ASSUME NEW t \in Thread, M!Find(t)
        PROVE  /\ LET i == M!Last(instruments') IN i.provider = M!Expected(i.name)
               /\ \A i \in DOMAIN instruments :
                            instruments'[i].provider = instruments[i].provider
    <3>1. PICK n, x :
            /\ n \in Name /\ x = M!Expected(n)
            /\ instruments'[Len(instruments')] = [name |-> n, shadow |-> 0, provider |-> x]
            /\ \A i \in 1 .. Len(instruments) : instruments'[i] = instruments[i]
      BY <2>3, FindMakes
    <3>2. M!Last(instruments').provider = x /\ M!Last(instruments').name = n
      BY <3>1 DEF M!Last
    <3> QED BY <2>1, <3>1, <3>2
  <2>4. ASSUME NEW t \in Thread, M!Count(t)
        PROVE  /\ Len(instruments') = Len(instruments)
               /\ \A i \in DOMAIN instruments :
                            instruments'[i].provider = instruments[i].provider
    BY <2>1, <2>4, CountMakes
  <2>5. UNCHANGED instruments \/ \E t \in Thread : M!Find(t) \/ M!Count(t)
    <3>1. \A t \in Thread :
            /\ \A p : M!InitWithProvider(t, p) => UNCHANGED instruments
            /\ M!GatherAllMetrics(t) => UNCHANGED instruments
            /\ \A prefix, p : M!RegisterPrefixProvider(t, prefix, p) => UNCHANGED instruments
            /\ M!Register(t) \/ M!Resolve(t) \/ M!CancelMeasure(t) => UNCHANGED instruments
            /\ \A n, labels : M!NewInstrument(t, n, labels) => UNCHANGED instruments
      BY DEF M!InitWithProvider, M!GatherAllMetrics, M!RegisterPrefixProvider, M!Register,
             M!Resolve, M!CancelMeasure, M!NewInstrument
    <3>2. \A t \in Thread, i \in DOMAIN instruments :
            /\ M!IncrementSimple(t, i) => UNCHANGED instruments
            /\ \A v : M!Observe(t, i, v) \/ M!StartMeasure(t, i, v) => UNCHANGED instruments
            /\ M!RecordMeasure(t, i) => UNCHANGED instruments
      BY DEF M!IncrementSimple, M!Observe, M!StartMeasure, M!RecordMeasure, M!Use
    <3> QED BY <3>1, <3>2 DEF M!Next
  <2> QED BY <2>1, <2>2, <2>3, <2>4, <2>5
<1>2. [TelemetryNext]_<<vars, metricVars>> => [M!Next]_metricVars
  BY DEF TelemetryNext
<1> QED BY <1>1, <1>2, MetricInvAlways, PTL
        DEF TelemetrySpec, LongestPrefixBinds, M!LongestPrefixBinds, M!vars, metricVars

-----------------------------------------------------------------------------
(* What the providers received *)

\* The attributes that an instrument with this name exports under.
Fits(n, attrs) ==
  IF M!Multi(n) THEN attrs \in [keys : {n}, value : LabelValue] ELSE attrs = None

TimersFit ==
  /\ timer \in [Thread -> [attrs : M!Attributes, name : Name] \cup {None}]
  /\ \A t \in Thread : timer[t] # None => Fits(timer[t].name, timer[t].attrs)

SimpleCounters == {n \in Name : Kind[n] = "SimpleCounter"}

CounterSeries(p, n) == [provider |-> p, name |-> n, attrs |-> None]

\* The shadows of the counters that share a series, by instrument, and the threads that have
\* exported to it and are still to count.
ShadowsOf(p, n) ==
  [i \in DOMAIN instruments |->
      IF instruments[i].provider = p /\ instruments[i].name = n THEN instruments[i].shadow ELSE 0]
Counting(p, n) ==
  {t \in Thread : /\ at[t] = "count"
                  /\ instruments[job[t].instrument].provider = p
                  /\ instruments[job[t].instrument].name = n}

Tallies(p, n) ==
  \E H : /\ Adds(H, ShadowsOf(p, n), DOMAIN instruments)
         /\ series[CounterSeries(p, n)] = H[DOMAIN instruments] + Cardinality(Counting(p, n))

AllTally == \A p \in Provider, n \in SimpleCounters : Tallies(p, n)

ExportInv ==
  /\ MetricInv /\ TimersFit /\ M!LabelledAsDeclared /\ AllTally
  /\ series \in [M!Series -> Nat]

LEMMA FitsAttributes ==
  ASSUME NEW n \in Name, NEW attrs, Fits(n, attrs)
  PROVE  attrs \in M!Attributes
BY DEF Fits, M!Attributes

LEMMA AttributesFit ==
  ASSUME NEW n \in Name, NEW v \in LabelValue
  PROVE  Fits(n, M!AttributesOf(n, v))
BY DEF Fits, M!AttributesOf

LEMMA InstrumentTypes ==
  ASSUME MetricInv
  PROVE  /\ Len(instruments) \in Nat /\ DOMAIN instruments = 1 .. Len(instruments)
         /\ IsFiniteSet(DOMAIN instruments)
         /\ \A i \in DOMAIN instruments :
              /\ instruments[i].name \in Name /\ instruments[i].provider \in Provider
              /\ instruments[i].shadow \in Nat
<1>1. instruments \in Seq(M!Instrument)
  BY DEF MetricInv, MetricTypes
<1>2. Len(instruments) \in Nat /\ DOMAIN instruments = 1 .. Len(instruments)
  BY <1>1, LenProperties
<1>3. \A i \in 1 .. Len(instruments) : instruments[i] \in M!Instrument
  BY <1>1, ElementOfSeq
<1>4. IsFiniteSet(1 .. Len(instruments))
  BY <1>2, FS_Interval
<1> QED BY <1>2, <1>3, <1>4 DEF M!Instrument

\* The threads that are counting stay if none of them begins or ends its count.
LEMMA CountingStays ==
  ASSUME MetricInv, NEW t \in Thread, at[t] # "count", at'[t] # "count",
         \A u \in Thread : u # t => at'[u] = at[u] /\ job'[u] = job[u],
         \A i \in DOMAIN instruments : /\ instruments'[i].provider = instruments[i].provider
                                       /\ instruments'[i].name = instruments[i].name,
         NEW p, NEW n
  PROVE  Counting(p, n)' = Counting(p, n)
<1>1. \A u \in Thread : at[u] = "count" => job[u].instrument \in DOMAIN instruments
  BY DEF MetricInv, JobsFit
<1> QED BY <1>1 DEF Counting

\* Steps that export nothing and count nothing.
LEMMA TallyStays ==
  ASSUME MetricInv, AllTally, NEW t \in Thread, at[t] # "count", at'[t] # "count",
         \A u \in Thread : u # t => at'[u] = at[u] /\ job'[u] = job[u],
         UNCHANGED instruments,
         \A p \in Provider, n \in SimpleCounters :
            series'[CounterSeries(p, n)] = series[CounterSeries(p, n)]
  PROVE  AllTally'
<1> SUFFICES ASSUME NEW p \in Provider, NEW n \in SimpleCounters PROVE Tallies(p, n)'
  BY DEF AllTally, SimpleCounters
<1>1. Counting(p, n)' = Counting(p, n)
  BY CountingStays
<1>2. ShadowsOf(p, n)' = ShadowsOf(p, n)
  BY DEF ShadowsOf
<1>3. CounterSeries(p, n)' = CounterSeries(p, n)
  BY DEF CounterSeries
<1> QED BY <1>1, <1>2, <1>3 DEF AllTally, Tallies

\* A use adds one to one series, under attributes of its instrument.
LEMMA UseExports ==
  ASSUME ExportInv, NEW t \in Thread, NEW i \in DOMAIN instruments,
         NEW step \in {"idle", "count"}, NEW attrs, M!Use(t, i, step, attrs),
         Fits(instruments[i].name, attrs),
         step = "count" <=> Kind[instruments[i].name] = "SimpleCounter"
  PROVE  series' \in [M!Series -> Nat] /\ M!LabelledAsDeclared' /\ AllTally'
<1>1. step \in MetricStep
  BY DEF MetricStep
<1>2. PICK args \in JobType : args.instrument = i /\ Moves(t, step, args) /\ at[t] = "idle"
  BY <1>1, UseMoves DEF ExportInv
<1>3. UNCHANGED instruments
  BY DEF M!Use
<1>4. PICK q, m : q = instruments[i].provider /\ m = instruments[i].name
  OBVIOUS
<1>5. q \in Provider /\ m \in Name
  BY <1>4, InstrumentTypes DEF ExportInv
<1>6. PICK r : r = [provider |-> q, name |-> m, attrs |-> attrs]
  OBVIOUS
<1>7. r \in M!Series /\ r.name = m /\ r.provider = q /\ r.attrs = attrs
  BY <1>4, <1>5, <1>6, FitsAttributes DEF M!Series
<1>8. series' = [series EXCEPT ![r] = @ + 1]
  BY <1>4, <1>6 DEF M!Use
<1>9. series \in [M!Series -> Nat]
  BY DEF ExportInv
<1>10. /\ series' \in [M!Series -> Nat] /\ series'[r] = series[r] + 1
       /\ \A s \in M!Series : s # r => series'[s] = series[s]
  BY <1>7, <1>8, <1>9
<1>11. M!LabelledAsDeclared'
  <2>1. IF M!Multi(m) THEN attrs # None /\ attrs.keys = m ELSE attrs = None
    <3>1. CASE M!Multi(m)
      <4>1. attrs \in [keys : {m}, value : LabelValue]
        BY <1>4, <3>1 DEF Fits
      <4>2. attrs \in [keys : Name, value : LabelValue] /\ attrs.keys = m
        BY <1>5, <4>1
      <4> QED BY <3>1, <4>2, MetricAssumption
    <3>2. CASE ~M!Multi(m)
      BY <1>4, <3>2 DEF Fits
    <3> QED BY <3>1, <3>2
  <2>2. ASSUME NEW s \in M!Series, series'[s] > 0
        PROVE  IF M!Multi(s.name) THEN s.attrs # None /\ s.attrs.keys = s.name ELSE s.attrs = None
    <3>1. CASE s = r
      BY <1>7, <2>1, <3>1
    <3>2. CASE s # r
      BY <1>10, <2>2, <3>2 DEF ExportInv, M!LabelledAsDeclared
    <3> QED BY <3>1, <3>2
  <2> QED BY <2>2 DEF M!LabelledAsDeclared, M!Series, M!Attributes, M!Multi
<1>12. \A p \in Provider, n \in SimpleCounters : CounterSeries(p, n) \in M!Series
  BY DEF SimpleCounters, CounterSeries, M!Series, M!Attributes
<1>13. AllTally'
  <2>1. CASE step = "idle"
    <3>1. \A p \in Provider, n \in SimpleCounters :
            series'[CounterSeries(p, n)] = series[CounterSeries(p, n)]
      <4> SUFFICES ASSUME NEW p \in Provider, NEW n \in SimpleCounters
                   PROVE  series'[CounterSeries(p, n)] = series[CounterSeries(p, n)]
        OBVIOUS
      <4>1. CounterSeries(p, n).name = n /\ n # m
        BY <1>4, <2>1 DEF CounterSeries, SimpleCounters
      <4> QED BY <1>7, <1>10, <1>12, <4>1
    <3>2. at[t] # "count" /\ at'[t] # "count"
      BY <1>2, <2>1 DEF Moves
    <3> QED BY <1>2, <1>3, <3>1, <3>2, TallyStays DEF ExportInv, Moves
  <2>2. CASE step = "count"
    <3> SUFFICES ASSUME NEW p \in Provider, NEW n \in SimpleCounters PROVE Tallies(p, n)'
      BY DEF AllTally, SimpleCounters
    <3>1. PICK C : C = Counting(p, n)
      OBVIOUS
    <3>2. C \subseteq Thread /\ IsFiniteSet(C) /\ t \notin C
      <4>1. C \subseteq Thread /\ t \notin C
        BY <1>2, <3>1 DEF Counting
      <4> QED BY <4>1, ThreadAssumption, FS_Subset
    <3>3. Counting(p, n)' = IF p = q /\ n = m THEN C \cup {t} ELSE C
      <4>1. at'[t] = "count" /\ job'[t].instrument = i
        BY <1>2, <2>2 DEF Moves
      <4>2. \A u \in Thread : u # t => at'[u] = at[u] /\ job'[u] = job[u]
        BY <1>2 DEF Moves
      <4> QED BY <1>2, <1>3, <1>4, <3>1, <4>1, <4>2 DEF Counting
    <3>4. ShadowsOf(p, n)' = ShadowsOf(p, n) /\ CounterSeries(p, n)' = CounterSeries(p, n)
      BY <1>3 DEF ShadowsOf, CounterSeries
    <3>5. PICK H : /\ Adds(H, ShadowsOf(p, n), DOMAIN instruments)
                   /\ series[CounterSeries(p, n)] = H[DOMAIN instruments] + Cardinality(C)
      BY <3>1 DEF ExportInv, AllTally, Tallies
    <3>6. PICK D : D = DOMAIN instruments
      OBVIOUS
    <3>7. H[D] \in Int
      BY <3>5, <3>6 DEF Adds
    <3>8. series'[CounterSeries(p, n)] = H[D] + Cardinality(Counting(p, n)')
      <4>1. CASE p = q /\ n = m
        <5>1. CounterSeries(p, n) = r
          <6>1. attrs = None
            BY <1>4, <2>2 DEF Fits, M!Multi
          <6> QED BY <1>6, <4>1, <6>1 DEF CounterSeries
        <5>2. Cardinality(C \cup {t}) = Cardinality(C) + 1 /\ Cardinality(C) \in Nat
          BY <3>2, FS_AddElement, FS_CardinalityType
        <5>3. Counting(p, n)' = C \cup {t}
          BY <3>3, <4>1
        <5>4. series'[CounterSeries(p, n)] = series[CounterSeries(p, n)] + 1
          BY <1>10, <5>1
        <5> QED BY <3>5, <3>6, <3>7, <5>2, <5>3, <5>4
      <4>2. CASE ~(p = q /\ n = m)
        <5>1. CounterSeries(p, n) # r
          BY <1>7, <4>2 DEF CounterSeries
        <5>2. series'[CounterSeries(p, n)] = series[CounterSeries(p, n)]
          BY <1>10, <1>12, <5>1
        <5>3. Counting(p, n)' = C
          BY <3>3, <4>2
        <5> QED BY <3>5, <3>6, <5>2, <5>3
      <4> QED BY <4>1, <4>2
    <3>9. Adds(H, ShadowsOf(p, n)', DOMAIN instruments')
      BY <1>3, <3>4, <3>5
    <3> QED BY <1>3, <3>4, <3>6, <3>8, <3>9 DEF Tallies
  <2> QED BY <2>1, <2>2
<1> QED BY <1>10, <1>11, <1>13

\* A count takes its thread off those that are counting and adds one to the sum of shadows.
LEMMA CountTallies ==
  ASSUME ExportInv, NEW t \in Thread, M!Count(t)
  PROVE  AllTally'
<1> SUFFICES ASSUME NEW p \in Provider, NEW n \in SimpleCounters PROVE Tallies(p, n)'
  BY DEF AllTally, SimpleCounters
<1>1. Moves(t, "idle", M!NoJob) /\ at[t] = "count" /\ UNCHANGED series
  BY ReturnMoves DEF M!Count, ExportInv, MetricInv
<1>2. PICK D, j, C, v, w : /\ D = DOMAIN instruments /\ j = job[t].instrument
                           /\ C = Counting(p, n) /\ w = ShadowsOf(p, n) /\ v = ShadowsOf(p, n)'
  OBVIOUS
<1>3. /\ Len(instruments) \in Nat /\ D = 1 .. Len(instruments) /\ IsFiniteSet(D)
      /\ \A i \in D : instruments[i].shadow \in Nat
  BY <1>2, InstrumentTypes DEF ExportInv
<1>4. /\ DOMAIN instruments' = D /\ j \in D
      /\ \A i \in D :
            /\ instruments'[i].name = instruments[i].name
            /\ instruments'[i].provider = instruments[i].provider
            /\ instruments'[i].shadow = IF i = j THEN instruments[i].shadow + 1
                                                 ELSE instruments[i].shadow
  BY <1>2, <1>3, CountMakes, LenProperties DEF ExportInv
<1> DEFINE mine == instruments[j].provider = p /\ instruments[j].name = n
<1>5. v \in [D -> Int]
  <2>1. \A i \in D : v[i] \in Int
    BY <1>2, <1>3, <1>4 DEF ShadowsOf
  <2>2. v = [i \in D |-> v[i]]
    BY <1>2, <1>4 DEF ShadowsOf
  <2> QED BY <2>1, <2>2
<1>15. \A i \in D : i # j => v[i] = w[i]
  BY <1>2, <1>3, <1>4 DEF ShadowsOf
<1>16. v[j] = w[j] + (IF mine THEN 1 ELSE 0) /\ w[j] \in Int
  <2>1. w[j] = IF mine THEN instruments[j].shadow ELSE 0
    BY <1>2, <1>4 DEF ShadowsOf
  <2>2. v[j] = IF mine THEN instruments[j].shadow + 1 ELSE 0
    BY <1>2, <1>4 DEF ShadowsOf
  <2>3. instruments[j].shadow \in Int
    BY <1>3, <1>4
  <2> HIDE DEF mine
  <2> QED BY <2>1, <2>2, <2>3
<1>6. PICK H : Adds(H, w, D) /\ series[CounterSeries(p, n)] = H[D] + Cardinality(C)
  BY <1>2 DEF ExportInv, AllTally, Tallies
<1>7. PICK K : Adds(K, v, D)
  BY <1>3, <1>5, SumsExist
<1>8. K[D] = H[D] + (v[j] - w[j])
  <2>1. IsFiniteSet(D)
    BY <1>3
  <2>2. j \in D
    BY <1>4
  <2>3. \A f, g : Adds(H, g, D) /\ Adds(K, f, D) /\ (\A i \in D : i # j => f[i] = g[i])
            => K[D] = H[D] + (f[j] - g[j])
    BY <2>1, <2>2, SumMoves
  <2>4. Adds(H, w, D) /\ Adds(K, v, D)
    BY <1>6, <1>7
  <2> QED BY <1>15, <2>3, <2>4
<1>9. H[D] \in Int
  BY <1>6 DEF Adds
<1>10. IsFiniteSet(C) /\ Cardinality(C) \in Nat
  <2>1. C \subseteq Thread
    BY <1>2 DEF Counting
  <2> QED BY <2>1, ThreadAssumption, FS_Subset, FS_CardinalityType
<1>11. Counting(p, n)' = C \ {t}
  <2>1. \A u \in Thread : u # t => at'[u] = at[u] /\ job'[u] = job[u]
    BY <1>1 DEF Moves
  <2>2. at'[t] = "idle"
    BY <1>1 DEF Moves
  <2>3. \A u \in Thread : at[u] = "count" => job[u].instrument \in D
    BY <1>2 DEF ExportInv, MetricInv, JobsFit
  <2> QED BY <1>2, <1>4, <2>1, <2>2, <2>3 DEF Counting
<1>12. series[CounterSeries(p, n)] = K[D] + Cardinality(C \ {t})
  <2>1. CASE mine
    <3>1. t \in C
      BY <1>1, <1>2, <2>1 DEF Counting
    <3>2. Cardinality(C \ {t}) = Cardinality(C) - 1
      BY <1>10, <3>1, FS_RemoveElement
    <3>3. K[D] = H[D] + 1
      BY <1>16, <1>8, <1>9, <2>1
    <3> HIDE DEF mine
    <3> QED BY <1>6, <1>9, <1>10, <3>2, <3>3
  <2>2. CASE ~mine
    <3>1. C \ {t} = C
      BY <1>2, <2>2 DEF Counting
    <3>2. K[D] = H[D]
      BY <1>16, <1>8, <1>9, <2>2
    <3> QED BY <1>6, <3>1, <3>2
  <2> QED BY <2>1, <2>2
<1>13. CounterSeries(p, n)' = CounterSeries(p, n)
  BY DEF CounterSeries
<1> HIDE DEF mine
<1>14. series'[CounterSeries(p, n)'] = K[D] + Cardinality(Counting(p, n)')
  BY <1>1, <1>11, <1>12, <1>13
<1> QED BY <1>2, <1>4, <1>7, <1>14 DEF Tallies

\* A new counter has counted nothing.
LEMMA FindTallies ==
  ASSUME ExportInv, NEW t \in Thread, M!Find(t)
  PROVE  AllTally'
<1> SUFFICES ASSUME NEW p \in Provider, NEW n \in SimpleCounters PROVE Tallies(p, n)'
  BY DEF AllTally, SimpleCounters
<1>1. Moves(t, "idle", M!NoJob) /\ at[t] = "find" /\ UNCHANGED series
  BY ReturnMoves DEF M!Find, ExportInv, MetricInv
<1>2. PICK k, w, v : k = Len(instruments) /\ w = ShadowsOf(p, n) /\ v = ShadowsOf(p, n)'
  OBVIOUS
<1>3. PICK D, E : D = 1 .. k /\ E = 1 .. k + 1
  OBVIOUS
<1>4. k \in Nat /\ DOMAIN instruments = D /\ \A i \in D : instruments[i].shadow \in Nat
  BY <1>2, <1>3, InstrumentTypes DEF ExportInv
<1>5. /\ Len(instruments') = k + 1 /\ instruments' \in Seq(M!Instrument)
      /\ \A i \in D : instruments'[i] = instruments[i]
      /\ instruments'[k + 1].shadow = 0
  <2>1. PICK m, x : m = job[t].name /\ x = M!Expected(m)
    OBVIOUS
  <2>2. /\ Len(instruments') = k + 1 /\ instruments' \in Seq(M!Instrument)
        /\ \A i \in 1 .. k : instruments'[i] = instruments[i]
        /\ instruments'[k + 1] = [name |-> m, shadow |-> 0, provider |-> x]
    BY <1>2, <2>1, FindMakes DEF ExportInv
  <2>3. instruments'[k + 1].shadow = 0
    BY <2>2
  <2> QED BY <1>3, <2>2, <2>3
<1>6. DOMAIN instruments' = E
  BY <1>3, <1>5, LenProperties
<1>7. /\ IsFiniteSet(D) /\ IsFiniteSet(E) /\ k + 1 \in E /\ E \ {k + 1} = D /\ D \subseteq E
  <2>1. 1 \in Int /\ k \in Int /\ k + 1 \in Int
    BY <1>4
  <2>2. IsFiniteSet(1 .. k) /\ IsFiniteSet(1 .. (k + 1))
    BY <2>1, FS_Interval
  <2>3. k + 1 \in E /\ E \ {k + 1} = D /\ D \subseteq E
    BY <1>3, <1>4
  <2> QED BY <1>3, <2>2, <2>3
<1>8. v \in [E -> Int] /\ v[k + 1] = 0 /\ \A i \in D : v[i] = w[i]
  <2>1. \A i \in E : i \in D \/ i = k + 1
    BY <1>3, <1>4
  <2> QED BY <1>2, <1>4, <1>5, <1>6, <1>7, <2>1 DEF ShadowsOf
<1>9. PICK H : /\ Adds(H, w, D)
               /\ series[CounterSeries(p, n)] = H[D] + Cardinality(Counting(p, n))
  BY <1>2, <1>4 DEF ExportInv, AllTally, Tallies
<1>10. PICK K : Adds(K, v, E)
  BY <1>7, <1>8, SumsExist
<1>11. K[E] = H[D]
  <2>1. K[E] = K[D] + v[k + 1]
    BY <1>7, <1>10, SumWithout
  <2>2. K[D] = H[D]
    <3>1. D \subseteq D
      OBVIOUS
    <3> QED BY <1>7, <1>8, <1>9, <1>10, <3>1, SumsAgree
  <2>3. K[D] \in Int
    BY <1>7, <1>10 DEF Adds
  <2> QED BY <1>8, <2>1, <2>2, <2>3
<1>12. Counting(p, n)' = Counting(p, n)
  <2>1. at[t] # "count" /\ at'[t] # "count"
    BY <1>1 DEF Moves
  <2>2. \A u \in Thread : u # t => at'[u] = at[u] /\ job'[u] = job[u]
    BY <1>1 DEF Moves
  <2> QED BY <1>4, <1>5, <2>1, <2>2, CountingStays DEF ExportInv
<1>13. CounterSeries(p, n)' = CounterSeries(p, n)
  BY DEF CounterSeries
<1> QED BY <1>1, <1>2, <1>6, <1>9, <1>10, <1>11, <1>12, <1>13 DEF Tallies

\* Every step but those of uses, counts and new instruments leaves the accounts alone.
LEMMA QuietTallies ==
  ASSUME ExportInv, NEW t \in Thread, NEW step \in MetricStep, step # "count",
         NEW args, Moves(t, step, args), at[t] # "count", UNCHANGED <<instruments, series>>
  PROVE  AllTally' /\ M!LabelledAsDeclared' /\ series' \in [M!Series -> Nat]
<1>1. \A u \in Thread : u # t => at'[u] = at[u] /\ job'[u] = job[u]
  BY DEF Moves
<1>2. at'[t] # "count"
  BY DEF Moves
<1>3. AllTally'
  BY <1>1, <1>2, TallyStays DEF ExportInv
<1>4. M!LabelledAsDeclared'
  BY DEF ExportInv, M!LabelledAsDeclared, M!Series, M!Attributes, M!Multi
<1> QED BY <1>3, <1>4 DEF ExportInv

\* A timer that is started keeps the attributes of its histogram.
LEMMA TimerStarts ==
  ASSUME ExportInv, NEW t \in Thread, NEW i \in DOMAIN instruments, NEW v \in LabelValue,
         M!StartMeasure(t, i, v)
  PROVE  TimersFit'
<1>1. PICK n : n = instruments[i].name
  OBVIOUS
<1>2. n \in Name
  BY <1>1, InstrumentTypes DEF ExportInv
<1>3. PICK r : r = [attrs |-> M!AttributesOf(n, v), name |-> n]
  OBVIOUS
<1>4. Fits(r.name, r.attrs) /\ r \in [attrs : M!Attributes, name : Name]
  BY <1>2, <1>3, AttributesFit, FitsAttributes
<1>5. timer' = [timer EXCEPT ![t] = r]
  BY <1>1, <1>3 DEF M!StartMeasure, M!Started
<1>6. /\ timer' \in [Thread -> [attrs : M!Attributes, name : Name] \cup {None}]
      /\ timer'[t] = r /\ \A u \in Thread : u # t => timer'[u] = timer[u]
  BY <1>4, <1>5 DEF ExportInv, TimersFit
<1>7. \A u \in Thread : timer'[u] # None => Fits(timer'[u].name, timer'[u].attrs)
  BY <1>4, <1>6 DEF ExportInv, TimersFit
<1>8. \A u \in Thread : timer'[u] # None => Fits(timer[u].name, timer[u].attrs)'
  BY <1>7 DEF Fits, M!Multi
<1> QED BY <1>6, <1>8 DEF TimersFit, M!Attributes, M!Multi

LEMMA TimersStay ==
  ASSUME TimersFit, NEW t \in Thread, timer' = timer \/ timer' = [timer EXCEPT ![t] = None]
  PROVE  TimersFit'
<1>1. timer' \in [Thread -> [attrs : M!Attributes, name : Name] \cup {None}]
  BY DEF TimersFit
<1>2. \A u \in Thread : timer'[u] # None => timer'[u] = timer[u]
  BY DEF TimersFit
<1> QED BY <1>1, <1>2 DEF TimersFit, Fits, M!Multi, M!Attributes

LEMMA ExportStepKeeps == ExportInv /\ [M!Next]_metricVars => ExportInv'
<1> SUFFICES ASSUME ExportInv, [M!Next]_metricVars PROVE ExportInv'
  OBVIOUS
<1>1. MetricInv'
  BY MetricStepKeeps DEF ExportInv
<1>2. M!NoJob \in JobType /\ {"idle", "register", "resolve", "find"} \subseteq MetricStep
  BY NoJobType DEF MetricStep
<1> DEFINE Rest == AllTally' /\ M!LabelledAsDeclared' /\ series' \in [M!Series -> Nat]
<1>3. ASSUME UNCHANGED metricVars PROVE ExportInv'
  <2>1. UNCHANGED <<instruments, series, timer, at, job>>
    BY <1>3 DEF metricVars
  <2>2. \A p, n : /\ ShadowsOf(p, n)' = ShadowsOf(p, n) /\ Counting(p, n)' = Counting(p, n)
                  /\ CounterSeries(p, n)' = CounterSeries(p, n)
    BY <2>1 DEF ShadowsOf, Counting, CounterSeries
  <2>3. AllTally'
    BY <2>1, <2>2 DEF ExportInv, AllTally, Tallies, SimpleCounters
  <2>4. M!LabelledAsDeclared' /\ TimersFit'
    BY <2>1 DEF ExportInv, M!LabelledAsDeclared, M!Series, M!Attributes, M!Multi, TimersFit, Fits
  <2> QED BY <1>1, <2>1, <2>3, <2>4 DEF ExportInv, M!Series, M!Attributes, M!Multi
<1>4. ASSUME NEW t \in Thread, NEW step \in MetricStep, step # "count", NEW args, Moves(t, step, args),
             at[t] # "count", UNCHANGED <<instruments, series, timer>>
      PROVE  ExportInv'
  BY <1>1, <1>4, QuietTallies, TimersStay DEF ExportInv
<1>5. ASSUME NEW t \in Thread, NEW p \in Provider \ {Builtin}, M!InitWithProvider(t, p)
      PROVE  ExportInv'
  <2>1. Moves(t, "idle", M!NoJob) /\ at[t] = "idle"
    BY <1>2, <1>5, BeginMoves DEF M!InitWithProvider, ExportInv, MetricInv
  <2>2. UNCHANGED <<instruments, series, timer>>
    BY <1>5 DEF M!InitWithProvider
  <2> QED BY <1>2, <1>4, <2>1, <2>2
<1>6. ASSUME NEW t \in Thread, M!GatherAllMetrics(t) PROVE ExportInv'
  <2>1. Moves(t, "idle", M!NoJob) /\ at[t] = "idle"
    BY <1>2, <1>6, BeginMoves DEF M!GatherAllMetrics, ExportInv, MetricInv
  <2>2. UNCHANGED <<instruments, series, timer>>
    BY <1>6 DEF M!GatherAllMetrics
  <2> QED BY <1>2, <1>4, <2>1, <2>2
<1>7. ASSUME NEW t \in Thread, NEW prefix \in Prefix, NEW p \in Provider \ {Builtin},
             M!RegisterPrefixProvider(t, prefix, p)
      PROVE  ExportInv'
  <2>1. UNCHANGED <<instruments, series, timer>>
    BY <1>7 DEF M!RegisterPrefixProvider
  <2>2. CASE prefix = <<>> \/ state = None
    <3>1. Moves(t, "idle", M!NoJob) /\ at[t] = "idle"
      BY <1>2, <1>7, <2>2, BeginMoves DEF M!RegisterPrefixProvider, ExportInv, MetricInv
    <3> QED BY <1>2, <1>4, <2>1, <3>1
  <2>3. CASE ~(prefix = <<>> \/ state = None)
    <3>1. PICK e \in Entries : e = [prefix |-> prefix, provider |-> p]
      BY DEF Entries
    <3>2. PICK args \in JobType : args = [M!NoJob EXCEPT !.entry = e]
      BY NoJobType
    <3>3. M!Begin(t, "register", args)
      BY <1>7, <2>3, <3>1, <3>2 DEF M!RegisterPrefixProvider
    <3>4. Moves(t, "register", args) /\ at[t] = "idle"
      BY <1>2, <3>3, BeginMoves DEF ExportInv, MetricInv
    <3> QED BY <1>2, <1>4, <2>1, <3>4
  <2> QED BY <2>2, <2>3
<1>8. ASSUME NEW t \in Thread, M!Register(t) PROVE ExportInv'
  <2>1. Moves(t, "idle", M!NoJob) /\ at[t] = "register"
    BY <1>8, ReturnMoves DEF M!Register, ExportInv, MetricInv
  <2>2. UNCHANGED <<instruments, series, timer>>
    BY <1>8 DEF M!Register
  <2> QED BY <1>2, <1>4, <2>1, <2>2
<1>9. ASSUME NEW t \in Thread, NEW n \in Name, NEW labels \in 0 .. 1, M!NewInstrument(t, n, labels)
      PROVE  ExportInv'
  <2>1. UNCHANGED <<instruments, series, timer>>
    BY <1>9 DEF M!NewInstrument
  <2>2. CASE M!Multi(n) /\ labels = 0
    <3>1. Moves(t, "idle", M!NoJob) /\ at[t] = "idle"
      BY <1>2, <1>9, <2>2, BeginMoves DEF M!NewInstrument, ExportInv, MetricInv
    <3> QED BY <1>2, <1>4, <2>1, <3>1
  <2>3. CASE ~(M!Multi(n) /\ labels = 0)
    <3>1. PICK args \in JobType : args = [M!NoJob EXCEPT !.name = n]
      BY NoJobType
    <3>2. M!Begin(t, "resolve", args)
      BY <1>9, <2>3, <3>1 DEF M!NewInstrument
    <3>3. Moves(t, "resolve", args) /\ at[t] = "idle"
      BY <1>2, <3>2, BeginMoves DEF ExportInv, MetricInv
    <3> QED BY <1>2, <1>4, <2>1, <3>3
  <2> QED BY <2>2, <2>3
<1>10. ASSUME NEW t \in Thread, M!Resolve(t) PROVE ExportInv'
  <2>1. PICK args : args = job[t]
    OBVIOUS
  <2>2. Moves(t, "find", args) /\ at[t] = "resolve"
    BY <1>2, <1>10, <2>1 DEF M!Resolve, Moves, ExportInv, MetricInv, MetricTypes
  <2>3. UNCHANGED <<instruments, series, timer>>
    BY <1>10 DEF M!Resolve
  <2> QED BY <1>2, <1>4, <2>2, <2>3
<1>11. ASSUME NEW t \in Thread, NEW i \in DOMAIN instruments, M!IncrementSimple(t, i)
       PROVE  ExportInv'
  <2>1. Fits(instruments[i].name, None) /\ M!Use(t, i, "count", None)
        /\ Kind[instruments[i].name] = "SimpleCounter"
    BY <1>11 DEF M!IncrementSimple, Fits, M!Multi
  <2>2. Rest
    BY <2>1, UseExports
  <2>3. TimersFit'
    BY <1>11, TimersStay DEF M!IncrementSimple, ExportInv
  <2> QED BY <1>1, <2>2, <2>3 DEF ExportInv
<1>12. ASSUME NEW t \in Thread, NEW i \in DOMAIN instruments, NEW v \in LabelValue, M!Observe(t, i, v)
       PROVE  ExportInv'
  <2>1. PICK attrs : attrs = M!AttributesOf(instruments[i].name, v)
    OBVIOUS
  <2>2. Fits(instruments[i].name, attrs)
    BY <2>1, AttributesFit, InstrumentTypes DEF ExportInv
  <2>3. M!Use(t, i, "idle", attrs) /\ Kind[instruments[i].name] # "SimpleCounter"
    BY <1>12, <2>1 DEF M!Observe, M!Histogram
  <2>4. Rest
    BY <2>2, <2>3, UseExports
  <2>5. TimersFit'
    BY <1>12, TimersStay DEF M!Observe, ExportInv
  <2> QED BY <1>1, <2>4, <2>5 DEF ExportInv
<1>13. ASSUME NEW t \in Thread, NEW i \in DOMAIN instruments, M!RecordMeasure(t, i)
       PROVE  ExportInv'
  <2>1. PICK attrs : attrs = IF M!Multi(instruments[i].name) THEN timer[t].attrs ELSE None
    OBVIOUS
  <2>2. Fits(instruments[i].name, attrs)
    <3>1. timer[t] # None /\ timer[t].name = instruments[i].name
      BY <1>13 DEF M!RecordMeasure
    <3>2. Fits(timer[t].name, timer[t].attrs)
      BY <3>1 DEF ExportInv, TimersFit
    <3> QED BY <2>1, <3>1, <3>2 DEF Fits
  <2>3. M!Use(t, i, "idle", attrs) /\ Kind[instruments[i].name] # "SimpleCounter"
    BY <1>13, <2>1 DEF M!RecordMeasure, M!Histogram
  <2>4. Rest
    BY <2>2, <2>3, UseExports
  <2>5. TimersFit'
    BY <1>13, TimersStay DEF M!RecordMeasure, ExportInv
  <2> QED BY <1>1, <2>4, <2>5 DEF ExportInv
<1>14. ASSUME NEW t \in Thread, NEW i \in DOMAIN instruments, NEW v \in LabelValue,
              M!StartMeasure(t, i, v)
       PROVE  ExportInv'
  <2>1. Moves(t, "idle", M!NoJob) /\ at[t] = "idle"
    BY <1>2, <1>14, BeginMoves DEF M!StartMeasure, ExportInv, MetricInv
  <2>2. UNCHANGED <<instruments, series>>
    BY <1>14 DEF M!StartMeasure
  <2>3. Rest
    BY <1>2, <2>1, <2>2, QuietTallies
  <2> QED BY <1>1, <1>14, <2>3, TimerStarts DEF ExportInv
<1>15. ASSUME NEW t \in Thread, M!CancelMeasure(t) PROVE ExportInv'
  <2>1. Moves(t, "idle", M!NoJob) /\ at[t] = "idle"
    BY <1>2, <1>15, BeginMoves DEF M!CancelMeasure, ExportInv, MetricInv
  <2>2. UNCHANGED <<instruments, series>>
    BY <1>15 DEF M!CancelMeasure
  <2>3. Rest
    BY <1>2, <2>1, <2>2, QuietTallies
  <2>4. TimersFit'
    BY <1>15, TimersStay DEF M!CancelMeasure, ExportInv
  <2> QED BY <1>1, <2>3, <2>4 DEF ExportInv
<1>16. ASSUME NEW t \in Thread, M!Find(t) \/ M!Count(t) PROVE ExportInv'
  <2>1. AllTally'
    BY <1>16, FindTallies, CountTallies
  <2>2. UNCHANGED <<series, timer>>
    BY <1>16 DEF M!Find, M!Count
  <2>3. M!LabelledAsDeclared' /\ TimersFit'
    BY <2>2 DEF ExportInv, M!LabelledAsDeclared, M!Series, M!Attributes, M!Multi, TimersFit, Fits
  <2> QED BY <1>1, <2>1, <2>2, <2>3 DEF ExportInv, M!Series, M!Attributes, M!Multi
<1> QED BY <1>3, <1>5, <1>6, <1>7, <1>8, <1>9, <1>10, <1>11, <1>12, <1>13, <1>14, <1>15, <1>16
        DEF M!Next

LEMMA ExportInitInv == M!Init => ExportInv
<1> SUFFICES ASSUME M!Init PROVE ExportInv
  OBVIOUS
<1>1. series = [s \in M!Series |-> 0] /\ instruments = <<>> /\ \A t \in Thread : at[t] = "idle"
  BY DEF M!Init
<1>2. series \in [M!Series -> Nat] /\ \A s \in M!Series : series[s] = 0
  BY <1>1
<1>3. M!LabelledAsDeclared
  BY <1>2 DEF M!LabelledAsDeclared
<1>4. TimersFit
  BY DEF M!Init, TimersFit
<1>5. ASSUME NEW p \in Provider, NEW n \in SimpleCounters PROVE Tallies(p, n)
  <2>1. CounterSeries(p, n) \in M!Series
    BY DEF SimpleCounters, CounterSeries, M!Series, M!Attributes
  <2>2. Counting(p, n) = {}
    BY <1>1 DEF Counting
  <2>3. DOMAIN instruments = {} /\ ShadowsOf(p, n) \in [{} -> Int]
    BY <1>1 DEF ShadowsOf
  <2>4. IsFiniteSet({}) /\ Cardinality({}) = 0
    BY FS_EmptySet
  <2>5. PICK H : Adds(H, ShadowsOf(p, n), {})
    BY <2>3, <2>4, SumsExist
  <2>6. H[{}] = 0
    BY <2>5 DEF Adds
  <2> QED BY <1>2, <2>1, <2>2, <2>3, <2>4, <2>5, <2>6 DEF Tallies
<1> QED BY <1>2, <1>3, <1>4, <1>5, MetricInitInv DEF ExportInv, AllTally

\* The sum over the counters of a series is any sum of their shadows.
LEMMA ShadowSum ==
  ASSUME MetricInv, NEW p, NEW n, NEW H, Adds(H, ShadowsOf(p, n), DOMAIN instruments)
  PROVE  M!Shadows(p, n) = H[DOMAIN instruments]
<1> DEFINE R == DOMAIN instruments
           Mine(i) == instruments[i].provider = p /\ instruments[i].name = n
           Rec(f) == [s \in SUBSET R |-> IF s = {} THEN 0
                        ELSE IF Mine(CHOOSE x \in s : TRUE)
                          THEN f[s \ {CHOOSE x \in s : TRUE}] + instruments[CHOOSE x \in s : TRUE].shadow
                          ELSE f[s \ {CHOOSE x \in s : TRUE}]]
           C == CHOOSE f : f = Rec(f)
<1>1. M!Shadows(p, n) = C[R]
  BY DEF M!Shadows, M!FoldSeq, M!FoldFunction, M!FoldFunctionOnSet, M!MapThenFoldSet
<1>2. ASSUME NEW f, NEW s \in SUBSET R, s # {}
      PROVE  /\ Pick(s) \in s /\ Pick(s) \in R
             /\ s \ {Pick(s)} \subseteq s /\ s \ {Pick(s)} # s /\ s \ {Pick(s)} \in SUBSET R
             /\ Rec(f)[s] = IF Mine(Pick(s)) THEN f[s \ {Pick(s)}] + instruments[Pick(s)].shadow
                                             ELSE f[s \ {Pick(s)}]
  <2>1. /\ Pick(s) \in s /\ s \ {Pick(s)} \subseteq s /\ s \ {Pick(s)} # s
    BY <1>2, PickIn
  <2> QED BY <1>2, <2>1 DEF Pick
<1>3. ASSUME NEW s \in SUBSET R, s # {}
      PROVE  /\ H[s] = IF Mine(Pick(s)) THEN H[s \ {Pick(s)}] + instruments[Pick(s)].shadow
                                        ELSE H[s \ {Pick(s)}]
  <2>1. H[s] = ShadowsOf(p, n)[Pick(s)] + H[s \ {Pick(s)}]
    BY <1>3 DEF Adds
  <2>2. Pick(s) \in R /\ s \ {Pick(s)} \in SUBSET R
    BY <1>2, <1>3
  <2>3. H[s \ {Pick(s)}] \in Int /\ instruments[Pick(s)].shadow \in Nat
    BY <2>2, InstrumentTypes DEF Adds
  <2>4. ShadowsOf(p, n)[Pick(s)] = IF Mine(Pick(s)) THEN instruments[Pick(s)].shadow ELSE 0
    BY <2>2 DEF ShadowsOf
  <2> HIDE DEF Mine
  <2> QED BY <2>1, <2>3, <2>4
<1>4. H = Rec(H)
  <2>1. H \in [SUBSET R -> Int] /\ H[{}] = 0
    BY DEF Adds
  <2>2. \A s \in SUBSET R : Rec(H)[s] = H[s]
    <3>1. Rec(H)[{}] = H[{}]
      BY <2>1
    <3> HIDE DEF Rec
    <3> QED BY <1>2, <1>3, <3>1
  <2>3. DOMAIN Rec(H) = SUBSET R /\ Rec(H) = [s \in SUBSET R |-> Rec(H)[s]]
    OBVIOUS
  <2> HIDE DEF Rec
  <2> QED BY <2>1, <2>2, <2>3
<1>5. C = Rec(C)
  <2> HIDE DEF Rec
  <2> QED BY <1>4
<1> DEFINE B == {s \in SUBSET R : C[s] # H[s]}
<1>6. C[{}] = 0
  <2>1. Rec(C)[{}] = 0
    OBVIOUS
  <2> HIDE DEF Rec, C
  <2> QED BY <1>5, <2>1
<1> HIDE DEF C, Rec
<1>7. ASSUME NEW s \in B PROVE \E r \in B : r \subseteq s /\ r # s
  <2>1. s \in SUBSET R /\ C[s] # H[s] /\ C[s] = Rec(C)[s]
    BY <1>5
  <2>2. s # {}
    BY <1>6, <2>1 DEF Adds
  <2>3. PICK q : q = s \ {Pick(s)}
    OBVIOUS
  <2>4. PICK i : i = Pick(s)
    OBVIOUS
  <2> HIDE DEF Mine
  <2>5. C[s] = IF Mine(i) THEN C[q] + instruments[i].shadow ELSE C[q]
    BY <1>2, <2>1, <2>2, <2>3, <2>4
  <2>6. H[s] = IF Mine(i) THEN H[q] + instruments[i].shadow ELSE H[q]
    BY <1>3, <2>1, <2>2, <2>3, <2>4
  <2>7. C[q] # H[q]
    BY <2>1, <2>5, <2>6
  <2>8. q \in SUBSET R /\ q \subseteq s /\ q # s
    BY <1>2, <2>1, <2>2, <2>3
  <2> QED BY <2>7, <2>8
<1>8. R \notin B
  <2>1. B \subseteq SUBSET R /\ IsFiniteSet(R)
    BY InstrumentTypes
  <2> HIDE DEF B
  <2>2. B = {}
    BY <1>7, <2>1, NoDescent
  <2> QED BY <2>2
<1>9. C[R] = H[R]
  BY <1>8
<1> QED BY <1>1, <1>9

\* get() of the counters of a series never runs ahead of what was exported and adds up to it
\* once no increment is running; and every instrument exports under labels of its own only.
\* Any threads may call, with any names, labels and providers.
THEOREM ExportsAddUp == TelemetrySpec => []ExportsAgree
<1>1. ExportInv => ExportsAgree
  <2> SUFFICES ASSUME ExportInv, NEW p \in Provider, NEW n \in SimpleCounters
               PROVE  /\ M!Shadows(p, n) <= series[CounterSeries(p, n)]
                      /\ (\A t \in Thread : at[t] # "count") =>
                            M!Shadows(p, n) = series[CounterSeries(p, n)]
    BY DEF ExportsAgree, M!CountersAgree, ExportInv, SimpleCounters, CounterSeries
  <2>1. PICK H : /\ Adds(H, ShadowsOf(p, n), DOMAIN instruments)
                 /\ series[CounterSeries(p, n)] = H[DOMAIN instruments]
                                                    + Cardinality(Counting(p, n))
    BY DEF ExportInv, AllTally, Tallies
  <2>2. M!Shadows(p, n) = H[DOMAIN instruments] /\ H[DOMAIN instruments] \in Int
    <3>1. MetricInv
      BY DEF ExportInv
    <3>2. M!Shadows(p, n) = H[DOMAIN instruments]
      BY <2>1, <3>1, ShadowSum
    <3>3. H[DOMAIN instruments] \in Int
      BY <2>1 DEF Adds
    <3> QED BY <3>2, <3>3
  <2>3. Cardinality(Counting(p, n)) \in Nat
    <3>1. Counting(p, n) \subseteq Thread
      BY DEF Counting
    <3> QED BY <3>1, ThreadAssumption, FS_Subset, FS_CardinalityType
  <2>4. (\A t \in Thread : at[t] # "count") => Cardinality(Counting(p, n)) = 0
    <3>1. (\A t \in Thread : at[t] # "count") => Counting(p, n) = {}
      BY DEF Counting
    <3> QED BY <3>1, FS_EmptySet
  <2> QED BY <2>1, <2>2, <2>3, <2>4
<1>2. TelemetryInit => M!Init
  BY DEF TelemetryInit
<1>3. [TelemetryNext]_<<vars, metricVars>> => [M!Next]_metricVars
  BY DEF TelemetryNext
<1> QED BY <1>1, <1>2, <1>3, ExportInitInv, ExportStepKeeps, PTL DEF TelemetrySpec
=============================================================================
