-------------------------------- MODULE Gauge --------------------------------
(***************************************************************************)
(* SimpleGauge and MultiGauge (src/telemetry/metrics.rs) and their guards  *)
(* (src/telemetry/guard.rs).  A gauge is kept twice: as an UpDownCounter   *)
(* of OpenTelemetry, which is exported and can only be added to, and as a  *)
(* shadow value per label, which get() reads.  Nothing ties the two        *)
(* updates of one operation together, the shadow is updated by a           *)
(* compare-and-swap loop, and the entry of a label is created on first use *)
(* under the write half of an RwLock.                                      *)
(*                                                                         *)
(* A SimpleGauge is a label whose entry is there from the start and whose  *)
(* operations take no lock.  The f64 values are integers here: sums that   *)
(* f64 represents exactly.                                                 *)
(***************************************************************************)
EXTENDS Integers, FiniteSets

CONSTANTS
    Thread, Label,
    Simple,         \* the labels that stand for SimpleGauges
    None,           \* no entry; no guard
    GuardBy,        \* what guards increment by
    Guarded,        \* the labels that callers change by guards alone
    Delta,          \* what is added to the others (decrement: a negative one)
    Value,          \* what set() is called with, on the others
    MaxCalls        \* bound: calls of one thread

ASSUME LabelAssumption == Simple \subseteq Label /\ Guarded \subseteq Label
ASSUME ValueAssumption == GuardBy \subseteq Int /\ Delta \subseteq Int /\ Value \subseteq Int
ASSUME NoneAssumption == None \notin Int /\ None \notin [label : Label, by : Int]
ASSUME CallsAssumption == MaxCalls \in Nat
ASSUME ThreadAssumption == IsFiniteSet(Thread)

Operation == [kind : {"add", "set"}, label : Label, arg : Int]
Guard == [label : Label, by : GuardBy]

VARIABLES
    exported,   \* per label: the sum of everything added to the UpDownCounter
    shadow,     \* per label: the AtomicF64 of its entry, or None
    pc, op,     \* per thread: its next step and the operation it is in
    old,        \* per thread: the shadow value it loaded or swapped out
    guard,      \* per thread: the guard it holds or is creating
    calls       \* per thread: calls made so far

vars == <<exported, shadow, pc, op, old, guard, calls>>

Step == {"idle", "export", "ensure", "insert", "load", "cas", "swap", "settle", "return"}

TypeOK ==
    /\ exported \in [Label -> Int]
    /\ shadow \in [Label -> Int \cup {None}]
    /\ pc \in [Thread -> Step]
    /\ op \in [Thread -> Operation]
    /\ old \in [Thread -> Int]
    /\ guard \in [Thread -> Guard \cup {None}]
    /\ calls \in [Thread -> 0 .. MaxCalls]

Init ==
    /\ exported = [l \in Label |-> 0]
    /\ shadow = [l \in Label |-> IF l \in Simple THEN 0 ELSE None]
    /\ pc = [t \in Thread |-> "idle"]
    /\ \E l \in Label : op = [t \in Thread |-> [kind |-> "add", label |-> l, arg |-> 0]]
    /\ old = [t \in Thread |-> 0]
    /\ guard = [t \in Thread |-> None]
    /\ calls = [t \in Thread |-> 0]

Goto(t, s) == pc' = [pc EXCEPT ![t] = s]

\* The value that op[t] works on.
Entry(t) == shadow[op[t].label]

\* A slip: the read guard of ensure_shadow lives on while it waits for the write lock.
ReadersWithUpgrade ==
    {t \in Thread : /\ pc[t] \in {"insert", "load", "cas", "swap", "settle"}
                    /\ op[t].label \notin Simple}

\* The threads that hold the read half of the lock of the shadow map.
Readers ==
    {t \in Thread : /\ pc[t] \in {"load", "cas", "swap", "settle"}
                    /\ op[t].label \notin Simple}

-----------------------------------------------------------------------------
(* Calls                                                                    *)

\* increment and decrement begin with the exported counter, set with the entry.
Call(t, o) ==
    /\ pc[t] = "idle"
    /\ calls[t] < MaxCalls
    /\ calls' = [calls EXCEPT ![t] = @ + 1]
    /\ op' = [op EXCEPT ![t] = o]
    /\ Goto(t, IF o.kind = "add" THEN "export" ELSE "ensure")
    /\ UNCHANGED <<exported, shadow, old>>

Add(t, l, by) ==
    /\ Call(t, [kind |-> "add", label |-> l, arg |-> by])
    /\ UNCHANGED guard

Set(t, l, v) ==
    /\ Call(t, [kind |-> "set", label |-> l, arg |-> v])
    /\ UNCHANGED guard

\* GaugeGuard::new and MultiGaugeGuard::new
NewGuard(t, l, by) ==
    /\ guard[t] = None
    /\ Call(t, [kind |-> "add", label |-> l, arg |-> by])
    /\ guard' = [guard EXCEPT ![t] = [label |-> l, by |-> by]]

\* Drop of the guard: never made while new() is still running.
DropGuard(t) ==
    /\ guard[t] # None
    /\ Call(t, [kind |-> "add", label |-> guard[t].label, arg |-> -guard[t].by])
    /\ guard' = [guard EXCEPT ![t] = None]

(* Steps of an operation                                                    *)

\* gauge.add(by)
Export(t) ==
    /\ pc[t] = "export"
    /\ exported' = [exported EXCEPT ![op[t].label] = @ + op[t].arg]
    /\ Goto(t, "ensure")
    /\ UNCHANGED <<shadow, op, old, guard, calls>>

\* Where an operation goes once its entry exists, with the read lock.
AfterEnsure(t) == IF op[t].kind = "add" THEN "load" ELSE "swap"

\* ensure_shadow looks for the entry under the read lock and gives the lock back.
Ensure(t) ==
    /\ pc[t] = "ensure"
    /\ Goto(t, IF Entry(t) # None THEN AfterEnsure(t) ELSE "insert")
    /\ UNCHANGED <<exported, shadow, op, old, guard, calls>>

\* A slip: insert() in place of entry().or_insert_with().
InitialEntryAlways(t) == 0

\* A slip: the entry is looked up and not made.
InitialEntryMissing(t) == Entry(t)

\* entry(key).or_insert_with(|| 0.0)
InitialEntry(t) == IF Entry(t) = None THEN 0 ELSE Entry(t)

\* The write half of the lock excludes every reader.
Insert(t) ==
    /\ pc[t] = "insert"
    /\ Readers = {}
    /\ shadow' = [shadow EXCEPT ![op[t].label] = InitialEntry(t)]
    /\ Goto(t, AfterEnsure(t))
    /\ UNCHANGED <<exported, op, old, guard, calls>>

\* AtomicF64::fetch_add reads the current value ...
Load(t) ==
    /\ pc[t] = "load"
    /\ old' = [old EXCEPT ![t] = Entry(t)]
    /\ Goto(t, "cas")
    /\ UNCHANGED <<exported, shadow, op, guard, calls>>

\* A slip: a plain store of the sum.
SwapsAnyway(t) == TRUE

\* compare_exchange_weak may succeed.
Swaps(t) == Entry(t) = old[t]

\* ... and replaces it if it is still the same.
CasOk(t) ==
    /\ pc[t] = "cas"
    /\ Swaps(t)
    /\ shadow' = [shadow EXCEPT ![op[t].label] = old[t] + op[t].arg]
    /\ Goto(t, "return")
    /\ UNCHANGED <<exported, op, old, guard, calls>>

\* The exchange fails when the value changed, and also spuriously; fetch_add tries again.
CasFails(t) ==
    /\ pc[t] = "cas"
    /\ Goto(t, "load")
    /\ UNCHANGED <<exported, shadow, op, old, guard, calls>>

\* set(): shadow.swap(value) ...
Swap(t) ==
    /\ pc[t] = "swap"
    /\ old' = [old EXCEPT ![t] = Entry(t)]
    /\ shadow' = [shadow EXCEPT ![op[t].label] = op[t].arg]
    /\ Goto(t, "settle")
    /\ UNCHANGED <<exported, op, guard, calls>>

\* ... and gauge.add(value - previous).
Settle(t) ==
    /\ pc[t] = "settle"
    /\ exported' = [exported EXCEPT ![op[t].label] = @ + op[t].arg - old[t]]
    /\ Goto(t, "return")
    /\ UNCHANGED <<shadow, op, old, guard, calls>>

Return(t) ==
    /\ pc[t] = "return"
    /\ Goto(t, "idle")
    /\ UNCHANGED <<exported, shadow, op, old, guard, calls>>

-----------------------------------------------------------------------------
Calls(t) ==
    \/ \E l \in Label \ Guarded :
        \/ \E by \in Delta : Add(t, l, by)
        \/ \E v \in Value : Set(t, l, v)
    \/ \E l \in Guarded, by \in GuardBy : NewGuard(t, l, by)
    \/ DropGuard(t)

\* The steps of a call that is under way.
Runs(t) ==
    \/ Export(t) \/ Ensure(t) \/ Insert(t)
    \/ Load(t) \/ CasOk(t) \/ CasFails(t)
    \/ Swap(t) \/ Settle(t) \/ Return(t)

Next == \E t \in Thread : Calls(t) \/ Runs(t)

Spec == Init /\ [][Next]_vars

\* A thread inside a call is scheduled again and again, and an exchange that is tried
\* again and again on an unchanged value succeeds at last.
FairSpec ==
    /\ Spec
    /\ \A t \in Thread : WF_vars(Runs(t)) /\ SF_vars(CasOk(t))

-----------------------------------------------------------------------------
(* Properties                                                               *)

Quiet == \A t \in Thread : pc[t] = "idle"

\* Whatever operations overlapped, once none is running the exported gauge is what
\* get() reads.  SimpleGauge::set relies on it: it exports a difference of shadow
\* values, so that one lost update would stay in the exported gauge for ever.
ExportedIsShadow ==
    Quiet => \A l \in Label :
        exported[l] = IF shadow[l] = None THEN 0 ELSE shadow[l]

\* Increments, decrements and sets of concurrent threads take effect one after the
\* other, each between its call and its return, although each is several steps.
CallOf(t) ==
    IF pc[t] = "idle" THEN [phase |-> "idle"]
    ELSE IF pc[t] \in {"settle", "return"} THEN [phase |-> "done"]
    ELSE [phase |-> "open", op |-> op[t]]

Abstract == INSTANCE AtomicGauge WITH
    value <- shadow,
    call <- [t \in Thread |-> CallOf(t)]
AbstractSpec == Abstract!Spec

\* Every call returns: no thread waits for a lock it holds itself, and a thread whose
\* exchange fails is held up by one that succeeded.
CallsReturn == \A t \in Thread : pc[t] # "idle" ~> pc[t] = "idle"
=============================================================================
