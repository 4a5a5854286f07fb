------------------------------- MODULE Metrics -------------------------------
(***************************************************************************)
(* The global metric state, counters and histograms                        *)
(* (src/telemetry/metrics.rs).  The state is set once, by whoever comes    *)
(* first: init_with_provider, or any call that needs it and then gets the  *)
(* built-in provider.  It keeps a list of providers for prefixes of names, *)
(* under a lock, that is searched when an instrument is created; the       *)
(* instrument stays with the provider found then.                          *)
(*                                                                         *)
(* A name and a prefix are sequences of segments.  What an instrument was  *)
(* told is counted per series: provider, name and attributes; increments   *)
(* and observations are by one.                                            *)
(***************************************************************************)
EXTENDS Integers, SequencesExt, FiniteSets

CONSTANTS
    Thread, Provider,
    Builtin,            \* the provider that global_state() makes
    Name,               \* the names of instruments
    Prefix,             \* the prefixes given to register_prefix_provider
    Kind,               \* per name: the kind of its instruments
    Value,              \* label values
    None,
    OwnTimers,          \* callers return a timer to a histogram of the name it came from
    MaxInstruments,     \* bound: instruments created
    MaxUses,            \* bound: those of them that use instruments
    MaxCalls            \* bound: calls of all threads

VARIABLES
    state,              \* GLOBAL_STATE: its provider, or None
    prefix_providers,   \* the list under the lock
    instruments,        \* those created so far, each with its provider and shadow
    exported,           \* per series: what the provider received
    timer,              \* per thread: the timer it holds, or None
    pc, job,            \* per thread: its next step and its arguments
    calls, uses,        \* calls made so far, those of them that use instruments
    claimed,            \* history: the provider for which init_with_provider said true
    accepted            \* history: per prefix, the last provider accepted for it

vars == <<state, prefix_providers, instruments, exported, timer, pc, job,
          calls, uses, claimed, accepted>>

Multi(n) == Kind[n] \in {"MultiCounter", "MultiHistogram", "MultiGauge"}
Histogram(n) == Kind[n] \in {"SimpleHistogram", "MultiHistogram"}

\* labels_to_attributes: the keys are those of the instrument.
Attributes == [keys : {m \in Name : Multi(m)}, value : Value] \cup {None}
Series == [provider : Provider, name : Name, attrs : Attributes]
Instrument == [name : Name, provider : Provider, shadow : Nat]
PrefixProvider == [prefix : Prefix, provider : Provider]

\* The arguments of a call that takes several steps.
NoJob == [name |-> <<>>, entry |-> [prefix |-> <<>>, provider |-> Builtin], instrument |-> 0]

TypeOK ==
    /\ state \in Provider \cup {None}
    /\ prefix_providers \in Seq(PrefixProvider)
    /\ instruments \in Seq(Instrument)
    /\ exported \in [Series -> Nat]
    /\ timer \in [Thread -> [attrs : Attributes, name : Name] \cup {None}]
    /\ pc \in [Thread -> {"idle", "resolve", "find", "register", "count"}]

Init ==
    /\ state = None /\ prefix_providers = <<>> /\ instruments = <<>>
    /\ exported = [s \in Series |-> 0]
    /\ timer = [t \in Thread |-> None]
    /\ pc = [t \in Thread |-> "idle"] /\ job = [t \in Thread |-> NoJob]
    /\ calls = 0 /\ uses = 0
    /\ claimed = None /\ accepted = [p \in Prefix |-> None]

Begin(t, step, args) ==
    /\ pc[t] = "idle" /\ calls < MaxCalls
    /\ calls' = calls + 1
    /\ pc' = [pc EXCEPT ![t] = step]
    /\ job' = [job EXCEPT ![t] = args]

Return(t) ==
    /\ pc' = [pc EXCEPT ![t] = "idle"]
    /\ job' = [job EXCEPT ![t] = NoJob]
    /\ UNCHANGED <<calls, uses>>

-----------------------------------------------------------------------------
(* The state                                                                *)

\* global_state(): get_or_init
GlobalState == IF state = None THEN Builtin ELSE state

InitWithProvider(t, p) ==
    /\ Begin(t, "idle", NoJob)
    /\ IF state = None
         THEN state' = p /\ claimed' = p
         ELSE UNCHANGED <<state, claimed>>
    /\ UNCHANGED <<prefix_providers, instruments, exported, timer, uses, accepted>>

\* gather_all_metrics sets the state as well.
GatherAllMetrics(t) ==
    /\ Begin(t, "idle", NoJob)
    /\ state' = GlobalState
    /\ UNCHANGED <<prefix_providers, instruments, exported, timer, uses, claimed, accepted>>

\* register_prefix_provider up to its lock: without a state the call is refused.
RegisterPrefixProvider(t, prefix, p) ==
    /\ IF prefix = <<>> \/ state = None
         THEN Begin(t, "idle", NoJob)
         ELSE Begin(t, "register", [NoJob EXCEPT !.entry = [prefix |-> prefix, provider |-> p]])
    /\ UNCHANGED <<state, prefix_providers, instruments, exported, timer, uses, claimed, accepted>>

\* sort_by_key: the longest prefix first, those of one length in the order they were in.
Sorted(list) ==
    LET length(i) == Len(list[i].prefix)
        order == CHOOSE p \in Bijection(DOMAIN list, DOMAIN list) :
                    \A i, j \in DOMAIN list : i < j =>
                        \/ length(p[i]) > length(p[j])
                        \/ length(p[i]) = length(p[j]) /\ p[i] < p[j]
    IN  [i \in DOMAIN list |-> list[order[i]]]

\* A slip: the list is left in the order of registration.
RegisteredUnsorted(list, entry) ==
    IF \E i \in DOMAIN list : list[i].prefix = entry.prefix
      THEN [i \in DOMAIN list |-> IF list[i].prefix = entry.prefix THEN entry ELSE list[i]]
      ELSE Append(list, entry)

\* Under the write lock: the entry is replaced, or appended and the list sorted with the
\* longest prefix first.
Registered(list, entry) ==
    IF \E i \in DOMAIN list : list[i].prefix = entry.prefix
      THEN [i \in DOMAIN list |-> IF list[i].prefix = entry.prefix THEN entry ELSE list[i]]
      ELSE Sorted(Append(list, entry))

Register(t) ==
    /\ pc[t] = "register"
    /\ prefix_providers' = Registered(prefix_providers, job[t].entry)
    /\ accepted' = [accepted EXCEPT ![job[t].entry.prefix] = job[t].entry.provider]
    /\ Return(t)
    /\ UNCHANGED <<state, instruments, exported, timer, claimed>>

-----------------------------------------------------------------------------
(* Instruments                                                              *)

\* new of every kind: a labelled instrument without labels is an error.
NewInstrument(t, n, labels) ==
    /\ Len(instruments) + Cardinality({u \in Thread : pc[u] \in {"resolve", "find"}})
           < MaxInstruments
    /\ IF Multi(n) /\ labels = 0
         THEN Begin(t, "idle", NoJob)
         ELSE Begin(t, "resolve", [NoJob EXCEPT !.name = n])
    /\ UNCHANGED <<state, prefix_providers, instruments, exported, timer, uses, claimed, accepted>>

\* A slip: the built-in provider is used but not kept.
ResolveUnset(t) ==
    /\ pc[t] = "resolve"
    /\ pc' = [pc EXCEPT ![t] = "find"]
    /\ UNCHANGED <<state, prefix_providers, instruments, exported, timer, job, calls, uses,
                   claimed, accepted>>

\* meter_for_metric: the state first,
Resolve(t) ==
    /\ pc[t] = "resolve"
    /\ state' = GlobalState
    /\ pc' = [pc EXCEPT ![t] = "find"]
    /\ UNCHANGED <<prefix_providers, instruments, exported, timer, job, calls, uses,
                   claimed, accepted>>

\* then the first prefix in the list that the name starts with.
MeterForMetric(n) ==
    LET i == SelectInSeq(prefix_providers, LAMBDA e : IsPrefix(e.prefix, n))
    IN  IF i = 0 THEN GlobalState ELSE prefix_providers[i].provider

Find(t) ==
    /\ pc[t] = "find"
    /\ instruments' = Append(instruments, [name |-> job[t].name, shadow |-> 0,
                                           provider |-> MeterForMetric(job[t].name)])
    /\ Return(t)
    /\ UNCHANGED <<state, prefix_providers, exported, timer, claimed, accepted>>

\* A use of instrument i, which adds one to its series with these attributes.
Use(t, i, step, attrs) ==
    /\ uses < MaxUses /\ uses' = uses + 1
    /\ Begin(t, step, [NoJob EXCEPT !.instrument = i])
    /\ exported' = [exported EXCEPT ![[provider |-> instruments[i].provider,
                                       name |-> instruments[i].name, attrs |-> attrs]] = @ + 1]
    /\ UNCHANGED <<state, prefix_providers, instruments, claimed, accepted>>

\* A slip: the shadow of the first counter with this name.
ShadowOfName(i) ==
    CHOOSE j \in DOMAIN instruments :
        /\ instruments[j].name = instruments[i].name
        /\ \A k \in 1 .. j - 1 : instruments[k].name # instruments[i].name

\* The instrument whose shadow an increment of i changes.
ShadowOf(i) == i

\* SimpleCounter::increment_by exports first and then counts; a MultiCounter has no shadow.
IncrementSimple(t, i) ==
    /\ Kind[instruments[i].name] = "SimpleCounter"
    /\ Use(t, i, "count", None)
    /\ UNCHANGED timer

Count(t) ==
    /\ pc[t] = "count"
    /\ instruments' = [instruments EXCEPT ![ShadowOf(job[t].instrument)].shadow = @ + 1]
    /\ Return(t)
    /\ UNCHANGED <<state, prefix_providers, exported, timer, claimed, accepted>>

AttributesOf(n, v) == IF Multi(n) THEN [keys |-> n, value |-> v] ELSE None

\* MultiCounter::increment_by, SimpleHistogram::observe and MultiHistogram::observe
Observe(t, i, v) ==
    /\ Kind[instruments[i].name] = "MultiCounter" \/ Histogram(instruments[i].name)
    /\ Use(t, i, "idle", AttributesOf(instruments[i].name, v))
    /\ UNCHANGED timer

\* A slip: the labels are left to the end of the measurement, which does not know them.
StartedBare(n, v) == [attrs |-> None, name |-> n]

\* The timer of a labelled histogram keeps the attributes, that of a simple one none.
Started(n, v) == [attrs |-> AttributesOf(n, v), name |-> n]

StartMeasure(t, i, v) ==
    /\ Histogram(instruments[i].name) /\ timer[t] = None
    /\ Begin(t, "idle", NoJob)
    /\ timer' = [timer EXCEPT ![t] = Started(instruments[i].name, v)]
    /\ UNCHANGED <<state, prefix_providers, instruments, exported, uses, claimed, accepted>>

\* record_measure takes the timer; a labelled histogram records under what the timer keeps.
RecordMeasure(t, i) ==
    /\ Histogram(instruments[i].name) /\ timer[t] # None
    /\ OwnTimers => timer[t].name = instruments[i].name
    /\ Use(t, i, "idle", IF Multi(instruments[i].name) THEN timer[t].attrs ELSE None)
    /\ timer' = [timer EXCEPT ![t] = None]

CancelMeasure(t) ==
    /\ timer[t] # None
    /\ Begin(t, "idle", NoJob)
    /\ timer' = [timer EXCEPT ![t] = None]
    /\ UNCHANGED <<state, prefix_providers, instruments, exported, uses, claimed, accepted>>

-----------------------------------------------------------------------------
Next == \E t \in Thread :
    \/ \E p \in Provider \ {Builtin} : InitWithProvider(t, p)
    \/ GatherAllMetrics(t)
    \/ \E prefix \in Prefix, p \in Provider \ {Builtin} : RegisterPrefixProvider(t, prefix, p)
    \/ Register(t)
    \/ \E n \in Name : \E labels \in 0 .. 1 : NewInstrument(t, n, labels)
    \/ Resolve(t)
    \/ Find(t)
    \/ \E i \in DOMAIN instruments :
          \/ IncrementSimple(t, i)
          \/ \E v \in Value : Observe(t, i, v) \/ StartMeasure(t, i, v)
          \/ RecordMeasure(t, i)
    \/ Count(t)
    \/ CancelMeasure(t)

Spec == Init /\ [][Next]_vars

-----------------------------------------------------------------------------
\* The provider a name should get: the one accepted last for the longest prefix of it.
Expected(n) ==
    LET fits == {p \in Prefix : accepted[p] # None /\ IsPrefix(p, n)}
    IN  IF fits = {} THEN state
        ELSE accepted[CHOOSE p \in fits : \A q \in fits : Len(q) <= Len(p)]

\* meter_for_metric: an instrument gets the provider accepted last for the longest prefix
\* of its name, in whatever order the prefixes came and were replaced, else the one the
\* state was set with; it keeps that provider.
LongestPrefixBinds ==
    [][/\ Len(instruments') > Len(instruments) =>
              LET i == Last(instruments') IN i.provider = Expected(i.name)
       /\ \A i \in DOMAIN instruments : instruments'[i].provider = instruments[i].provider]_vars

\* init_with_provider: if it said true, the instruments without a prefix of theirs, those
\* before the call and during it included, all feed the provider it was given.
CustomFeedsAll ==
    claimed # None => /\ state = claimed
                      /\ \A i \in DOMAIN instruments : instruments[i].provider # Builtin

\* What the counters with one name and provider say together.
Shadows(p, n) ==
    FoldSeq(LAMBDA i, sum : IF i.provider = p /\ i.name = n THEN sum + i.shadow ELSE sum,
            0, instruments)

\* SimpleCounter: get() of the counters that share a series never runs ahead of what was
\* exported, and once no increment is running adds up to it.
CountersAgree ==
    \A p \in Provider, n \in {m \in Name : Kind[m] = "SimpleCounter"} :
        LET sum == exported[[provider |-> p, name |-> n, attrs |-> None]]
        IN  /\ Shadows(p, n) <= sum
            /\ (\A t \in Thread : pc[t] # "count") => Shadows(p, n) = sum

\* A labelled instrument exports under values of its own labels only and a simple one
\* without, also what a timer measured, if timers come back to where they were started.
LabelledAsDeclared ==
    OwnTimers => \A s \in Series : exported[s] > 0 =>
        IF Multi(s.name) THEN s.attrs # None /\ s.attrs.keys = s.name ELSE s.attrs = None
=============================================================================
