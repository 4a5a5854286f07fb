------------------------------- MODULE MCGauge -------------------------------
(* Instances for TLC of the two modules of src/telemetry: Gauge, and the    *)
(* global state with the other instruments in Metrics.  They share nothing, *)
(* so that each behaviour of TelemetrySpec runs one of them while the other *)
(* waits at its start.                                                      *)
EXTENDS Gauge, FiniteSetsExt, Sequences, TLC

CONSTANTS
    Provider, Builtin, Name, Prefix, Kind, MaxInstruments, MaxUses,
    LabelValue,         \* the values of the labels of metrics
    MaxMetricCalls      \* bound: calls that concern metrics

VARIABLES state, prefix_providers, instruments, series, timer, at, job, made, uses,
          claimed, accepted

MCDelta == {1, -2}
MCName == {<<"net", "in">>, <<"net">>, <<"net", "time">>}
MCPrefix == {<<>>, <<"net">>, <<"net", "in">>}
MCKind == [n \in MCName |-> CASE n = <<"net">> -> "SimpleHistogram"
                              [] n = <<"net", "in">> -> "SimpleCounter"
                              [] OTHER -> "MultiHistogram"]

ASSUME MetricAssumption ==
    /\ Name \subseteq Seq(STRING) /\ Prefix \subseteq Seq(STRING)
    /\ Builtin \in Provider /\ None \notin Provider
    /\ None \notin [keys : Name, value : LabelValue]

M == INSTANCE Metrics WITH
    Value <- LabelValue, OwnTimers <- TRUE, MaxCalls <- MaxMetricCalls,
    exported <- series, pc <- at, calls <- made

MetricsTypeOK == M!TypeOK
LongestPrefixBinds == M!LongestPrefixBinds
CustomFeedsAll == M!CustomFeedsAll

\* What the providers export of counters and histograms: as much as the counters say, and
\* under the labels of the instrument only.
ExportsAgree == M!CountersAgree /\ M!LabelledAsDeclared

metricVars == <<state, prefix_providers, instruments, series, timer, at, job, made, uses,
                claimed, accepted>>

TelemetryInit == Init /\ M!Init

TelemetryNext ==
    \/ Next /\ made = 0 /\ UNCHANGED metricVars
    \/ M!Next /\ (\A t \in Thread : calls[t] = 0) /\ UNCHANGED vars

\* The fairness is that of FairSpec.
TelemetrySpec ==
    /\ TelemetryInit
    /\ [][TelemetryNext]_<<vars, metricVars>>
    /\ \A t \in Thread : WF_vars(Runs(t)) /\ SF_vars(CasOk(t))

\* get() of a label that guards alone change reads the sum of the guards that are held
\* once no operation is running: none counts twice or stays behind, whatever overlapped.
GuardsBalance ==
    Quiet => \A l \in Guarded :
        (IF shadow[l] = None THEN 0 ELSE shadow[l]) =
            MapThenSumSet(LAMBDA t : guard[t].by,
                          {t \in Thread : guard[t] # None /\ guard[t].label = l})
=============================================================================
