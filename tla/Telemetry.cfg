SPECIFICATION TelemetrySpec
CONSTANTS
    Thread = {t1, t2}
    Label = {sessions, packets, peers}
    Simple = {packets}
    None = None
    GuardBy = {2}
    Guarded = {sessions}
    Delta <- MCDelta
    Value = {5}
    MaxCalls = 2
    Provider = {b, p, q}
    Builtin = b
    Name <- MCName
    Prefix <- MCPrefix
    Kind <- MCKind
    LabelValue = {"v"}
    MaxInstruments = 2
    MaxUses = 2
    MaxMetricCalls = 4
INVARIANTS TypeOK ExportedIsShadow GuardsBalance CustomFeedsAll ExportsAgree
PROPERTIES AbstractSpec CallsReturn LongestPrefixBinds
CHECK_DEADLOCK FALSE
