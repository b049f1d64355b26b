SPECIFICATION ShellSpec
CONSTANTS
    Commandable = {pv}
    Arrays = {arr}
    Plain = {egress}
    MaxPriority = 2
    MaxElement = 1
    All = all
    Values = {v0, v1}
    Default = v0
    Absent = absent
    BaseName = "bacnet"
    HandlerName = "bacnet"
    WholeArrays = FALSE
    Lights <- MCLights
    Egress <- MCEgress
    LightPriority = 2
INVARIANTS
    TypeOK
    RestoreComplete
    KeysHoldSaved
    ClearLeavesOnlyFailures
PROPERTIES
    Durable
    NamedOnly
