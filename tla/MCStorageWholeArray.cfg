SPECIFICATION Spec
CONSTANTS
    Commandable = {pv}
    Arrays = {arr}
    Plain = {name}
    MaxPriority = 2
    MaxElement = 2
    All = all
    Values = {v0, v1}
    Default = v0
    Absent = absent
    BaseName = "bacnet"
    HandlerName = "bacnet"
    WholeArrays = TRUE
INVARIANTS
    RestoreComplete
