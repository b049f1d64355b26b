SPECIFICATION Spec
CONSTANTS
    Keys = {state}
    Commandable = {state}
    Named = {state}
    UIntMod = 8
    ULongMod = 16
    Texts <- Typed
    Spelled <- TypedSpelled
    Absent = absent
INVARIANTS
    TypeOK
    Answers
PROPERTIES
    NumberSaved
