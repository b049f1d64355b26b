SPECIFICATION Spec
CONSTANTS
    Delay = 4
    Period = 2
    TickWrap = 8
INVARIANTS
    TypeOK
PROPERTIES
    NotEarly
    HonouredOnce
    WarmstartRetains
    RequestHonoured
