SPECIFICATION Spec
CONSTANTS
    Delay = 4
    Period = 2
    TickWrap = 8
PROPERTIES
    MinimumDelay
