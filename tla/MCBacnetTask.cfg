SPECIFICATION FairSpec
CONSTANTS
    Main = main
    Shells = {s1, s2}
    NoThread = none
    Clocks = {c0, c1}
    Epoch = c0
INVARIANTS
    TypeOK
    StackExclusive
    NoLongWaitUnderLock
    SeenWhole
PROPERTIES
    ClockIsAtomic
    TaskKeepsRunning
    ShellServed
