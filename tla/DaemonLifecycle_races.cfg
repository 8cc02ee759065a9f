SPECIFICATION FairSpec
CONSTANTS
    a1 = a1
    a2 = a2
    a3 = a3
    Actor = {a1, a2, a3}
    Kinds <- AnyThree
    Old = Old
    None = None
    Slow = {Old}
INVARIANTS
    TypeOK
    OneDaemon
PROPERTIES
    HeadlessEnds
    BroughtUp
    StopSticks
\* every command is given once, so the model ends when all are over
CHECK_DEADLOCK FALSE
