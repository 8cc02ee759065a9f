SPECIFICATION FairSpec
CONSTANTS
    c1 = c1
    c2 = c2
    c3 = c3
    Command = {c1, c2, c3}
    Before <- Shell
    Child = {c3}
    Refused = {c3}
    RowFails = {c2}
    CutOff = {c1}
    Unlucky = {c3}
    NoOne = NoOne
    Crashes = 1
INVARIANTS
    TypeOK
    LandsOnce
    SuccessIsKept
    ShellOrder
PROPERTIES
    EveryCommandEnds
\* every command is run once, so the model ends when all are over
CHECK_DEADLOCK FALSE
