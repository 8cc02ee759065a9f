SPECIFICATION FairSpec
CONSTANTS
    Commits = 3
    Detaches = 1
    Faults = 2
INVARIANTS
    TypeOK
PROPERTIES
    BranchForward
    HeadFollowsFiles
    PointerForward
    SweepsOnlyLeftovers
    Settles
\* the user may stop, and a command that is over does not come back
CHECK_DEADLOCK FALSE
