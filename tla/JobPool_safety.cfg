SPECIFICATION FairSpec
CONSTANTS
    a = a
    b = b
    c = c
    r1 = r1
    r2 = r2
    Job = {a, b, c}
    Repo = {r1}
    NoRepo = NoRepo
    RepoOf <- AllInOne
    After <- BAfterA
    NoJob = NoJob
    Script <- OneCommit
    Stoppable = {a, b}
    Workers = 2
    FailingCalls = {"insert", "claim", "stop", "finalize"}
    MaxDbErrors = 1
INVARIANTS
    OneAtATime
    LaneMoves
    SessionOrder
    RowTellsTruth
PROPERTIES
    RowLifecycle
    StopEndsScript
    JobEnds
\* every job is submitted once, so the model ends when all are over
CHECK_DEADLOCK FALSE
