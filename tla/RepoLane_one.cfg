SPECIFICATION FairSpec
CONSTANTS
    c1 = c1
    c2 = c2
    c3 = c3
    r1 = r1
    Client = {c1, c2, c3}
    Repo = {r1}
    RepoOf <- OneRepo
    NoClient = NoClient
    Endless = {}
INVARIANTS
    ExclusiveGrant
    NoWedge
PROPERTIES
    ImplementsLaneSpec
    WaitEnds
\* every acquisition is used once, so the model ends when all are over
CHECK_DEADLOCK FALSE
