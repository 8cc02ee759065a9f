SPECIFICATION FairSpec
CONSTANTS
    p1 = p1
    p2 = p2
    p3 = p3
    k1 = k1
    k2 = k2
    a1 = a1
    a2 = a2
    Process = {p1, p2, p3}
    Key = {k1, k2}
    Answer <- AnswerOf
    Size = Size
    Miss = Miss
    Nobody = Nobody
    Wants <- Wanted
    Importer = {p3}
    Faulty = {p2}
    CompactAt = 8
INVARIANTS
    TypeOK
PROPERTIES
    ImplementsCacheSpec
    FlushEnds
CHECK_DEADLOCK FALSE
