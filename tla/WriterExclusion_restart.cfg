SPECIFICATION FairSpec
CONSTANTS
    p = p
    q = q
    k = k
    h = h
    g = g
    e = e
    j = j
    d = d
    l = l
    P = P
    Q = Q
    K = K
    H = H
    G = G
    E = E
    J = J
    L = L
    r1 = r1
    r2 = r2
    Server = S
    NoActor = NoActor
    NoProc = NoProc
    Actor = {p, q, h, l}
    Proc = {P, Q, K, H, G, E, J, L, S}
    Repo = {r1}
    RepoOf <- OneRepo
    ProcOf <- Pids
    Chain <- Parents
    Spawner <- Starter
    Hooks = {h}
    DaemonAtStart = TRUE
    Killable = {p}
    Unlucky = {p, q, h, l}
    MaxChanges = 3
PROPERTIES
    NeverRefusedByAncestor
    EveryoneEnds
\* every actor takes its lane once, so the model ends when all have ended
CHECK_DEADLOCK FALSE
