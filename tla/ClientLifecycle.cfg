SPECIFICATION SafetySpec
CONSTANTS
    Threads = {t1, t2, t3}
    Clients = {c1, c2}
    NoClient = NoClient
    Ids = {s1, s2}
    NoId = NoId
SYMMETRY Symmetry
INVARIANTS TypeOK FlagMatchesSession NoLeak MissOnlyIfOverlapped FinalizerIsAlone
