SPECIFICATION AsyncSpec
CONSTANTS
    Loop = Loop
    Threads = {Loop, w1, w2}
    Clients = {c1}
    NoClient = NoClient
    Ids = {s1}
    NoId = NoId
    MaxAwaits = 3
INVARIANTS AsyncTypeOK AwaitedCloseCloses
PROPERTIES AwaitsAnswered DroppedIsClosed
