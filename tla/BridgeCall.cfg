SPECIFICATION Spec
CONSTANTS
    Threads = {t1, t2, t3}
    NoThread = NoThread
    Bridges = {b1, b2, b3, b4}
    NoBridge = NoBridge
    Addresses = {a1, a2, a3}
    NoAddress = NoAddress
    Replies <- MCReplies
    NoReply = NoReply
SYMMETRY Symmetry
INVARIANTS TypeOK BridgeIsLoaded FreedOnce OwnAnswer
