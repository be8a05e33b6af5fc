SPECIFICATION Spec
CONSTANTS
    Threads = {t1, t2}
    NoThread = NoThread
    UseOps = {"request", "clear_proxy"}
    MaxID = 3
INVARIANTS TypeOK MapRaceFree ClosedOnce NoOrphan CreateOwnsSession
PROPERTIES CallsReturn ImplementsStore
