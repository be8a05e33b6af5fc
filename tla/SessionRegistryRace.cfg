SPECIFICATION SafetySpec
CONSTANTS
    Threads = {t1, t2}
    NoThread = NoThread
    UseOps = {"request", "set_proxy", "clear_proxy"}
    MaxID = 1
INVARIANT SessionRaceFree
