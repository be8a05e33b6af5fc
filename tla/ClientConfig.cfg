SPECIFICATION Spec
CONSTANTS
    p1 = p1
    badProxy = badProxy
    None = None
    Threads = {t1, t2}
    Agents <- MCAgents
    Version <- MCVersion
    Marks <- MCMarks
    Device <- MCDevice
    Presets <- MCPresets
    Calls <- MCCalls
    Refused = {badProxy, "ja3:bad", "h2:bad"}
    Proxies = {p1, badProxy}
    RequestCalls <- MCRequestCalls
SYMMETRY Symmetry
INVARIANTS TypeOK OneAgent HintsTrackAgent ProxyFollows OptionsHonoured
PROPERTY FullyConfigured
