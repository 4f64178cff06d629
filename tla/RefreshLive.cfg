SPECIFICATION BackgroundSpec
CONSTANTS
    a1 = a1
    Auths = {a1}
    w1 = w1
    Workers = {w1}
    c1 = c1
    Clients = {c1}
    Interval = 1
    Pending = 1
    FailureBackoff = 1
    IneffectiveBackoff = 1
    Lifetimes = {1}
    JobBuffer = 1
    Evaluated = {}
    Unscheduled = {}
    NoExecutor = {}
    NoAuth = NoAuth
    l1 = l1
    l2 = l2
    Logins = {l1, l2}
    Kinds = {"web", "manual", "device", "plugin"}
    Browsers = {b1}
    Askers = {k1, k2}
    NoLogin = NoLogin
    TTL = 1
    WaitTime = 0
    DeviceTime = 2
INVARIANTS
    NoLostWakeup
    NoLostAuth
    WakesInTime
    PortIsServed
PROPERTIES
    RemovedStaysRemoved
    DueIsRefreshed
    RemovedLeavesHeap
    LoginIsTold
    LoginEnds
