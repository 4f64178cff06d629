SPECIFICATION KeepersSpec
CONSTANTS
    Auths = {a1, a2}
    Providers = {p, q}
    Threads = {t1, t2}
    s1 = s1
    Stores = {s1, s2}
    NoStore = NoStore
    MaxCooldown = 1
    Clients = {c1, c2}
    Models = {m1}
    NoProvider = NoProvider
    NoClient = NoClient
    Reporters = {r1}
    MaxListed = 2
    Window = 2
    Classes <- ClassesChecked
    MaxWait = 1
    Cadence = 1
    Routings <- RoutingsChecked
    Paths = {v1, v2}
    NoPath = NoPath
    Callers = {t1, t2}
    MaxLoads = 3
    Capacity = 2
    MaxChunks = 4
SYMMETRY Symmetric
INVARIANTS NoCooldownInvented RegistryIsTrue PickIsRight CooldownIsTold PluginCallIsSafe PluginStreamIsKept
PROPERTIES CooldownsAreKept
CHECK_DEADLOCK FALSE
