CONSTANTS
    a1 = a1
    Auths = {a1}
    w1 = w1
    Workers = {w1}
    c1 = c1
    Clients = {c1}
    Interval = 1
    Pending = 1
    FailureBackoff = 2
    IneffectiveBackoff = 1
    Lifetimes = {0, 1}
    JobBuffer = 1
    Evaluated = {}
    Unscheduled = {}
    NoExecutor = {}
    NoAuth = NoAuth
SPECIFICATION Spec
PROPERTY
    OperatorEnables
