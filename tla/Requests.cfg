SPECIFICATION RequestsSpec
CONSTANTS
    Auths = {a1, a2, a3}
    Retries <- RetriesChecked
    Models <- ModelsChecked
    MaxRetryCredentials = 2
    MaxRetryInterval = 1
    MaxCooldown = 1
    Antigravity = {a1, a2}
    Nobody = Nobody
    Ids = {1, 2, 3}
    MaxWeight = 2
    MaxRetries = 1
    MaxChunks = 2
    MaxCount = 4
    Files = {f}
    Logins = {f}
    Channels = {c}
    Contents = {1}
    QueueSize = 1
    MaxStimuli = 2
    Requests = {r}
    Buffer = 2
    Longest = 3
    MaxCalls = 2
    MaxSockets = 2
    MaxEvents = 1
    MaxRecords = 2
    Subscribers = {s1}
    Room = 2
    WriteRoom = 1
    Retention = 1
    MaxBatch = 2
INVARIANTS EffortIsBounded StreamIsWhole LastUpdateCounts AnswerIsWhole SessionAnswerIsOwn UsageInOrder
PROPERTIES NothingHangs RotationIsFair ResultsAreSaved UpdatesArrive RequestReturns SessionCallEnds UsageArrives
CHECK_DEADLOCK FALSE
