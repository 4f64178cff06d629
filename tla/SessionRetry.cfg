SPECIFICATION SessionSpec
CONSTANTS
    MaxCalls = 2
    MaxSockets = 2
    MaxEvents = 1
INVARIANT RetryHelps
CHECK_DEADLOCK FALSE
