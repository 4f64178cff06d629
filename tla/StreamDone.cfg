CONSTANTS MaxRetries = 1 MaxChunks = 1
SPECIFICATION StreamSpec
INVARIANTS FailureIsTold
CHECK_DEADLOCK FALSE
