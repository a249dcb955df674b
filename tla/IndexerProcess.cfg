SPECIFICATION ProcessSpec
CONSTANTS
    ConnectRetries = 2
    MaxAttempts = 2
    Messages = {{"timeout", "4xx"}, {"xdr"}, {"other"}}
    Signals = {SIGTERM, SIGINT}
    HttpRequests = {q1, q2}
    SampleSize = 1
INVARIANTS
    DrainedExit
PROPERTIES
    ShutdownEnds
CHECK_DEADLOCK FALSE
