SPECIFICATION Spec
CONSTANTS
    None = None
    InitialDelay = 1
    MaxDelay = 20
    OverallDeadline = 1200
    MaxAttempts = 20
    RequestTimeout = 30
    BridgeTimeout = 90
    Oversleep = 1
    Clients = {"bridge"}
INVARIANTS
    NoAttemptPastDeadline
