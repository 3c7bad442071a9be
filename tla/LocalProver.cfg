SPECIFICATION FairSpec
CONSTANTS
    None = None
    Jobs = {j1, j2, j3}
    Window = 2
    MaxFaults = 3
\* The backend stops with the process.
CHECK_DEADLOCK FALSE
INVARIANTS
    TypeOK
    InSync
    LostDaemonReported
PROPERTIES
    ServiceRefined
    EveryRequestAnswered
