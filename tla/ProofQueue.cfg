SPECIFICATION FairSpec
CONSTANTS
    None = None
    Jobs = {1, 2}
    Workers = {w1, w2}
    LeaseTime = 1
    MaxFaults = 2
INVARIANTS
    TypeOK
    QueueExact
    ResultFenced
PROPERTIES
    ServiceRefined
    EveryJobAnswered
