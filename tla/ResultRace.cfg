SPECIFICATION Spec
CONSTANTS
    None = None
    Jobs = {1}
    Workers = {w1}
    LeaseTime = 2
    MaxFaults = 1
INVARIANTS
    MissingMeansMissing
