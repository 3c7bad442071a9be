SPECIFICATION Spec
CONSTANTS
    None = None
    Payloads <- MCPayloads
    NoDeposits = 0
    GroupsOf <- MCGroupsOf
    Conf = 1
    StartHeight = 1
    HashCacheSize = 2
    Window = 2
    RedisBackend = TRUE
    MaxTip = 5
    MaxMined = 5
    MaxFaults = 2
    MaxReorgs = 0
INVARIANTS
    SafeDiscard
