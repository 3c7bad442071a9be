CONSTANTS
    None = None
    CacheSize = 3
    Confirmations = 2
    StartHeights = {2, None}
    BridgeHeight = 2
    MaxDepth = 2
    MaxTip = 7
    MaxFaults = 3
SPECIFICATION Spec
INVARIANTS CacheIsOneChain FirstBlockIsNext ProvesFromBridgeState
PROPERTY EventuallyIngests
CHECK_DEADLOCK FALSE
