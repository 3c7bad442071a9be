CONSTANTS
    None = None
    Configs <- MCConfigs
    Builds <- MCBuilds
    VkOf <- MCVkOf
    Pinned <- MCPinned
    Chain <- MCChain
    Tips = {x, y}
    MaxHeight = 1
    MaxChanges = 2
SYMMETRY TipSymmetry
SPECIFICATION Spec
INVARIANTS RightProgram RightTransition NoCollision
CHECK_DEADLOCK FALSE
