\* The smallest instance in which a released cab leaves its trailer behind.
CONSTANTS
    Players = {alice}
    Objects = {v1, v2}
    None = None
    MaxStreamed = 2
    ReleaseIn = {"rpc"}
    Towing = TRUE
SPECIFICATION Spec
SYMMETRY Symmetry
INVARIANT CabInPool
