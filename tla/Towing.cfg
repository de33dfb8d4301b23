\* One player, two vehicles that it sees both of and may tow with.
CONSTANTS
    Players = {alice}
    Objects = {v1, v2}
    None = None
    MaxStreamed = 2
    ReleaseIn = {"rpc"}
    Towing = TRUE
SPECIFICATION Spec
SYMMETRY Symmetry
PROPERTY LinksTear
