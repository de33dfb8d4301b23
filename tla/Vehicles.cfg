\* Two players and two vehicles; a client is shown at most one vehicle, so that
\* the limit is reached.
CONSTANTS
    Players = {alice, bob}
    Objects = {v1, v2}
    None = None
    MaxStreamed = 1
    ReleaseIn = {"rpc"}
    Towing = FALSE
SPECIFICATION Spec
SYMMETRY Symmetry
INVARIANTS
    TypeOK
    OccupantsKnown
    VehicleAlive
    StreamedExact
    RespawnedUnseen
