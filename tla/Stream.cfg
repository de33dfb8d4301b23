\* Three players, of whom a client is shown at most one: the limit is reached.
\* Callbacks do not start operations inside spectatePlayer's own, and those of
\* onPlayerDisconnect do not make the leaver spectate, be spectated or be given
\* a colour again.
CONSTANTS
    p1 = p1
    p2 = p2
    p3 = p3
    Slots = {p1, p2, p3}
    None = None
    MaxStreamed = 0
    CounterSize = 65536
    MaxDepth = 1
    MaxColours = 1
    LateOps = FALSE
    NestedToggle = FALSE
SPECIFICATION Spec
SYMMETRY Symmetry
INVARIANTS
    TypeOK
    NumStreamedExact
    StreamLimit
    NoStaleReferences
    NoStaleSpectate
    TargetNeedsMode
