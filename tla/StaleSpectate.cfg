\* Two players, and callbacks of spectatePlayer that end the spectating.
CONSTANTS
    p1 = p1
    p2 = p2
    p3 = p3
    Slots = {p1, p2}
    None = None
    MaxStreamed = 0
    CounterSize = 65536
    MaxDepth = 2
    MaxColours = 1
    LateOps = FALSE
    NestedToggle = TRUE
SPECIFICATION Spec
SYMMETRY Symmetry
INVARIANT NoStaleSpectate
