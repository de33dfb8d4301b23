\* Two players, two things of each kind, one id on a client (so that ids run
\* out), two object ids, an actor limit that the second actor meets.
CONSTANTS
    Players = {p1, p2}
    Things = {t1, t2}
    Cars = {c1}
    Server = Server
    None = None
    Careful = TRUE
    ClientIds = {0}
    ObjectIds = {1, 2}
    MaxStreamed = 0
SPECIFICATION Spec
SYMMETRY Symmetry
INVARIANTS
    TypeOK
    ViewExact
    NoStale
    IdsExact
    CountExact
    InsideShown
