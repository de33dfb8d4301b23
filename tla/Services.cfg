CONSTANTS
    Players = {p1, p2}
    Alone = {p1}
    DialogIds = {1, 2}
    MaxAnswers = 2
    None = None
    Spots = {a1, a2}
    Looks = {l1, l2}
    MaxClasses = 2
    Timer = {t1, t2}
    Scripts = {s1, s2}
    TimerIds = {1, 2}
    Sides = {side}
    MaxLines = 4
    Requests = {r1, r2}
    Addresses = {x1, x2}
    IPs = {a1, a2}
    Models = {m1, m2}
    Connections = {1, 2}
    ResultSets = {1, 2}
    MaxRows = 2
    Ids = {0, 1}
    MaxMarks = 3
    Careful = TRUE
    Paths = {1, 2}
    Nodes = {11, 12}
    MaxPoints = 2
    Bots = {n1, n2}
    Files = {f1, f2}
    MaxRecords = 3
    MaxFrames = 1
    Slots = {s1, s2}
    MaxQueue = 3
    Cars = {c1}
    MaxPackets = 3
    Actors = {t1}
    HideTimers = {h1, h2, h3}
    VehiclePool = 2
    ObjectPool = 1
    MaxWaiting = 2
    MaxReports = 1
    Things = {t1}
    Options = {"max_players", "game.weather", "network.stream_radius", "enable_query", "rcon.enable", "name", "password", "pawn.main_scripts"}
    LocalIP = a2
    Components = {s1, s2, s3}
    High = {s1}
    WithNetwork = {s2}
    Twins = {s1, s3}
SPECIFICATION Spec
CHECK_DEADLOCK FALSE
INVARIANTS
    TypeOK
    ViewExact
    NoDangling
    AsAsked
