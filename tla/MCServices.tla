---------------------------- MODULE MCServices ----------------------------
(***************************************************************************)
(* What the server does for its players and scripts, one component at a    *)
(* time: a behaviour is one of the component it starts with, and the       *)
(* variables of the others stay as they were, so that one run explores the *)
(* sum of their states.                                                    *)
(***************************************************************************)
EXTENDS Integers, FiniteSets, TLC

CONSTANTS
    Players,                     \* players that may be connected
    Alone,                       \* those of them in the components that treat
                                 \* each player by itself
    Careful, None,
    DialogIds, MaxAnswers,       \* dialogs
    Spots,                       \* checkpoints
    Looks, MaxClasses,           \* spawning
    Timer, Scripts, TimerIds,    \* timers, and the scripts of requests
    Sides,                       \* gamemodes
    MaxLines,                    \* console
    Requests, Addresses,         \* http
    IPs, Models,                 \* models
    Connections, ResultSets, MaxRows,         \* databases
    Ids, MaxMarks,               \* npcs
    Paths, Nodes, MaxPoints,     \* moves
    Bots, Files, MaxRecords, MaxFrames,       \* playback
    Slots, MaxQueue,             \* weapons, and the queue of animations
    Cars, MaxPackets,            \* sync, and the vehicles of npcs
    Actors, HideTimers,          \* fixes
    VehiclePool, ObjectPool,     \* netcode
    MaxWaiting, MaxReports,      \* attributes
    Things,                      \* reports
    Options,                     \* options
    LocalIP,                     \* bans
    Components, High, WithNetwork, Twins      \* life

\* A null pointer is no object, address or id; ids and bounds are numbers.
ASSUME HttpAssumption == None \notin Requests /\ None \notin Scripts
ASSUME DatabasesAssumption ==
    /\ Connections \subseteq Nat /\ ResultSets \subseteq Nat
    /\ MaxRows \in Nat
    /\ None \notin [connection : Connections, set : ResultSets, rows : 0 .. MaxRows]

ASSUME DialogsAssumption ==
    /\ MaxAnswers \in Nat
    /\ None \notin Alone /\ None \notin DialogIds
    /\ None \notin [id : DialogIds, content : [style : {"box", "list", "headers"}, lines : 0 .. 3]]
ASSUME CheckpointsAssumption == None \notin Spots
ASSUME SpawningAssumption ==
    /\ None \notin [kind : {"class", "spawn"}, of : Alone]
    /\ None \notin Looks \union {"defClass"}
    /\ MaxClasses \in Nat \ {0}
ASSUME PlaybackAssumption ==
    /\ MaxRecords \in Nat /\ MaxFrames \in Nat /\ Careful \in BOOLEAN
    /\ None \notin Bots /\ None \notin Files
    /\ None \notin [record : 0 .. MaxRecords - 1, file : Files, autoUnload : BOOLEAN,
                    frame : 0 .. MaxFrames, paused : BOOLEAN]
    /\ None \notin [record : 0 .. MaxRecords - 1, autoUnload : BOOLEAN]
ASSUME LooksAssumption ==
    /\ None \notin Players /\ Careful \in BOOLEAN
    /\ None \notin {0, 1} \union [style : {0, 1}, skin : {0, 1}]
\* Careful: no component with a network is loaded with another's UID.
ASSUME LifeAssumption ==
    /\ Careful \in BOOLEAN
    /\ Careful => WithNetwork \cap Twins = {}
\* The address of the server itself is one that players may have.
ASSUME BansAssumption == LocalIP \in IPs
ASSUME SyncAssumption ==
    /\ MaxPackets \in Nat
    /\ None \notin Cars
    /\ None \notin {"foot", "driver", "passenger", "aim", "trailer", "unoccupied"}
    /\ None \notin [player : Alone, kind : {"foot", "driver", "passenger", "aim", "trailer",
                    "unoccupied"}, no : 1 .. MaxPackets, car : Cars \union {None}]
ASSUME MovesAssumption ==
    /\ MaxPoints \in Nat
    /\ None \notin Paths /\ None \notin Nodes
ASSUME NpcsAssumption ==
    /\ Ids \subseteq Nat /\ MaxMarks \in Nat
    /\ None \notin Ids /\ None \notin Cars
ASSUME ModelsAssumption ==
    /\ IsFiniteSet(Players)
    /\ None \notin [player : Players, model : Models]
ASSUME ConsoleAssumption == MaxLines \in Nat /\ None # "reader"
\* The ids of timers start at 1.
ASSUME TimersAssumption ==
    /\ TimerIds \subseteq Nat \ {0} /\ 1 \in TimerIds
    /\ None \notin Timer
ASSUME FixesAssumption ==
    /\ IsFiniteSet(Alone) /\ MaxQueue \in Nat /\ Careful \in BOOLEAN
    /\ None \notin Alone \union Actors
    /\ None \notin HideTimers
    /\ None \notin 0 .. 1
\* A slot is no order to drop them all; a message at least may be under way.
ASSUME WeaponsAssumption ==
    /\ IsFiniteSet(Slots) /\ "reset" \notin Slots
    /\ MaxQueue \in Nat /\ Careful \in BOOLEAN
    /\ None \notin {0, 1} /\ \A slots \in SUBSET Slots : slots # None
ASSUME AttributesAssumption == MaxWaiting \in Nat \ {0} /\ MaxReports \in Nat
ASSUME GamemodesAssumption == None \notin {"a", "b"}

\* Two modes, the first of them twice.
GameModes == <<"a", "b">>
Repeats   == <<2, 1>>
MaxRuns   == 3

VARIABLES
    component,
    players,
    activeId, content, box, responses, responding, answerCrossed,
    cp, marker, entered, updating,
    classes, data, player, skinOf, spawnInfo, dressed, classRefused,
    spawnRequest,
    timerScripts, timerList, timer, orphans, timerPool, idx, cursor, fired,
    callback,
    presentModes, mainName, main, sides, rotation, pending, reloading,
    restartAt, phase, toldOf, runs, without, regular,
    access, typed, cmd, newCmd, reader, taker, mutex, sent, overrun,
    scriptAt, request, answering, answers, reused,
    ip, models, webServer, allowed, urlShown, asked, early, presentModels,
    connected, resultSet, executing, handles,
    npcPool, npcCars, npc, markedToBeKicked, releasing, rest, mistaken,
    points, opened, moving, following, followAgain, toEnter, movingByPath,
    currentPath, index, pathReverse, playing, nodePaused, currentNode,
    pointCalling, order,
    records, nextRecordId_, playback, ending, unended,
    interiorWeapons, allow, interior, record, hands, place, down, unsaid,
    weaponsUpdate, entering, owned, crossed,
    cars, dying, carShown, spectating, packet, primary, secondary, handling,
    count, refusedSync, relayed, freed,
    leaving, streamed, colour, others, style, skin, seen, worn,
    actors, queue, animationTimers, saw, view, uncleared, fixOf, playerHere,
    ownDraws, gts, gtTimers, hideTimer, drawScreen, textAsked, moneyOf,
    waitsToSpawn, moneyTimer, moneyDue,
    reading, message, fieldValues, bits, field, got, lastRead, writtenOn,
    attribute, clientVersion, serverValue, clientValue, toClient, toServer,
    reported, seated, parachute, inView, expires, shows,
    seenBy, reportCars, carSeen, inCar, objects, ownObjects, mayShoot,
    aimed, report, lockedEntry, releasedEntry, outcomeOf,
    optionKey, started, option, commanded, pointerHeld, networkCopy,
    serverRuns, banList, banFile, sampBan, inForce, addressesIn,
    addressesOut, doing, banned, lifted, blocked,
    coreStage, notReached, listed, coreNetworks, existing, phaseOf,
    pointers, coreReloading, gameOver, syncHandled

dialogsVars ==
    <<activeId, content, box, responses, responding, answerCrossed>>
checkpointsVars ==
    <<cp, marker, entered, updating>>
spawningVars ==
    <<classes, data, player, skinOf, spawnInfo, dressed, classRefused,
      spawnRequest>>
timersVars ==
    <<timerScripts, timerList, timer, orphans, timerPool, idx, cursor,
      fired, callback>>
gamemodesVars ==
    <<presentModes, mainName, main, sides, rotation, pending, reloading,
      restartAt, phase, toldOf, runs, without, regular>>
consoleVars ==
    <<access, typed, cmd, newCmd, reader, taker, mutex, sent, overrun>>
httpVars ==
    <<scriptAt, request, answering, answers, reused>>
modelsVars ==
    <<ip, models, webServer, allowed, urlShown, asked, early,
      presentModels>>
databasesVars ==
    <<connected, resultSet, executing, handles>>
npcsVars ==
    <<npcPool, npcCars, npc, markedToBeKicked, releasing, rest, mistaken>>
movesVars ==
    <<points, opened, moving, following, followAgain, toEnter, movingByPath,
      currentPath, index, pathReverse, playing, nodePaused, currentNode,
      pointCalling, order>>
playbackVars ==
    <<records, nextRecordId_, playback, ending, unended>>
weaponsVars ==
    <<interiorWeapons, allow, interior, record, hands, place, down, unsaid,
      weaponsUpdate, entering, owned, crossed>>
syncVars ==
    <<cars, dying, carShown, spectating, packet, primary, secondary,
      handling, count, refusedSync, relayed, freed>>
looksVars ==
    <<leaving, streamed, colour, others, style, skin, seen, worn>>
fixesVars ==
    <<actors, queue, animationTimers, saw, view, uncleared, fixOf,
      playerHere, ownDraws, gts, gtTimers, hideTimer, drawScreen, textAsked,
      moneyOf, waitsToSpawn, moneyTimer, moneyDue>>
netcodeVars ==
    <<reading, message, fieldValues, bits, field, got, lastRead, writtenOn>>
attributesVars ==
    <<attribute, clientVersion, serverValue, clientValue, toClient,
      toServer, reported, seated, parachute, inView, expires, shows>>
reportsVars ==
    <<seenBy, reportCars, carSeen, inCar, objects, ownObjects, mayShoot,
      aimed, report, lockedEntry, releasedEntry, outcomeOf>>
optionsVars ==
    <<optionKey, started, option, commanded, pointerHeld, networkCopy>>
bansVars ==
    <<serverRuns, banList, banFile, sampBan, inForce, addressesIn,
      addressesOut, doing, banned, lifted, blocked>>
lifeVars ==
    <<coreStage, notReached, listed, coreNetworks, existing, phaseOf,
      pointers, coreReloading, gameOver, syncHandled>>

vars == <<component, players,
          dialogsVars, checkpointsVars, spawningVars, timersVars,
          gamemodesVars, consoleVars, httpVars, modelsVars, databasesVars,
          npcsVars, movesVars, playbackVars, weaponsVars, syncVars,
          looksVars, fixesVars, netcodeVars, attributesVars, reportsVars,
          optionsVars, bansVars, lifeVars>>

D == INSTANCE Dialogs WITH
        crossed <- answerCrossed, Players <- Alone
K == INSTANCE Checkpoints WITH
        told <- entered, update <- updating, Players <- Alone, Places <-
        Spots
S == INSTANCE Spawning WITH
        storage <- classes, skin <- skinOf, refused <- classRefused,
        request <- spawnRequest, Players <- Alone
T == INSTANCE Timers WITH
        loaded <- timerScripts, timers <- timerList, pool <- timerPool
G == INSTANCE PawnManager WITH
        present <- presentModes, restart <- restartAt, told <- toldOf
C == INSTANCE ConsoleInput WITH
        Players <- Alone
H == INSTANCE HttpRequests WITH
        loaded <- scriptAt, calling <- answering
M == INSTANCE CustomModels WITH
        storage <- models, shown <- urlShown, present <- presentModels
B == INSTANCE Databases
N == INSTANCE NpcPool WITH
        pool <- npcPool, cars <- npcCars
V == INSTANCE NpcMoves WITH
        calling <- pointCalling, restart <- followAgain
R == INSTANCE NpcPlayback WITH
        Npcs <- Bots
W == INSTANCE PlayerWeapons WITH
        update <- weaponsUpdate, Players <- Alone
Y == INSTANCE PlayerSync WITH
        shown <- carShown, refused <- refusedSync, Players <- Alone
L == INSTANCE PlayerLooks
A == INSTANCE Fixes WITH
        timers <- animationTimers, about <- fixOf, here <- playerHere,
        draws <- ownDraws, timer <- hideTimer, screen <- drawScreen, asked
        <- textAsked, money <- moneyOf, dead <- waitsToSpawn, due <-
        moneyDue, Players <- Alone, Timer <- HideTimers
X == INSTANCE NetCode WITH
        at <- field, stage <- reading, relayed <- writtenOn, left <- bits,
        result <- lastRead, values <- fieldValues
P == INSTANCE PlayerAttributes WITH
        down <- toClient, version <- clientVersion, server <- serverValue,
        client <- clientValue, up <- toServer
Q == INSTANCE PlayerReports WITH
        seen <- seenBy, cars <- reportCars, armed <- mayShoot, locked <-
        lockedEntry, released <- releasedEntry, outcome <- outcomeOf,
        Objects <- Things, Reporters <- Alone
O == INSTANCE Settings WITH
        stage <- started, key <- optionKey, copy <- networkCopy, held <-
        pointerHeld
F == INSTANCE Bans WITH
        connected <- addressesIn, kicked <- addressesOut, list <- banList,
        file <- banFile, legacy <- sampBan, running <- serverRuns,
        Addresses <- IPs, Local <- LocalIP
E == INSTANCE ServerLife WITH
        stage <- coreStage, reloading <- coreReloading, waiting <-
        notReached, phase <- phaseOf, refs <- pointers, closed <-
        gameOver, handled <- syncHandled, live <- existing, networks <-
        coreNetworks, Networks <- WithNetwork, Players <- Alone

Init ==
    /\ component \in {"dialogs", "checkpoints", "spawning", "timers",
                     "gamemodes", "console", "http", "models", "databases",
                     "npcs", "moves", "playback", "weapons", "sync",
                     "looks", "fixes", "netcode", "attributes", "reports",
                     "options", "bans", "life"}
    /\ D!Init
    /\ K!Init
    /\ S!Init
    /\ T!Init
    /\ G!Init
    /\ C!Init
    /\ H!Init
    /\ M!Init
    /\ B!Init
    /\ N!Init
    /\ V!Init
    /\ R!Init
    /\ W!Init
    /\ Y!Init
    /\ L!Init
    /\ A!Init
    /\ X!Init
    /\ P!Init
    /\ Q!Init
    /\ O!Init
    /\ F!Init
    /\ E!Init
    /\ component # "attributes" =>
          /\ attribute = "gravity" /\ clientVersion = "037"
          /\ seated = FALSE /\ parachute = FALSE
    /\ component # "options" => optionKey = "name"
    /\ component # "fixes" => fixOf = "animations"
    /\ component # "bans" => banFile = {} /\ sampBan = {}
    /\ component # "weapons" => ~interiorWeapons
    /\ component # "models" => \A p \in Players : ip[p] = LocalIP

\* The variables of every component but one stay.
Only(c) ==
    /\ component = c
    /\ UNCHANGED component
    /\ IF c = "dialogs" THEN TRUE ELSE UNCHANGED dialogsVars
    /\ IF c = "checkpoints" THEN TRUE ELSE UNCHANGED checkpointsVars
    /\ IF c = "spawning" THEN TRUE ELSE UNCHANGED spawningVars
    /\ IF c = "timers" THEN TRUE ELSE UNCHANGED timersVars
    /\ IF c = "gamemodes" THEN TRUE ELSE UNCHANGED gamemodesVars
    /\ IF c = "console" THEN TRUE ELSE UNCHANGED consoleVars
    /\ IF c = "http" THEN TRUE ELSE UNCHANGED httpVars
    /\ IF c = "models" THEN TRUE ELSE UNCHANGED modelsVars
    /\ IF c = "databases" THEN TRUE ELSE UNCHANGED databasesVars
    /\ IF c = "npcs" THEN TRUE ELSE UNCHANGED npcsVars
    /\ IF c = "moves" THEN TRUE ELSE UNCHANGED movesVars
    /\ IF c = "playback" THEN TRUE ELSE UNCHANGED playbackVars
    /\ IF c = "weapons" THEN TRUE ELSE UNCHANGED weaponsVars
    /\ IF c = "sync" THEN TRUE ELSE UNCHANGED syncVars
    /\ IF c = "looks" THEN TRUE ELSE UNCHANGED looksVars
    /\ IF c = "fixes" THEN TRUE ELSE UNCHANGED fixesVars
    /\ IF c = "netcode" THEN TRUE ELSE UNCHANGED netcodeVars
    /\ IF c = "attributes" THEN TRUE ELSE UNCHANGED attributesVars
    /\ IF c = "reports" THEN TRUE ELSE UNCHANGED reportsVars
    /\ IF c = "options" THEN TRUE ELSE UNCHANGED optionsVars
    /\ IF c = "bans" THEN TRUE ELSE UNCHANGED bansVars
    /\ IF c = "life" THEN TRUE ELSE UNCHANGED lifeVars

Next ==
    \/ Only("dialogs") /\ D!Next
    \/ Only("checkpoints") /\ K!Next
    \/ Only("spawning") /\ S!Next
    \/ Only("timers") /\ T!Next /\ UNCHANGED players
    \/ Only("gamemodes") /\ G!Next
    \/ Only("console") /\ C!Next
    \/ Only("http") /\ H!Next /\ UNCHANGED players
    \/ Only("models") /\ M!Next
    \/ Only("databases") /\ B!Next /\ UNCHANGED players
    \/ Only("npcs") /\ N!Next /\ UNCHANGED players
    \/ Only("moves") /\ V!Next /\ UNCHANGED players
    \/ Only("playback") /\ R!Next /\ UNCHANGED players
    \/ Only("weapons") /\ W!Next
    \/ Only("sync") /\ Y!Next
    \/ Only("looks") /\ L!Next
    \/ Only("fixes") /\ A!Next
    \/ Only("netcode") /\ X!Next /\ UNCHANGED players
    \/ Only("attributes") /\ P!Next /\ UNCHANGED players
    \/ Only("reports") /\ Q!Next
    \/ Only("options") /\ O!Next /\ UNCHANGED players
    \/ Only("bans") /\ F!Next /\ UNCHANGED players
    \/ Only("life") /\ E!Next

Spec == Init /\ [][Next]_vars

-----------------------------------------------------------------------------
\* Every component is well typed.
TypeOK ==
    /\ component = "dialogs" => D!TypeOK
    /\ component = "checkpoints" => K!TypeOK
    /\ component = "spawning" => S!TypeOK
    /\ component = "timers" => T!TypeOK
    /\ component = "gamemodes" => G!TypeOK
    /\ component = "console" => C!TypeOK
    /\ component = "http" => H!TypeOK
    /\ component = "models" => M!TypeOK
    /\ component = "databases" => B!TypeOK
    /\ component = "npcs" => N!TypeOK
    /\ component = "moves" => V!TypeOK
    /\ component = "playback" => R!TypeOK
    /\ component = "weapons" => W!TypeOK
    /\ component = "sync" => Y!TypeOK
    /\ component = "looks" => L!TypeOK
    /\ component = "fixes" => A!TypeOK
    /\ component = "netcode" => X!TypeOK
    /\ component = "attributes" => P!TypeOK
    /\ component = "reports" => Q!TypeOK
    /\ component = "options" => O!TypeOK
    /\ component = "bans" => F!TypeOK
    /\ component = "life" => E!TypeOK

\* What the messages sent to a client make it show is what the server has for
\* it: dialogs, checkpoints, classes, models, looks, animations, game texts, money
\* and what a player is like.
ViewExact ==
    /\ component = "dialogs" => D!ViewExact
    /\ component = "checkpoints" => K!ViewExact
    /\ component = "spawning" => S!ViewExact
    /\ component = "models" => M!ViewExact
    /\ component = "looks" => L!ViewExact
    /\ component = "fixes" => A!ViewExact /\ A!TextsExact /\ A!MoneyKept
    /\ component = "attributes" => P!KeptExact /\ P!ReportedExact /\ P!BubbleSeen

\* Nothing is kept of an object that is gone: a timer, a request, a result
\* set, an NPC's targets, its path, node and record, a vehicle a packet names,
\* what viewers keep of players, the target of a shot, and a component.
NoDangling ==
    /\ component = "timers" => T!NoDangling
    /\ component = "http" => H!NoDangling
    /\ component = "databases" => B!HandlesExact
    /\ component = "npcs" => N!NoDangling /\ N!KicksExact
    /\ component = "moves" => V!NoDangling
    /\ component = "playback" => R!RecordsExact
    /\ component = "sync" => Y!NoDangling
    /\ component = "looks" => L!NoStale
    /\ component = "fixes" => A!NoDangling
    /\ component = "reports" => Q!AskedAboutWhatIs
    /\ component = "life" => E!PointersAlive

\* What was asked for is done as often as it was asked: callbacks, answers,
\* lines, runs of a mode, moves, ends, relays, weapons, bans and options.
AsAsked ==
    /\ component = "dialogs" => D!NotWaiting
    /\ component = "checkpoints" => K!Alternate
    /\ component = "spawning" => S!SpawnAllowed /\ S!DefaultExact
    /\ component = "timers" => T!IdsExact /\ T!CalledOnce
    /\ component = "gamemodes" => G!ToldExact /\ G!ModeComes /\ G!RunsExact
    /\ component = "console" => C!LinesExact
    /\ component = "http" => H!AnsweredOnce
    /\ component = "models" => M!CountExact
    /\ component = "moves" => V!Obeys
    /\ component = "playback" => R!EndsOnce
    /\ component = "weapons" => W!Unarmed /\ W!Kept
    /\ component = "sync" => Y!RelaysExact
    /\ component = "netcode" => X!Whole /\ X!RelayedAsRead /\ X!SameSurface /\ X!IdsTell
    /\ component = "reports" => Q!PassedOnRightly /\ Q!TargetSeen
    /\ component = "options" => O!TablesAgree /\ O!Typed /\ O!Precedence /\ O!NetworkCurrent
    /\ component = "bans" => F!Kept /\ F!Lifted
    /\ component = "life" => E!PhasesInStep /\ E!ClientsInStep
=============================================================================
