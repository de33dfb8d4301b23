--------------------------- MODULE PlayerReports ---------------------------
(***************************************************************************)
(* The handlers of player_pool.hpp for what a player's client reports or   *)
(* asks for and that ends in the event handlers of the server's scripts:   *)
(* shots, damage, text, commands, clicks, checks and camera targets.  A    *)
(* handler checks the report, keeps what is kept of it, asks the event     *)
(* handlers one after the other, and then relays the report, or not.  What *)
(* the event handlers do while they are asked (a vehicle destroyed,        *)
(* weapons forbidden, a bot released) comes between any two of them.       *)
(***************************************************************************)
EXTENDS Naturals, FiniteSets, Sequences

CONSTANTS
    Players, Cars, Objects,  \* players, vehicles, and ids of objects
    Reporters,               \* the players whose reports are followed
    None,
    Careful                  \* no player is released in an event handler

VARIABLES
    players,     \* the players in the pool
    seen,        \* whom a player is streamed in for
    cars,        \* the vehicles in the pool
    carSeen,     \* which of the reporters a vehicle is streamed in for
    inCar,       \* the vehicle a player is in
    objects,     \* the objects in the pool
    ownObjects,  \* the objects of each reporter
    armed,       \* areWeaponsAllowed
    aimed,       \* the vehicle last reported by OnPlayerCameraTarget
    report,      \* the report being handled
    locked,      \* the entry its handler has locked
    released,    \* that entry was released meanwhile
    outcome      \* what came of the last report

own  == <<seen, cars, carSeen, inCar, objects, ownObjects, armed,
          aimed, report, locked, released, outcome>>
vars == <<players, own>>
-----------------------------------------------------------------------------
Handlers == 1..2
NoReport == [kind |-> "none", from |-> None, about |-> None, asked |-> <<>>]

\* How the event handlers of a kind of report are asked.
StopAtFalse == {"shotMissed", "shotPlayer", "shotVehicle", "shotObject",
                "shotPlayerObject", "text"}
StopAtTrue  == {"command"}
AskAll      == {"giveDamage", "takeDamage", "clickMap", "clickPlayer", "check"}
Shots       == StopAtFalse \ {"text"}
Kinds       == UNION {StopAtFalse, StopAtTrue, AskAll}

\* stopAtFalse and stopAtTrue: the rest is not asked.
Stops(r) ==
    \/ Len(r.asked) = Cardinality(Handlers)
    \/ \E i \in DOMAIN r.asked :
          \/ r.kind \in StopAtFalse /\ ~r.asked[i]
          \/ r.kind \in StopAtTrue /\ r.asked[i]

\* The entry a report of a kind is about is in its pool.
There(kind, from, id) ==
    CASE kind \in {"shotPlayer", "giveDamage", "takeDamage", "clickPlayer"} -> id \in players
      [] kind = "shotVehicle"      -> id \in cars
      [] kind = "shotObject"       -> id \in objects
      [] kind = "shotPlayerObject" -> <<from, id>> \in ownObjects
      [] OTHER                     -> TRUE

Idle == report = NoReport
Init ==
    /\ players \in SUBSET Players
    /\ seen = [p \in Players |-> {}]
    /\ cars = {} /\ carSeen = {}
    /\ inCar = [p \in Players |-> None]
    /\ objects = {} /\ ownObjects = {}
    /\ armed = [p \in Players |-> TRUE]
    /\ aimed = [p \in Reporters |-> None]
    /\ report = NoReport
    /\ locked = FALSE /\ released = FALSE
    /\ outcome = NoReport

\* The event handlers of a kind are asked about an entry; while they are asked
\* the entry may be locked.
Ask(kind, p, id, lock) ==
    /\ report' = [kind |-> kind, from |-> p, about |-> id, asked |-> <<>>]
    /\ locked' = lock
    /\ released' = FALSE
    /\ outcome' = NoReport
Rest == UNCHANGED <<players, seen, cars, carSeen, objects, ownObjects, armed>>

\* PlayerBulletSyncHandler, by what the bullet has hit.  A target has to be
\* there and in view, and not in the same vehicle.
Missed(p) == Ask("shotMissed", p, None, FALSE)

HitPlayer(p, other) ==
    /\ other # p
    /\ other \in players /\ p \in seen[other]
    /\ ~(inCar[p] # None /\ inCar[p] = inCar[other])
    /\ Ask("shotPlayer", p, other, FALSE)

HitVehicle(p, c) ==
    /\ c \in cars /\ <<c, p>> \in carSeen
    /\ inCar[p] # c
    /\ Ask("shotVehicle", p, c, TRUE)

\* An object of the server, or else one of the player's; nobody is asked about
\* one that is neither, and the shot is relayed.
HitObject(p, o) ==
    IF o \in objects THEN Ask("shotObject", p, o, TRUE)
    ELSE IF <<p, o>> \in ownObjects THEN Ask("shotPlayerObject", p, o, TRUE)
    ELSE /\ outcome' = [kind |-> "shotPlayerObject", from |-> p, about |-> o,
                        asked |-> <<>>, to |-> seen[p] \ {p}]
         /\ UNCHANGED <<report, locked, released>>

Bullet(p) ==
    /\ Idle /\ p \in players
    /\ armed[p]
    /\ \/ Missed(p)
       \/ \E other \in Players : HitPlayer(p, other)
       \/ \E c \in Cars : HitVehicle(p, c)
       \/ \E o \in Objects : HitObject(p, o)
    /\ UNCHANGED <<inCar, aimed>> /\ Rest

\* PlayerGiveTakeDamageRPCHandler: the one who shot has to be allowed to.
TakeDamage(p, from) ==
    /\ Idle /\ p \in players
    /\ from = None \/ (from \in players /\ p \in seen[from] /\ armed[from])
    /\ Ask("takeDamage", p, from, FALSE)
    /\ UNCHANGED <<inCar, aimed>> /\ Rest

GiveDamage(p, to) ==
    /\ Idle /\ p \in players
    /\ to \in players /\ p \in seen[to] /\ armed[p]
    /\ Ask("giveDamage", p, to, FALSE)
    /\ UNCHANGED <<inCar, aimed>> /\ Rest

\* OnPlayerClickMapRPCHandler: a player that may is taken out of its vehicle and
\* away, before the event handlers are asked.
ClickMap(p, allowed) ==
    /\ Idle /\ p \in players
    /\ inCar' = IF allowed THEN [inCar EXCEPT ![p] = None] ELSE inCar
    /\ Ask("clickMap", p, None, FALSE)
    /\ UNCHANGED aimed /\ Rest

ClickPlayer(p, other) ==
    /\ Idle /\ p \in players /\ other \in players
    /\ Ask("clickPlayer", p, other, FALSE)
    /\ UNCHANGED <<inCar, aimed>> /\ Rest

Text(p) ==
    /\ Idle /\ p \in players
    /\ Ask("text", p, None, FALSE)
    /\ UNCHANGED <<inCar, aimed>> /\ Rest

Command(p) ==
    /\ Idle /\ p \in players
    /\ Ask("command", p, None, FALSE)
    /\ UNCHANGED <<inCar, aimed>> /\ Rest

CheckResponse(p) ==
    /\ Idle /\ p \in players
    /\ Ask("check", p, None, FALSE)
    /\ UNCHANGED <<inCar, aimed>> /\ Rest

\* PlayerCameraTargetRPCHandler keeps the id it is given, whatever it names.
CameraTarget(p, c) ==
    /\ Idle /\ p \in players
    /\ aimed' = [aimed EXCEPT ![p] = c]
    /\ UNCHANGED <<inCar, report, locked, released, outcome>> /\ Rest

\* getCameraTargetVehicle: what has the id now, if the player sees it.
TargetVehicle(p) ==
    IF aimed[p] \in cars /\ <<aimed[p], p>> \in carSeen THEN aimed[p] ELSE None
-----------------------------------------------------------------------------
\* The next event handler answers.
Answer(says) ==
    /\ ~Idle
    /\ ~Stops(report)
    /\ report' = [report EXCEPT !.asked = Append(@, says)]
    /\ UNCHANGED <<inCar, aimed, locked, released, outcome>> /\ Rest

\* Whom the report is passed on to: the players a shooter is streamed in for, the
\* players the text reaches, or the one whose command nobody knows.
Recipients(r, near) ==
    CASE r.kind \in Shots \cup {"text"} ->
           IF \A i \in DOMAIN r.asked : r.asked[i]
           THEN IF r.kind = "text" THEN near ELSE seen[r.from] \ {r.from}
           ELSE {}
      [] r.kind = "command" ->
           IF \E i \in DOMAIN r.asked : r.asked[i] THEN {} ELSE {r.from}
      [] OTHER -> {}

\* All have been asked: the lock goes, and the entry with it if it was released.
Finish(near) ==
    /\ ~Idle
    /\ Stops(report)
    /\ near \subseteq players /\ report.from \in near
    /\ report.kind # "text" => near = players
    /\ outcome' = [kind |-> report.kind, from |-> report.from, about |-> report.about,
                   asked |-> report.asked, to |-> Recipients(report, near)]
    /\ report' = NoReport
    /\ locked' = FALSE /\ released' = FALSE
    /\ IF ~released THEN UNCHANGED <<cars, carSeen, inCar, objects, ownObjects>>
       ELSE CASE report.kind = "shotVehicle" ->
                   /\ cars' = cars \ {report.about}
                   /\ carSeen' = {x \in carSeen : x[1] # report.about}
                   /\ inCar' = [p \in Players |-> IF inCar[p] = report.about THEN None ELSE inCar[p]]
                   /\ UNCHANGED <<objects, ownObjects>>
              [] report.kind = "shotObject" ->
                   /\ objects' = objects \ {report.about}
                   /\ UNCHANGED <<cars, carSeen, inCar, ownObjects>>
              [] report.kind = "shotPlayerObject" ->
                   /\ ownObjects' = ownObjects \ {<<report.from, report.about>>}
                   /\ UNCHANGED <<cars, carSeen, inCar, objects>>
    /\ UNCHANGED <<players, seen, armed, aimed>>
-----------------------------------------------------------------------------
\* What else changes, between two reports or in the event handlers of one.
Between == UNCHANGED <<aimed, report, locked>> /\ outcome' = NoReport
About(kind, id) == locked /\ report.kind = kind /\ report.about = id

Join(p) ==
    /\ Idle /\ p \notin players
    /\ players' = players \cup {p}
    /\ armed' = [armed EXCEPT ![p] = TRUE]
    /\ UNCHANGED <<seen, cars, carSeen, inCar, objects, ownObjects, released>> /\ Between

\* clearPlayer; a client that leaves does so between two reports, a bot may be
\* released in an event handler.
Leave(p) ==
    /\ p \in players
    /\ Idle \/ (~Careful /\ p # report.from)
    /\ players' = players \ {p}
    /\ seen' = [x \in Players |-> IF x = p THEN {} ELSE seen[x] \ {p}]
    /\ carSeen' = {x \in carSeen : x[2] # p}
    /\ inCar' = [inCar EXCEPT ![p] = None]
    /\ ownObjects' = {x \in ownObjects : x[1] # p}
    /\ UNCHANGED <<cars, objects, armed, released>> /\ Between

Stream(x, p) ==
    /\ Idle /\ {x, p} \subseteq players /\ x # p
    /\ seen' = [seen EXCEPT ![x] = IF p \in @ THEN @ \ {p} ELSE @ \cup {p}]
    /\ UNCHANGED <<players, cars, carSeen, inCar, objects, ownObjects, armed, released>>
    /\ Between

StreamCar(c, p) ==
    /\ Idle /\ c \in cars /\ p \in players
    /\ carSeen' = IF <<c, p>> \in carSeen THEN carSeen \ {<<c, p>>} ELSE carSeen \cup {<<c, p>>}
    /\ UNCHANGED <<players, seen, cars, inCar, objects, ownObjects, armed, released>>
    /\ Between

CreateCar(c) ==
    /\ c \notin cars
    /\ cars' = cars \cup {c}
    /\ UNCHANGED <<players, seen, carSeen, inCar, objects, ownObjects, armed, released>>
    /\ Between

\* release of a locked entry waits for the lock.
DestroyCar(c) ==
    /\ c \in cars
    /\ IF About("shotVehicle", c)
       THEN released' = TRUE /\ UNCHANGED <<cars, carSeen, inCar>>
       ELSE /\ cars' = cars \ {c}
            /\ carSeen' = {x \in carSeen : x[1] # c}
            /\ inCar' = [p \in Players |-> IF inCar[p] = c THEN None ELSE inCar[p]]
            /\ UNCHANGED released
    /\ UNCHANGED <<players, seen, objects, ownObjects, armed>> /\ Between

Board(p, c) ==
    /\ p \in players /\ c \in cars \cup {None}
    /\ inCar' = [inCar EXCEPT ![p] = c]
    /\ UNCHANGED <<players, seen, cars, carSeen, objects, ownObjects, armed, released>>
    /\ Between

SetObject(o) ==
    /\ IF About("shotObject", o) THEN released' = TRUE /\ UNCHANGED objects
       ELSE /\ objects' = IF o \in objects THEN objects \ {o} ELSE objects \cup {o}
            /\ UNCHANGED released
    /\ UNCHANGED <<players, seen, cars, carSeen, inCar, ownObjects, armed>> /\ Between

SetOwnObject(p, o) ==
    /\ p \in players
    /\ IF About("shotPlayerObject", o) THEN released' = TRUE /\ UNCHANGED ownObjects
       ELSE /\ ownObjects' = IF <<p, o>> \in ownObjects THEN ownObjects \ {<<p, o>>}
                             ELSE ownObjects \cup {<<p, o>>}
            /\ UNCHANGED released
    /\ UNCHANGED <<players, seen, cars, carSeen, inCar, objects, armed>> /\ Between

Arm(p, allowed) ==
    /\ p \in players
    /\ armed' = [armed EXCEPT ![p] = allowed]
    /\ UNCHANGED <<players, seen, cars, carSeen, inCar, objects, ownObjects, released>>
    /\ Between

Next ==
    \/ \E p \in Reporters :
          \/ Bullet(p) \/ Text(p) \/ Command(p) \/ CheckResponse(p)
          \/ \E from \in Players \cup {None} : TakeDamage(p, from)
          \/ \E x \in Players : GiveDamage(p, x) \/ ClickPlayer(p, x)
          \/ \E allowed \in BOOLEAN : ClickMap(p, allowed)
          \/ \E c \in Cars : CameraTarget(p, c) \/ StreamCar(c, p)
          \/ \E o \in Objects : SetOwnObject(p, o)
    \/ \E says \in BOOLEAN : Answer(says)
    \/ \E near \in SUBSET Players : Finish(near)
    \/ \E p \in Players : Join(p) \/ Leave(p)
    \/ \E x, p \in Players : Stream(x, p)
    \/ \E c \in Cars : CreateCar(c) \/ DestroyCar(c)
    \/ \E p \in Players, c \in Cars \cup {None} : Board(p, c)
    \/ \E o \in Objects : SetObject(o)
    \/ \E p \in Players, allowed \in BOOLEAN : Arm(p, allowed)

Spec == Init /\ [][Next]_vars
-----------------------------------------------------------------------------
TypeOK ==
    /\ players \subseteq Players /\ cars \subseteq Cars /\ objects \subseteq Objects
    /\ seen \in [Players -> SUBSET Players]
    /\ carSeen \subseteq Cars \X Reporters /\ ownObjects \subseteq Reporters \X Objects
    /\ inCar \in [Players -> Cars \cup {None}]
    /\ armed \in [Players -> BOOLEAN]
    /\ aimed \in [Reporters -> Cars \cup {None}]
    /\ report = NoReport \/ report.kind \in Kinds
    /\ outcome = NoReport \/ outcome.kind \in Kinds
    /\ {locked, released} \subseteq BOOLEAN

\* Every event handler that is asked about something is asked about something
\* that is there, whatever the ones asked before it have done.
AskedAboutWhatIs ==
    ~Idle /\ ~Stops(report) /\ report.about # None =>
        There(report.kind, report.from, report.about)

\* A shot or a text goes out only when every event handler was asked about it
\* and none forbade it, a shot at an object that nobody has excepted; and the
\* one whose command is known is never told that it is not.
PassedOnRightly ==
    outcome # NoReport /\ outcome.to # {} =>
        \/ /\ outcome.kind \in StopAtFalse
           /\ outcome.asked = [h \in Handlers |-> TRUE]
        \/ /\ outcome.kind = "shotPlayerObject" /\ outcome.asked = <<>>
           /\ outcome.about \notin objects /\ <<outcome.from, outcome.about>> \notin ownObjects
        \/ /\ outcome.kind = "command"
           /\ outcome.asked = [h \in Handlers |-> FALSE]

\* What a player aims its camera at is there and in its view, the id it reported
\* having been given to another vehicle or to none since.
TargetSeen ==
    \A p \in Reporters : TargetVehicle(p) # None =>
        TargetVehicle(p) \in cars /\ <<TargetVehicle(p), p>> \in carSeen
=============================================================================
