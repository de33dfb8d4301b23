----------------------------- MODULE PlayerSync -----------------------------
(***************************************************************************)
(* Sync packets: a handler takes one from a client, lets scripts see it,   *)
(* and stores it; the pool's next tick relays what was stored since the    *)
(* last one: player_pool.hpp (the sync handlers and onTick). A packet is   *)
(* its number and the vehicle it names; what it changes in the player and  *)
(* the vehicle, and those it is relayed to, are left to other modules.     *)
(***************************************************************************)
EXTENDS Integers, FiniteSets

CONSTANTS
    Players,     \* players that may be connected
    Cars,        \* vehicles that may exist
    MaxPackets,  \* packets of one player (a bound)
    Careful,     \* whether scripts keep a vehicle in its own update callbacks
    None

\* The last of the primary kinds that arrived is relayed, and every secondary.
Primary   == {"foot", "driver", "passenger"}
Secondary == {"aim", "trailer", "unoccupied"}
Kinds     == Primary \union Secondary

VARIABLES
    players,     \* the players in the pool
    cars,        \* the vehicles in the pool
    dying,       \* vehicles released while a handler locks them
    shown,       \* pairs of a vehicle and a player it is streamed in for
    spectating,  \* players in spectator mode
    packet,      \* footSync_, vehicleSync_, ...: number and vehicle
    primary,     \* primarySyncUpdateType_
    secondary,   \* secondarySyncUpdateType_
    handling,    \* the handler that runs: its player, kind, number, vehicle
    count,       \* the packets of each player so far
    refused,     \* numbers of the packets that scripts refused
    relayed,     \* of each player and kind: the number relayed last
    freed        \* whether a handler used a vehicle after its release

own == <<cars, dying, shown, spectating, packet, primary, secondary,
         handling, count, refused, relayed, freed>>
vars == <<players, own>>

NoPacket == [no |-> 0, car |-> None]
Blank == [k \in Kinds |-> NoPacket]

Init ==
    /\ players = {}
    /\ cars = {} /\ dying = {}
    /\ shown = {}
    /\ spectating = {}
    /\ packet = [p \in Players |-> Blank]
    /\ primary = [p \in Players |-> None]
    /\ secondary = [p \in Players |-> {}]
    /\ handling = None
    /\ count = [p \in Players |-> 0]
    /\ refused = [p \in Players |-> {}]
    /\ relayed = [p \in Players |-> [k \in Kinds |-> 0]]
    /\ freed = FALSE

-----------------------------------------------------------------------------
(* The world                                                                *)

Connect(p) ==
    /\ p \notin players
    /\ handling = None
    /\ players' = players \union {p}
    /\ UNCHANGED own

\* Player::reset and the constructor forget every packet and flag.
Disconnect(p) ==
    /\ p \in players
    /\ handling = None
    /\ players' = players \ {p}
    /\ shown' = {s \in shown : s[2] # p}
    /\ spectating' = spectating \ {p}
    /\ packet' = [packet EXCEPT ![p] = Blank]
    /\ primary' = [primary EXCEPT ![p] = None]
    /\ secondary' = [secondary EXCEPT ![p] = {}]
    /\ count' = [count EXCEPT ![p] = 0]
    /\ refused' = [refused EXCEPT ![p] = {}]
    /\ relayed' = [relayed EXCEPT ![p] = [k \in Kinds |-> 0]]
    /\ UNCHANGED <<cars, dying, handling, freed>>

StreamCar(c, p) ==
    /\ c \in cars /\ p \in players
    /\ handling = None
    /\ shown' = IF <<c, p>> \in shown THEN shown \ {<<c, p>>}
                ELSE shown \union {<<c, p>>}
    /\ UNCHANGED <<players, cars, dying, spectating, packet, primary,
                   secondary, handling, count, refused, relayed, freed>>

CreateCar(c) ==
    /\ c \notin cars \union dying
    /\ handling = None
    /\ cars' = cars \union {c}
    /\ UNCHANGED <<players, dying, shown, spectating, packet, primary,
                   secondary, handling, count, refused, relayed, freed>>

\* The driver's and the passenger's handlers lock their vehicle.
Locked == IF handling # None /\ handling.kind \in {"driver", "passenger"}
          THEN {handling.car} ELSE {}
Held   == IF handling = None THEN {} ELSE {handling.car}

DestroyCar(c) ==
    /\ c \in cars
    /\ Careful => c \notin Held \ Locked
    /\ shown' = {s \in shown : s[1] # c}
    /\ dying' = dying \union ({c} \intersect Locked)
    /\ cars' = IF c \in Locked THEN cars ELSE cars \ {c}
    /\ UNCHANGED <<players, spectating, packet, primary, secondary,
                   handling, count, refused, relayed, freed>>

SetSpectating(p) ==
    /\ p \in players
    /\ spectating' = IF p \in spectating THEN spectating \ {p}
                     ELSE spectating \union {p}
    /\ UNCHANGED <<players, cars, dying, shown, packet, primary,
                   secondary, handling, count, refused, relayed, freed>>

-----------------------------------------------------------------------------
(* Handlers                                                                 *)

Counted(p) ==
    /\ count[p] < MaxPackets
    /\ count' = [count EXCEPT ![p] = @ + 1]

Begin(p, k, c) ==
    /\ handling = None
    /\ p \in players
    /\ Counted(p)
    /\ handling' = [player |-> p, kind |-> k, no |-> count[p] + 1, car |-> c]
    /\ UNCHANGED <<players, cars, dying, shown, spectating, packet,
                   primary, secondary, refused, relayed, freed>>

PlayerFootSync(p) == Begin(p, "foot", None)

\* updateFromDriverSync, updateFromPassengerSync: the vehicle is there, and
\* streamed in for the sender.
PlayerVehicleSync(p, c) == c \in cars /\ <<c, p>> \in shown /\ Begin(p, "driver", c)

PlayerPassengerSync(p, c) == c \in cars /\ <<c, p>> \in shown /\ Begin(p, "passenger", c)

\* No one drives the vehicle, that the sender has.
PlayerUnoccupiedSync(p, c) ==
    c \in cars /\ <<c, p>> \in shown /\ Begin(p, "unoccupied", c)

\* The trailer is the one that the last driver's packet named.
PlayerTrailerSync(p, c) ==
    /\ c \in cars /\ <<c, p>> \in shown
    /\ packet[p]["driver"].car # None
    /\ Begin(p, "trailer", c)

\* An aim packet is stored without a callback.
PlayerAimSync(p) ==
    /\ handling = None
    /\ p \in players
    /\ Counted(p)
    /\ packet' = [packet EXCEPT ![p]["aim"] = [no |-> count[p] + 1, car |-> None]]
    /\ secondary' = [secondary EXCEPT ![p] = @ \union {"aim"}]
    /\ UNCHANGED <<players, cars, dying, shown, spectating, primary,
                   handling, refused, relayed, freed>>

Store(h) ==
    /\ packet' = [packet EXCEPT ![h.player][h.kind] = [no |-> h.no, car |-> h.car]]
    /\ IF h.kind \in Primary
       THEN /\ primary' = [primary EXCEPT ![h.player] = h.kind]
            /\ UNCHANGED secondary
       ELSE /\ secondary' = [secondary EXCEPT ![h.player] = @ \union {h.kind}]
            /\ UNCHANGED primary

\* The callbacks return, and the vehicle is used once more; a lock that is
\* given up releases what was destroyed meanwhile.
Return(allowed) ==
    /\ handling # None
    /\ LET h == handling
       IN  /\ IF allowed THEN Store(h)
              ELSE UNCHANGED <<packet, primary, secondary>>
           /\ refused' = IF allowed THEN refused
                         ELSE [refused EXCEPT ![h.player] = @ \union {h.no}]
           /\ freed' = (freed \/ (h.car # None /\ h.car \notin cars))
    /\ handling' = None
    /\ cars' = cars \ dying
    /\ dying' = {}
    /\ UNCHANGED <<players, shown, spectating, count, relayed>>

-----------------------------------------------------------------------------
(* PlayerPool::onTick                                                       *)

Flagged(p) == ({primary[p]} \ {None}) \union secondary[p]

\* An unoccupied vehicle is relayed to those that have it, if it still exists.
Sent(p) == {k \in Flagged(p) : k = "unoccupied" => packet[p][k].car \in cars}

Tick(p) ==
    /\ handling = None
    /\ p \in players \ spectating
    /\ relayed' = [relayed EXCEPT ![p] = [k \in Kinds |->
                     IF k \in Sent(p) THEN packet[p][k].no ELSE @[k]]]
    /\ primary' = [primary EXCEPT ![p] = None]
    /\ secondary' = [secondary EXCEPT ![p] = {}]
    /\ UNCHANGED <<players, cars, dying, shown, spectating, packet,
                   handling, count, refused, freed>>

Next ==
    \/ \E allowed \in BOOLEAN : Return(allowed)
    \/ \E p \in Players :
         \/ Connect(p) \/ Disconnect(p) \/ SetSpectating(p)
         \/ PlayerFootSync(p) \/ PlayerAimSync(p) \/ Tick(p)
         \/ \E c \in Cars :
              \/ StreamCar(c, p)
              \/ PlayerVehicleSync(p, c) \/ PlayerPassengerSync(p, c)
              \/ PlayerUnoccupiedSync(p, c) \/ PlayerTrailerSync(p, c)
    \/ \E c \in Cars : CreateCar(c) \/ DestroyCar(c)

Spec == Init /\ [][Next]_vars

-----------------------------------------------------------------------------
(* Properties                                                               *)

Packets == [no : 0 .. MaxPackets, car : Cars \union {None}]

TypeOK ==
    /\ players \subseteq Players
    /\ cars \subseteq Cars /\ dying \subseteq cars
    /\ shown \subseteq cars \X players
    /\ spectating \subseteq players
    /\ packet \in [Players -> [Kinds -> Packets]]
    /\ primary \in [Players -> Primary \union {None}]
    /\ secondary \in [Players -> SUBSET Secondary]
    /\ handling \in [player : players, kind : Kinds, no : 1 .. MaxPackets,
                     car : Cars \union {None}] \union {None}
    /\ count \in [Players -> 0 .. MaxPackets]
    /\ refused \in [Players -> SUBSET (1 .. MaxPackets)]
    /\ relayed \in [Players -> [Kinds -> 0 .. MaxPackets]]
    /\ freed \in BOOLEAN

\* What the next tick relays was not relayed before and not refused by a
\* script, however callbacks, refusals and spectating come between.
RelaysExact == \A p \in players : \A k \in Flagged(p) :
    /\ packet[p][k].no > relayed[p][k]
    /\ packet[p][k].no \notin refused[p]

\* No handler goes on with a vehicle that its own callbacks destroyed: the
\* driver's and the passenger's lock it, the others rely on the scripts.
NoDangling == ~freed
=============================================================================
