------------------------------ MODULE Vehicles ------------------------------
(***************************************************************************)
(* Who sits in which vehicle, who is shown it, what it tows, and how it    *)
(* dies and respawns: src/Server/Components/Vehicles with the sync packet  *)
(* handlers of src/Server/Source/player_pool.hpp that drive it.            *)
(*                                                                         *)
(* Each relation is kept twice, as pointers in both directions: a vehicle  *)
(* points to its driver and passengers, and a player's PlayerVehicleData   *)
(* to its vehicle; a trailer points to its cab and a cab to its trailer.   *)
(* A vehicle is an object of the heap, so a pointer to one that was freed  *)
(* stays recognisable: a new object is never where a pointer still leads.  *)
(*                                                                         *)
(* Scripts act between handlers and from the callbacks handlers dispatch,  *)
(* at the position at; what a script calls runs to its end.  Trains, whose *)
(* carriages are created and released with them, are left out.             *)
(***************************************************************************)
EXTENDS Integers, FiniteSets
LOCAL INSTANCE TLC

CONSTANTS
    Players,     \* players that may be connected
    Objects,     \* vehicle objects
    MaxStreamed, \* MAX_STREAMED_VEHICLES
    ReleaseIn,   \* the handlers whose callbacks release the vehicle they handle
    Towing,      \* whether packets and scripts attach trailers
    None         \* a null pointer, and INVALID_VEHICLE_ID

ASSUME VehiclesAssumption ==
    /\ IsFiniteSet(Objects)
    /\ None \notin Players \union Objects
    /\ MaxStreamed \in Nat
    /\ ReleaseIn \subseteq {"rpc", "siren", "keys", "update", "stream",
                      "unoccupied", "killed"}
    /\ Towing \in BOOLEAN

VARIABLES
    pool,        \* the vehicles in the component's storage
    doomed,      \* those released while locked: freed on unlock
    occ,         \* of each vehicle: driver, passengers, beenOccupied
    link,        \* of each vehicle: trailer, cab, detaching
    death,       \* deathData: alive; dying, to be reported; or dead
    respawning,  \* the vehicles that have respawning set
    streamedFor, \* streamedFor_: the players each vehicle is streamed in for
    numStreamed, \* PlayerVehicleData::numStreamed
    players,     \* the players that have a PlayerVehicleData
    state,       \* Player::state_: Other is any not named in States
    ride,        \* PlayerVehicleData: vehicle and seat
    at           \* where the main thread is

vehicleVars == <<pool, doomed, occ, link, death, respawning>>
streamVars  == <<streamedFor, numStreamed>>
playerVars  == <<players, state, ride>>
vars        == <<vehicleVars, streamVars, playerVars, at>>

States  == {"None", "Driver", "Passenger", "Wasted", "Other"}
NoSeat  == -1
Seats   == {NoSeat, 0, 1}  \* 0 is the driver's, 1 any other

Empty   == [driver |-> None, passengers |-> {}, been |-> FALSE]
Alone   == [trailer |-> None, cab |-> None, detaching |-> FALSE]
NoRide  == [vehicle |-> None, seat |-> NoSeat]

Occupied(v) == occ[v].driver # None \/ occ[v].passengers # {}

\* The handler in progress, its player and vehicle, the trailer or seat its
\* packet names or takes, and the vehicles a loop over the storage has not visited.
\* calls says whether it stands in a callback.
Position(op, p, v) == [op |-> op, who |-> p, veh |-> v, trailer |-> None,
                       seat |-> NoSeat, todo |-> {}, calls |-> TRUE]
Idle == Position("idle", None, None)
Positions == [op : {"idle", "rpc", "siren", "keys", "update", "stream", "death",
                    "unoccupied", "tick", "killed"},
              who : Players \union {None}, veh : Objects \union {None},
              trailer : Objects \union {None}, seat : Seats,
              todo : SUBSET Objects, calls : BOOLEAN]

Init ==
    /\ pool = {}
    /\ doomed = {}
    /\ occ = [v \in Objects |-> Empty]
    /\ link = [v \in Objects |-> Alone]
    /\ death = [v \in Objects |-> "alive"]
    /\ respawning = {}
    /\ streamedFor = [v \in Objects |-> {}]
    /\ numStreamed = [p \in Players |-> 0]
    /\ players = {}
    /\ state = [p \in Players |-> "None"]
    /\ ride = [p \in Players |-> NoRide]
    /\ at = Idle

-----------------------------------------------------------------------------
(* Methods of Vehicle                                                       *)

\* Player p leaves the vehicle its data names, in occupants O: unoccupy, where
\* the driver is only the driver.
Leave(O, p) ==
    IF ride[p].vehicle = None THEN O
    ELSE LET o == O[ride[p].vehicle]
         IN  [O EXCEPT ![ride[p].vehicle] =
                IF o.driver = p THEN [o EXCEPT !.driver = None, !.been = TRUE]
                ELSE [o EXCEPT !.passengers = @ \ {p}, !.been = TRUE]]

\* The new driver of v leaves the vehicle it was in first.
TakeWheelOnly(v, p) == [occ EXCEPT ![v].driver = p, ![v].been = TRUE]
TakeWheel(v, p) == [Leave(occ, p) EXCEPT ![v].driver = p, ![v].been = TRUE]

\* The end of a stay in whatever vehicle p is in.
StepOut(p) ==
    /\ occ' = Leave(occ, p)
    /\ ride' = [ride EXCEPT ![p] = NoRide]

\* streamInForPlayer without the limit's being counted.
StreamInUncounted(v, p) ==
    /\ streamedFor' = [streamedFor EXCEPT ![v] = @ \union {p}]
    /\ respawning' = respawning \ {v}
    /\ UNCHANGED numStreamed

StreamIn(v, p) ==
    IF p \in streamedFor[v] \/ numStreamed[p] >= MaxStreamed
    THEN UNCHANGED <<streamVars, respawning>>
    ELSE /\ streamedFor' = [streamedFor EXCEPT ![v] = @ \union {p}]
         /\ numStreamed' = [numStreamed EXCEPT ![p] = @ + 1]
         /\ respawning' = respawning \ {v}

StreamOut(v, p) ==
    /\ streamedFor' = [streamedFor EXCEPT ![v] = @ \ {p}]
    /\ numStreamed' = [numStreamed EXCEPT ![p] = @ - 1]

\* streamOutForClient for everyone the vehicle is streamed in for.
Uncounted(v) == [p \in Players |->
    IF p \in streamedFor[v] THEN numStreamed[p] - 1 ELSE numStreamed[p]]

\* A respawn that still is streamed in for whoever it was streamed in for.
RespawnStreamed(v) ==
    /\ respawning' = respawning \union {v}
    /\ death' = [death EXCEPT ![v] = "alive"]
    /\ occ' = [occ EXCEPT ![v].driver = None, ![v].been = FALSE]
    /\ link' = [link EXCEPT ![v] = Alone]
    /\ UNCHANGED streamVars

\* _respawn: the passengers stay, as do the pointers of others to the vehicle.
Respawned(v) ==
    /\ respawning' = respawning \union {v}
    /\ numStreamed' = Uncounted(v)
    /\ streamedFor' = [streamedFor EXCEPT ![v] = {}]
    /\ death' = [death EXCEPT ![v] = "alive"]
    /\ occ' = [occ EXCEPT ![v].driver = None, ![v].been = FALSE]
    /\ link' = [link EXCEPT ![v] = Alone]

\* A detachment that the trailer does not hear of.
CabDetached(L, c) ==
    IF L[c].trailer = None THEN L
    ELSE [L EXCEPT ![c].trailer = None, ![c].detaching = TRUE]

\* detachTrailer of the cab c, in links L.
Detached(L, c) ==
    IF L[c].trailer = None THEN L
    ELSE [L EXCEPT ![L[c].trailer].cab = None,
                   ![c].trailer = None,
                   ![c].detaching = TRUE]

\* v takes itself off its cab, as ~Vehicle and updateFromUnoccupied do.
OffCab(L, v) ==
    IF L[v].cab = None THEN L
    ELSE [Detached(L, L[v].cab) EXCEPT ![v].cab = None]

\* ~Vehicle, and the end of the object.  The others' pointers to it stay.
Destroy(v) ==
    /\ pool' = pool \ {v}
    /\ doomed' = doomed \ {v}
    /\ link' = OffCab(Detached(link, v), v)
    /\ occ' = [occ EXCEPT ![v] = Empty]
    /\ death' = [death EXCEPT ![v] = "alive"]
    /\ respawning' = respawning \ {v}
    /\ streamedFor' = [streamedFor EXCEPT ![v] = {}]

\* The end of a handler: its lock is dropped, which frees a doomed vehicle.
Finish ==
    /\ at' = Idle
    /\ IF at.veh \in doomed THEN Destroy(at.veh)
       ELSE UNCHANGED <<vehicleVars, streamedFor>>

-----------------------------------------------------------------------------
(* Players come and go                                                      *)

Connect(p) ==
    /\ at = Idle
    /\ p \notin players
    /\ players' = players \union {p}
    /\ UNCHANGED <<vehicleVars, streamVars, state, ride, at>>

\* A departure without removeFor.
DisconnectOnly(p) ==
    /\ at = Idle
    /\ p \in players
    /\ players' = players \ {p}
    /\ StepOut(p)
    /\ numStreamed' = [numStreamed EXCEPT ![p] = 0]
    /\ state' = [state EXCEPT ![p] = "None"]
    /\ UNCHANGED <<pool, doomed, link, death, respawning, streamedFor, at>>

\* onPoolEntryDestroyed, after the callbacks of onPlayerDisconnect: no vehicle
\* keeps the pointer to the player, whose data goes with it.
Disconnect(p) ==
    /\ at = Idle
    /\ p \in players
    /\ players' = players \ {p}
    /\ StepOut(p)
    /\ streamedFor' = [v \in Objects |-> streamedFor[v] \ {p}]
    /\ numStreamed' = [numStreamed EXCEPT ![p] = 0]
    /\ state' = [state EXCEPT ![p] = "None"]
    /\ UNCHANGED <<pool, doomed, link, death, respawning, at>>

-----------------------------------------------------------------------------
(* Packets and RPCs                                                         *)

\* OnPlayerEnterVehicle, OnPlayerExitVehicle and SetVehicleDamageStatus only
\* dispatch a callback, with the vehicle locked.
VehicleRPC(p, v) ==
    /\ at = Idle
    /\ p \in players
    /\ v \in pool
    /\ \/ p \in streamedFor[v] /\ state[p] = "Other"
       \/ p \in streamedFor[v] /\ state[p] \in {"Driver", "Passenger"}
            /\ ride[p].vehicle = v
       \/ ride[p].vehicle = v /\ occ[v].driver = p
    /\ at' = Position("rpc", None, v)
    /\ UNCHANGED <<vehicleVars, streamVars, playerVars>>

EndRPC ==
    /\ at.op = "rpc"
    /\ Finish
    /\ UNCHANGED <<numStreamed, playerVars>>

\* updateFromDriverSync up to onVehicleSirenStateChange.  A packet may report
\* a trailer t, and health 0, which is setDead.
DriverSync(p, v, t) ==
    /\ at = Idle
    /\ p \in players
    /\ v \in pool \ respawning
    /\ p \in streamedFor[v]
    /\ t \in pool \union {None}
    /\ t # None => Towing
    /\ t = None \/ link[v].trailer \in {None, t}
    /\ \E dies \in BOOLEAN :
         death' = IF dies THEN [death EXCEPT ![v] = "dying"] ELSE death
    /\ at' = [Position("siren", p, v) EXCEPT !.trailer = t]
    /\ UNCHANGED <<pool, doomed, occ, link, respawning, streamVars, playerVars>>

\* What the driver's packet says of the trailer: one the server did not know
\* of, or, some time after it was hitched, none any more.
Hitch(v, t, p) ==
    IF link[v].trailer = None /\ t \in pool /\ p \in streamedFor[t]
    THEN link' = [link EXCEPT ![v].trailer = t, ![t].cab = v]
    ELSE UNCHANGED link

Unhitch(v) ==
    LET L == [link EXCEPT ![v].detaching = FALSE]
    IN  \/ link' = L
        \/ /\ L[v].trailer # None
           /\ link' = [L EXCEPT ![L[v].trailer].cab = None,
                                ![v].trailer = None]

\* The rest of updateFromDriverSync: who is not the driver yet becomes it.
\* Then the handler dispatches onPlayerKeyStateChange.
DriverSeat ==
    /\ at.op = "siren"
    /\ LET p == at.who
           v == at.veh
       IN  /\ IF occ[v].driver # p
              THEN /\ occ' = TakeWheel(v, p)
                   /\ ride' = [ride EXCEPT ![p] = [vehicle |-> v, seat |-> 0]]
              ELSE UNCHANGED <<occ, ride>>
           /\ IF at.trailer # None THEN Hitch(v, at.trailer, p) ELSE Unhitch(v)
           /\ at' = [Position("keys", p, v) EXCEPT !.seat = 0]
    /\ UNCHANGED <<pool, doomed, death, respawning, streamVars, players, state>>

\* Passenger sync: the player joins the passengers, then leaves where it was;
\* one whose data already names this vehicle at most changes its seat.
PassengerSync(p, v) ==
    /\ at = Idle
    /\ p \in players
    /\ v \in pool \ respawning
    /\ p \in streamedFor[v]
    /\ LET joined == [occ EXCEPT ![v].passengers = @ \union {p}]
           joins  == /\ ride[p].vehicle # v \/ occ[v].driver = p
                     /\ p \notin occ[v].passengers
           moves  == ride[p].seat # 1
       IN  /\ occ' = IF joins THEN [Leave(joined, p) EXCEPT ![v].been = TRUE]
                     ELSE IF moves THEN [occ EXCEPT ![v].been = TRUE] ELSE occ
           /\ ride' = IF joins \/ moves
                      THEN [ride EXCEPT ![p] = [vehicle |-> v, seat |-> 1]]
                      ELSE ride
    /\ at' = [Position("keys", p, v) EXCEPT !.seat = 1]
    /\ UNCHANGED <<pool, doomed, link, death, respawning, streamVars, players,
                   state>>

\* After the key-state callback: setState, in which VehiclesComponent has no
\* part, whatever the callback did to the seat or the vehicle.
StateInVehicle ==
    /\ at.op = "keys"
    /\ state' = [state EXCEPT ![at.who] =
                    IF at.seat = 0 THEN "Driver" ELSE "Passenger"]
    /\ at' = Position("update", at.who, at.veh)
    /\ UNCHANGED <<vehicleVars, streamVars, players, ride>>

\* setState to a state outside vehicles: onPlayerStateChange, if it changes.
StateOther(p) ==
    /\ state' = [state EXCEPT ![p] = "Other"]
    /\ IF state[p] # "Other" THEN StepOut(p) ELSE UNCHANGED <<occ, ride>>

\* On foot and spectator sync; also the spawn RPC, which has no update.
FootSync(p) ==
    /\ at = Idle
    /\ p \in players
    /\ StateOther(p)
    /\ at' = Position("update", p, None)
    /\ UNCHANGED <<pool, doomed, link, death, respawning, streamVars, players>>

\* onPlayerUpdate at the end of a sync packet: refused by an earlier handler,
\* or handled by VehiclesComponent, which streams when a pass is due.
PlayerUpdate ==
    /\ at.op = "update"
    /\ LET p == at.who
           stream == [at EXCEPT !.op = "stream", !.calls = FALSE]
       IN  \/ at' = stream /\ UNCHANGED <<occ, ride>>
           \/ /\ IF /\ ride[p].vehicle # None
                    /\ state[p] \notin {"Driver", "Passenger"}
                 THEN StepOut(p)
                 ELSE UNCHANGED <<occ, ride>>
              /\ \E due \in {{}, pool} : at' = [stream EXCEPT !.todo = due]
    /\ UNCHANGED <<pool, doomed, link, death, respawning, streamVars, players,
                   state>>

\* A step of the streaming pass; near is by position and virtual world.
StreamVehicle(v) ==
    /\ at.op = "stream"
    /\ v \in at.todo
    /\ \E near \in BOOLEAN :
         IF v \notin pool \/ near = (at.who \in streamedFor[v])
         THEN UNCHANGED <<streamVars, respawning>>
         ELSE IF near THEN StreamIn(v, at.who)
         ELSE StreamOut(v, at.who) /\ UNCHANGED respawning
    /\ at' = [at EXCEPT !.todo = @ \ {v},
                        !.calls = (streamedFor' # streamedFor)]
    /\ UNCHANGED <<pool, doomed, occ, link, death, playerVars>>

EndUpdate ==
    /\ at.op = "stream"
    /\ at.todo = {}
    /\ Finish
    /\ UNCHANGED <<numStreamed, playerVars>>

\* PlayerDeath RPC: the state first, and its callbacks; then onPlayerDeath.
PlayerDeath(p) ==
    /\ at = Idle
    /\ p \in players
    /\ state[p] # "Wasted"
    /\ state' = [state EXCEPT ![p] = "Wasted"]
    /\ at' = Position("death", p, None)
    /\ UNCHANGED <<vehicleVars, streamVars, players, ride>>

OnPlayerDeath ==
    /\ at.op = "death"
    /\ StepOut(at.who)
    /\ at' = Idle
    /\ UNCHANGED <<pool, doomed, link, death, respawning, streamVars, players,
                   state>>

VehicleDeath(p, v) ==
    /\ at = Idle
    /\ p \in players
    /\ v \in pool \ respawning
    /\ p \in streamedFor[v]
    /\ death[v] = "alive"
    /\ occ[v].driver \in {None, p}
    /\ death' = [death EXCEPT ![v] = "dying"]
    /\ UNCHANGED <<pool, doomed, occ, link, respawning, streamVars, playerVars,
                   at>>

\* Unoccupied sync up to onUnoccupiedVehicleUpdate.  A towed vehicle is left
\* to the driver of its cab; of a cab that was freed anything may be read.
UnoccupiedSync(p, v, seat) ==
    /\ at = Idle
    /\ p \in players
    /\ state[p] # "None"
    /\ v \in pool \ respawning
    /\ occ[v].driver = None
    /\ p \in streamedFor[v]
    /\ IF seat = 0 THEN state[p] # "Passenger"
       ELSE state[p] = "Passenger" /\ ride[p] = [vehicle |-> v, seat |-> seat]
    /\ link[v].cab \in pool => occ[link[v].cab].driver = p
    /\ at' = [Position("unoccupied", None, v) EXCEPT !.seat = seat]
    /\ UNCHANGED <<vehicleVars, streamVars, playerVars>>

EndUnoccupied ==
    /\ at.op = "unoccupied"
    /\ link' = OffCab(link, at.veh)
    /\ \/ UNCHANGED death
       \/ /\ at.seat # 0
          /\ occ[at.veh].driver = None
          /\ death' = [death EXCEPT ![at.veh] = "dying"]
    /\ at' = Idle
    /\ UNCHANGED <<pool, doomed, occ, respawning, streamVars, playerVars>>

\* Trailer sync of the driver p, for the trailer v its last packet named.
TrailerSync(p, v) ==
    /\ Towing
    /\ at = Idle
    /\ p \in players
    /\ v \in pool
    /\ state[p] = "Driver"
    /\ p \in streamedFor[v]
    /\ LET u == ride[p].vehicle
           c == link[v].cab
       IN  /\ u # None
           /\ link' =
                IF link[u].detaching \/ c = u THEN link
                ELSE LET L == IF c # None /\ link[c].trailer = v
                              THEN [link EXCEPT ![c].trailer = None] ELSE link
                     IN  [L EXCEPT ![u].trailer = v, ![v].cab = u]
    /\ occ' = [occ EXCEPT ![v].been = TRUE]
    /\ UNCHANGED <<pool, doomed, death, respawning, streamVars, playerVars, at>>

-----------------------------------------------------------------------------
(* VehiclesComponent::onTick                                                *)

BeginTick ==
    /\ at = Idle
    /\ at' = [Position("tick", None, None) EXCEPT !.todo = pool, !.calls = FALSE]
    /\ UNCHANGED <<vehicleVars, streamVars, playerVars>>

\* A vehicle that died is reported once nobody is in it; the dead, and those
\* that were left, respawn when their delay is over.
VisitVehicle(v) ==
    /\ at.op = "tick"
    /\ v \in at.todo
    /\ IF v \in pool /\ ~Occupied(v) /\ death[v] = "dying"
       THEN /\ death' = [death EXCEPT ![v] = "dead"]
            /\ at' = [at EXCEPT !.op = "killed", !.veh = v, !.todo = @ \ {v},
                                !.calls = TRUE]
            /\ UNCHANGED <<occ, link, respawning, streamVars>>
       ELSE \E due \in BOOLEAN :
            /\ due => /\ v \in pool
                      /\ ~Occupied(v)
                      /\ death[v] = "dead" \/ occ[v].been
            /\ IF due THEN Respawned(v)
               ELSE UNCHANGED <<occ, link, death, respawning, streamVars>>
            /\ at' = [at EXCEPT !.todo = @ \ {v}, !.calls = due]
    /\ UNCHANGED <<pool, doomed, playerVars>>

\* After onVehicleDeath: whoever is in the vehicle by now, it respawns if its
\* delay is over.
EndKilled ==
    /\ at.op = "killed"
    /\ IF at.veh \in doomed
       THEN Destroy(at.veh) /\ UNCHANGED numStreamed
       ELSE /\ \/ Respawned(at.veh)
               \/ UNCHANGED <<occ, link, death, respawning, streamVars>>
            /\ UNCHANGED <<pool, doomed>>
    /\ at' = [at EXCEPT !.op = "tick", !.veh = None]
    /\ UNCHANGED playerVars

EndTick ==
    /\ at.op = "tick"
    /\ at.todo = {}
    /\ at' = Idle
    /\ UNCHANGED <<vehicleVars, streamVars, playerVars>>

-----------------------------------------------------------------------------
(* Scripts and components                                                   *)

\* Scripts use no vehicle that they have released.
Usable == pool \ doomed

\* The constructor respawns the vehicle.
Create(v) ==
    /\ at.calls
    /\ v \notin pool
    /\ \A p \in Players : ride[p].vehicle # v
    /\ \A u \in Objects : v \notin {link[u].trailer, link[u].cab}
    /\ pool' = pool \union {v}
    /\ respawning' = respawning \union {v}
    /\ link' = [link EXCEPT ![v] = Alone]
    /\ UNCHANGED <<doomed, occ, death, streamVars, playerVars, at>>

\* The vehicle a handler has locked, and the one updateFromUnoccupied runs on
\* without a lock.
Held == at.veh

\* destream: nobody's data names the vehicle and its clients are told.
DestreamClients(v) ==
    /\ numStreamed' = Uncounted(v)
    /\ UNCHANGED ride
Destream(v) ==
    /\ numStreamed' = Uncounted(v)
    /\ ride' = [p \in Players |-> IF ride[p].vehicle = v
                  THEN [vehicle |-> None, seat |-> 0] ELSE ride[p]]

\* release: destream at once, then storage.release, deferred while locked.
Release(v) ==
    /\ at.calls
    /\ v \in Usable
    /\ v = Held => at.op \in ReleaseIn
    /\ Destream(v)
    /\ IF v = Held /\ at.op # "unoccupied"
       THEN /\ doomed' = doomed \union {v}
            /\ UNCHANGED <<pool, occ, link, death, respawning, streamedFor>>
       ELSE Destroy(v)
    /\ UNCHANGED <<players, state, at>>

Respawn(v) ==
    /\ at.calls
    /\ v \in Usable
    /\ Respawned(v)
    /\ UNCHANGED <<pool, doomed, playerVars, at>>

\* A passenger's seat is left to the passenger's own sync packets.
PutPlayer(p, v, seat) ==
    /\ at.calls
    /\ p \in players
    /\ v \in Usable
    /\ StreamIn(v, p)
    /\ occ' = IF seat = 0 THEN TakeWheel(v, p) ELSE Leave(occ, p)
    /\ ride' = [ride EXCEPT ![p] = [vehicle |-> v, seat |-> seat]]
    /\ UNCHANGED <<pool, doomed, link, death, players, state, at>>

\* resetVehicle, by setPosition, spawn and NPC::removeFromVehicle.
ResetVehicle(p) ==
    /\ at.calls
    /\ p \in players
    /\ ride[p].vehicle # None
    /\ StepOut(p)
    /\ UNCHANGED <<pool, doomed, link, death, respawning, streamVars, players,
                   state, at>>

\* Player::spectateVehicle
SpectateVehicle(p, v) ==
    /\ at.calls
    /\ p \in players
    /\ v \in Usable
    /\ StateOther(p)
    /\ StreamIn(v, p)
    /\ UNCHANGED <<pool, doomed, link, death, players, at>>

\* Neither vehicle is taken off what it was attached to.
AttachTrailer(c, t) ==
    /\ Towing
    /\ at.calls
    /\ c \in Usable
    /\ t \in Usable \ {c}
    /\ link' = [link EXCEPT ![c].trailer = t, ![t].cab = c]
    /\ UNCHANGED <<pool, doomed, occ, death, respawning, streamVars, playerVars,
                   at>>

DetachTrailer(c) ==
    /\ at.calls
    /\ c \in Usable
    /\ link[c].trailer # None
    /\ link' = Detached(link, c)
    /\ UNCHANGED <<pool, doomed, occ, death, respawning, streamVars, playerVars,
                   at>>

\* Core::resetAll: the storage is cleared, then every player is reset.
ResetAll ==
    /\ at = Idle
    /\ pool' = {}
    /\ occ' = [v \in Objects |-> Empty]
    /\ link' = [v \in Objects |-> Alone]
    /\ death' = [v \in Objects |-> "alive"]
    /\ respawning' = {}
    /\ streamedFor' = [v \in Objects |-> {}]
    /\ numStreamed' = [p \in Players |-> 0]
    /\ state' = [p \in Players |-> "None"]
    /\ ride' = [p \in Players |-> NoRide]
    /\ UNCHANGED <<doomed, players, at>>

-----------------------------------------------------------------------------
Network == \E p \in Players :
    \/ Connect(p) \/ Disconnect(p) \/ FootSync(p) \/ PlayerDeath(p)
    \/ \E v \in Objects :
         \/ VehicleRPC(p, v) \/ PassengerSync(p, v) \/ VehicleDeath(p, v)
         \/ TrailerSync(p, v)
         \/ \E t \in Objects \union {None} : DriverSync(p, v, t)
         \/ \E seat \in {0, 1} : UnoccupiedSync(p, v, seat)

Continue ==
    \/ EndRPC \/ DriverSeat \/ StateInVehicle \/ PlayerUpdate \/ EndUpdate
    \/ OnPlayerDeath \/ EndUnoccupied \/ BeginTick \/ EndKilled \/ EndTick
    \/ \E v \in Objects : StreamVehicle(v) \/ VisitVehicle(v)

Scripts ==
    \/ ResetAll
    \/ \E v \in Objects :
         \/ Create(v) \/ Release(v) \/ Respawn(v) \/ DetachTrailer(v)
         \/ \E t \in Objects : AttachTrailer(v, t)
         \/ \E p \in Players :
              \/ SpectateVehicle(p, v)
              \/ \E seat \in {0, 1} : PutPlayer(p, v, seat)
    \/ \E p \in Players : ResetVehicle(p)

Next == Network \/ Continue \/ Scripts

Spec == Init /\ [][Next]_vars

-----------------------------------------------------------------------------
(* Properties                                                               *)

TypeOK ==
    /\ pool \subseteq Objects
    /\ doomed \subseteq pool
    /\ occ \in [Objects -> [driver : Players \union {None},
                            passengers : SUBSET Players, been : BOOLEAN]]
    /\ link \in [Objects -> [trailer : Objects \union {None},
                             cab : Objects \union {None}, detaching : BOOLEAN]]
    /\ death \in [Objects -> {"alive", "dying", "dead"}]
    /\ respawning \subseteq pool
    /\ streamedFor \in [Objects -> SUBSET players]
    /\ numStreamed \in [Players -> Int]
    /\ players \subseteq Players
    /\ state \in [Players -> States]
    /\ ride \in [Players -> [vehicle : Objects \union {None}, seat : Seats]]
    /\ at \in Positions

\* No vehicle points to a player that has left, that sits in another vehicle
\* or in two of its seats: the driver and the passengers of a vehicle are
\* players whose own data names it, through enters, exits, deaths, respawns
\* and releases from every callback.  A released vehicle that is still locked
\* is of no account.
OccupantsKnown == \A v \in Objects \ doomed :
    /\ occ[v].driver # None => ride[occ[v].driver].vehicle = v
    /\ \A p \in occ[v].passengers : ride[p].vehicle = v
    /\ occ[v].driver \notin occ[v].passengers
    /\ ({occ[v].driver} \ {None}) \union occ[v].passengers \subseteq players

\* "Returns nullptr if they aren't in a vehicle": what a player's data names
\* is a vehicle of the pool, never one that was freed.
VehicleAlive == \A p \in Players : ride[p].vehicle \in pool \union {None}

\* numStreamed is the number of vehicles streamed in for the player and within
\* the limit, so that vehicles that respawn or are released give it back.
StreamedExact == \A p \in players :
    /\ numStreamed[p] = Cardinality({v \in Usable : p \in streamedFor[v]})
    /\ numStreamed[p] <= MaxStreamed

\* A vehicle that respawned accepts no packet until a client is shown it anew:
\* nobody has it streamed in while it is respawning.
RespawnedUnseen == \A v \in respawning : streamedFor[v] = {}

\* Every cab's trailer has it for a cab, and every trailer's cab has it for a
\* trailer.
Mutual == \A v \in pool :
    /\ link[v].trailer # None =>
         link[v].trailer \in pool /\ link[link[v].trailer].cab = v
    /\ link[v].cab # None =>
         link[v].cab \in pool /\ link[link[v].cab].trailer = v

\* The pointers between cab and trailer are torn in two places only: when one
\* of the two respawns, and when a vehicle that has a trailer, or a cab, is
\* given another.  Releases, detachments and every packet keep them mutual.
RespawnsLinked(v) == link[v] # Alone /\ link'[v] = Alone /\ v \in respawning'
GivenAnother(v) ==
    \/ link[v].trailer # None /\ link'[v].trailer \notin {None, link[v].trailer}
    \/ link[v].cab # None /\ link'[v].cab \notin {None, link[v].cab}
LinksTear ==
    [][Mutual => \/ Mutual'
                 \/ \E v \in pool : RespawnsLinked(v) \/ GivenAnother(v)]_vars

\* "Get the current vehicle's cab": getCab returns null or a vehicle.
CabInPool == \A v \in pool : link[v].cab \in pool \union {None}

-----------------------------------------------------------------------------
(* For instances: nothing orders players, or vehicles.                      *)
Symmetry == Permutations(Players) \union Permutations(Objects)
=============================================================================
