------------------------------ MODULE Spawning ------------------------------
(***************************************************************************)
(* How a player gets into the game: the class it asks for, the permission  *)
(* to spawn, the spawn its client reports, its death, and spectating,      *)
(* which it leaves by a spawn.  src/Server/Components/Classes and the      *)
(* handlers of src/Server/Source/player_pool.hpp for these messages.  What *)
(* a client was told to spawn as stands beside what the server will take   *)
(* it to have spawned as.                                                  *)
(***************************************************************************)
EXTENDS Integers

CONSTANTS
    Players,       \* players that may be connected
    Looks,         \* what a class is made of: skin, place, weapons
    MaxClasses,    \* CLASS_POOL_SIZE (a bound)
    None

Default   == "defClass"
Classes   == Looks \union {Default}
ClassIds  == 0 .. MaxClasses - 1
InGame    == {"spawned", "onfoot"}  \* and seated, which the vehicles model
States    == {"none", "wasted", "spectating"} \union InGame

NoData == [cls |-> Default, default |-> TRUE]
Told   == [skin |-> Default, rest |-> Default]
Fresh  == [state |-> "none", toSpawn |-> FALSE, leavingSpec |-> FALSE,
           spectating |-> FALSE]

VARIABLES
    players,     \* the players connected
    storage,     \* the classes of the pool
    data,        \* of each player: cls and default_ of its PlayerClassData
    player,      \* state_, toSpawn_, leavingSpec_, spectating
    skin,        \* skin_ of the player, by the class it is of
    spawnInfo,   \* what its client will spawn as: the skin, and the rest
    dressed,     \* players whose skin a script set in the callback of the last
                 \* request for a class
    refused,     \* players whose last request for a class a script refused,
                 \* and whose client was told nothing since
    request      \* the handler in whose callback a script runs

own == <<storage, data, player, skin, spawnInfo, dressed, refused, request>>
vars == <<players, own>>

Init ==
    /\ players = {}
    /\ storage = [i \in ClassIds |-> None]
    /\ data = [p \in Players |-> NoData]
    /\ player = [p \in Players |-> Fresh]
    /\ skin = [p \in Players |-> Default]
    /\ spawnInfo = [p \in Players |-> Told]
    /\ dressed = {}
    /\ refused = {}
    /\ request = None

-----------------------------------------------------------------------------
Connect(p) ==
    /\ request = None
    /\ p \notin players
    /\ players' = players \union {p}
    /\ UNCHANGED own

Disconnect(p) ==
    /\ request = None
    /\ p \in players
    /\ players' = players \ {p}
    /\ data' = [data EXCEPT ![p] = NoData]
    /\ player' = [player EXCEPT ![p] = Fresh]
    /\ skin' = [skin EXCEPT ![p] = Default]
    /\ spawnInfo' = [spawnInfo EXCEPT ![p] = Told]
    /\ dressed' = dressed \ {p}
    /\ refused' = refused \ {p}
    /\ UNCHANGED <<storage, request>>

-----------------------------------------------------------------------------
(* Scripts, between handlers and in callbacks                               *)

FreeSlots == {i \in ClassIds : storage[i] = None}

\* AddPlayerClass: a full pool loses its last class to the new one.
Create(look) ==
    /\ storage' = [storage EXCEPT
         ![IF FreeSlots = {} THEN MaxClasses - 1
           ELSE CHOOSE i \in FreeSlots : \A j \in FreeSlots : i <= j] = look]
    /\ UNCHANGED <<players, data, player, skin, spawnInfo, dressed, refused,
                   request>>

\* EditPlayerClass: the players that chose it have a copy.
SetClass(i, look) ==
    /\ storage[i] # None
    /\ storage' = [storage EXCEPT ![i] = look]
    /\ UNCHANGED <<players, data, player, skin, spawnInfo, dressed, refused,
                   request>>

InfoSet(p, look) ==
    /\ data' = [data EXCEPT ![p] = [cls |-> look, default |-> FALSE]]
    /\ skin' = [skin EXCEPT ![p] = look]
    /\ spawnInfo' = [spawnInfo EXCEPT ![p] = [skin |-> look, rest |-> look]]
    /\ dressed' = dressed \ {p}
    /\ refused' = refused \ {p}

SetSpawnInfo(p, look) ==
    /\ p \in players
    /\ InfoSet(p, look)
    /\ UNCHANGED <<players, storage, player, request>>

\* SpawnPlayer: Player::spawn and the spawnPlayer of its class data.
SpawnPlayer(p) ==
    /\ p \in players
    /\ player' = [player EXCEPT ![p].spectating = FALSE, ![p].toSpawn = TRUE]
    /\ IF data[p].default THEN InfoSet(p, Default)
       ELSE UNCHANGED <<data, skin, spawnInfo, dressed, refused>>
    /\ UNCHANGED <<players, storage, request>>

InClassRequest(p) == request # None /\ request.kind = "class" /\ request.of = p

\* SetPlayerSkin: the client changes its looks at once, not those it spawns with.
SetSkin(p, look) ==
    /\ p \in players
    /\ skin' = [skin EXCEPT ![p] = look]
    /\ dressed' = IF InClassRequest(p) THEN dressed \union {p} ELSE dressed
    /\ UNCHANGED <<players, storage, data, player, spawnInfo, refused, request>>

\* SetPlayerSpectating
SetSpectating(p, on) ==
    /\ p \in players
    /\ on # player[p].spectating
    /\ player' = [player EXCEPT ![p] =
         IF on THEN [@ EXCEPT !.spectating = TRUE]
         ELSE [@ EXCEPT !.spectating = FALSE, !.toSpawn = TRUE,
                        !.leavingSpec = TRUE]]
    /\ UNCHANGED <<players, storage, data, skin, spawnInfo, dressed, refused,
                   request>>

-----------------------------------------------------------------------------
(* Handlers                                                                 *)

MayRequest(p) == player[p].leavingSpec \/ player[p].state \notin InGame

\* The request for a class: the data and the skin change before the scripts
\* are asked.
OnPlayerRequestClass(p, i) ==
    /\ request = None
    /\ p \in players
    /\ MayRequest(p)
    /\ request' = [kind |-> "class", of |-> p]
    /\ data' = [data EXCEPT ![p] =
         IF storage[i] # None THEN [cls |-> storage[i], default |-> FALSE]
         ELSE [cls |-> Default, default |-> TRUE]]
    /\ skin' = [skin EXCEPT ![p] = data'[p].cls]
    /\ dressed' = dressed \ {p}
    /\ refused' = refused \union {p}
    /\ UNCHANGED <<players, storage, player, spawnInfo>>

\* The answer to it: the class and the player's skin as the scripts left them, or
\* that there is none.  Where they differ, the spawn goes back to the class's skin.
ClassResponse(allowed) ==
    /\ request # None
    /\ request.kind = "class"
    /\ LET p == request.of
       IN  IF allowed
           THEN /\ spawnInfo' = [spawnInfo EXCEPT ![p] =
                       [skin |-> skin[p], rest |-> data[p].cls]]
                /\ refused' = refused \ {p}
           ELSE UNCHANGED <<spawnInfo, refused>>
    /\ request' = None
    /\ UNCHANGED <<players, storage, data, player, skin, dressed>>

OnPlayerRequestSpawn(p) ==
    /\ request = None
    /\ p \in players
    /\ MayRequest(p)
    /\ request' = [kind |-> "spawn", of |-> p]
    /\ UNCHANGED <<players, storage, data, player, skin, spawnInfo, dressed,
                   refused>>

SpawnResponse(allowed) ==
    /\ request # None
    /\ request.kind = "spawn"
    /\ player' = [player EXCEPT ![request.of].toSpawn = @ \/ allowed]
    /\ request' = None
    /\ UNCHANGED <<players, storage, data, skin, spawnInfo, dressed, refused>>

\* The client spawned, with spawnInfo; the server takes it for data's class and
\* gives it the skin of that.  The callback comes last.
OnPlayerSpawn(p) ==
    /\ request = None
    /\ p \in players
    /\ player[p].toSpawn
    /\ player' = [player EXCEPT ![p].state = "spawned", ![p].leavingSpec = FALSE]
    /\ skin' = [skin EXCEPT ![p] = data[p].cls]
    /\ UNCHANGED <<players, storage, data, spawnInfo, dressed, refused, request>>

\* A death is taken from a client in any state but one: the second death of one
\* life is ignored.
OnPlayerDeath(p) ==
    /\ request = None
    /\ p \in players
    /\ player[p].state # "wasted"
    /\ player' = [player EXCEPT ![p].state = "wasted"]
    /\ UNCHANGED <<players, storage, data, skin, spawnInfo, dressed, refused,
                   request>>

\* A client sends the one while it plays, the other while it spectates; that it
\* does not send the former before its spawn is the client's, not the handler's.
OnFootSync(p) ==
    /\ request = None
    /\ p \in players
    /\ player[p].state \in InGame
    /\ player' = [player EXCEPT ![p].state = "onfoot"]
    /\ UNCHANGED <<players, storage, data, skin, spawnInfo, dressed, refused,
                   request>>

OnSpectatorSync(p) ==
    /\ request = None
    /\ p \in players
    /\ player[p].spectating
    /\ player' = [player EXCEPT ![p].state = "spectating"]
    /\ UNCHANGED <<players, storage, data, skin, spawnInfo, dressed, refused,
                   request>>

\* resetAll: the storage, and the players with their data; clients start anew.
Reset ==
    /\ request = None
    /\ storage' = [i \in ClassIds |-> None]
    /\ data' = [p \in Players |-> NoData]
    /\ player' = [p \in Players |-> Fresh]
    /\ skin' = [p \in Players |-> Default]
    /\ spawnInfo' = [p \in Players |-> Told]
    /\ dressed' = {}
    /\ refused' = {}
    /\ UNCHANGED <<players, request>>

Next ==
    \/ Reset
    \/ \E b \in BOOLEAN : ClassResponse(b) \/ SpawnResponse(b)
    \/ \E look \in Looks : Create(look) \/ \E i \in ClassIds : SetClass(i, look)
    \/ \E p \in Players :
         \/ Connect(p) \/ Disconnect(p) \/ SpawnPlayer(p)
         \/ \E look \in Looks : SetSpawnInfo(p, look) \/ SetSkin(p, look)
         \/ \E on \in BOOLEAN : SetSpectating(p, on)
         \/ \E i \in ClassIds : OnPlayerRequestClass(p, i)
         \/ OnPlayerRequestSpawn(p) \/ OnPlayerSpawn(p) \/ OnPlayerDeath(p)
         \/ OnFootSync(p) \/ OnSpectatorSync(p)

Spec == Init /\ [][Next]_vars

-----------------------------------------------------------------------------
(* Properties                                                               *)

TypeOK ==
    /\ players \subseteq Players
    /\ storage \in [ClassIds -> Classes \union {None}]
    /\ data \in [Players -> [cls : Classes, default : BOOLEAN]]
    /\ player \in [Players -> [state : States, toSpawn : BOOLEAN,
                               leavingSpec : BOOLEAN, spectating : BOOLEAN]]
    /\ skin \in [Players -> Classes]
    /\ spawnInfo \in [Players -> [skin : Classes, rest : Classes]]
    /\ dressed \subseteq players
    /\ refused \subseteq players
    /\ request \in [kind : {"class", "spawn"}, of : players] \union {None}

\* A client spawns as the class the server takes it to have spawned as, unless
\* the last class it asked for was refused: the server keeps that one; or, as to
\* its skin, unless a script set that in the callback of the request.
ViewExact == \A p \in players \ refused :
    /\ spawnInfo[p].rest = data[p].cls
    /\ p \notin dressed => spawnInfo[p].skin = data[p].cls

\* Nobody plays, or spectates on its way out, without the permission to spawn.
SpawnAllowed == \A p \in players :
    player[p].state \in InGame \/ player[p].leavingSpec => player[p].toSpawn

\* default_ says that the client was not told of a class of its own.
DefaultExact == \A p \in players : data[p].default => data[p].cls = Default
=============================================================================
