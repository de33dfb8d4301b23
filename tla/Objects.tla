------------------------------ MODULE Objects ------------------------------
(***************************************************************************)
(* The ids that global and per-player objects share, and what the clients  *)
(* show under them: src/Server/Components/Objects.                         *)
(*                                                                         *)
(* An id names one global object, or an object of each of several players. *)
(* The component counts the per-player objects of each id and lists the    *)
(* ids that have some.                                                     *)
(***************************************************************************)
EXTENDS Integers, FiniteSets

CONSTANTS
    Players,    \* players that may be connected
    Things,     \* object entities
    ObjectIds,  \* 1 .. OBJECT_POOL_SIZE - 1
    Server,     \* the owner of the global objects
    Careful,    \* no restart while ids are listed and players share them
    None

VARIABLES
    players,   \* the players that have a PlayerObjectData
    streamed,  \* those with streamedGlobalObjects_
    pool,      \* the objects in the storages
    doomed,    \* those released while locked
    object,    \* of each object: its storage's owner and its id
    counter,   \* isPlayerObject
    slots,     \* slotsUsedByPlayerObjects
    screen,    \* what each client shows under each id
    grouping,  \* game.group_player_objects
    at         \* the object whose callback runs

vars == <<players, streamed, pool, doomed, object, counter, slots, screen,
          grouping, at>>

Fresh  == [owner |-> Server, id |-> None]
NoView == [i \in ObjectIds |-> None]

Init ==
    /\ players = {}
    /\ streamed = {}
    /\ pool = {}
    /\ doomed = {}
    /\ object = [o \in Things |-> Fresh]
    /\ counter = [i \in ObjectIds |-> 0]
    /\ slots = {}
    /\ screen = [p \in Players |-> NoView]
    /\ grouping \in BOOLEAN
    /\ at = None

-----------------------------------------------------------------------------
Usable == pool \ doomed
Storage(s) == {o \in pool : object[o].owner = s}
Ids(O)     == {object[o].id : o \in O}

\* createForPlayer and destroyForPlayer of an object with the id i.
Shown(view, players_, i, o) ==
    [p \in Players |-> IF p \in players_ THEN [view[p] EXCEPT ![i] = o]
                       ELSE view[p]]

\* What a client is sent of the global objects, over what it shows.
Catalogue(view) == [i \in ObjectIds |->
    IF \E o \in Storage(Server) \ doomed : object[o].id = i
    THEN CHOOSE o \in Storage(Server) \ doomed : object[o].id = i ELSE view[i]]

IncrementPlayerCounter(i) ==
    /\ counter' = [counter EXCEPT ![i] = @ + 1]
    /\ slots' = IF counter[i] = 0 THEN slots \union {i} ELSE slots

DecrementPlayerCounter(i) ==
    /\ counter' = [counter EXCEPT ![i] = @ - 1]
    /\ slots' = IF counter[i] = 1 THEN slots \ {i} ELSE slots

-----------------------------------------------------------------------------
(* Scripts, between handlers and in the callbacks                           *)

Place(o, s, i) ==
    /\ pool' = pool \union {o}
    /\ object' = [object EXCEPT ![o] = [owner |-> s, id |-> i]]
    /\ screen' = Shown(screen, IF s = Server THEN players ELSE {s}, i, o)
    /\ UNCHANGED <<players, streamed, doomed, grouping, at>>

\* The lowest of the ids I.
LowestId(I) == CHOOSE i \in I : \A j \in I : i <= j

\* Wrong: the counters are not consulted.
AnyGlobalIds == ObjectIds \ Ids(Storage(Server))

\* ObjectComponent::create: the lowest id that no player object uses.
GlobalIds == {i \in ObjectIds \ Ids(Storage(Server)) : counter[i] = 0}

Create(o) ==
    /\ o \notin pool
    /\ GlobalIds # {}
    /\ Place(o, Server, LowestId(GlobalIds))
    /\ UNCHANGED <<counter, slots>>

\* PlayerObjectData::create: when grouped, an id of other players' objects
\* first; else the lowest that no global object has.
SharedIds(p) == IF grouping THEN slots \ Ids(Storage(p)) ELSE {}
OwnIds(p)    == (ObjectIds \ Ids(Storage(p))) \ Ids(Storage(Server) \ doomed)

CreatePlayerObject(o, p) ==
    /\ o \notin pool
    /\ p \in players
    /\ SharedIds(p) \union OwnIds(p) # {}
    /\ \E i \in IF SharedIds(p) # {} THEN SharedIds(p) ELSE {LowestId(OwnIds(p))} :
         /\ Place(o, p, i)
         /\ IncrementPlayerCounter(i)

\* The release of either storage: the client is told at once, the object goes
\* when it is not locked.
Release(o) ==
    /\ o \in Usable
    /\ LET s == object[o].owner
       IN  /\ screen' = Shown(screen, IF s = Server THEN players ELSE {s},
                              object[o].id, None)
           /\ IF s = Server THEN UNCHANGED <<counter, slots>>
              ELSE DecrementPlayerCounter(object[o].id)
    /\ IF o = at THEN doomed' = doomed \union {o} /\ UNCHANGED <<pool, object>>
       ELSE /\ pool' = pool \ {o}
            /\ object' = [object EXCEPT ![o] = Fresh]
            /\ UNCHANGED doomed
    /\ UNCHANGED <<players, streamed, grouping, at>>

-----------------------------------------------------------------------------
(* Handlers                                                                 *)

\* Selections, edits and the end of a movement lock the object and run
\* scripts: a global object for anyone, a player's own for the player.
BeginCallback(p, o) ==
    /\ at = None
    /\ p \in players
    /\ o \in pool
    /\ object[o].owner \in {Server, p}
    /\ at' = o
    /\ UNCHANGED <<players, streamed, pool, doomed, object, counter, slots,
                   screen, grouping>>

Return ==
    /\ at # None
    /\ at' = None
    /\ pool' = pool \ doomed
    /\ object' = [o \in Things |-> IF o \in doomed THEN Fresh ELSE object[o]]
    /\ doomed' = {}
    /\ UNCHANGED <<players, streamed, counter, slots, screen, grouping>>

-----------------------------------------------------------------------------
(* Players come and go                                                      *)

\* A client that downloads custom models first is sent the objects later.
Connect(p, downloads) ==
    /\ at = None
    /\ p \notin players
    /\ players' = players \union {p}
    /\ IF downloads THEN UNCHANGED <<streamed, screen>>
       ELSE /\ streamed' = streamed \union {p}
            /\ screen' = [screen EXCEPT ![p] = Catalogue(@)]
    /\ UNCHANGED <<pool, doomed, object, counter, slots, grouping, at>>

FinishedDownloading(p) ==
    /\ at = None
    /\ p \in players \ streamed
    /\ streamed' = streamed \union {p}
    /\ screen' = [screen EXCEPT ![p] = Catalogue(@)]
    /\ UNCHANGED <<players, pool, doomed, object, counter, slots, grouping, at>>

\* freeExtension of the player's data: every object of the player's counts
\* one less under its id.
Disconnect(p) ==
    /\ at = None
    /\ p \in players
    /\ LET left == [i \in ObjectIds |->
                      counter[i] - Cardinality({o \in Storage(p) : object[o].id = i})]
       IN  /\ counter' = left
           /\ slots' = {i \in slots : left[i] # 0 \/ i \notin Ids(Storage(p))}
    /\ players' = players \ {p}
    /\ streamed' = streamed \ {p}
    /\ pool' = pool \ Storage(p)
    /\ object' = [o \in Things |-> IF o \in Storage(p) THEN Fresh ELSE object[o]]
    /\ screen' = [screen EXCEPT ![p] = NoView]
    /\ UNCHANGED <<doomed, grouping, at>>

\* resetAll: the counters are cleared, and the storages; the list of the ids
\* is not.
Reset ==
    /\ at = None
    /\ Careful => ~grouping \/ slots = {}
    /\ pool' = {}
    /\ object' = [o \in Things |-> Fresh]
    /\ counter' = [i \in ObjectIds |-> 0]
    /\ streamed' = {}
    /\ screen' = [p \in Players |-> NoView]
    /\ UNCHANGED <<players, doomed, slots, grouping, at>>

Next ==
    \/ Return \/ Reset
    \/ \E o \in Things :
         \/ Create(o) \/ Release(o)
         \/ \E p \in Players : CreatePlayerObject(o, p) \/ BeginCallback(p, o)
    \/ \E p \in Players :
         \/ FinishedDownloading(p) \/ Disconnect(p)
         \/ \E b \in BOOLEAN : Connect(p, b)

Spec == Init /\ [][Next]_vars

-----------------------------------------------------------------------------
(* Properties                                                               *)

TypeOK ==
    /\ streamed \subseteq players /\ players \subseteq Players
    /\ doomed \subseteq pool /\ pool \subseteq Things
    /\ object \in [Things -> [owner : Players \union {Server},
                              id : ObjectIds \union {None}]]
    /\ counter \in [ObjectIds -> 0 .. Cardinality(Things)]
    /\ slots \subseteq ObjectIds
    /\ screen \in [Players -> [ObjectIds -> Things \union {None}]]
    /\ at \in Things \union {None}

\* No id is a global object's and a player's at once: a client shows one
\* object under an id.
IdsApart == \A o \in Usable : object[o].owner # Server =>
    object[o].id \notin Ids(Storage(Server) \ doomed)

\* A client shows the objects that the server has it down for: its own and,
\* once it has what it downloads, every global one.
ViewExact == \A p \in players, i \in ObjectIds :
    LET there == {o \in Usable : object[o].id = i /\ object[o].owner \in {Server, p}}
    IN  /\ screen[p][i] \in there \union {None}
        /\ \A o \in there : o # screen[p][i] =>
             object[o].owner = Server /\ p \notin streamed

\* Each id counts the players that have an object of it, and an id that
\* counts some is listed.
CountExact ==
    /\ \A i \in ObjectIds : counter[i] =
         Cardinality({o \in Usable : object[o].owner # Server /\ object[o].id = i})
    /\ {i \in ObjectIds : counter[i] # 0} \subseteq slots
    /\ grouping /\ Careful => \A i \in slots : counter[i] # 0

\* Nothing is kept of a player that left.
NoStale == \A o \in pool : object[o].owner \in players \union {Server}
=============================================================================
