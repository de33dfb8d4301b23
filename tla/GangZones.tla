----------------------------- MODULE GangZones -----------------------------
(***************************************************************************)
(* Gang zones: who is shown which, under which of the client's ids, and    *)
(* who is inside: src/Server/Components/GangZones, with the natives that   *)
(* hand out the ids scripts know zones by.                                 *)
(*                                                                         *)
(* A zone has up to three names: its id in the storage, a legacy id in the *)
(* space of the server or of one player, and an id on each client that is  *)
(* shown it, taken from a small space of the client's own.                 *)
(***************************************************************************)
EXTENDS ClientScreens

CONSTANTS
    Players,    \* players that may be connected
    Zones,      \* zone objects
    ClientIds,  \* 0 .. GANG_ZONE_POOL_SIZE - 1, on a client
    Server,     \* the owner of the zones that are not per-player
    Careful     \* callbacks leave alone what the handler will visit next: the
                \* list it walks, and the zones that a player has entered

VARIABLES
    players,    \* the players that have a PlayerGangZoneData
    pool,       \* the zones in the storage
    doomed,     \* those released while locked
    zone,       \* of each zone: shownFor_, flashingFor_, playersInside_, owner
    client,     \* of each player: clientIDs_, and what its client was sent
    legacy,     \* the one legacy id of each space, and the zone it leads to
    checking,   \* checkingList
    at          \* where the main thread is

vars == <<players, pool, doomed, zone, client, legacy, checking, at>>

Spaces == Players \union {Server}
Fresh  == [shown |-> {}, flashing |-> {}, inside |-> {}, owner |-> Server]
NoData == [id |-> Blank(Zones, ClientIds).id,
           screen |-> Blank(Zones, ClientIds).screen, flash |-> {}]
Idle   == [op |-> "idle", who |-> None, zone |-> None, todo |-> {},
           entered |-> {}]

Init ==
    /\ players = {}
    /\ pool = {}
    /\ doomed = {}
    /\ zone = [z \in Zones |-> Fresh]
    /\ client = [p \in Players |-> NoData]
    /\ legacy = [s \in Spaces |-> None]
    /\ checking = {}
    /\ at = Idle

-----------------------------------------------------------------------------
(* What a client c is sent of zone z                                        *)

\* A zone that is sent does not flash.
ShowForClient(c, z) ==
    LET d == Send(c, z)
    IN  IF d.id[z] = None THEN c ELSE [d EXCEPT !.flash = @ \ {z}]
HideForClient(c, z) == [Withdraw(c, z) EXCEPT !.flash = @ \ {z}]

\* Wrong: the player stays inside.
RemoveShown(z, p) == [zone[z] EXCEPT !.shown = @ \ {p}, !.flashing = @ \ {p}]

RemoveFor(z, p) == [zone[z] EXCEPT !.shown = @ \ {p}, !.flashing = @ \ {p},
                                   !.inside = @ \ {p}]

\* What becomes of the clients when z is hidden, or sent again, for everyone
\* that it is shown to.
Destreamed(z) == [p \in Players |-> IF p \in zone[z].shown
                    THEN HideForClient(client[p], z) ELSE client[p]]
Restreamed(z) == [p \in Players |-> IF p \in zone[z].shown
                    THEN ShowForClient(HideForClient(client[p], z), z)
                    ELSE client[p]]

-----------------------------------------------------------------------------
(* Scripts, between handlers and in the callbacks of zone at.zone           *)

Calls  == at.op = "idle" \/ at.zone # None
Usable == pool \ doomed

\* GangZoneCreate and CreatePlayerGangZone, in the space s.
Create(z, s) ==
    /\ Calls
    /\ z \notin pool
    /\ s \in players \union {Server}
    /\ legacy[s] = None
    /\ pool' = pool \union {z}
    /\ zone' = [zone EXCEPT ![z] = [Fresh EXCEPT !.owner = s]]
    /\ legacy' = [legacy EXCEPT ![s] = z]
    /\ UNCHANGED <<players, doomed, client, checking, at>>

\* Wrong: the zone stays on the checking list.
ReleasedChecked(z) ==
    /\ client' = Destreamed(z)
    /\ IF z = at.zone
       THEN doomed' = doomed \union {z} /\ UNCHANGED <<pool, zone, checking>>
       ELSE /\ pool' = pool \ {z}
            /\ zone' = [zone EXCEPT ![z] = Fresh]
            /\ UNCHANGED <<doomed, checking>>

\* release: off every screen at once, and freed now or when it is unlocked.
Released(z) ==
    /\ checking' = checking \ {z}
    /\ client' = Destreamed(z)
    /\ IF z = at.zone
       THEN doomed' = doomed \union {z} /\ UNCHANGED <<pool, zone>>
       ELSE /\ pool' = pool \ {z}
            /\ zone' = [zone EXCEPT ![z] = Fresh]
            /\ UNCHANGED doomed

Walking == at.op \in {"check", "click"}

\* A hash set that changes while it is walked: what is left of the walk may
\* repeat or miss any of its zones.
WalkedOn ==
    IF Walking /\ checking' # checking
    THEN \E left \in SUBSET checking' : at' = [at EXCEPT !.todo = left]
    ELSE UNCHANGED at

\* GangZoneDestroy and PlayerGangZoneDestroy, of the zone a legacy id leads to.
Destroy(s) ==
    /\ Calls
    /\ LET z == legacy[s]
       IN  /\ z \in Usable
           /\ Careful => z \notin at.entered /\ (Walking => z \notin checking)
           /\ Released(z)
    /\ legacy' = [legacy EXCEPT ![s] = None]
    /\ WalkedOn
    /\ UNCHANGED players

ShowForPlayer(z, p) ==
    /\ Calls
    /\ z \in Usable
    /\ p \in players
    /\ zone' = [zone EXCEPT ![z].shown = @ \union {p}, ![z].flashing = @ \ {p}]
    /\ client' = [client EXCEPT ![p] = ShowForClient(@, z)]
    /\ UNCHANGED <<players, pool, doomed, legacy, checking, at>>

HideForPlayer(z, p) ==
    /\ Calls
    /\ z \in Usable
    /\ p \in players
    /\ Careful => ~(p = at.who /\ z \in at.entered)
    /\ zone' = [zone EXCEPT ![z] = RemoveFor(z, p)]
    /\ client' = [client EXCEPT ![p] = HideForClient(@, z)]
    /\ UNCHANGED <<players, pool, doomed, legacy, checking, at>>

\* flashForPlayer: also for a zone that the player is not shown.
FlashForPlayer(z, p) ==
    /\ Calls
    /\ z \in Usable
    /\ p \in players
    /\ zone' = [zone EXCEPT ![z].flashing = @ \union {p}]
    /\ client' = IF client[p].id[z] = None THEN client
                 ELSE [client EXCEPT ![p].flash = @ \union {z}]
    /\ UNCHANGED <<players, pool, doomed, legacy, checking, at>>

StopFlashForPlayer(z, p) ==
    /\ Calls
    /\ z \in Usable
    /\ p \in players
    /\ zone' = [zone EXCEPT ![z].flashing = @ \ {p}]
    /\ client' = [client EXCEPT ![p].flash = @ \ {z}]
    /\ UNCHANGED <<players, pool, doomed, legacy, checking, at>>

\* A zone that moves is hidden and shown anew, and no longer flashes there.
SetPosition(z) ==
    /\ Calls
    /\ z \in Usable
    /\ client' = Restreamed(z)
    /\ UNCHANGED <<players, pool, doomed, zone, legacy, checking, at>>

UseGangZoneCheck(z, enable) ==
    /\ Calls
    /\ Careful => ~Walking
    /\ z \in Usable
    /\ checking' = IF enable THEN checking \union {z} ELSE checking \ {z}
    /\ WalkedOn
    /\ UNCHANGED <<players, pool, doomed, zone, client, legacy>>

-----------------------------------------------------------------------------
(* onPlayerUpdate: zones that were left are reported first, those entered   *)
(* are collected and reported after.  onPlayerClickMap.                     *)

Handle(op, p) ==
    /\ at = Idle
    /\ p \in players
    /\ at' = [Idle EXCEPT !.op = op, !.who = p, !.todo = checking]
    /\ UNCHANGED <<players, pool, doomed, zone, client, legacy, checking>>

CheckZone(z, within) ==
    /\ at.op = "check"
    /\ at.zone = None
    /\ z \in at.todo
    /\ LET shown == at.who \in zone[z].shown
           was   == at.who \in zone[z].inside
           next  == [at EXCEPT !.todo = @ \ {z}]
       IN  IF shown /\ within /\ ~was
           THEN /\ at' = [next EXCEPT !.entered = @ \union {z}]
                /\ UNCHANGED zone
           ELSE IF shown /\ ~within /\ was
           THEN /\ at' = [next EXCEPT !.zone = z]
                /\ zone' = [zone EXCEPT ![z].inside = @ \ {at.who}]
           ELSE at' = next /\ UNCHANGED zone
    /\ UNCHANGED <<players, pool, doomed, client, legacy, checking>>

EnterZone(z) ==
    /\ at.op = "check"
    /\ at.zone = None
    /\ at.todo = {}
    /\ z \in at.entered
    /\ at' = [at EXCEPT !.op = "enter", !.zone = z, !.entered = @ \ {z}]
    /\ zone' = [zone EXCEPT ![z].inside = @ \union {at.who}]
    /\ UNCHANGED <<players, pool, doomed, client, legacy, checking>>

ClickZone(z, within) ==
    /\ at.op = "click"
    /\ at.zone = None
    /\ z \in at.todo
    /\ at' = [at EXCEPT !.todo = @ \ {z},
                        !.zone = IF within /\ at.who \in zone[z].shown
                                 THEN z ELSE None]
    /\ UNCHANGED <<players, pool, doomed, zone, client, legacy, checking>>

\* The callback returns: the lock is dropped.
Return ==
    /\ at.zone # None
    /\ at' = [at EXCEPT !.zone = None,
                        !.op = IF at.op = "enter" THEN "check" ELSE at.op]
    /\ pool' = pool \ doomed
    /\ zone' = [z \in Zones |-> IF z \in doomed THEN Fresh ELSE zone[z]]
    /\ doomed' = {}
    /\ UNCHANGED <<players, client, legacy, checking>>

EndHandler ==
    /\ at.op \in {"check", "click"}
    /\ at.zone = None
    /\ at.todo = {}
    /\ at.entered = {}
    /\ at' = Idle
    /\ UNCHANGED <<players, pool, doomed, zone, client, legacy, checking>>

-----------------------------------------------------------------------------
(* Players come and go                                                      *)

Connect(p) ==
    /\ at = Idle
    /\ p \notin players
    /\ players' = players \union {p}
    /\ UNCHANGED <<pool, doomed, zone, client, legacy, checking, at>>

\* onPoolEntryDestroyed: the player's own zones are released, for whoever else
\* they were shown to; the others forget it.  Its data goes with it.
Own(p) == {z \in pool : zone[z].owner = p}
HiddenWith(p, q) == [WithdrawAll(client[q], Own(p)) EXCEPT !.flash = @ \ Own(p)]

Disconnect(p) ==
    /\ at = Idle
    /\ p \in players
    /\ players' = players \ {p}
    /\ pool' = pool \ Own(p)
    /\ checking' = checking \ Own(p)
    /\ zone' = [z \in Zones |-> IF z \in Own(p) THEN Fresh ELSE RemoveFor(z, p)]
    /\ client' = [q \in Players |-> IF q = p THEN NoData ELSE HiddenWith(p, q)]
    /\ legacy' = [legacy EXCEPT ![p] = None]
    /\ UNCHANGED <<doomed, at>>

\* resetAll: clients start anew, the component and the players' data are reset.
Reset ==
    /\ at = Idle
    /\ pool' = {}
    /\ zone' = [z \in Zones |-> Fresh]
    /\ client' = [p \in Players |-> NoData]
    /\ legacy' = [s \in Spaces |-> None]
    /\ checking' = {}
    /\ UNCHANGED <<players, doomed, at>>

Next ==
    \/ Return \/ EndHandler \/ Reset
    \/ \E s \in Spaces : Destroy(s)
    \/ \E p \in Players :
         Connect(p) \/ Disconnect(p) \/ (\E op \in {"check", "click"} : Handle(op, p))
    \/ \E z \in Zones :
         \/ SetPosition(z) \/ EnterZone(z)
         \/ \E b \in BOOLEAN :
              UseGangZoneCheck(z, b) \/ CheckZone(z, b) \/ ClickZone(z, b)
         \/ \E s \in Spaces : Create(z, s)
         \/ \E p \in Players :
              \/ ShowForPlayer(z, p) \/ HideForPlayer(z, p)
              \/ FlashForPlayer(z, p) \/ StopFlashForPlayer(z, p)

Spec == Init /\ [][Next]_vars

-----------------------------------------------------------------------------
(* Properties                                                               *)

TypeOK ==
    /\ players \subseteq Players
    /\ pool \subseteq Zones
    /\ doomed \subseteq pool
    /\ zone \in [Zones -> [shown : SUBSET Players, flashing : SUBSET Players,
                           inside : SUBSET Players, owner : Spaces]]
    /\ client \in [Players -> [id : [Zones -> ClientIds \union {None}],
                               screen : [ClientIds -> Zones \union {None}],
                               flash : SUBSET Zones]]
    /\ legacy \in [Spaces -> Zones \union {None}]
    /\ checking \subseteq pool
    /\ at \in [op : {"idle", "check", "enter", "click"},
               who : Players \union {None}, zone : Zones \union {None},
               todo : SUBSET Zones, entered : SUBSET Zones]

\* What a client has on its screen is what the server has it down for: under
\* each id the zone that id was given to, which is in the pool and is shown to
\* the player; nothing flashes that the server takes to be still.
ViewExact == \A p \in players :
    /\ Agrees(client[p])
    /\ \A z \in Zones : client[p].id[z] # None => z \in pool /\ p \in zone[z].shown
    /\ \A z \in client[p].flash : client[p].id[z] # None /\ p \in zone[z].flashing

\* Nothing is kept of a player that left, which the next player with its id
\* would inherit.
NoStale == \A z \in pool :
    /\ zone[z].shown \union zone[z].flashing \union zone[z].inside \subseteq players
    /\ zone[z].owner \in players \union {Server}

\* Scripts can name every zone there is, by one legacy id of its owner's, and
\* no legacy id leads to a zone that was released.
IdsExact ==
    /\ \A z \in Usable : legacy[zone[z].owner] = z
    /\ \A s \in Spaces : legacy[s] \in Usable \union {None}

\* Only a player that is shown a zone is inside it, so that it can leave it.
InsideShown == \A z \in pool : zone[z].inside \subseteq zone[z].shown
=============================================================================
