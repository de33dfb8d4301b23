------------------------------ MODULE Pickups ------------------------------
(***************************************************************************)
(* Pickups: which are streamed in for whom, under which of the client's    *)
(* ids, which are hidden, and what a client that steps on one is answered: *)
(* src/Server/Components/Pickups with the natives that hand out the ids    *)
(* scripts know pickups by.                                                *)
(***************************************************************************)
EXTENDS ClientScreens

CONSTANTS
    Players,    \* players that may be connected
    Things,     \* pickup objects
    ClientIds,  \* 0 .. PICKUP_POOL_SIZE - 1, on a client
    Server      \* the owner of the pickups that are not per-player

VARIABLES
    players,    \* the players that have a PlayerPickupData
    pool,       \* the pickups in the storage
    doomed,     \* those released while locked
    pickup,     \* of each pickup: streamedFor_, hiddenFor_, isStatic_, owner
    client,     \* of each player: clientIDs_, and what its client was sent
    legacy,     \* the one legacy id of each space, and the pickup it leads to
    sent,       \* the client id in each player's unread pick-up RPC
    at          \* the pickup whose callback runs

vars == <<players, pool, doomed, pickup, client, legacy, sent, at>>

Spaces == Players \union {Server}
Fresh  == [streamed |-> {}, hidden |-> {}, static |-> FALSE, owner |-> Server]
NoData == Blank(Things, ClientIds)

Init ==
    /\ players = {}
    /\ pool = {}
    /\ doomed = {}
    /\ pickup = [z \in Things |-> Fresh]
    /\ client = [p \in Players |-> NoData]
    /\ legacy = [s \in Spaces |-> None]
    /\ sent = [p \in Players |-> None]
    /\ at = None

-----------------------------------------------------------------------------
StreamInForClient(c, z)  == Send(c, z)
StreamOutForClient(c, z) == Withdraw(c, z)

Hidden(z, p) == IF pickup[z].owner = Server THEN p \in pickup[z].hidden
                ELSE pickup[z].owner # p

Destreamed(z) == [p \in Players |-> IF p \in pickup[z].streamed
                    THEN StreamOutForClient(client[p], z) ELSE client[p]]
Restreamed(z) == [p \in Players |-> IF p \in pickup[z].streamed
                    THEN StreamInForClient(StreamOutForClient(client[p], z), z)
                    ELSE client[p]]

-----------------------------------------------------------------------------
(* Scripts, between handlers and in onPlayerPickUpPickup                    *)

Usable == pool \ doomed

\* CreatePickup, AddStaticPickup and CreatePlayerPickup, in the space s.
Create(z, s, static) ==
    /\ z \notin pool
    /\ s \in players \union {Server}
    /\ static => s = Server
    /\ legacy[s] = None
    /\ pool' = pool \union {z}
    /\ pickup' = [pickup EXCEPT ![z] = [Fresh EXCEPT !.static = static,
                                                     !.owner = s]]
    /\ legacy' = [legacy EXCEPT ![s] = z]
    /\ UNCHANGED <<players, doomed, client, sent, at>>

\* release refuses a static pickup.
Released(z) ==
    IF pickup[z].static THEN UNCHANGED <<pool, doomed, pickup, client>>
    ELSE /\ client' = Destreamed(z)
         /\ IF z = at
            THEN doomed' = doomed \union {z} /\ UNCHANGED <<pool, pickup>>
            ELSE /\ pool' = pool \ {z}
                 /\ pickup' = [pickup EXCEPT ![z] = Fresh]
                 /\ UNCHANGED doomed

\* DestroyPickup and DestroyPlayerPickup: the legacy id goes in any case.
Destroy(s) ==
    /\ legacy[s] # None
    /\ Released(legacy[s])
    /\ legacy' = [legacy EXCEPT ![s] = None]
    /\ UNCHANGED <<players, sent, at>>

\* The setters of the position, the model, the type and the virtual world.
SetAndRestream(z) ==
    /\ z \in Usable
    /\ client' = Restreamed(z)
    /\ UNCHANGED <<players, pool, doomed, pickup, legacy, sent, at>>

\* setPickupHiddenForPlayer does nothing for a per-player pickup.  The client
\* is told by the next streaming pass.
SetHidden(z, p, hidden) ==
    /\ z \in Usable
    /\ p \in players
    /\ pickup[z].owner = Server
    /\ pickup' = [pickup EXCEPT ![z].hidden = IF hidden THEN @ \union {p}
                                              ELSE @ \ {p}]
    /\ UNCHANGED <<players, pool, doomed, client, legacy, sent, at>>

-----------------------------------------------------------------------------
(* Handlers                                                                 *)

\* The streaming pass of onPlayerUpdate, at one pickup: near is by position
\* and virtual world.  No callback runs in it.
StreamPickup(p, z, near) ==
    /\ at = None
    /\ p \in players
    /\ z \in pool
    /\ LET should == near /\ ~Hidden(z, p)
       IN  /\ should # (p \in pickup[z].streamed)
           /\ pickup' = [pickup EXCEPT ![z].streamed =
                           IF should THEN @ \union {p} ELSE @ \ {p}]
           /\ client' = [client EXCEPT ![p] =
                           IF should THEN StreamInForClient(@, z)
                           ELSE StreamOutForClient(@, z)]
    /\ UNCHANGED <<players, pool, doomed, legacy, sent, at>>

\* A client sends the id under which it shows the pickup it stepped on.
ClientPicksUp(p, i) ==
    /\ p \in players
    /\ sent[p] = None
    /\ client[p].screen[i] # None
    /\ sent' = [sent EXCEPT ![p] = i]
    /\ UNCHANGED <<players, pool, doomed, pickup, client, legacy, at>>

\* The RPC is read later: its id may lead nowhere, or to another pickup.
OnPlayerPickUpPickup(p) ==
    /\ at = None
    /\ sent[p] # None
    /\ sent' = [sent EXCEPT ![p] = None]
    /\ IF \E z \in pool : client[p].id[z] = sent[p]
       THEN at' = CHOOSE z \in pool : client[p].id[z] = sent[p]
       ELSE UNCHANGED at
    /\ UNCHANGED <<players, pool, doomed, pickup, client, legacy>>

\* The callback returns: the lock is dropped.
Return ==
    /\ at # None
    /\ at' = None
    /\ pool' = pool \ doomed
    /\ pickup' = [z \in Things |-> IF z \in doomed THEN Fresh ELSE pickup[z]]
    /\ doomed' = {}
    /\ UNCHANGED <<players, client, legacy, sent>>

-----------------------------------------------------------------------------
(* Players come and go                                                      *)

Connect(p) ==
    /\ at = None
    /\ p \notin players
    /\ players' = players \union {p}
    /\ UNCHANGED <<pool, doomed, pickup, client, legacy, sent, at>>

Own(p) == {z \in pool : pickup[z].owner = p}
RemoveFor(z, p) == [pickup[z] EXCEPT !.streamed = @ \ {p}, !.hidden = @ \ {p}]

\* onPoolEntryDestroyed: the player's own pickups are released, the others
\* forget it.  Its data goes with it.
Disconnect(p) ==
    /\ at = None
    /\ p \in players
    /\ players' = players \ {p}
    /\ pool' = pool \ Own(p)
    /\ pickup' = [z \in Things |-> IF z \in Own(p) THEN Fresh ELSE RemoveFor(z, p)]
    /\ client' = [q \in Players |-> IF q = p THEN NoData
                                    ELSE WithdrawAll(client[q], Own(p))]
    /\ legacy' = [legacy EXCEPT ![p] = None]
    /\ sent' = [sent EXCEPT ![p] = None]
    /\ UNCHANGED <<doomed, at>>

\* resetAll: clients start anew, the component and the players' data are reset.
Reset ==
    /\ at = None
    /\ pool' = {}
    /\ pickup' = [z \in Things |-> Fresh]
    /\ client' = [p \in Players |-> NoData]
    /\ legacy' = [s \in Spaces |-> None]
    /\ UNCHANGED <<players, doomed, sent, at>>

Next ==
    \/ Return \/ Reset
    \/ \E s \in Spaces : Destroy(s)
    \/ \E p \in Players :
         \/ Connect(p) \/ Disconnect(p) \/ OnPlayerPickUpPickup(p)
         \/ \E i \in ClientIds : ClientPicksUp(p, i)
    \/ \E z \in Things :
         \/ SetAndRestream(z)
         \/ \E b \in BOOLEAN :
              \/ \E s \in Spaces : Create(z, s, b)
              \/ \E p \in Players : SetHidden(z, p, b) \/ StreamPickup(p, z, b)

Spec == Init /\ [][Next]_vars

-----------------------------------------------------------------------------
(* Properties                                                               *)

TypeOK ==
    /\ players \subseteq Players
    /\ pool \subseteq Things
    /\ doomed \subseteq pool
    /\ pickup \in [Things -> [streamed : SUBSET Players, hidden : SUBSET Players,
                              static : BOOLEAN, owner : Spaces]]
    /\ client \in [Players -> [id : [Things -> ClientIds \union {None}],
                               screen : [ClientIds -> Things \union {None}]]]
    /\ legacy \in [Spaces -> Things \union {None}]
    /\ sent \in [Players -> ClientIds \union {None}]
    /\ at \in Things \union {None}

\* What a client shows is what the server has it down for: under each id the
\* pickup the id was given to, which is in the pool and streamed in for the
\* player.
ViewExact == \A p \in players :
    /\ Agrees(client[p])
    /\ \A z \in Things :
         client[p].id[z] # None => z \in pool /\ p \in pickup[z].streamed

\* Nothing is kept of a player that left.
NoStale == \A z \in pool :
    /\ pickup[z].streamed \union pickup[z].hidden \subseteq players
    /\ pickup[z].owner \in players \union {Server}

\* Scripts can name every pickup but the static ones they gave up, by one
\* legacy id of its owner's, and no legacy id leads to one that was released.
IdsExact ==
    /\ \A z \in Usable : pickup[z].static \/ legacy[pickup[z].owner] = z
    /\ \A s \in Spaces : legacy[s] \in Usable \union {None}
=============================================================================
