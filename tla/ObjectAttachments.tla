------------------------- MODULE ObjectAttachments -------------------------
(***************************************************************************)
(* Objects attached to players and vehicles: src/Server/Components/Objects.*)
(* A client is told that an object is attached to a player only while that *)
(* player is streamed in for it, and a per-player object is not there at   *)
(* all otherwise; so the attachments to players are indexed, by sets that  *)
(* are compared by id alone: a vehicle may have the id of a player.        *)
(***************************************************************************)
EXTENDS Integers

CONSTANTS
    Players,   \* players that may be connected; also the vehicles, by id
    Things,    \* object entities
    Server,    \* the owner of the global objects
    Careful,   \* an attachment to a player is reset before another is made,
               \* and the looks of an object so attached are not changed
    None

VARIABLES
    players,  \* the connected players
    near,     \* the pairs <<q, p>> of players, q streamed in for p
    pool,     \* the objects in the storages
    owner,    \* of each object, the owner of its storage
    attach,   \* attachmentData_: the type and the id
    indexed,  \* attachedToPlayer and every attachedToPlayer_
    waiting,  \* the pairs <<o, p>> of delayedProcessing_
    skipped,  \* the objects a loop over those sets has passed over
    screen    \* what each client shows of each object

vars == <<players, near, pool, owner, attach, indexed, waiting, skipped, screen>>

Loose == [type |-> "none", id |-> None]
To(type, q) == [type |-> type, id |-> q]

Init ==
    /\ players = {}
    /\ near = {}
    /\ pool = {}
    /\ owner = [o \in Things |-> Server]
    /\ attach = [o \in Things |-> Loose]
    /\ indexed = {}
    /\ waiting = {}
    /\ skipped = {}
    /\ screen = [p \in Players |-> [o \in Things |-> None]]

-----------------------------------------------------------------------------
Audience(o) == IF owner[o] = Server THEN players ELSE {owner[o]}
Sees(near_, p, q) == p = q \/ <<q, p>> \in near_

\* Wrong: it is created whoever is streamed in.
CreateAnyway(o, a, near_, players_, p) ==
    IF owner[o] = Server /\ a.type = "player" THEN Loose ELSE a

\* What o, attached as a, is created as at p's client.  A global object is
\* created loose and its player told apart; a per-player object is created
\* on the player it is attached to, or not at all.
CreateObjectForClient(o, a, near_, players_, p) ==
    IF owner[o] = Server \/ a.type # "player"
    THEN IF a.type = "player" THEN Loose ELSE a
    ELSE IF a.id \in players_ /\ Sees(near_, p, a.id) THEN a ELSE None

Restream(o, a) == [p \in Players |-> IF p \in Audience(o)
    THEN [screen[p] EXCEPT ![o] = CreateObjectForClient(o, a, near, players, p)]
    ELSE screen[p]]

-----------------------------------------------------------------------------
(* Scripts                                                                  *)

Create(o, s) ==
    /\ o \notin pool
    /\ s \in players \union {Server}
    /\ pool' = pool \union {o}
    /\ owner' = [owner EXCEPT ![o] = s]
    /\ screen' = [p \in Players |-> IF p \in (IF s = Server THEN players ELSE {s})
                    THEN [screen[p] EXCEPT ![o] = Loose] ELSE screen[p]]
    /\ UNCHANGED <<players, near, attach, indexed, waiting, skipped>>

Release(o) ==
    /\ o \in pool
    /\ pool' = pool \ {o}
    /\ owner' = [owner EXCEPT ![o] = Server]
    /\ attach' = [attach EXCEPT ![o] = Loose]
    /\ indexed' = indexed \ {o}
    /\ skipped' = skipped \ {o}
    /\ waiting' = {w \in waiting : w[1] # o}
    /\ screen' = [p \in Players |-> [screen[p] EXCEPT ![o] = None]]
    /\ UNCHANGED <<players, near>>

\* A global object is attached at the clients that see the player; a
\* per-player one is created anew.
AttachToPlayer(o, q) ==
    /\ o \in pool
    /\ q \in players
    /\ Careful => attach[o].type # "player"
    /\ attach' = [attach EXCEPT ![o] = To("player", q)]
    /\ indexed' = indexed \union {o}
    /\ skipped' = skipped \ {o}
    /\ screen' = IF owner[o] # Server THEN Restream(o, To("player", q))
                 ELSE [p \in Players |-> IF p \in players /\ Sees(near, p, q)
                         THEN [screen[p] EXCEPT ![o] = To("player", q)]
                         ELSE screen[p]]
    /\ UNCHANGED <<players, near, pool, owner, waiting>>

\* attachToVehicle and attachToObject leave the index as it is.
AttachToVehicle(o, v) ==
    /\ o \in pool
    /\ Careful => attach[o].type # "player"
    /\ attach' = [attach EXCEPT ![o] = To("vehicle", v)]
    /\ skipped' = skipped \ {o}
    /\ screen' = Restream(o, To("vehicle", v))
    /\ UNCHANGED <<players, near, pool, owner, indexed, waiting>>

ResetAttachment(o) ==
    /\ o \in pool
    /\ attach' = [attach EXCEPT ![o] = Loose]
    /\ indexed' = indexed \ {o}
    /\ skipped' = skipped \ {o}
    /\ screen' = Restream(o, Loose)
    /\ UNCHANGED <<players, near, pool, owner, waiting>>

\* setModel, setMaterial and the like.
SetAndRestream(o) ==
    /\ o \in pool
    /\ Careful => ~(attach[o].type = "player" /\ owner[o] = Server)
    /\ screen' = Restream(o, attach[o])
    /\ UNCHANGED <<players, near, pool, owner, attach, indexed, waiting, skipped>>

-----------------------------------------------------------------------------
(* Handlers                                                                 *)

\* The second after createForPlayer is over.
WaitOver(o, p) ==
    /\ <<o, p>> \in waiting
    /\ p \in players
    /\ waiting' = waiting \ {<<o, p>>}
    /\ LET a == attach[o]
       IN  screen' = IF a.type = "player" /\ a.id \in players /\ Sees(near, p, a.id)
                     THEN [screen EXCEPT ![p][o] = a] ELSE screen
    /\ UNCHANGED <<players, near, pool, owner, attach, indexed, skipped>>

\* The attached objects that onPlayerStreamIn and onPlayerStreamOut of q for p
\* look at: of the global ones the type is compared too.
Carried(p, q) == {o \in indexed : /\ attach[o].id = q
                                  /\ IF owner[o] = Server
                                     THEN attach[o].type = "player"
                                     ELSE owner[o] = p}

OnPlayerStreamIn(q, p) ==
    /\ {p, q} \subseteq players /\ p # q
    /\ <<q, p>> \notin near
    /\ near' = near \union {<<q, p>>}
    /\ screen' = [screen EXCEPT ![p] = [o \in Things |->
         IF o \notin Carried(p, q) THEN @[o]
         ELSE IF owner[o] = Server THEN attach[o]
         ELSE CreateObjectForClient(o, attach[o], near', players, p)]]
    /\ UNCHANGED <<players, pool, owner, attach, indexed, waiting, skipped>>

\* The client forgets the player, and what it carried.
Dropped(view, p, q) == [o \in Things |->
    IF view[p][o] = To("player", q) THEN Loose ELSE view[p][o]]

OnPlayerStreamOut(q, p) ==
    /\ <<q, p>> \in near
    /\ near' = near \ {<<q, p>>}
    /\ screen' = [screen EXCEPT ![p] = [o \in Things |->
         IF o \in Carried(p, q) /\ owner[o] = p THEN None
         ELSE Dropped(screen, p, q)[o]]]
    /\ UNCHANGED <<players, pool, owner, attach, indexed, waiting, skipped>>

\* Before the scripts are told of a spawn, the objects on the player fall off:
\* the global ones.
OnPlayerSpawn(q) ==
    /\ q \in players
    /\ LET O == {o \in pool : owner[o] = Server /\ attach[o] = To("player", q)}
       IN  /\ O # {}
           /\ attach' = [o \in Things |-> IF o \in O THEN Loose ELSE attach[o]]
           /\ indexed' = indexed \ O
           /\ skipped' = skipped \ O
           /\ screen' = [p \in Players |-> IF p \in players
                THEN [o \in Things |-> IF o \in O THEN Loose ELSE screen[p][o]]
                ELSE screen[p]]
    /\ UNCHANGED <<players, near, pool, owner, waiting>>

-----------------------------------------------------------------------------
(* Players come and go                                                      *)

\* createForPlayer: whether an attached object is attached is told later.
Connect(p) ==
    /\ p \notin players
    /\ players' = players \union {p}
    /\ LET global == {o \in pool : owner[o] = Server}
       IN  /\ screen' = [screen EXCEPT ![p] = [o \in Things |->
                IF o \notin global THEN None
                ELSE CreateObjectForClient(o, attach[o], near, players', p)]]
           /\ waiting' = waiting \union
                {<<o, p>> : o \in {g \in global : attach[g].type = "player"}}
    /\ UNCHANGED <<near, pool, owner, attach, indexed, skipped>>

\* Wrong: the global objects are left on the player.
OwnFallen(q) == {o \in indexed : attach[o].id = q /\ owner[o] \notin {q, Server}}

\* onPoolEntryDestroyed resets the attachments with the player's id.  Each
\* loop runs over the set that resetAttachment erases from: it may pass over
\* objects that follow one it reset.
Fallen(q) == {o \in indexed : attach[o].id = q /\ owner[o] # q}


Disconnect(q) ==
    /\ q \in players
    /\ LET own  == {o \in pool : owner[o] = q}
           left == {pair \in near : q \notin {pair[1], pair[2]}}
       IN  \E R \in SUBSET Fallen(q) :
             /\ \A o \in Fallen(q) : \E r \in R : owner[r] = owner[o]
             /\ attach' = [o \in Things |-> IF o \in R \union own THEN Loose
                                            ELSE attach[o]]
             /\ indexed' = indexed \ (R \union own)
             /\ skipped' = (skipped \union Fallen(q)) \ (R \union own)
             /\ screen' = [p \in Players |->
                  IF p = q THEN [o \in Things |-> None]
                  ELSE [o \in Things |-> IF o \in R /\ p \in Audience(o) THEN Loose
                                         ELSE Dropped(screen, p, q)[o]]]
             /\ pool' = pool \ own
             /\ owner' = [o \in Things |-> IF o \in own THEN Server ELSE owner[o]]
             /\ near' = left
    /\ players' = players \ {q}
    /\ UNCHANGED waiting

Next ==
    \/ \E o \in Things :
         \/ Release(o) \/ ResetAttachment(o) \/ SetAndRestream(o)
         \/ \E s \in Players \union {Server} : Create(o, s)
         \/ \E q \in Players :
              AttachToPlayer(o, q) \/ AttachToVehicle(o, q) \/ WaitOver(o, q)
    \/ \E q \in Players :
         \/ Connect(q) \/ Disconnect(q) \/ OnPlayerSpawn(q)
         \/ \E p \in Players : OnPlayerStreamIn(q, p) \/ OnPlayerStreamOut(q, p)

Spec == Init /\ [][Next]_vars

-----------------------------------------------------------------------------
(* Properties                                                               *)

TypeOK ==
    /\ players \subseteq Players
    /\ near \subseteq players \X players
    /\ pool \subseteq Things
    /\ owner \in [Things -> Players \union {Server}]
    /\ attach \in [Things -> [type : {"none", "player", "vehicle"},
                              id : Players \union {None}]]
    /\ indexed \subseteq pool /\ skipped \subseteq pool
    /\ waiting \subseteq pool \X Players

OnPlayer(o) == attach[o].type = "player"

\* The objects that are attached to a player are indexed, and only those.
IndexExact ==
    /\ {o \in pool : OnPlayer(o)} \subseteq indexed
    /\ Careful => \A o \in indexed : OnPlayer(o)

\* Nothing is attached to a player that left, but for what the loop over the
\* attachments passed over.
NoStale == \A o \in pool \ skipped :
    /\ owner[o] \in players \union {Server}
    /\ OnPlayer(o) => attach[o].id \in players

\* A client shows an object on the player it is attached to while that player
\* is streamed in for it, but for the second after it was sent the object; and
\* a per-player object on no player is there.
ViewExact == \A o \in pool \ skipped : \A p \in Audience(o) :
    LET seen == Sees(near, p, attach[o].id)
    IN  /\ OnPlayer(o) /\ seen /\ <<o, p>> \notin waiting =>
             screen[p][o] = attach[o]
        /\ ~OnPlayer(o) => screen[p][o] = attach[o]
        /\ owner[o] = p => (screen[p][o] = None <=> OnPlayer(o) /\ ~seen)
=============================================================================
