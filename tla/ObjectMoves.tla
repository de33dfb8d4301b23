---------------------------- MODULE ObjectMoves ----------------------------
(***************************************************************************)
(* The movement of global objects: src/Server/Components/Objects.  The     *)
(* tick advances the objects of a set of processed ones.  A client that is *)
(* sent a moving object is told of the movement a second later, for which  *)
(* the object has a bit of each player and a flag that some bit is set.    *)
(***************************************************************************)
EXTENDS Integers

CONSTANTS
    Players,   \* players that may be connected
    Things,    \* object entities
    Careful,   \* a moving object's looks are not changed
    None

VARIABLES
    players,    \* the players that have a PlayerObjectData
    streamed,   \* those with streamedGlobalObjects_
    pool,       \* the objects in the storage
    doomed,     \* those released while locked
    moving,     \* those with moving_
    delayed,    \* of each object, delayedProcessing_
    any,        \* those with anyDelayedProcessing_
    processed,  \* processedObjects
    screen,     \* what each client shows of each object
    at          \* the object whose onMoved runs

vars == <<players, streamed, pool, doomed, moving, delayed, any, processed,
          screen, at>>

NoView == [o \in Things |-> None]

Init ==
    /\ players = {}
    /\ streamed = {}
    /\ pool = {}
    /\ doomed = {}
    /\ moving = {}
    /\ delayed = [o \in Things |-> {}]
    /\ any = {}
    /\ processed = {}
    /\ screen = [p \in Players |-> NoView]
    /\ at = None

-----------------------------------------------------------------------------
Usable == pool \ doomed

\* Every client that shows o shows it as s.
Broadcast(o, s) == [p \in Players |->
    IF screen[p][o] # None THEN [screen[p] EXCEPT ![o] = s] ELSE screen[p]]

\* o is taken from the processed objects unless it moves or waits.
EraseFromProcessed(o, moving_, any_) ==
    IF o \in moving_ \union any_ THEN processed ELSE processed \ {o}

\* createForPlayer, for the objects O: what moves is told of later.
CreateForPlayer(p, O) ==
    /\ screen' = [screen EXCEPT ![p] =
                    [o \in Things |-> IF o \in O THEN "still" ELSE @[o]]]
    /\ delayed' = [o \in Things |-> IF o \in O \intersect moving
                     THEN delayed[o] \union {p} ELSE delayed[o]]
    /\ any' = any \union (O \intersect moving)
    /\ processed' = processed \union (O \intersect moving)

\* The movement and the bits of the objects O are gone.
Forget(O) ==
    /\ moving' = moving \ O
    /\ delayed' = [o \in Things |-> IF o \in O THEN {} ELSE delayed[o]]
    /\ any' = any \ O

-----------------------------------------------------------------------------
(* Scripts                                                                  *)

Create(o) ==
    /\ o \notin pool
    /\ pool' = pool \union {o}
    /\ screen' = [p \in Players |-> IF p \in players
                    THEN [screen[p] EXCEPT ![o] = "still"] ELSE screen[p]]
    /\ UNCHANGED <<players, streamed, doomed, moving, delayed, any, processed, at>>

\* An object that moves is stopped first; every client is told.
Move(o) ==
    /\ o \in Usable
    /\ moving' = moving \union {o}
    /\ processed' = processed \union {o}
    /\ screen' = Broadcast(o, "moving")
    /\ UNCHANGED <<players, streamed, pool, doomed, delayed, any, at>>

Stop(o) ==
    /\ o \in Usable
    /\ moving' = moving \ {o}
    /\ processed' = EraseFromProcessed(o, moving', any)
    /\ screen' = Broadcast(o, "still")
    /\ UNCHANGED <<players, streamed, pool, doomed, delayed, any, at>>

\* setModel, setMaterial, setMaterialText, setDrawDistance, setCameraCollision
\* and the attachments create the object anew at every client, and say
\* nothing of a movement.
Restream(o) ==
    /\ o \in Usable
    /\ Careful => o \notin moving
    /\ screen' = [p \in Players |-> IF p \in players
                    THEN [screen[p] EXCEPT ![o] = "still"] ELSE screen[p]]
    /\ UNCHANGED <<players, streamed, pool, doomed, moving, delayed, any,
                   processed, at>>

Release(o) ==
    /\ o \in Usable
    /\ screen' = Broadcast(o, None)
    /\ processed' = processed \ {o}
    /\ IF o = at
       THEN /\ doomed' = doomed \union {o}
            /\ delayed' = [delayed EXCEPT ![o] = @ \ players]
            /\ UNCHANGED <<pool, moving, any>>
       ELSE /\ pool' = pool \ {o}
            /\ Forget({o})
            /\ UNCHANGED doomed
    /\ UNCHANGED <<players, streamed, at>>

-----------------------------------------------------------------------------
(* The tick                                                                 *)

\* advance: of the players P the second is over, and the movement may be.
\* A client sees the end of a movement by itself.  The walk of onTick over the
\* processed objects is taken as any order of them, with any of them twice or
\* left out: so it may be when callbacks change the hash set that it walks, but
\* that the walk's iterator outlives such a change is taken for granted.
Advance(o, P, done) ==
    /\ at = None
    /\ o \in processed
    /\ done => o \in moving
    /\ P \subseteq delayed[o] \intersect players
    /\ delayed' = [delayed EXCEPT ![o] = @ \ P]
    /\ any' = IF P # {} /\ P = delayed[o] THEN any \ {o} ELSE any
    /\ moving' = IF done THEN moving \ {o} ELSE moving
    /\ processed' = IF P # {} \/ done
                    THEN EraseFromProcessed(o, moving', any') ELSE processed
    /\ screen' = [p \in Players |->
         IF screen[p][o] # None /\ (done \/ (p \in P /\ o \in moving))
         THEN [screen[p] EXCEPT ![o] = IF done THEN "still" ELSE "moving"]
         ELSE screen[p]]
    /\ at' = IF done THEN o ELSE None
    /\ UNCHANGED <<players, streamed, pool, doomed>>

Return ==
    /\ at # None
    /\ at' = None
    /\ pool' = pool \ doomed
    /\ processed' = processed \ doomed
    /\ Forget(doomed)
    /\ doomed' = {}
    /\ UNCHANGED <<players, streamed, screen>>

-----------------------------------------------------------------------------
(* Players come and go                                                      *)

Connect(p, downloads) ==
    /\ at = None
    /\ p \notin players
    /\ players' = players \union {p}
    /\ IF downloads
       THEN UNCHANGED <<streamed, screen, delayed, any, processed>>
       ELSE streamed' = streamed \union {p} /\ CreateForPlayer(p, pool)
    /\ UNCHANGED <<pool, doomed, moving, at>>

FinishedDownloading(p) ==
    /\ at = None
    /\ p \in players \ streamed
    /\ streamed' = streamed \union {p}
    /\ CreateForPlayer(p, pool)
    /\ UNCHANGED <<players, pool, doomed, moving, at>>

\* The bits of a player that leaves stay.
Disconnect(p) ==
    /\ at = None
    /\ p \in players
    /\ players' = players \ {p}
    /\ streamed' = streamed \ {p}
    /\ screen' = [screen EXCEPT ![p] = NoView]
    /\ UNCHANGED <<pool, doomed, moving, delayed, any, processed, at>>

Reset ==
    /\ at = None
    /\ pool' = {}
    /\ processed' = {}
    /\ Forget(Things)
    /\ streamed' = {}
    /\ screen' = [p \in Players |-> NoView]
    /\ UNCHANGED <<players, doomed, at>>

Next ==
    \/ Return \/ Reset
    \/ \E o \in Things :
         \/ Create(o) \/ Move(o) \/ Stop(o) \/ Restream(o) \/ Release(o)
         \/ \E P \in SUBSET Players, done \in BOOLEAN : Advance(o, P, done)
    \/ \E p \in Players :
         \/ FinishedDownloading(p) \/ Disconnect(p)
         \/ \E b \in BOOLEAN : Connect(p, b)

Spec == Init /\ [][Next]_vars

-----------------------------------------------------------------------------
(* Properties                                                               *)

TypeOK ==
    /\ streamed \subseteq players /\ players \subseteq Players
    /\ doomed \subseteq pool /\ pool \subseteq Things
    /\ moving \subseteq pool /\ any \subseteq pool /\ processed \subseteq Usable
    /\ delayed \in [Things -> SUBSET Players]
    /\ screen \in [Players -> [Things -> {None, "still", "moving"}]]
    /\ at \in pool \union {None}

\* The tick advances exactly the objects that move or wait to tell someone:
\* none stands still though it was told to move, and none is advanced for
\* nothing.
ProcessedExact == processed =
    {o \in Usable : o \in moving \/ delayed[o] # {}}

\* A client knows whether an object moves, but for the second after it was
\* sent a moving one.
ViewExact == \A p \in players, o \in Things : screen[p][o] # None =>
    /\ o \in Usable
    /\ p \notin delayed[o] => (screen[p][o] = "moving" <=> o \in moving)
=============================================================================
