------------------------------- MODULE Actors -------------------------------
(***************************************************************************)
(* Actors: which are streamed in for whom, counted against a limit, and    *)
(* what the clients are told of them: src/Server/Components/Actors.        *)
(*                                                                         *)
(* An actor's looks stand for what its setters change and tell: health,    *)
(* position, facing, skin, vulnerability.                                  *)
(***************************************************************************)
EXTENDS Integers, FiniteSets

CONSTANTS
    Players,      \* players that may be connected
    Things,       \* actor objects
    MaxStreamed,  \* MAX_STREAMED_ACTORS
    None

VARIABLES
    players,      \* the players that have a PlayerActorData
    pool,         \* the actors in the storage
    doomed,       \* those released while locked
    actor,        \* of each actor: streamedFor_, its looks, animationLoop_
    numStreamed,  \* PlayerActorData::numStreamed
    screen,       \* what each client was sent of each actor
    at            \* the pass of a player, the actor locked for a callback

vars == <<players, pool, doomed, actor, numStreamed, screen, at>>

Looks == {0, 1}
Fresh == [streamed |-> {}, looks |-> 0, loop |-> FALSE]
Idle  == [who |-> None, todo |-> {}, actor |-> None]

Init ==
    /\ players = {}
    /\ pool = {}
    /\ doomed = {}
    /\ actor = [a \in Things |-> Fresh]
    /\ numStreamed = [p \in Players |-> 0]
    /\ screen = [p \in Players |-> [a \in Things |-> None]]
    /\ at = Idle

-----------------------------------------------------------------------------
\* streamInForClient: a looping animation is sent with the actor.
Sent(l) == [looks |-> l.looks, loop |-> l.loop]

\* Actor a becomes l, and those it is streamed in for are told.
TellStreamed(a, l) ==
    /\ actor' = [actor EXCEPT ![a] = l]
    /\ screen' = [p \in Players |-> IF p \in l.streamed
                    THEN [screen[p] EXCEPT ![a] = Sent(l)] ELSE screen[p]]

StreamInForPlayer(a, p) ==
    IF numStreamed[p] <= MaxStreamed
    THEN /\ actor' = [actor EXCEPT ![a].streamed = @ \union {p}]
         /\ numStreamed' = [numStreamed EXCEPT ![p] = @ + 1]
         /\ screen' = [screen EXCEPT ![p][a] = Sent(actor[a])]
    ELSE UNCHANGED <<actor, numStreamed, screen>>

StreamOutForPlayer(a, p) ==
    /\ actor' = [actor EXCEPT ![a].streamed = @ \ {p}]
    /\ numStreamed' = [numStreamed EXCEPT ![p] = @ - 1]
    /\ screen' = [screen EXCEPT ![p][a] = None]

\* Wrong: the clients are told, and the counts stay.
DestreamUncounted(a) ==
    /\ screen' = [p \in Players |-> IF p \in actor[a].streamed
                    THEN [screen[p] EXCEPT ![a] = None] ELSE screen[p]]
    /\ UNCHANGED numStreamed

Destream(a) ==
    /\ numStreamed' = [p \in Players |-> IF p \in actor[a].streamed
                         THEN numStreamed[p] - 1 ELSE numStreamed[p]]
    /\ screen' = [p \in Players |-> IF p \in actor[a].streamed
                    THEN [screen[p] EXCEPT ![a] = None] ELSE screen[p]]

-----------------------------------------------------------------------------
(* Scripts, between handlers and in callbacks                               *)

Calls  == at.who = None \/ at.actor # None
Usable == pool \ doomed

Create(a) ==
    /\ Calls
    /\ a \notin pool
    /\ pool' = pool \union {a}
    /\ UNCHANGED <<players, doomed, actor, numStreamed, screen, at>>

Release(a) ==
    /\ Calls
    /\ a \in Usable
    /\ Destream(a)
    /\ IF a = at.actor
       THEN doomed' = doomed \union {a} /\ UNCHANGED <<pool, actor>>
       ELSE /\ pool' = pool \ {a}
            /\ actor' = [actor EXCEPT ![a] = Fresh]
            /\ UNCHANGED doomed
    /\ UNCHANGED <<players, at>>

\* setHealth, setPosition, setRotation tell; setSkin, setInvulnerable restream.
SetLooks(a, looks) ==
    /\ Calls
    /\ a \in Usable
    /\ TellStreamed(a, [actor[a] EXCEPT !.looks = looks])
    /\ UNCHANGED <<players, pool, doomed, numStreamed, at>>

\* applyAnimation of one that loops or freezes; of one that ends, which leaves
\* nothing to show, as does clearAnimations.
Animate(a, loop) ==
    /\ Calls
    /\ a \in Usable
    /\ TellStreamed(a, [actor[a] EXCEPT !.loop = loop])
    /\ UNCHANGED <<players, pool, doomed, numStreamed, at>>

-----------------------------------------------------------------------------
(* Handlers                                                                 *)

\* PlayerDamageActor: the actor is locked while the callback runs.
DamageActor(p, a) ==
    /\ at = Idle
    /\ p \in players
    /\ a \in pool
    /\ p \in actor[a].streamed
    /\ at' = [Idle EXCEPT !.actor = a]
    /\ UNCHANGED <<players, pool, doomed, actor, numStreamed, screen>>

PlayerUpdate(p) ==
    /\ at = Idle
    /\ p \in players
    /\ pool # {}
    /\ at' = [Idle EXCEPT !.who = p, !.todo = pool]
    /\ UNCHANGED <<players, pool, doomed, actor, numStreamed, screen>>

\* A step of the pass; near is by state, position and virtual world.  The
\* callback runs also if the limit kept the actor from being streamed in.
StreamActor(a, near) ==
    /\ at.who # None
    /\ at.actor = None
    /\ a \in at.todo
    /\ LET next == [at EXCEPT !.todo = @ \ {a}]
       IN  IF a \notin pool \/ near = (at.who \in actor[a].streamed)
           THEN /\ at' = next
                /\ UNCHANGED <<actor, numStreamed, screen>>
           ELSE /\ at' = [next EXCEPT !.actor = a]
                /\ IF near THEN StreamInForPlayer(a, at.who)
                   ELSE StreamOutForPlayer(a, at.who)
    /\ UNCHANGED <<players, pool, doomed>>

EndUpdate ==
    /\ at.who # None
    /\ at.actor = None
    /\ at.todo = {}
    /\ at' = Idle
    /\ UNCHANGED <<players, pool, doomed, actor, numStreamed, screen>>

\* The callback returns: the lock is dropped.
Return ==
    /\ at.actor # None
    /\ at' = [at EXCEPT !.actor = None]
    /\ pool' = pool \ doomed
    /\ actor' = [a \in Things |-> IF a \in doomed THEN Fresh ELSE actor[a]]
    /\ doomed' = {}
    /\ UNCHANGED <<players, numStreamed, screen>>

-----------------------------------------------------------------------------
(* Players come and go                                                      *)

Connect(p) ==
    /\ at = Idle
    /\ p \notin players
    /\ players' = players \union {p}
    /\ UNCHANGED <<pool, doomed, actor, numStreamed, screen, at>>

\* onPoolEntryDestroyed; the player's data goes with it.
RemoveFor(a, p) == [actor[a] EXCEPT !.streamed = @ \ {p}]

Disconnect(p) ==
    /\ at = Idle
    /\ p \in players
    /\ players' = players \ {p}
    /\ actor' = [a \in Things |-> RemoveFor(a, p)]
    /\ numStreamed' = [numStreamed EXCEPT ![p] = 0]
    /\ screen' = [screen EXCEPT ![p] = [a \in Things |-> None]]
    /\ UNCHANGED <<pool, doomed, at>>

Reset ==
    /\ at = Idle
    /\ pool' = {}
    /\ actor' = [a \in Things |-> Fresh]
    /\ numStreamed' = [p \in Players |-> 0]
    /\ screen' = [p \in Players |-> [a \in Things |-> None]]
    /\ UNCHANGED <<players, doomed, at>>

Next ==
    \/ EndUpdate \/ Return \/ Reset
    \/ \E p \in Players : Connect(p) \/ Disconnect(p) \/ PlayerUpdate(p)
    \/ \E a \in Things :
         \/ Create(a) \/ Release(a)
         \/ \E looks \in Looks : SetLooks(a, looks)
         \/ \E b \in BOOLEAN : Animate(a, b) \/ StreamActor(a, b)
         \/ \E p \in Players : DamageActor(p, a)

Spec == Init /\ [][Next]_vars

-----------------------------------------------------------------------------
(* Properties                                                               *)

TypeOK ==
    /\ players \subseteq Players
    /\ pool \subseteq Things
    /\ doomed \subseteq pool
    /\ actor \in [Things -> [streamed : SUBSET Players, looks : Looks,
                             loop : BOOLEAN]]
    /\ numStreamed \in [Players -> Nat]
    /\ screen \in [Players -> [Things -> [looks : Looks, loop : BOOLEAN]
                                           \union {None}]]
    /\ at \in [who : Players \union {None}, todo : SUBSET Things,
               actor : Things \union {None}]

\* A client shows the actors that are streamed in for it, as they are now, and
\* none that was released or streamed out.
ViewExact == \A p \in players : \A a \in Things :
    screen[p][a] = IF a \in Usable /\ p \in actor[a].streamed
                   THEN Sent(actor[a]) ELSE None

NoStale == \A a \in pool : actor[a].streamed \subseteq players

\* The count that the limit goes by is the number of actors streamed in for
\* the player: one released in the callback of its own streaming included.
CountExact == \A p \in players :
    numStreamed[p] = Cardinality({a \in Usable : p \in actor[a].streamed})
=============================================================================
