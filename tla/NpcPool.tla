------------------------------ MODULE NpcPool ------------------------------
(***************************************************************************)
(* NPCs beside the players they are to the rest of the server: created     *)
(* under the id of a bot in the player pool, queued when they are kicked   *)
(* or destroyed, released from the queue at the next tick, and pointing at *)
(* the players and vehicles they damaged, follow, aim at and sit in:       *)
(* src/Server/Components/NPCs/npcs_impl.cpp, npcs_impl.hpp and             *)
(* Network/npcs_network.hpp.                                               *)
(*                                                                         *)
(* Careful restricts the scripts to what the queue stands: no NPC is       *)
(* queued twice, none is queued by a callback of the queue's processing    *)
(* (which would change the vector that is being iterated), the gamemode    *)
(* does not restart with a queue (reset() leaves it), and no NPC that      *)
(* sprints is told to aim at a player (it keeps the pointer without the    *)
(* aim).  Players come and go in the ticks of the network and of the       *)
(* player pool and modes in that of Pawn, never in the callbacks of this   *)
(* component's tick.                                                       *)
(***************************************************************************)
EXTENDS Integers, FiniteSets, FiniteSetsExt, Sequences

CONSTANTS
    Ids,            \* player ids
    Cars,           \* vehicles
    MaxMarks,       \* bound on the queue when scripts are not careful
    Careful,
    None

VARIABLES
    pool,           \* who has each id: nobody, a player or an NPC
    cars,           \* vehicles in the pool
    npc,            \* of each NPC: its kick mark and its pointers
    markedToBeKicked,
    releasing,      \* the NPC whose release runs its callbacks
    rest,           \* the queue's ids that the tick has yet to release
    mistaken        \* an NPC was released that nobody kicked

own == <<pool, cars, npc, markedToBeKicked, releasing, rest, mistaken>>
vars == own

Pointers == {"lastDamager", "followingPlayer", "aimingAt"}
NoNpc == [kickMark |-> FALSE, lastDamager |-> None, followingPlayer |-> None,
          aimingAt |-> None, aiming |-> FALSE, vehicle |-> None,
          vehicleToEnter |-> None]

Init ==
    /\ pool = [i \in Ids |-> "free"]
    /\ cars = {}
    /\ npc = [i \in Ids |-> NoNpc]
    /\ markedToBeKicked = <<>>
    /\ releasing = None
    /\ rest = <<>>
    /\ mistaken = FALSE

Npcs == {i \in Ids : pool[i] = "npc"}
Present == {i \in Ids : pool[i] # "free"}
Ticking == releasing # None \/ rest # <<>>

\* What every NPC keeps when player i leaves the pool, and vehicle c.  An aim is
\* stopped, and its pointer cleared, only if there is one.
WithoutPlayer(i) ==
    [n \in Ids |-> [f \in DOMAIN NoNpc |->
        IF f \in Pointers /\ npc[n][f] = i /\ (f = "aimingAt" => npc[n].aiming)
        THEN None
        ELSE IF f = "aiming" THEN npc[n].aiming /\ npc[n].aimingAt # i
        ELSE npc[n][f]]]

\* The mistake of clearing only what the last shot left.
WithoutDamagerOnly(i) ==
    [n \in Ids |-> [f \in DOMAIN NoNpc |->
        IF f = "lastDamager" /\ npc[n][f] = i THEN None ELSE npc[n][f]]]

WithoutCar(c) ==
    [n \in Ids |-> [f \in DOMAIN NoNpc |->
        IF f \in {"vehicle", "vehicleToEnter"} /\ npc[n][f] = c THEN None
        ELSE npc[n][f]]]
OnPlayerDestroyed(i) == WithoutPlayer(i)

-----------------------------------------------------------------------------
\* requestPlayer takes the first free id; the NPC pool takes the same.
Create ==
    /\ Ids # Present
    /\ LET i == Min(Ids \ Present) IN
       /\ pool' = [pool EXCEPT ![i] = "npc"]
       /\ npc' = [npc EXCEPT ![i] = NoNpc]
    /\ UNCHANGED <<cars, markedToBeKicked, releasing, rest, mistaken>>

\* destroy() and a kick both end in NPCNetwork::disconnect.  While the queue is
\* being processed the append may move it, and the tick then reads anything.
Disconnect(i) ==
    /\ pool[i] = "npc"
    /\ Len(markedToBeKicked) < MaxMarks
    /\ Careful => ~npc[i].kickMark /\ ~Ticking
    /\ npc' = [npc EXCEPT ![i].kickMark = TRUE]
    /\ markedToBeKicked' = Append(markedToBeKicked, i)
    /\ IF Ticking THEN rest' \in [1 .. Len(rest) -> Ids] ELSE UNCHANGED rest
    /\ UNCHANGED <<pool, cars, releasing, mistaken>>

\* onTick goes through the queue.
Tick ==
    /\ ~Ticking
    /\ markedToBeKicked # <<>>
    /\ rest' = markedToBeKicked
    /\ UNCHANGED <<pool, cars, npc, markedToBeKicked, releasing, mistaken>>

\* release(): the events of the NPC and of its player run while it is locked.
ReleaseNext ==
    /\ releasing = None
    /\ rest # <<>>
    /\ rest' = Tail(rest)
    /\ releasing' = IF pool[Head(rest)] = "npc" THEN Head(rest) ELSE None
    /\ mistaken' = (mistaken \/ (pool[Head(rest)] = "npc" /\ ~npc[Head(rest)].kickMark))
    /\ markedToBeKicked' = IF releasing' = None /\ rest' = <<>> THEN <<>>
                           ELSE markedToBeKicked
    /\ UNCHANGED <<pool, cars, npc>>

\* The player leaves the pool, then the NPC; the queue ends empty.
EndRelease ==
    /\ releasing # None
    /\ pool' = [pool EXCEPT ![releasing] = "free"]
    /\ npc' = [OnPlayerDestroyed(releasing) EXCEPT ![releasing] = NoNpc]
    /\ releasing' = None
    /\ markedToBeKicked' = IF rest = <<>> THEN <<>> ELSE markedToBeKicked
    /\ UNCHANGED <<cars, rest, mistaken>>

\* A gamemode restart releases every NPC, and with them every pointer.
Reset ==
    /\ ~Ticking
    /\ Careful => markedToBeKicked = <<>>
    /\ pool' = [i \in Ids |-> IF pool[i] = "npc" THEN "free" ELSE pool[i]]
    /\ npc' = [i \in Ids |-> NoNpc]
    /\ UNCHANGED <<cars, markedToBeKicked, releasing, rest, mistaken>>

Connect ==
    /\ ~Ticking
    /\ Ids # Present
    /\ pool' = [pool EXCEPT ![Min(Ids \ Present)] = "player"]
    /\ UNCHANGED <<cars, npc, markedToBeKicked, releasing, rest, mistaken>>

Leave(i) ==
    /\ ~Ticking
    /\ pool[i] = "player"
    /\ pool' = [pool EXCEPT ![i] = "free"]
    /\ npc' = OnPlayerDestroyed(i)
    /\ UNCHANGED <<cars, markedToBeKicked, releasing, rest, mistaken>>

-----------------------------------------------------------------------------
\* onPlayerGiveDamage and moveToPlayer: the NPC points at a player.
PointAt(n, f, i) ==
    /\ n \in Npcs
    /\ i \in Present \ {n}
    /\ npc' = [npc EXCEPT ![n][f] = i]
    /\ UNCHANGED <<pool, cars, markedToBeKicked, releasing, rest, mistaken>>

\* aimAtPlayer: an NPC that sprints does not aim, but is down for the player.
AimAtPlayer(n, i, sprinting) ==
    /\ n \in Npcs
    /\ i \in Present \ {n}
    /\ Careful => ~sprinting
    /\ npc' = [npc EXCEPT ![n].aimingAt = i, ![n].aiming = @ \/ ~sprinting]
    /\ UNCHANGED <<pool, cars, markedToBeKicked, releasing, rest, mistaken>>

\* aimAt a point: an aim at a player is stopped first.
AimAt(n) ==
    /\ n \in Npcs
    /\ npc' = [npc EXCEPT ![n].aimingAt = IF npc[n].aiming THEN None ELSE @,
                          ![n].aiming = TRUE]
    /\ UNCHANGED <<pool, cars, markedToBeKicked, releasing, rest, mistaken>>

StopAim(n) ==
    /\ n \in Npcs
    /\ npc[n].aiming
    /\ npc' = [npc EXCEPT ![n].aimingAt = None, ![n].aiming = FALSE]
    /\ UNCHANGED <<pool, cars, markedToBeKicked, releasing, rest, mistaken>>

\* putInVehicle and enterVehicle.
BoardCar(n, f, c) ==
    /\ n \in Npcs
    /\ c \in cars
    /\ npc' = [npc EXCEPT ![n][f] = c]
    /\ UNCHANGED <<pool, cars, markedToBeKicked, releasing, rest, mistaken>>

CreateCar(c) ==
    /\ c \notin cars
    /\ cars' = cars \union {c}
    /\ UNCHANGED <<pool, npc, markedToBeKicked, releasing, rest, mistaken>>

DestroyCar(c) ==
    /\ c \in cars
    /\ cars' = cars \ {c}
    /\ npc' = WithoutCar(c)
    /\ UNCHANGED <<pool, markedToBeKicked, releasing, rest, mistaken>>

\* onVehicleDeath takes its NPCs out and kills them: those that live stop.
CarDies(c, alive) ==
    /\ c \in cars
    /\ npc' = [n \in Ids |->
         IF npc[n].vehicle # c THEN npc[n]
         ELSE [npc[n] EXCEPT !.vehicle = None,
                             !.followingPlayer = IF n \in alive THEN None ELSE @]]
    /\ UNCHANGED <<pool, cars, markedToBeKicked, releasing, rest, mistaken>>

Next ==
    \/ Create \/ Tick \/ ReleaseNext \/ EndRelease \/ Reset \/ Connect
    \/ \E i \in Ids : Disconnect(i) \/ Leave(i)
    \/ \E n, i \in Ids, f \in {"lastDamager", "followingPlayer"} : PointAt(n, f, i)
    \/ \E n, i \in Ids, sprinting \in BOOLEAN : AimAtPlayer(n, i, sprinting)
    \/ \E n \in Ids : AimAt(n) \/ StopAim(n)
    \/ \E c \in Cars : CreateCar(c) \/ DestroyCar(c)
    \/ \E c \in Cars, alive \in SUBSET Npcs : CarDies(c, alive)
    \/ \E n \in Ids, f \in {"vehicle", "vehicleToEnter"}, c \in Cars :
         BoardCar(n, f, c)

Spec == Init /\ [][Next]_vars

-----------------------------------------------------------------------------
TypeOK ==
    /\ pool \in [Ids -> {"free", "player", "npc"}]
    /\ cars \subseteq Cars
    /\ \A n \in Ids :
         /\ npc[n].kickMark \in BOOLEAN /\ npc[n].aiming \in BOOLEAN
         /\ \A f \in Pointers : npc[n][f] \in Ids \union {None}
         /\ npc[n].vehicle \in Cars \union {None}
         /\ npc[n].vehicleToEnter \in Cars \union {None}
    /\ \A ids \in {markedToBeKicked, rest} : ids \in Seq(Ids) /\ Len(ids) =< MaxMarks
    /\ releasing \in Npcs \union {None}
    /\ mistaken \in BOOLEAN

\* An NPC points only at players and vehicles that exist, whatever left while
\* the queue was being processed: the pointers are followed at every tick.
NoDangling == \A n \in Ids :
    /\ \A f \in Pointers : npc[n][f] \in Present \union {None}
    /\ npc[n].vehicle \in cars \union {None}
    /\ npc[n].vehicleToEnter \in cars \union {None}

\* The queue names the NPCs that are marked, each once, and only they are
\* released: an NPC that took the id of a kicked one is not released for it.
KicksExact ==
    /\ ~mistaken
    /\ IsInjective(markedToBeKicked)
    /\ ~Ticking => Range(markedToBeKicked) = {n \in Npcs : npc[n].kickMark}
=============================================================================
