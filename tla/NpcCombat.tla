------------------------------ MODULE NpcCombat ------------------------------
(***************************************************************************)
(* How one NPC aims, shoots, reloads and strikes: the weapon, aim and key  *)
(* data of src/Server/Components/NPCs/NPC/npc.cpp.                         *)
(*                                                                         *)
(* Firing a bullet and changing the state of the weapon dispatch events in *)
(* the middle of the operation, and a script may call any operation of the *)
(* NPC from them.  What is left of the interrupted operations is the       *)
(* variable stack, innermost last.  Time is abstracted: whether the delay  *)
(* of a shot or of a reload has passed is a choice.                        *)
(***************************************************************************)
EXTENDS Integers, Sequences

CONSTANTS
    Players,      \* those an NPC may aim at
    Cold,         \* weapons without bullets, and all that are not listed
    Single,       \* rifles and thrown weapons: always "the last bullet"
    ClipFed,      \* weapons with a clip of many bullets
    Pump,         \* the shotgun
    Fist,         \* PlayerWeapon_Fist
    Bullet,       \* the weapons of type PlayerWeaponType_Bullet
    ClipSize,     \* clipSize of each weapon
    MaxAmmo,      \* bound: ammunition a script hands out
    MaxDepth,     \* bound: operations interrupted by callbacks
    ScriptStates, \* what scripts pass to setWeaponState
    StopInShot,   \* whether scripts end the aiming from an event of a shot
    ArmsInShot,   \* whether scripts change the weapon from such an event
    SprintAim,    \* whether scripts have a sprinting NPC aim at a player
    None

Weapons      == Cold \union Single \union ClipFed \union Pump
WeaponStates == {"NoBullets", "LastBullet", "MoreBullets", "Reloading"}

ASSUME CombatAssumption ==
    /\ Fist \in Cold
    /\ Bullet \subseteq Weapons
    /\ ClipSize \in [Weapons -> Nat]
    /\ MaxAmmo \in Nat /\ MaxDepth \in Nat
    /\ ScriptStates \subseteq WeaponStates
    /\ {StopInShot, ArmsInShot, SprintAim} \subseteq BOOLEAN
    /\ None \notin Players

VARIABLES
    npc,       \* the fields of the NPC object that follow, as a record
    state,     \* the state of its player, as far as ticks tell it apart
    sprinting, \* moving_ with moveType_ = NPCMoveType_Sprint
    alive,     \* the players in the pool
    stack      \* the operations in progress

vars == <<npc, state, sprinting, alive, stack>>

Keys == {"AIM", "FIRE", "SECONDARY_ATTACK"}

Npcs == [weapon       : Weapons,
         ammo         : Int,
         clip         : Int,                \* ammoInClip_
         infinite     : BOOLEAN,            \* infiniteAmmo_
         hasReloading : BOOLEAN,
         weaponState  : WeaponStates \union {"Unknown"},
         aiming       : BOOLEAN,
         shooting     : BOOLEAN,
         reloading    : BOOLEAN,
         target       : Players \union {None}, \* hitId_, playerAimingAt_
         melee        : {"None", "Primary", "Secondary"},
         keys         : SUBSET Keys,
         dead         : BOOLEAN]

\* A tick whose movement, or a shot whose bullet, is dispatching events;
\* setAmmo(ammo), spawn and respawn interrupted by a callback.
Frames == [op   : {"tick", "shot", "setAmmo", "spawn", "disarmed", "emptied",
                   "respawn"},
           ammo : Nat]

Frame(op)  == [op |-> op, ammo |-> 0]
Push(f)    == Len(stack) < MaxDepth /\ stack' = Append(stack, f)
Resumes(op) == /\ stack # <<>>
               /\ stack[Len(stack)].op = op
Rest       == SubSeq(stack, 1, Len(stack) - 1)
InShot     == \E i \in DOMAIN stack : stack[i].op = "shot"

(***************************************************************************)
(* The helpers of NPC, as functions of the record.                         *)
(***************************************************************************)
Lesser(a, b) == IF a < b THEN a ELSE b

\* getWeaponActualClipSize(weapon_)
ActualClipSize(n) == Lesser(ClipSize[n.weapon], n.ammo)

\* setWeaponState, without the event that it dispatches last
WithState(n, s) ==
    LET m == [n EXCEPT !.weaponState = s]
    IN CASE s = "LastBullet" /\ n.ammo > 0 -> [m EXCEPT !.clip = 1]
         [] s = "MoreBullets" /\ n.ammo > 1 /\ n.clip <= 1 ->
                [m EXCEPT !.clip = ActualClipSize(n)]
         [] s = "NoBullets" -> [m EXCEPT !.clip = 0]
         [] s = "Reloading" /\ ~n.reloading ->
                [m EXCEPT !.reloading = TRUE, !.shooting = FALSE]
         [] OTHER -> m

\* updateWeaponState
Updated(n) ==
    CASE n.weapon \in Single -> WithState(n, "LastBullet")
      [] n.weapon \in ClipFed \union Pump /\ n.reloading -> WithState(n, "Reloading")
      [] n.weapon \in ClipFed /\ ~n.reloading /\ (n.clip > 1 \/ n.infinite) ->
             WithState(n, "MoreBullets")
      [] n.weapon \in Pump /\ ~n.reloading /\ (n.clip = 1 \/ n.infinite) ->
             WithState(n, "LastBullet")
      [] n.weapon \in ClipFed /\ ~n.reloading /\ n.clip <= 1 /\ ~n.infinite ->
             IF n.ammo = 0 THEN WithState(n, "NoBullets")
             ELSE IF n.clip = 1 THEN WithState(n, "LastBullet") ELSE n
      [] n.weapon \in Pump /\ ~n.reloading /\ n.clip # 1 /\ ~n.infinite ->
             IF n.ammo = 0 THEN WithState(n, "NoBullets") ELSE n
      [] OTHER -> WithState(n, "NoBullets")

\* Wrong: the clip keeps bullets the NPC no longer has.
AmmoSetUnclamped(n, a) == Updated([n EXCEPT !.ammo = a])

\* setAmmo up to its event
AmmoSet(n, a) == Updated([n EXCEPT !.ammo = a, !.clip = Lesser(n.clip, a)])

\* setAmmoInClip
ClipSet(n, a) == [n EXCEPT !.clip = Lesser(a, ActualClipSize(n))]

\* Wrong: only the key of the aim is released.
AimStoppedFiring(n) ==
    IF ~n.aiming THEN n
    ELSE [n EXCEPT !.clip = IF n.reloading THEN ActualClipSize(n) ELSE n.clip,
                   !.aiming = FALSE, !.reloading = FALSE, !.shooting = FALSE,
                   !.target = None, !.keys = @ \ {"AIM"}]

\* Wrong: the reload goes on.
AimStoppedReloading(n) ==
    IF ~n.aiming THEN n
    ELSE [n EXCEPT !.aiming = FALSE, !.shooting = FALSE, !.target = None,
                   !.keys = @ \ {"AIM", "FIRE"}]

\* stopAim
AimStopped(n) ==
    IF ~n.aiming THEN n
    ELSE [n EXCEPT !.clip      = IF n.reloading THEN ActualClipSize(n) ELSE n.clip,
                   !.aiming    = FALSE,
                   !.reloading = FALSE,
                   !.shooting  = FALSE,
                   !.target    = None,
                   !.keys      = @ \ {"AIM", "FIRE"}]

\* Wrong: the NPC goes on shooting while it reloads.
SpentShooting(n) ==
    LET m == IF n.infinite THEN n ELSE [n EXCEPT !.ammo = @ - 1, !.clip = @ - 1]
    IN [m EXCEPT !.reloading = @ \/ (m.ammo # 0 /\ m.clip = 0)]

\* What the tick does with a shot after its events
Spent(n) ==
    LET m == [n EXCEPT !.keys = IF n.shooting THEN @ \union {"AIM", "FIRE"} ELSE @,
                       !.ammo = IF n.infinite THEN @ ELSE @ - 1,
                       !.clip = IF n.infinite THEN @ ELSE @ - 1]
        needsReloading == /\ m.hasReloading
                          /\ ActualClipSize(m) > 0
                          /\ m.ammo # 0 /\ m.clip = 0
                          /\ ~m.infinite
    IN IF needsReloading
       THEN [m EXCEPT !.reloading = TRUE, !.shooting = FALSE]
       ELSE m

-----------------------------------------------------------------------------
Init ==
    /\ npc = [weapon |-> Fist, ammo |-> 0, clip |-> 0, infinite |-> FALSE,
              hasReloading |-> TRUE, weaponState |-> "Unknown",
              aiming |-> FALSE, shooting |-> FALSE, reloading |-> FALSE,
              target |-> None, melee |-> "None", keys |-> {}, dead |-> FALSE]
    /\ state = "NotSpawned"
    /\ sprinting = FALSE
    /\ alive = {}
    /\ stack = <<>>

(***************************************************************************)
(* Operations of scripts, from the top level or from a callback.           *)
(***************************************************************************)
\* The new weapon keeps the ammunition and the clip of the old one.
SetWeapon(w) ==
    /\ InShot => ArmsInShot
    /\ npc' = Updated([npc EXCEPT !.weapon = w])
    /\ UNCHANGED <<state, sprinting, alive, stack>>

\* Wrong: what is in the clip is taken from what is to fill it.
SetAmmoLess(a) ==
    /\ InShot => ArmsInShot
    /\ npc' = AmmoSet(npc, a)
    /\ Push([op |-> "setAmmo", ammo |-> a - npc.clip])
    /\ UNCHANGED <<state, sprinting, alive>>

\* The clip is filled after the event of the weapon's state, if there is one.
SetAmmo(a) ==
    /\ InShot => ArmsInShot
    /\ LET m == AmmoSet(npc, a)
       IN IF m.weaponState = npc.weaponState
          THEN npc' = ClipSet(m, a) /\ UNCHANGED stack
          ELSE npc' = m /\ Push([op |-> "setAmmo", ammo |-> a])
    /\ UNCHANGED <<state, sprinting, alive>>

EndSetAmmo ==
    /\ Resumes("setAmmo")
    /\ npc' = ClipSet(npc, stack[Len(stack)].ammo)
    /\ stack' = Rest
    /\ UNCHANGED <<state, sprinting, alive>>

SetAmmoInClip(a) ==
    /\ InShot => ArmsInShot
    /\ npc' = ClipSet(npc, a)
    /\ UNCHANGED <<state, sprinting, alive, stack>>

EnableInfiniteAmmo(b) ==
    /\ InShot => ArmsInShot
    /\ npc' = [npc EXCEPT !.infinite = b]
    /\ UNCHANGED <<state, sprinting, alive, stack>>

EnableReloading(b) ==
    /\ npc' = [npc EXCEPT !.hasReloading = b]
    /\ UNCHANGED <<state, sprinting, alive, stack>>

SetWeaponState(s) ==
    /\ InShot => ArmsInShot
    /\ npc' = WithState(npc, s)
    /\ UNCHANGED <<state, sprinting, alive, stack>>

\* aimAt: refused while sprinting; aiming already, it stops first
AimedAt(n, shoot) ==
    IF sprinting THEN n
    ELSE [AimStopped(n) EXCEPT !.reloading = FALSE,
                               !.keys      = @ \union {"AIM"},
                               !.aiming    = TRUE,
                               !.shooting  = shoot]

AimAt(shoot) ==
    /\ npc' = AimedAt(npc, shoot)
    /\ UNCHANGED <<state, sprinting, alive, stack>>

\* The target is recorded even if aimAt refused.
AimAtPlayer(p, shoot) ==
    /\ p \in alive
    /\ sprinting => SprintAim
    /\ npc' = [AimedAt(npc, shoot) EXCEPT !.target = p]
    /\ UNCHANGED <<state, sprinting, alive, stack>>

StopAim ==
    /\ InShot => StopInShot
    /\ npc' = AimStopped(npc)
    /\ UNCHANGED <<state, sprinting, alive, stack>>

MeleeAttack(kind) ==
    /\ npc.melee = "None"
    /\ state = "OnFoot" /\ ~npc.dead
    /\ npc' = [npc EXCEPT !.melee = kind,
                          !.keys  = @ \union IF kind = "Secondary"
                                             THEN {"AIM", "SECONDARY_ATTACK"}
                                             ELSE {"FIRE"}]
    /\ UNCHANGED <<state, sprinting, alive, stack>>

StopMeleeAttack ==
    /\ npc.melee # "None"
    /\ npc' = [npc EXCEPT !.melee = "None",
                          !.keys  = @ \ IF npc.melee = "Secondary"
                                        THEN {"AIM", "SECONDARY_ATTACK"}
                                        ELSE {"FIRE"}]
    /\ UNCHANGED <<state, sprinting, alive, stack>>

\* move with NPCMoveType_Sprint, which ends the aiming; a driver gets out.
Sprint ==
    /\ InShot => StopInShot
    /\ sprinting' = TRUE
    /\ state' \in IF state = "InVehicle" THEN {"InVehicle", "OnFoot"} ELSE {state}
    /\ npc' = AimStopped(npc)
    /\ UNCHANGED <<alive, stack>>

StopMove ==
    /\ sprinting
    /\ sprinting' = FALSE
    /\ UNCHANGED <<npc, state, alive, stack>>

\* putInVehicle and removeFromVehicle, as far as the player's state goes.  An
\* NPC that died in a vehicle keeps it, and its syncs seat the player again.
ChangeSeat ==
    /\ state # "NotSpawned"
    /\ state' \in IF state = "Wasted" THEN {"InVehicle"} ELSE {"InVehicle", "OnFoot"}
    /\ UNCHANGED <<npc, sprinting, alive, stack>>

\* Neither the aim nor the melee attack ends with the death.
Kill ==
    /\ ~npc.dead
    /\ npc' = [npc EXCEPT !.keys = {}, !.dead = TRUE]
    /\ sprinting' = FALSE
    /\ state' = "Wasted"
    /\ UNCHANGED <<alive, stack>>

\* The RPCs of the spawn dispatch events before the NPC is disarmed; taking
\* its weapon and taking its ammunition may dispatch one each.
Spawn ==
    /\ InShot => ArmsInShot
    /\ Push(Frame("spawn"))
    /\ state' = "Spawned"
    /\ UNCHANGED <<npc, sprinting, alive>>

EmptyFrom(n) ==
    LET m == AmmoSet(n, 0)
    IN IF m.weaponState = n.weaponState
       THEN npc' = [ClipSet(m, 0) EXCEPT !.dead = FALSE] /\ stack' = Rest
       ELSE npc' = m /\ stack' = Append(Rest, Frame("emptied"))

Disarm ==
    /\ Resumes("spawn")
    /\ LET n == Updated([npc EXCEPT !.weapon = Fist])
       IN IF n.weaponState = npc.weaponState
          THEN EmptyFrom(n)
          ELSE npc' = n /\ stack' = Append(Rest, Frame("disarmed"))
    /\ UNCHANGED <<state, sprinting, alive>>

Empty ==
    /\ Resumes("disarmed")
    /\ EmptyFrom(npc)
    /\ UNCHANGED <<state, sprinting, alive>>

EndSpawn ==
    /\ Resumes("emptied")
    /\ npc' = [ClipSet(npc, 0) EXCEPT !.dead = FALSE]
    /\ stack' = Rest
    /\ UNCHANGED <<state, sprinting, alive>>

Respawn ==
    /\ state # "NotSpawned"
    /\ Push(Frame("respawn"))
    /\ state' = "Spawned"
    /\ UNCHANGED <<npc, sprinting, alive>>

EndRespawn ==
    /\ Resumes("respawn")
    /\ npc' = [npc EXCEPT !.dead = FALSE]
    /\ stack' = Rest
    /\ UNCHANGED <<state, sprinting, alive>>

(***************************************************************************)
(* The tick, which handles the arms only on foot, as the state was before  *)
(* the events of its first half: the death, the movement, the vehicles.    *)
(* Left out is the end of an aim whose target's id is another player's,    *)
(* which needs a target that has left the pool.                            *)
(***************************************************************************)
TickInterrupted ==
    /\ stack = <<>>
    /\ state = "OnFoot"
    /\ Push(Frame("tick"))
    /\ UNCHANGED <<npc, state, sprinting, alive>>

Ticks == \/ stack = <<>> /\ state = "OnFoot"
         \/ stack = <<Frame("tick")>>

Lowered(n) == [n EXCEPT !.keys = (@ \ {"FIRE"}) \union {"AIM"}]

TickReloading ==
    /\ Ticks
    /\ npc.reloading
    /\ \/ npc' = Lowered(npc)
       \/ npc' = [npc EXCEPT !.reloading = FALSE,
                             !.shooting  = TRUE,
                             !.clip      = ActualClipSize(npc)]
    /\ stack' = <<>>
    /\ UNCHANGED <<state, sprinting, alive>>

Shoots == Ticks /\ ~npc.reloading /\ npc.shooting
Dry    == npc.ammo = 0 /\ ~npc.infinite

TickDry ==
    /\ Shoots
    /\ Dry
    /\ npc' = [Lowered(npc) EXCEPT !.shooting = FALSE]
    /\ stack' = <<>>
    /\ UNCHANGED <<state, sprinting, alive>>

\* The trigger is released between two shots.
TickBetweenShots ==
    /\ Shoots
    /\ ~Dry
    /\ npc' = Lowered(npc)
    /\ stack' = <<>>
    /\ UNCHANGED <<state, sprinting, alive>>

\* Wrong: the clip is not looked at.
TickShootEmpty ==
    /\ Shoots
    /\ ~Dry
    /\ npc' = Lowered(npc)
    /\ MaxDepth > 0 /\ stack' = <<Frame("shot")>>
    /\ UNCHANGED <<state, sprinting, alive>>

\* A bullet dispatches its events before it is counted; the other weapons
\* dispatch none.
TickShoot ==
    /\ Shoots
    /\ ~Dry
    /\ npc.clip # 0 \/ npc.infinite
    /\ IF npc.weapon \in Bullet
       THEN npc' = Lowered(npc) /\ MaxDepth > 0 /\ stack' = <<Frame("shot")>>
       ELSE npc' = Spent(Lowered(npc)) /\ stack' = <<>>
    /\ UNCHANGED <<state, sprinting, alive>>

AfterShot ==
    /\ Resumes("shot")
    /\ npc' = Spent(npc)
    /\ stack' = Rest
    /\ UNCHANGED <<state, sprinting, alive>>

TickMelee ==
    /\ Ticks
    /\ ~npc.reloading /\ ~npc.shooting
    /\ \/ /\ npc.melee = "Primary"
          /\ \/ npc' = [npc EXCEPT !.keys = @ \union {"FIRE"}]
             \/ npc' = [npc EXCEPT !.keys = @ \ {"FIRE"}]
       \/ /\ npc.melee = "Secondary"
          /\ \/ npc' = [npc EXCEPT !.keys = @ \union {"AIM", "SECONDARY_ATTACK"}]
             \/ npc' = [npc EXCEPT !.keys = @ \ {"SECONDARY_ATTACK"}]
    /\ stack' = <<>>
    /\ UNCHANGED <<state, sprinting, alive>>

\* No delay has passed, or there is nothing to do with the arms.
EndTick ==
    /\ stack = <<Frame("tick")>>
    /\ ~npc.reloading
    /\ ~(npc.shooting /\ Dry)
    /\ stack' = <<>>
    /\ UNCHANGED <<npc, state, sprinting, alive>>

\* updateAim, at the rate of the aim syncs
TickUpdateAim ==
    /\ stack = <<>>
    /\ npc' = Updated(npc)
    /\ UNCHANGED <<state, sprinting, alive, stack>>

\* The pool sets a spawned player on foot when a sync of it arrives.
TickFootSync ==
    /\ stack = <<>>
    /\ state = "Spawned"
    /\ state' = "OnFoot"
    /\ UNCHANGED <<npc, sprinting, alive, stack>>

(***************************************************************************)
(* Players.  They leave when the network or the pool ticks, outside every  *)
(* operation of an NPC.                                                    *)
(***************************************************************************)
PlayerJoins(p) ==
    /\ stack = <<>>
    /\ p \notin alive
    /\ alive' = alive \union {p}
    /\ UNCHANGED <<npc, state, sprinting, stack>>

\* Wrong: an NPC that aims without shooting is passed over.
PlayerLeavesAimed(p) ==
    /\ stack = <<>>
    /\ p \in alive
    /\ alive' = alive \ {p}
    /\ npc' = IF npc.target = p /\ npc.shooting THEN AimStopped(npc) ELSE npc
    /\ UNCHANGED <<state, sprinting, stack>>

\* NPCComponent::onPoolEntryDestroyed
PlayerLeaves(p) ==
    /\ stack = <<>>
    /\ p \in alive
    /\ alive' = alive \ {p}
    /\ npc' = IF npc.target = p THEN AimStopped(npc) ELSE npc
    /\ UNCHANGED <<state, sprinting, stack>>

-----------------------------------------------------------------------------
Script ==
    \/ \E w \in Weapons : SetWeapon(w)
    \/ \E a \in 0..MaxAmmo : SetAmmo(a) \/ SetAmmoInClip(a)
    \/ \E b \in BOOLEAN : EnableInfiniteAmmo(b) \/ EnableReloading(b) \/ AimAt(b)
    \/ \E s \in ScriptStates : SetWeaponState(s)
    \/ \E p \in Players, b \in BOOLEAN : AimAtPlayer(p, b)
    \/ \E kind \in {"Primary", "Secondary"} : MeleeAttack(kind)
    \/ StopAim \/ StopMeleeAttack
    \/ Sprint \/ StopMove \/ ChangeSeat
    \/ Kill \/ Spawn \/ Respawn

Resume ==
    EndSetAmmo \/ Disarm \/ Empty \/ EndSpawn \/ EndRespawn \/ AfterShot

Tick ==
    \/ TickInterrupted \/ EndTick
    \/ TickReloading \/ TickDry \/ TickBetweenShots \/ TickShoot \/ TickMelee
    \/ TickUpdateAim \/ TickFootSync

Next ==
    \/ Script \/ Resume \/ Tick
    \/ \E p \in Players : PlayerJoins(p) \/ PlayerLeaves(p)

Spec == Init /\ [][Next]_vars

-----------------------------------------------------------------------------
(***************************************************************************)
(* Properties                                                              *)
(***************************************************************************)
\* Every field holds a value of its C++ type's meaning; the counts are ints.
TypeOK ==
    /\ npc \in Npcs
    /\ state \in {"NotSpawned", "Spawned", "OnFoot", "InVehicle", "Wasted"}
    /\ sprinting \in BOOLEAN
    /\ alive \subseteq Players
    /\ stack \in Seq(Frames)

\* A clip with bullets never holds more than the NPC has, whatever a script
\* does from the events of a shot, of setAmmo or of a spawn: each of them
\* resumes with counts it did not read again.
ClipWithinAmmo == npc.clip > 0 => npc.clip <= npc.ammo

\* An NPC never shoots and reloads at once: the two flags are written by
\* aimAt, stopAim, setWeaponState, the end of a reload and the end of a shot.
ReloadExcludesShooting == ~(npc.reloading /\ npc.shooting)

\* A shot never takes the ammunition or the clip below zero, which would make
\* the NPC fire for ever: the tests for zero would not see it.
NeverOverdrawn == npc.ammo >= 0 /\ npc.clip >= 0

\* An NPC that does not aim neither shoots nor reloads: stopAim ends both,
\* and a second stopAim would return early.
AimlessIsQuiet == ~npc.aiming => ~npc.shooting /\ ~npc.reloading

\* No key of an attack stays pressed when there is neither an aim nor a melee
\* attack, as the comment in the tick wants ("we don't want to be stuck with
\* the wrong applied keys").
KeysReleased == ~npc.aiming /\ npc.melee = "None" => npc.keys = {}

\* The player an NPC keeps a pointer to is in the pool: onPoolEntryDestroyed
\* must find every NPC that has one.
TargetInPool == npc.target # None => npc.target \in alive

-----------------------------------------------------------------------------
(* For instances: clips of no bullet, of one and of two.                    *)
ClipSizes == [w \in Weapons |-> IF w \in Cold THEN 0
                                ELSE IF w \in ClipFed THEN 2 ELSE 1]
=============================================================================
