--------------------------- MODULE NpcCombatProofs ---------------------------
(***************************************************************************)
(* Proofs about NpcCombat.  The invariant is one predicate of the record   *)
(* npc, kept by every operator on it, and what the operations in progress  *)
(* rely on when they resume.                                               *)
(***************************************************************************)
EXTENDS NpcCombat, SequenceTheorems, TLAPS

Drawn(n) == ~ArmsInShot => n.ammo >= 0 /\ n.clip >= 0

\* The keys that a melee attack of the kind m holds
MeleeKeys(m) == IF m = "Primary" THEN {"FIRE"}
                ELSE IF m = "Secondary" THEN {"AIM", "SECONDARY_ATTACK"} ELSE {}

Good(n) == /\ n.clip > 0 => n.clip <= n.ammo
           /\ ~(n.reloading /\ n.shooting)
           /\ n.keys \subseteq {"AIM", "FIRE"} \union MeleeKeys(n.melee)

\* Scripts leave the aim of a shot alone and put no weapon into reloading.
Orderly == ~StopInShot /\ "Reloading" \notin ScriptStates

Quiet(n) ==
    Orderly /\ ~n.aiming =>
        ~n.shooting /\ ~n.reloading /\ n.keys \subseteq MeleeKeys(n.melee)

Aimed(n) == ~SprintAim /\ n.target # None => n.aiming

NInv(n) == n \in Npcs /\ Good(n) /\ Drawn(n) /\ Quiet(n) /\ Aimed(n)

\* m neither shoots nor reloads unless n did.
Calm(n, m) == (m.reloading => n.reloading) /\ (m.shooting => n.shooting)

HasShot(s) == \E i \in DOMAIN s : s[i].op = "shot"
OneShot(s) == \A i \in DOMAIN s : s[i].op = "shot" => i = 1

\* What a shot in progress finds when it resumes
ShotOK(n, s) ==
    HasShot(s) => /\ ~ArmsInShot => /\ n.infinite \/ n.clip >= 1
                                   /\ ~n.reloading
                                   /\ \A i \in DOMAIN s : s[i].op \in {"shot", "respawn"}
                  /\ Orderly => n.aiming

Watched(n, a) == ~SprintAim /\ n.target # None => n.target \in a

Others ==
    /\ state \in {"NotSpawned", "Spawned", "OnFoot", "InVehicle", "Wasted"}
    /\ sprinting \in BOOLEAN
    /\ alive \subseteq Players
    /\ stack \in Seq(Frames)
    /\ OneShot(stack)

IInv == /\ NInv(npc)
        /\ Others
        /\ ShotOK(npc, stack)
        /\ Watched(npc, alive)

\* The state of the weapon may change, its clip shrink or fill: what a caller
\* of setWeaponState finds.
Rearmed(n, m) ==
    /\ m \in Npcs /\ Good(m)
    /\ m.ammo = n.ammo
    /\ n.ammo >= 0 /\ n.clip >= 0 => m.clip >= 0
    /\ m.infinite = n.infinite /\ m.aiming = n.aiming /\ m.target = n.target
    /\ m.keys = n.keys /\ m.melee = n.melee

-----------------------------------------------------------------------------
(***************************************************************************)
(* The operators on the record                                             *)
(***************************************************************************)
\* The clip of a weapon holds at most the ammunition left.
LEMMA ActualClipSizeBound ==
    ASSUME NEW n \in Npcs
    PROVE  /\ ActualClipSize(n) \in Int
           /\ ActualClipSize(n) <= n.ammo
           /\ n.ammo >= 0 => ActualClipSize(n) >= 0
<1>1. n.weapon \in Weapons /\ n.ammo \in Int
  BY DEF Npcs
<1>2. ClipSize[n.weapon] \in Nat
  BY <1>1, CombatAssumption
<1> QED
  BY <1>1, <1>2 DEF ActualClipSize, Lesser

\* A new weapon state keeps the clip within the ammunition.
LEMMA WithStateKeeps ==
    ASSUME NEW n \in Npcs, NEW s \in WeaponStates, Good(n)
    PROVE  /\ Rearmed(n, WithState(n, s))
           /\ s # "Reloading" \/ n.reloading => Calm(n, WithState(n, s))
<1> DEFINE m == [n EXCEPT !.weaponState = s]
<1>1. m \in Npcs /\ Rearmed(n, m) /\ Calm(n, m)
  BY DEF Npcs, Good, Calm, Rearmed
<1>2. /\ ActualClipSize(n) \in Int /\ ActualClipSize(n) <= n.ammo
      /\ n.ammo >= 0 => ActualClipSize(n) >= 0
  BY ActualClipSizeBound
<1>3. n.ammo \in Int /\ n.clip \in Int
  BY DEF Npcs
<1>4. ASSUME NEW c \in Int, c > 0 => c <= n.ammo,
             n.ammo >= 0 /\ n.clip >= 0 => c >= 0
      PROVE  /\ Rearmed(n, [m EXCEPT !.clip = c])
             /\ Calm(n, [m EXCEPT !.clip = c])
  BY <1>3, <1>4 DEF Npcs, Good, Calm, Rearmed
<1>5. CASE s = "LastBullet" /\ n.ammo > 0
  <2>1. WithState(n, s) = [m EXCEPT !.clip = 1]
    BY <1>5 DEF WithState
  <2>2. 1 <= n.ammo
    BY <1>3, <1>5
  <2> HIDE DEF m
  <2> QED
    BY <1>4, <2>1, <2>2
<1>6. CASE s = "MoreBullets" /\ n.ammo > 1 /\ n.clip <= 1
  <2>1. WithState(n, s) = [m EXCEPT !.clip = ActualClipSize(n)]
    BY <1>6 DEF WithState
  <2> HIDE DEF m
  <2> QED
    BY <1>2, <1>4, <2>1
<1>7. CASE s = "NoBullets"
  <2>1. WithState(n, s) = [m EXCEPT !.clip = 0]
    BY <1>7 DEF WithState
  <2> HIDE DEF m
  <2> QED
    BY <1>3, <1>4, <1>7, <2>1
<1>8. CASE s = "Reloading" /\ ~n.reloading
  <2>1. WithState(n, s) = [m EXCEPT !.reloading = TRUE, !.shooting = FALSE]
    BY <1>8 DEF WithState
  <2> QED
    BY <1>1, <1>8, <2>1 DEF Npcs, Good, Rearmed
<1>9. CASE WithState(n, s) = m
  BY <1>1, <1>9
<1> QED
  BY <1>5, <1>6, <1>7, <1>8, <1>9 DEF WithState

\* So does updating the weapon's state from its clip.
LEMMA UpdatedKeeps ==
    ASSUME NEW n \in Npcs, Good(n)
    PROVE  Rearmed(n, Updated(n)) /\ Calm(n, Updated(n))
<1>1. Rearmed(n, n) /\ Calm(n, n)
  BY DEF Rearmed, Calm
<1>2. \A s \in WeaponStates : s # "Reloading" \/ n.reloading =>
          Rearmed(n, WithState(n, s)) /\ Calm(n, WithState(n, s))
  BY WithStateKeeps
<1>3. {"NoBullets", "LastBullet", "MoreBullets", "Reloading"} \subseteq WeaponStates
  BY DEF WeaponStates
<1>4. CASE Updated(n) = n
  BY <1>1, <1>4
<1>5. ASSUME NEW s \in WeaponStates, s # "Reloading" \/ n.reloading,
             Updated(n) = WithState(n, s)
      PROVE  Rearmed(n, Updated(n)) /\ Calm(n, Updated(n))
  BY <1>2, <1>5
<1> QED
  BY <1>3, <1>4, <1>5 DEF Updated

\* An NPC rearmed in an orderly way keeps the invariant.
LEMMA RearmedKeeps ==
    ASSUME NEW n, NEW m, NInv(n), Rearmed(n, m), Calm(n, m) \/ ~Orderly
    PROVE  NInv(m)
<1>1. m \in Npcs /\ Good(m) /\ Drawn(m) /\ Aimed(m)
  BY DEF NInv, Rearmed, Drawn, Aimed
<1>2. Quiet(m)
  BY DEF NInv, Quiet, Calm, Rearmed
<1> QED
  BY <1>1, <1>2 DEF NInv

LEMMA AmmoSetKeeps ==
    ASSUME NEW n, NInv(n), NEW a \in Nat
    PROVE  /\ NInv(AmmoSet(n, a))
           /\ AmmoSet(n, a).aiming = n.aiming /\ AmmoSet(n, a).target = n.target
<1> DEFINE c == Lesser(n.clip, a)
           m == [n EXCEPT !.ammo = a, !.clip = c]
<1>1. n \in Npcs /\ n.clip \in Int
  BY DEF NInv, Npcs
<1>2. c \in Int /\ c <= a /\ (n.clip >= 0 => c >= 0)
  BY <1>1 DEF Lesser
<1>5. AmmoSet(n, a) = Updated(m)
  BY DEF AmmoSet
<1> HIDE DEF c
<1>3. /\ m \in Npcs /\ m.ammo = a /\ m.clip = c
      /\ m.aiming = n.aiming /\ m.target = n.target /\ m.shooting = n.shooting
      /\ m.reloading = n.reloading /\ m.keys = n.keys /\ m.melee = n.melee
  <2> DEFINE k == [n EXCEPT !.ammo = a]
  <2>1. a \in Int
    OBVIOUS
  <2>2. k \in Npcs /\ m = [k EXCEPT !.clip = c]
    BY <1>1, <2>1 DEF Npcs
  <2> HIDE DEF k
  <2>3. m \in Npcs
    BY <1>2, <2>2 DEF Npcs
  <2> QED
    BY <1>1, <2>1, <2>3 DEF Npcs
<1> HIDE DEF m
<1>4. NInv(m)
  BY <1>1, <1>2, <1>3 DEF NInv, Good, Drawn, Quiet, Aimed
<1>6. Rearmed(m, Updated(m)) /\ Calm(m, Updated(m))
  BY <1>4, UpdatedKeeps DEF NInv
<1> QED
  BY <1>3, <1>4, <1>5, <1>6, RearmedKeeps DEF Rearmed

LEMMA ClipSetKeeps ==
    ASSUME NEW n, NInv(n), NEW a \in Nat
    PROVE  Rearmed(n, ClipSet(n, a)) /\ NInv(ClipSet(n, a))
<1>1. n \in Npcs
  BY DEF NInv
<1>2. /\ ActualClipSize(n) \in Int /\ ActualClipSize(n) <= n.ammo
      /\ n.ammo >= 0 => ActualClipSize(n) >= 0
  BY <1>1, ActualClipSizeBound
<1> DEFINE c == Lesser(a, ActualClipSize(n))
<1>3. c \in Int /\ c <= n.ammo /\ (n.ammo >= 0 => c >= 0)
  <2>1. n.ammo \in Int
    BY <1>1 DEF Npcs
  <2> QED
    BY <1>2, <2>1 DEF Lesser
<1>4. ClipSet(n, a) = [n EXCEPT !.clip = c]
  BY DEF ClipSet
<1> HIDE DEF c
<1>5. Rearmed(n, ClipSet(n, a)) /\ Calm(n, ClipSet(n, a))
  BY <1>1, <1>3, <1>4 DEF NInv, Good, Npcs, Rearmed, Calm
<1> QED
  BY <1>5, RearmedKeeps

\* stopAim leaves nothing of the aim: no shots, no reload, no keys.
LEMMA AimStoppedKeeps ==
    ASSUME NEW n, NInv(n)
    PROVE  /\ NInv(AimStopped(n)) /\ ~AimStopped(n).aiming
           /\ n.aiming => AimStopped(n).target = None
           /\ ~n.aiming => AimStopped(n) = n
           /\ AimStopped(n).infinite = n.infinite
           /\ ~n.reloading => /\ AimStopped(n).clip = n.clip
                              /\ ~AimStopped(n).reloading
<1>1. n \in Npcs /\ n.aiming \in BOOLEAN
  BY DEF NInv, Npcs
<1>2. CASE ~n.aiming
  BY <1>2 DEF AimStopped
<1>3. CASE n.aiming
  <2> DEFINE c == IF n.reloading THEN ActualClipSize(n) ELSE n.clip
             k == n.keys \ {"AIM", "FIRE"}
  <2>1. c \in Int /\ (c > 0 => c <= n.ammo)
        /\ (n.ammo >= 0 /\ n.clip >= 0 => c >= 0)
    <3>1. n.ammo \in Int /\ n.clip \in Int
      BY <1>1 DEF Npcs
    <3> QED
      BY <1>1, <3>1, ActualClipSizeBound DEF NInv, Good
  <2>2. k \in SUBSET Keys
    BY <1>1 DEF Npcs
  <2>3. AimStopped(n) = [n EXCEPT !.clip = c, !.aiming = FALSE,
                                  !.reloading = FALSE, !.shooting = FALSE,
                                  !.target = None, !.keys = k]
    BY <1>3 DEF AimStopped
  <2> HIDE DEF c, k
  <2>4. /\ AimStopped(n) \in Npcs /\ AimStopped(n).target = None
        /\ AimStopped(n).keys = k /\ AimStopped(n).clip = c
        /\ ~AimStopped(n).aiming /\ ~AimStopped(n).reloading
        /\ ~AimStopped(n).shooting
        /\ AimStopped(n).ammo = n.ammo /\ AimStopped(n).melee = n.melee
        /\ AimStopped(n).infinite = n.infinite
    BY <1>1, <2>1, <2>2, <2>3 DEF Npcs
  <2>5. k \subseteq MeleeKeys(n.melee)
    BY DEF NInv, Good, k
  <2> QED
    BY <1>3, <2>1, <2>4, <2>5 DEF NInv, Good, Drawn, Quiet, Aimed, c
<1> QED
  BY <1>1, <1>2, <1>3

\* aimAt leaves the aim as it was, or aims with a fresh start.
LEMMA AimedAtKeeps ==
    ASSUME NEW n, NInv(n), NEW shoot \in BOOLEAN, sprinting \in BOOLEAN
    PROVE  /\ NInv(AimedAt(n, shoot))
           /\ ~sprinting => AimedAt(n, shoot).aiming
           /\ n.aiming => AimedAt(n, shoot).aiming
           /\ AimedAt(n, shoot).infinite = n.infinite
           /\ AimedAt(n, shoot).target \in {n.target, None}
           /\ ~n.reloading => /\ AimedAt(n, shoot).clip = n.clip
                              /\ ~AimedAt(n, shoot).reloading
<1>1. CASE sprinting
  BY <1>1 DEF AimedAt
<1>2. CASE ~sprinting
  <2> DEFINE m == AimStopped(n)
             k == m.keys \union {"AIM"}
  <2>1. NInv(m) /\ ~m.aiming /\ m.infinite = n.infinite
        /\ m.target \in {n.target, None}
        /\ (~n.reloading => m.clip = n.clip)
    BY AimStoppedKeeps
  <2>2. m \in Npcs
    BY <2>1 DEF NInv
  <2>3. AimedAt(n, shoot) = [m EXCEPT !.reloading = FALSE, !.keys = k,
                                      !.aiming = TRUE, !.shooting = shoot]
    BY <1>2 DEF AimedAt
  <2> HIDE DEF m
  <2>4. k \in SUBSET Keys
    BY <2>2 DEF Npcs, Keys
  <2>5. k \subseteq {"AIM", "FIRE"} \union MeleeKeys(m.melee)
    BY <2>1 DEF NInv, Good
  <2> HIDE DEF k
  <2> DEFINE r == AimedAt(n, shoot)
  <2>6. r \in Npcs
    BY <2>2, <2>3, <2>4 DEF Npcs
  <2>7. /\ r.clip = m.clip /\ r.ammo = m.ammo /\ ~r.reloading /\ r.aiming
        /\ r.keys = k /\ r.melee = m.melee /\ r.infinite = m.infinite
        /\ r.target = m.target
    BY <2>2, <2>3 DEF Npcs
  <2> HIDE DEF r
  <2>8. NInv(r)
    BY <2>1, <2>5, <2>6, <2>7 DEF NInv, Good, Drawn, Quiet, Aimed
  <2> QED
    BY <1>2, <2>1, <2>7, <2>8 DEF r
<1> QED
  BY <1>1, <1>2

\* A shot is paid from a clip that had a bullet when it was fired.
LEMMA SpentKeeps ==
    ASSUME NEW n, NInv(n),
           ~ArmsInShot => n.infinite \/ n.clip >= 1,
           Orderly => n.aiming
    PROVE  /\ NInv(Spent(n))
           /\ Spent(n).target = n.target /\ Spent(n).aiming = n.aiming
<1> DEFINE k == IF n.shooting THEN n.keys \union {"AIM", "FIRE"} ELSE n.keys
           a == IF n.infinite THEN n.ammo ELSE n.ammo - 1
           c == IF n.infinite THEN n.clip ELSE n.clip - 1
           m == [n EXCEPT !.keys = k, !.ammo = a, !.clip = c]
<1>1. n \in Npcs /\ n.ammo \in Int /\ n.clip \in Int
  BY DEF NInv, Npcs
<1>2. Spent(n) = m \/ Spent(n) = [m EXCEPT !.reloading = TRUE, !.shooting = FALSE]
  BY DEF Spent
<1>3. a \in Int /\ c \in Int /\ (c > 0 => c <= a)
      /\ (~ArmsInShot => a >= 0 /\ c >= 0)
  BY <1>1 DEF NInv, Good, Drawn
<1>4. k \in SUBSET Keys /\ k \subseteq {"AIM", "FIRE"} \union MeleeKeys(n.melee)
  BY <1>1 DEF NInv, Good, Npcs, Keys
<1> HIDE DEF a, c, k
<1>5. m \in Npcs
  <2> DEFINE m1 == [n EXCEPT !.keys = k]
             m2 == [m1 EXCEPT !.ammo = a]
  <2>1. m1 \in Npcs
    BY <1>1, <1>4 DEF Npcs
  <2>2. m = [m2 EXCEPT !.clip = c]
    BY <1>1 DEF Npcs
  <2> HIDE DEF m1
  <2>3. m2 \in Npcs
    BY <1>3, <2>1 DEF Npcs
  <2> HIDE DEF m, m2
  <2> QED
    BY <1>3, <2>2, <2>3 DEF Npcs
<1>6. /\ m.ammo = a /\ m.clip = c /\ m.keys = k /\ m.aiming = n.aiming
      /\ m.target = n.target /\ m.melee = n.melee
      /\ m.shooting = n.shooting /\ m.reloading = n.reloading
  BY <1>1, <1>5 DEF Npcs
<1> HIDE DEF m
<1>7. NInv(m)
  BY <1>1, <1>3, <1>4, <1>5, <1>6 DEF NInv, Good, Drawn, Quiet, Aimed
<1>8. CASE Spent(n) = [m EXCEPT !.reloading = TRUE, !.shooting = FALSE]
  <2> DEFINE r == [m EXCEPT !.reloading = TRUE, !.shooting = FALSE]
  <2>1. r \in Npcs
    BY <1>5 DEF Npcs
  <2>2. /\ r.ammo = m.ammo /\ r.clip = m.clip /\ r.keys = m.keys
        /\ r.aiming = m.aiming /\ r.target = m.target /\ r.melee = m.melee
        /\ ~r.shooting
    BY <1>5 DEF Npcs
  <2> HIDE DEF r
  <2>3. NInv(r)
    BY <1>6, <1>7, <2>1, <2>2 DEF NInv, Good, Drawn, Quiet, Aimed
  <2> QED
    BY <1>6, <1>8, <2>2, <2>3 DEF r
<1> QED
  BY <1>2, <1>6, <1>7, <1>8

-----------------------------------------------------------------------------
(***************************************************************************)
(* The operations in progress                                              *)
(***************************************************************************)
\* A shot can only be the first operation in progress.
LEMMA PushKeeps ==
    ASSUME NEW s \in Seq(Frames), NEW f \in Frames, OneShot(s),
           f.op # "shot" \/ s = <<>>
    PROVE  /\ Append(s, f) \in Seq(Frames)
           /\ OneShot(Append(s, f))
           /\ HasShot(Append(s, f)) => HasShot(s) \/ f.op = "shot"
  BY DEF OneShot, HasShot

LEMMA RestKeeps ==
    ASSUME NEW s \in Seq(Frames), s # <<>>, OneShot(s)
    PROVE  /\ SubSeq(s, 1, Len(s) - 1) \in Seq(Frames)
           /\ OneShot(SubSeq(s, 1, Len(s) - 1))
           /\ \A i \in DOMAIN SubSeq(s, 1, Len(s) - 1) :
                  i \in DOMAIN s /\ SubSeq(s, 1, Len(s) - 1)[i] = s[i]
           /\ HasShot(SubSeq(s, 1, Len(s) - 1)) =>
                  HasShot(s) /\ s[Len(s)].op # "shot"
<1> DEFINE r == SubSeq(s, 1, Len(s) - 1)
<1>1. Len(s) \in Nat /\ Len(s) >= 1
  OBVIOUS
<1>2. r \in Seq(Frames) /\ Len(r) = Len(s) - 1
      /\ \A i \in 1..Len(r) : r[i] = s[i]
  <2>1. \A i \in 1..(Len(s) - 1) : s[i] \in Frames
    BY <1>1, ElementOfSeq
  <2>2. Len(s) - 1 \in Int /\ 1 \in Int
    BY <1>1
  <2> HIDE DEF Frames
  <2>3. /\ r \in Seq(Frames)
        /\ Len(r) = IF 1 <= Len(s) - 1 THEN (Len(s) - 1) - 1 + 1 ELSE 0
        /\ \A i \in 1..((Len(s) - 1) - 1 + 1) : r[i] = s[1 + i - 1]
    BY <2>1, <2>2, SubSeqProperties
  <2> HIDE DEF r
  <2>4. Len(r) = Len(s) - 1
    <3>1. \A k \in Nat : k >= 1 => (IF 1 <= k - 1 THEN (k - 1) - 1 + 1 ELSE 0) = k - 1
      OBVIOUS
    <3> QED
      BY <1>1, <2>3, <3>1
  <2>5. \A i \in 1..Len(r) : r[i] = s[i]
    <3> SUFFICES ASSUME NEW i \in 1..Len(r)
                 PROVE  r[i] = s[i]
      OBVIOUS
    <3>1. i \in 1..((Len(s) - 1) - 1 + 1) /\ 1 + i - 1 = i
      BY <1>1, <2>4
    <3> QED
      BY <2>3, <3>1
  <2> QED
    BY <2>3, <2>4, <2>5
<1>3. DOMAIN r = 1..(Len(s) - 1) /\ DOMAIN s = 1..Len(s)
  BY <1>2
<1> HIDE DEF r
<1>4. \A i \in DOMAIN r : i \in DOMAIN s /\ r[i] = s[i]
  BY <1>1, <1>2, <1>3
<1>5. HasShot(r) => HasShot(s) /\ s[Len(s)].op # "shot"
  <2> SUFFICES ASSUME NEW i \in DOMAIN r, r[i].op = "shot"
               PROVE  HasShot(s) /\ s[Len(s)].op # "shot"
    BY DEF HasShot
  <2>1. i \in DOMAIN s /\ s[i].op = "shot" /\ i <= Len(s) - 1
    BY <1>1, <1>3, <1>4
  <2>2. i = 1 /\ Len(s) # 1
    BY <1>1, <1>3, <2>1 DEF OneShot
  <2> QED
    BY <1>1, <1>3, <2>1, <2>2 DEF OneShot, HasShot
<1>6. OneShot(r)
  BY <1>4 DEF OneShot
<1> QED
  BY <1>2, <1>4, <1>5, <1>6 DEF r
-----------------------------------------------------------------------------
(***************************************************************************)
(* The invariant is inductive                                              *)
(***************************************************************************)
\* The NPC starts unarmed and idle, with no operation in progress.
THEOREM InitInv == Init => IInv
<1> SUFFICES ASSUME Init PROVE IInv
  OBVIOUS
<1>1. stack = <<>> /\ <<>> \in Seq(Frames)
  BY EmptySeq DEF Init
<1>2. OneShot(stack) /\ ~HasShot(stack)
  BY <1>1 DEF OneShot, HasShot
<1>3. npc \in Npcs
  BY CombatAssumption DEF Init, Npcs, Weapons, Keys
<1>4. NInv(npc)
  BY <1>3 DEF Init, NInv, Good, Drawn, Quiet, Aimed, MeleeKeys
<1> QED
  BY <1>1, <1>2, <1>4 DEF Init, IInv, Others, ShotOK, Watched

\* What an operation has to show that changes the NPC only: under a shot it
\* keeps the aim, and the clip unless scripts change the weapon.
LEMMA NpcOnly ==
    ASSUME IInv, NInv(npc'), UNCHANGED <<alive, stack>>,
           state' \in {"NotSpawned", "Spawned", "OnFoot", "InVehicle", "Wasted"},
           sprinting' \in BOOLEAN,
           HasShot(stack) /\ ~ArmsInShot =>
               /\ npc'.infinite \/ npc'.clip >= 1
               /\ ~npc'.reloading,
           HasShot(stack) /\ Orderly /\ npc.aiming => npc'.aiming,
           Watched(npc', alive)
    PROVE  IInv'
  BY DEF IInv, Others, ShotOK, OneShot, HasShot, Watched

\* What the scripts do to the weapon keeps the invariant.
LEMMA ScriptArms ==
    ASSUME IInv,
           \/ \E w \in Weapons : SetWeapon(w)
           \/ \E a \in 0..MaxAmmo : SetAmmoInClip(a)
           \/ \E b \in BOOLEAN : EnableInfiniteAmmo(b) \/ EnableReloading(b)
           \/ \E s \in ScriptStates : SetWeaponState(s)
    PROVE  IInv'
<1>1. NInv(npc) /\ npc \in Npcs /\ Good(npc)
  BY DEF IInv, NInv
<1>2. HasShot(stack) = InShot
  BY DEF HasShot, InShot
<1>3. ASSUME NEW w \in Weapons, SetWeapon(w) PROVE IInv'
  <2> DEFINE m == [npc EXCEPT !.weapon = w]
  <2>1. m \in Npcs /\ NInv(m) /\ m.aiming = npc.aiming /\ m.target = npc.target
    BY <1>1 DEF NInv, Npcs, Good, Drawn, Quiet, Aimed
  <2>2. npc' = Updated(m)
    BY <1>3 DEF SetWeapon
  <2> HIDE DEF m
  <2>3. NInv(npc') /\ npc'.aiming = npc.aiming /\ npc'.target = npc.target
    BY <2>1, <2>2, UpdatedKeeps, RearmedKeeps DEF NInv, Rearmed
  <2> QED
    BY <1>2, <1>3, <2>3, NpcOnly DEF SetWeapon, IInv, Others, Watched
<1>4. ASSUME NEW a \in 0..MaxAmmo, SetAmmoInClip(a) PROVE IInv'
  <2>1. a \in Nat
    BY CombatAssumption
  <2>2. NInv(npc') /\ npc'.aiming = npc.aiming /\ npc'.target = npc.target
    BY <1>1, <1>4, <2>1, ClipSetKeeps DEF SetAmmoInClip, Rearmed
  <2> QED
    BY <1>2, <1>4, <2>2, NpcOnly DEF SetAmmoInClip, IInv, Others, Watched
<1>5. ASSUME NEW b \in BOOLEAN, EnableInfiniteAmmo(b) PROVE IInv'
  <2>1. /\ NInv(npc') /\ npc'.aiming = npc.aiming /\ npc'.target = npc.target
    BY <1>1, <1>5 DEF EnableInfiniteAmmo, NInv, Npcs, Good, Drawn, Quiet, Aimed
  <2> QED
    BY <1>2, <1>5, <2>1, NpcOnly DEF EnableInfiniteAmmo, IInv, Others, Watched
<1>6. ASSUME NEW b \in BOOLEAN, EnableReloading(b) PROVE IInv'
  <2>1. /\ NInv(npc') /\ npc'.aiming = npc.aiming /\ npc'.target = npc.target
        /\ npc'.infinite = npc.infinite /\ npc'.clip = npc.clip
        /\ npc'.reloading = npc.reloading
    BY <1>1, <1>6 DEF EnableReloading, NInv, Npcs, Good, Drawn, Quiet, Aimed
  <2> QED
    BY <1>6, <2>1, NpcOnly DEF EnableReloading, IInv, Others, Watched, ShotOK
<1>7. ASSUME NEW s \in ScriptStates, SetWeaponState(s) PROVE IInv'
  <2>1. s \in WeaponStates
    BY CombatAssumption
  <2>2. /\ Rearmed(npc, npc')
        /\ s # "Reloading" => Calm(npc, npc')
    BY <1>1, <1>7, <2>1, WithStateKeeps DEF SetWeaponState
  <2>3. Calm(npc, npc') \/ ~Orderly
    BY <2>2 DEF Orderly
  <2>4. NInv(npc') /\ npc'.aiming = npc.aiming /\ npc'.target = npc.target
    BY <1>1, <2>2, <2>3, RearmedKeeps DEF Rearmed
  <2> QED
    BY <1>2, <1>7, <2>4, NpcOnly DEF SetWeaponState, IInv, Others, Watched
<1> QED
  BY <1>3, <1>4, <1>5, <1>6, <1>7

\* Aiming, striking and moving keep the invariant.
LEMMA ScriptActs ==
    ASSUME IInv,
           \/ \E b \in BOOLEAN : AimAt(b)
           \/ \E p \in Players, b \in BOOLEAN : AimAtPlayer(p, b)
           \/ \E kind \in {"Primary", "Secondary"} : MeleeAttack(kind)
           \/ StopAim \/ StopMeleeAttack
           \/ Sprint \/ StopMove \/ ChangeSeat \/ Kill
    PROVE  IInv'
<1>1. NInv(npc) /\ npc \in Npcs /\ sprinting \in BOOLEAN /\ Watched(npc, alive)
  BY DEF IInv, NInv, Others
<1>2. HasShot(stack) = InShot
  BY DEF HasShot, InShot
<1>3. ASSUME NEW b \in BOOLEAN, AimAt(b) PROVE IInv'
  <2>1. /\ NInv(npc') /\ (npc.aiming => npc'.aiming)
        /\ npc'.infinite = npc.infinite /\ npc'.target \in {npc.target, None}
        /\ (~npc.reloading => npc'.clip = npc.clip /\ ~npc'.reloading)
    BY <1>1, <1>3, AimedAtKeeps DEF AimAt
  <2>2. Watched(npc', alive)
    BY <1>1, <2>1 DEF Watched
  <2> QED
    BY <1>3, <2>1, <2>2, NpcOnly DEF AimAt, IInv, Others, ShotOK
<1>4. ASSUME NEW p \in Players, NEW b \in BOOLEAN, AimAtPlayer(p, b) PROVE IInv'
  <2> DEFINE m == AimedAt(npc, b)
  <2>1. /\ NInv(m) /\ (npc.aiming => m.aiming) /\ (~sprinting => m.aiming)
        /\ m.infinite = npc.infinite
        /\ (~npc.reloading => m.clip = npc.clip /\ ~m.reloading)
    BY <1>1, AimedAtKeeps
  <2>2. npc' = [m EXCEPT !.target = p] /\ p \in alive /\ (sprinting => SprintAim)
    BY <1>4 DEF AimAtPlayer
  <2> HIDE DEF m
  <2>3. npc' \in Npcs
    BY <2>1, <2>2 DEF NInv, Npcs
  <2>4. /\ npc'.target = p /\ npc'.aiming = m.aiming
        /\ npc'.infinite = m.infinite /\ npc'.clip = m.clip /\ npc'.ammo = m.ammo
        /\ npc'.reloading = m.reloading /\ npc'.shooting = m.shooting
        /\ npc'.keys = m.keys /\ npc'.melee = m.melee
    BY <2>1, <2>2 DEF NInv, Npcs
  <2>5. NInv(npc')
    BY <1>1, <2>1, <2>2, <2>3, <2>4 DEF NInv, Good, Drawn, Quiet, Aimed
  <2>6. Watched(npc', alive)
    BY <2>2, <2>4 DEF Watched
  <2> QED
    BY <1>4, <2>1, <2>4, <2>5, <2>6, NpcOnly DEF AimAtPlayer, IInv, Others, ShotOK
<1>5. ASSUME NEW kind \in {"Primary", "Secondary"}, MeleeAttack(kind) PROVE IInv'
  <2> DEFINE k == npc.keys \union IF kind = "Secondary"
                                  THEN {"AIM", "SECONDARY_ATTACK"} ELSE {"FIRE"}
  <2>1. k \subseteq {"AIM", "FIRE"} \union MeleeKeys(kind)
        /\ (npc.keys \subseteq {} => k \subseteq MeleeKeys(kind))
    BY <1>1, <1>5 DEF NInv, Good, MeleeKeys, MeleeAttack
  <2>2. k \in SUBSET Keys
    BY <1>1 DEF Npcs, Keys
  <2>3. npc' = [npc EXCEPT !.melee = kind, !.keys = k]
    BY <1>5 DEF MeleeAttack
  <2>4. npc.melee = "None" /\ MeleeKeys("None") = {}
    BY <1>5 DEF MeleeAttack, MeleeKeys
  <2> HIDE DEF k
  <2>5. npc' \in Npcs
    BY <1>1, <2>2, <2>3 DEF Npcs
  <2>6. /\ npc'.target = npc.target /\ npc'.aiming = npc.aiming
        /\ npc'.infinite = npc.infinite /\ npc'.clip = npc.clip
        /\ npc'.ammo = npc.ammo /\ npc'.keys = k /\ npc'.melee = kind
        /\ npc'.reloading = npc.reloading /\ npc'.shooting = npc.shooting
    BY <1>1, <2>3 DEF Npcs
  <2>7. NInv(npc')
    BY <1>1, <2>1, <2>4, <2>5, <2>6 DEF NInv, Good, Drawn, Quiet, Aimed
  <2> QED
    BY <1>1, <1>5, <2>6, <2>7, NpcOnly
       DEF MeleeAttack, IInv, Others, ShotOK, Watched
<1>6. ASSUME StopAim \/ Sprint PROVE IInv'
  <2>1. npc' = AimStopped(npc) /\ (InShot => StopInShot)
        /\ UNCHANGED <<alive, stack>> /\ sprinting' \in BOOLEAN
        /\ state' \in {"NotSpawned", "Spawned", "OnFoot", "InVehicle", "Wasted"}
    BY <1>1, <1>6 DEF StopAim, Sprint, IInv, Others
  <2>2. /\ NInv(npc') /\ npc'.infinite = npc.infinite
        /\ (npc.aiming => npc'.target = None) /\ (~npc.aiming => npc' = npc)
        /\ (~npc.reloading => npc'.clip = npc.clip /\ ~npc'.reloading)
    BY <1>1, <2>1, AimStoppedKeeps
  <2>3. Watched(npc', alive)
    BY <1>1, <2>2 DEF Watched, NInv, Npcs
  <2> QED
    BY <1>2, <2>1, <2>2, <2>3, NpcOnly DEF IInv, Others, ShotOK, Orderly
<1>7. ASSUME StopMeleeAttack PROVE IInv'
  <2> DEFINE k == npc.keys \ IF npc.melee = "Secondary"
                             THEN {"AIM", "SECONDARY_ATTACK"} ELSE {"FIRE"}
  <2>1. npc' = [npc EXCEPT !.melee = "None", !.keys = k]
    BY <1>7 DEF StopMeleeAttack
  <2>2. npc.melee \in {"Primary", "Secondary"}
    BY <1>1, <1>7 DEF StopMeleeAttack, Npcs
  <2>3. k = npc.keys \ MeleeKeys(npc.melee) /\ MeleeKeys("None") = {}
    BY <2>2 DEF MeleeKeys
  <2> HIDE DEF k
  <2>4. k \subseteq {"AIM", "FIRE"} /\ k \in SUBSET Keys
    BY <1>1, <2>3 DEF NInv, Good, Npcs
  <2>5. npc' \in Npcs
    BY <1>1, <2>1, <2>4 DEF Npcs
  <2>6. /\ npc'.target = npc.target /\ npc'.aiming = npc.aiming
        /\ npc'.infinite = npc.infinite /\ npc'.clip = npc.clip
        /\ npc'.ammo = npc.ammo /\ npc'.keys = k /\ npc'.melee = "None"
        /\ npc'.reloading = npc.reloading /\ npc'.shooting = npc.shooting
    BY <1>1, <2>1 DEF Npcs
  <2>7. NInv(npc')
    BY <1>1, <2>3, <2>4, <2>5, <2>6 DEF NInv, Good, Drawn, Quiet, Aimed
  <2> QED
    BY <1>1, <1>7, <2>6, <2>7, NpcOnly
       DEF StopMeleeAttack, IInv, Others, ShotOK, Watched
<1>8. ASSUME StopMove \/ ChangeSeat PROVE IInv'
  <2>1. /\ UNCHANGED <<npc, alive, stack>> /\ sprinting' \in BOOLEAN
        /\ state' \in {"NotSpawned", "Spawned", "OnFoot", "InVehicle", "Wasted"}
    BY <1>1, <1>8 DEF StopMove, ChangeSeat, IInv, Others
  <2> QED
    BY <1>1, <2>1, NpcOnly DEF IInv, ShotOK
<1>9. ASSUME Kill PROVE IInv'
  <2>1. npc' = [npc EXCEPT !.keys = {}, !.dead = TRUE]
        /\ UNCHANGED <<alive, stack>> /\ sprinting' = FALSE /\ state' = "Wasted"
    BY <1>9 DEF Kill
  <2>2. npc' \in Npcs
    BY <1>1, <2>1 DEF Npcs
  <2>3. /\ npc'.target = npc.target /\ npc'.aiming = npc.aiming
        /\ npc'.infinite = npc.infinite /\ npc'.clip = npc.clip
        /\ npc'.ammo = npc.ammo /\ npc'.keys = {} /\ npc'.melee = npc.melee
        /\ npc'.reloading = npc.reloading /\ npc'.shooting = npc.shooting
    BY <1>1, <2>1 DEF Npcs
  <2>4. NInv(npc')
    BY <1>1, <2>2, <2>3 DEF NInv, Good, Drawn, Quiet, Aimed
  <2> QED
    BY <1>1, <2>1, <2>3, <2>4, NpcOnly DEF IInv, ShotOK, Watched
<1> QED
  BY <1>3, <1>4, <1>5, <1>6, <1>7, <1>8, <1>9
\* An operation begins under those in progress: scripts change the weapon
\* under a shot only with ArmsInShot.
LEMMA Begins ==
    ASSUME IInv, NEW f \in Frames, f.op # "shot",
           stack' = Append(stack, f),
           NInv(npc'), npc'.aiming = npc.aiming, npc'.target = npc.target,
           UNCHANGED <<sprinting, alive>>,
           state' \in {"NotSpawned", "Spawned", "OnFoot", "InVehicle", "Wasted"},
           HasShot(stack) => ArmsInShot \/ (f.op = "respawn" /\ npc' = npc)
    PROVE  IInv'
<1>1. stack \in Seq(Frames) /\ OneShot(stack)
  BY DEF IInv, Others
<1>2. /\ stack' \in Seq(Frames) /\ OneShot(stack')
      /\ HasShot(stack') => HasShot(stack)
  BY <1>1, PushKeeps
<1>3. ShotOK(npc', stack')
  <2>1. \A i \in DOMAIN stack' : stack'[i] = f \/ (i \in DOMAIN stack /\ stack'[i] = stack[i])
    BY <1>1
  <2> QED
    BY <1>2, <2>1 DEF IInv, ShotOK
<1> QED
  BY <1>2, <1>3 DEF IInv, Others, Watched

\* The operation interrupted last resumes, and ends or is interrupted again.
LEMMA Resumed ==
    ASSUME IInv, stack # <<>>, stack[Len(stack)].op # "shot",
           \/ stack' = Rest
           \/ \E f \in Frames : f.op # "shot" /\ stack' = Append(Rest, f),
           NInv(npc'), npc'.aiming = npc.aiming, npc'.target = npc.target,
           UNCHANGED <<state, sprinting, alive>>,
           \/ stack[Len(stack)].op # "respawn"
           \/ /\ stack' = Rest
              /\ npc'.infinite = npc.infinite /\ npc'.clip = npc.clip
              /\ npc'.reloading = npc.reloading
    PROVE  IInv'
<1>1. stack \in Seq(Frames) /\ OneShot(stack) /\ Len(stack) \in DOMAIN stack
  BY DEF IInv, Others
<1>2. /\ Rest \in Seq(Frames) /\ OneShot(Rest)
      /\ HasShot(Rest) => HasShot(stack)
      /\ \A i \in DOMAIN Rest : i \in DOMAIN stack /\ Rest[i] = stack[i]
  BY <1>1, RestKeeps DEF Rest
<1>3. /\ stack' \in Seq(Frames) /\ OneShot(stack')
      /\ HasShot(stack') => HasShot(stack)
  <2>1. CASE stack' = Rest
    BY <1>2, <2>1
  <2>2. ASSUME NEW f \in Frames, f.op # "shot", stack' = Append(Rest, f)
        PROVE  /\ stack' \in Seq(Frames) /\ OneShot(stack')
               /\ HasShot(stack') => HasShot(stack)
    BY <1>2, <2>2, PushKeeps
  <2> QED
    BY <2>1, <2>2
<1>4. ShotOK(npc', stack')
  <2>1. CASE stack[Len(stack)].op # "respawn"
    <3>1. HasShot(stack) => ArmsInShot
      BY <1>1, <2>1 DEF IInv, ShotOK
    <3> QED
      BY <1>3, <3>1 DEF IInv, ShotOK
  <2>2. CASE stack[Len(stack)].op = "respawn"
    BY <1>2, <1>3, <2>2 DEF IInv, ShotOK
  <2> QED
    BY <2>1, <2>2
<1> QED
  BY <1>3, <1>4 DEF IInv, Others, Watched

\* setAmmo keeps the invariant, also from the event in its middle.
LEMMA SettingAmmo ==
    ASSUME IInv, (\E a \in 0..MaxAmmo : SetAmmo(a)) \/ EndSetAmmo
    PROVE  IInv'
<1>1. NInv(npc)
  BY DEF IInv
<1>2. HasShot(stack) = InShot
  BY DEF HasShot, InShot
<1>3. ASSUME NEW a \in 0..MaxAmmo, SetAmmo(a) PROVE IInv'
  <2> DEFINE m == AmmoSet(npc, a)
             f == [op |-> "setAmmo", ammo |-> a]
  <2>1. a \in Nat /\ f \in Frames /\ f.op = "setAmmo"
    BY CombatAssumption DEF Frames
  <2>2. NInv(m) /\ m.aiming = npc.aiming /\ m.target = npc.target
    BY <1>1, <2>1, AmmoSetKeeps
  <2>3. /\ InShot => ArmsInShot
        /\ UNCHANGED <<state, sprinting, alive>>
        /\ \/ npc' = ClipSet(m, a) /\ stack' = stack
           \/ npc' = m /\ stack' = Append(stack, f)
    BY <1>3 DEF SetAmmo, Push
  <2> HIDE DEF m, f
  <2>4. CASE npc' = ClipSet(m, a) /\ stack' = stack
    <3>1. NInv(npc') /\ npc'.aiming = npc.aiming /\ npc'.target = npc.target
      BY <2>1, <2>2, <2>4, ClipSetKeeps DEF Rearmed
    <3> QED
      BY <1>2, <2>3, <2>4, <3>1, NpcOnly DEF IInv, Others, Watched
  <2>5. CASE npc' = m /\ stack' = Append(stack, f)
    BY <1>2, <2>1, <2>2, <2>3, <2>5, Begins DEF IInv, Others
  <2> QED
    BY <2>3, <2>4, <2>5
<1>4. ASSUME EndSetAmmo PROVE IInv'
  <2> DEFINE a == stack[Len(stack)].ammo
  <2>1. /\ stack # <<>> /\ stack[Len(stack)].op = "setAmmo" /\ stack' = Rest
        /\ npc' = ClipSet(npc, a) /\ UNCHANGED <<state, sprinting, alive>>
    BY <1>4 DEF EndSetAmmo, Resumes
  <2>2. stack[Len(stack)] \in Frames
    BY <2>1 DEF IInv, Others
  <2>3. a \in Nat
    BY <2>2 DEF Frames
  <2> HIDE DEF a
  <2>4. NInv(npc') /\ npc'.aiming = npc.aiming /\ npc'.target = npc.target
    BY <1>1, <2>1, <2>3, ClipSetKeeps DEF Rearmed
  <2> QED
    BY <2>1, <2>4, Resumed
<1> QED
  BY <1>3, <1>4

\* Coming back to life changes neither the arms nor the aim.
LEMMA RevivedKeeps ==
    ASSUME NEW n, NInv(n)
    PROVE  LET m == [n EXCEPT !.dead = FALSE]
           IN  /\ NInv(m) /\ m.aiming = n.aiming /\ m.target = n.target
               /\ m.infinite = n.infinite /\ m.clip = n.clip
               /\ m.reloading = n.reloading
  BY DEF NInv, Npcs, Good, Drawn, Quiet, Aimed

\* The spawn takes the weapon and the ammunition, event by event.
LEMMA Spawning ==
    ASSUME IInv,
           Spawn \/ Disarm \/ Empty \/ EndSpawn \/ Respawn \/ EndRespawn
    PROVE  IInv'
<1>1. NInv(npc) /\ npc \in Npcs
  BY DEF IInv, NInv
<1>2. HasShot(stack) = InShot
  BY DEF HasShot, InShot
<1>3. \A op \in {"spawn", "disarmed", "emptied", "respawn"} :
          Frame(op) \in Frames /\ Frame(op).op = op
  BY DEF Frame, Frames
<1>4. ASSUME Spawn PROVE IInv'
  BY <1>1, <1>2, <1>3, <1>4, Begins DEF Spawn, Push
<1>5. ASSUME Respawn PROVE IInv'
  BY <1>1, <1>3, <1>5, Begins DEF Respawn, Push
<1>6. ASSUME EndRespawn PROVE IInv'
  <2>1. /\ stack # <<>> /\ stack[Len(stack)].op = "respawn" /\ stack' = Rest
        /\ npc' = [npc EXCEPT !.dead = FALSE] /\ UNCHANGED <<state, sprinting, alive>>
    BY <1>6 DEF EndRespawn, Resumes
  <2> QED
    BY <1>1, <2>1, RevivedKeeps, Resumed
<1>7. ASSUME EndSpawn PROVE IInv'
  <2> DEFINE m == ClipSet(npc, 0)
  <2>1. /\ stack # <<>> /\ stack[Len(stack)].op = "emptied" /\ stack' = Rest
        /\ npc' = [m EXCEPT !.dead = FALSE] /\ UNCHANGED <<state, sprinting, alive>>
    BY <1>7 DEF EndSpawn, Resumes
  <2>2. NInv(m) /\ m.aiming = npc.aiming /\ m.target = npc.target
    BY <1>1, ClipSetKeeps DEF Rearmed
  <2> HIDE DEF m
  <2>3. NInv(npc') /\ npc'.aiming = m.aiming /\ npc'.target = m.target
    BY <2>1, <2>2, RevivedKeeps
  <2> QED
    BY <2>1, <2>2, <2>3, Resumed
<1>8. ASSUME NEW n, NInv(n), n.aiming = npc.aiming, n.target = npc.target,
             EmptyFrom(n), UNCHANGED <<state, sprinting, alive>>,
             stack # <<>>, stack[Len(stack)].op \in {"spawn", "disarmed"}
      PROVE  IInv'
  <2> DEFINE m == AmmoSet(n, 0)
             c == ClipSet(m, 0)
  <2>1. NInv(m) /\ m.aiming = npc.aiming /\ m.target = npc.target
    BY <1>8, AmmoSetKeeps
  <2>2. \/ npc' = [c EXCEPT !.dead = FALSE] /\ stack' = Rest
        \/ npc' = m /\ stack' = Append(Rest, Frame("emptied"))
    BY <1>8 DEF EmptyFrom
  <2> HIDE DEF m
  <2>3. NInv(c) /\ c.aiming = npc.aiming /\ c.target = npc.target
    BY <2>1, ClipSetKeeps DEF Rearmed
  <2> HIDE DEF c
  <2>4. NInv(npc') /\ npc'.aiming = npc.aiming /\ npc'.target = npc.target
    BY <2>1, <2>2, <2>3, RevivedKeeps
  <2> QED
    BY <1>3, <1>8, <2>2, <2>4, Resumed
<1>9. ASSUME Empty PROVE IInv'
  BY <1>1, <1>8, <1>9 DEF Empty, Resumes
<1>10. ASSUME Disarm PROVE IInv'
  <2> DEFINE k == [npc EXCEPT !.weapon = Fist]
             n == Updated(k)
  <2>1. Fist \in Weapons
    BY CombatAssumption DEF Weapons
  <2>2. k \in Npcs /\ NInv(k) /\ k.aiming = npc.aiming /\ k.target = npc.target
    BY <1>1, <2>1 DEF NInv, Npcs, Good, Drawn, Quiet, Aimed
  <2>3. /\ stack # <<>> /\ stack[Len(stack)].op = "spawn"
        /\ UNCHANGED <<state, sprinting, alive>>
        /\ \/ EmptyFrom(n)
           \/ npc' = n /\ stack' = Append(Rest, Frame("disarmed"))
    BY <1>10 DEF Disarm, Resumes
  <2> HIDE DEF k
  <2>4. NInv(n) /\ n.aiming = npc.aiming /\ n.target = npc.target
    BY <2>2, UpdatedKeeps, RearmedKeeps DEF NInv, Rearmed
  <2> HIDE DEF n
  <2>5. CASE EmptyFrom(n)
    BY <1>8, <2>3, <2>4, <2>5
  <2>6. CASE npc' = n /\ stack' = Append(Rest, Frame("disarmed"))
    BY <1>3, <2>3, <2>4, <2>6, Resumed
  <2> QED
    BY <2>3, <2>5, <2>6
<1> QED
  BY <1>4, <1>5, <1>6, <1>7, <1>9, <1>10
\* The tick releases the trigger of an NPC that shoots or reloads.
LEMMA LoweredKeeps ==
    ASSUME NEW n, NInv(n), Orderly => n.aiming
    PROVE  /\ NInv(Lowered(n))
           /\ Lowered(n).aiming = n.aiming /\ Lowered(n).target = n.target
           /\ Lowered(n).infinite = n.infinite /\ Lowered(n).clip = n.clip
           /\ Lowered(n).reloading = n.reloading
<1> DEFINE k == (n.keys \ {"FIRE"}) \union {"AIM"}
<1>1. n \in Npcs
  BY DEF NInv
<1>2. k \in SUBSET Keys /\ k \subseteq {"AIM", "FIRE"} \union MeleeKeys(n.melee)
  BY <1>1 DEF NInv, Good, Npcs, Keys
<1>3. Lowered(n) = [n EXCEPT !.keys = k]
  BY DEF Lowered
<1> HIDE DEF k
<1>4. Lowered(n) \in Npcs
  BY <1>1, <1>2, <1>3 DEF Npcs
<1>5. /\ Lowered(n).aiming = n.aiming /\ Lowered(n).target = n.target
      /\ Lowered(n).infinite = n.infinite /\ Lowered(n).clip = n.clip
      /\ Lowered(n).ammo = n.ammo /\ Lowered(n).melee = n.melee
      /\ Lowered(n).reloading = n.reloading /\ Lowered(n).shooting = n.shooting
      /\ Lowered(n).keys = k
  BY <1>1, <1>3 DEF Npcs
<1> QED
  BY <1>2, <1>4, <1>5 DEF NInv, Good, Drawn, Quiet, Aimed

\* Between the operations, what holds of the NPC is all there is to show.
LEMMA AtRest ==
    ASSUME IInv, NInv(npc'), stack' = <<>>,
           npc'.target = npc.target,
           UNCHANGED <<sprinting, alive>>,
           state' \in {"NotSpawned", "Spawned", "OnFoot", "InVehicle", "Wasted"}
    PROVE  IInv'
<1>1. stack' \in Seq(Frames) /\ OneShot(stack') /\ ~HasShot(stack')
  BY EmptySeq DEF OneShot, HasShot
<1> QED
  BY <1>1 DEF IInv, Others, ShotOK, Watched

\* The ticks run with no other operation in progress; the shot begins one.
LEMMA Ticking ==
    ASSUME IInv, Tick
    PROVE  IInv'
<1>1. NInv(npc) /\ npc \in Npcs
  BY DEF IInv, NInv
<1>2. state \in {"NotSpawned", "Spawned", "OnFoot", "InVehicle", "Wasted"}
  BY DEF IInv, Others
<1>3. ASSUME TickReloading PROVE IInv'
  <2>1. /\ npc.reloading /\ Ticks /\ stack' = <<>> /\ UNCHANGED <<state, sprinting, alive>>
        /\ \/ npc' = Lowered(npc)
           \/ npc' = [npc EXCEPT !.reloading = FALSE, !.shooting = TRUE,
                                 !.clip = ActualClipSize(npc)]
    BY <1>3 DEF TickReloading
  <2>2. Orderly => npc.aiming
    BY <1>1, <2>1 DEF NInv, Quiet
  <2>3. CASE npc' = Lowered(npc)
    BY <1>1, <1>2, <2>1, <2>2, <2>3, LoweredKeeps, AtRest
  <2>4. CASE npc' = [npc EXCEPT !.reloading = FALSE, !.shooting = TRUE,
                                !.clip = ActualClipSize(npc)]
    <3> DEFINE c == ActualClipSize(npc)
    <3>1. c \in Int /\ c <= npc.ammo /\ (npc.ammo >= 0 => c >= 0)
      BY <1>1, ActualClipSizeBound
    <3> HIDE DEF c
    <3>2. npc' = [npc EXCEPT !.reloading = FALSE, !.shooting = TRUE, !.clip = c]
      BY <2>4 DEF c
    <3>3. npc' \in Npcs
      BY <1>1, <3>1, <3>2 DEF Npcs
    <3>4. /\ npc'.target = npc.target /\ npc'.aiming = npc.aiming
          /\ npc'.ammo = npc.ammo /\ npc'.keys = npc.keys
          /\ npc'.melee = npc.melee /\ npc'.clip = c /\ ~npc'.reloading
      BY <1>1, <3>2 DEF Npcs
    <3>5. NInv(npc')
      BY <1>1, <2>2, <3>1, <3>3, <3>4 DEF NInv, Good, Drawn, Quiet, Aimed
    <3> QED
      BY <1>2, <2>1, <3>4, <3>5, AtRest
  <2> QED
    BY <2>1, <2>3, <2>4
<1>4. Shoots => Ticks /\ ~npc.reloading /\ npc.shooting /\ (Orderly => npc.aiming)
  BY <1>1 DEF Shoots, NInv, Quiet
<1> DEFINE m == Lowered(npc)
<1>5. Shoots => /\ NInv(m) /\ m.aiming = npc.aiming /\ m.target = npc.target
                /\ m.infinite = npc.infinite /\ m.clip = npc.clip
                /\ m.reloading = npc.reloading
  BY <1>1, <1>4, LoweredKeeps
<1> HIDE DEF m
<1>6. ASSUME TickDry PROVE IInv'
  <2>1. Shoots /\ stack' = <<>> /\ UNCHANGED <<state, sprinting, alive>>
        /\ npc' = [m EXCEPT !.shooting = FALSE]
    BY <1>6 DEF TickDry, m
  <2>2. npc' \in Npcs /\ m \in Npcs
    BY <1>5, <2>1 DEF NInv, Npcs
  <2>3. /\ npc'.target = m.target /\ npc'.aiming = m.aiming
        /\ npc'.ammo = m.ammo /\ npc'.keys = m.keys /\ npc'.melee = m.melee
        /\ npc'.clip = m.clip /\ npc'.reloading = m.reloading /\ ~npc'.shooting
    BY <2>1, <2>2 DEF Npcs
  <2>4. NInv(npc')
    BY <1>5, <2>1, <2>2, <2>3 DEF NInv, Good, Drawn, Quiet, Aimed
  <2> QED
    BY <1>2, <1>4, <1>5, <2>1, <2>3, <2>4, AtRest
<1>7. ASSUME TickBetweenShots PROVE IInv'
  <2>1. Shoots /\ stack' = <<>> /\ UNCHANGED <<state, sprinting, alive>> /\ npc' = m
    BY <1>7 DEF TickBetweenShots, m
  <2> QED
    BY <1>2, <1>4, <1>5, <2>1, AtRest
<1>8. ASSUME TickShoot PROVE IInv'
  <2>1. /\ Shoots /\ UNCHANGED <<state, sprinting, alive>>
        /\ npc.clip # 0 \/ npc.infinite
        /\ \/ npc' = m /\ stack' = <<Frame("shot")>>
           \/ npc' = Spent(m) /\ stack' = <<>>
    BY <1>8 DEF TickShoot, m
  <2>2. NInv(m) /\ (~ArmsInShot => m.infinite \/ m.clip >= 1)
        /\ (Orderly => m.aiming)
    BY <1>1, <1>4, <1>5, <2>1 DEF NInv, Npcs, Drawn
  <2>3. CASE npc' = m /\ stack' = <<Frame("shot")>>
    <3>1. Frame("shot") \in Frames /\ Frame("shot").op = "shot"
      BY DEF Frame, Frames
    <3>3. stack' \in Seq(Frames) /\ OneShot(stack')
      BY <2>3, <3>1 DEF OneShot
    <3>4. \A i \in DOMAIN stack' : stack'[i].op = "shot"
      BY <2>3, <3>1
    <3>5. ShotOK(npc', stack')
      BY <1>4, <1>5, <2>1, <2>2, <2>3, <3>4 DEF ShotOK
    <3> QED
      BY <1>5, <2>1, <2>2, <2>3, <3>3, <3>5 DEF IInv, Others, Watched
  <2>4. CASE npc' = Spent(m) /\ stack' = <<>>
    <3>1. NInv(npc') /\ npc'.target = m.target /\ npc'.aiming = m.aiming
      BY <2>2, <2>4, SpentKeeps
    <3> QED
      BY <1>2, <1>4, <1>5, <2>1, <2>4, <3>1, AtRest
  <2> QED
    BY <2>1, <2>3, <2>4
<1>9. ASSUME TickMelee PROVE IInv'
  <2>1. PICK k \in SUBSET Keys :
            /\ npc' = [npc EXCEPT !.keys = k]
            /\ k \subseteq npc.keys \union MeleeKeys(npc.melee)
    <3>1. npc.keys \in SUBSET Keys
      BY <1>1 DEF Npcs
    <3> QED
      BY <1>9, <3>1 DEF TickMelee, MeleeKeys, Keys
  <2>2. Ticks /\ stack' = <<>> /\ UNCHANGED <<state, sprinting, alive>>
    BY <1>9 DEF TickMelee
  <2>3. npc' \in Npcs
    BY <1>1, <2>1 DEF Npcs
  <2>4. /\ npc'.target = npc.target /\ npc'.aiming = npc.aiming
        /\ npc'.ammo = npc.ammo /\ npc'.keys = k /\ npc'.melee = npc.melee
        /\ npc'.clip = npc.clip /\ npc'.reloading = npc.reloading
        /\ npc'.shooting = npc.shooting
    BY <1>1, <2>1 DEF Npcs
  <2>5. NInv(npc')
    BY <1>1, <2>1, <2>3, <2>4 DEF NInv, Good, Drawn, Quiet, Aimed
  <2> QED
    BY <1>2, <2>2, <2>4, <2>5, AtRest
<1>10. ASSUME TickUpdateAim PROVE IInv'
  <2>1. npc' = Updated(npc) /\ stack' = <<>> /\ UNCHANGED <<state, sprinting, alive>>
    BY <1>10 DEF TickUpdateAim
  <2>2. NInv(npc') /\ npc'.aiming = npc.aiming /\ npc'.target = npc.target
    BY <1>1, <2>1, UpdatedKeeps, RearmedKeeps DEF NInv, Rearmed
  <2> QED
    BY <1>2, <1>10, <2>1, <2>2, AtRest
<1>11. ASSUME TickFootSync PROVE IInv'
  BY <1>1, <1>2, <1>11, NpcOnly DEF TickFootSync, IInv, Others, Watched
<1>12. ASSUME TickInterrupted PROVE IInv'
  <2>1. stack = <<>> /\ stack' = Append(stack, Frame("tick"))
        /\ UNCHANGED <<npc, state, sprinting, alive>>
    BY <1>12 DEF TickInterrupted, Push
  <2>2. Frame("tick") \in Frames /\ Frame("tick").op = "tick" /\ ~HasShot(stack)
    BY <2>1 DEF Frame, Frames, HasShot
  <2> QED
    BY <1>1, <1>2, <2>1, <2>2, Begins
<1>13. ASSUME EndTick PROVE IInv'
  BY <1>1, <1>2, <1>13, AtRest DEF EndTick
<1> QED
  BY <1>3, <1>6, <1>7, <1>8, <1>9, <1>10, <1>11, <1>12, <1>13 DEF Tick

\* The shot is counted after its events.
LEMMA Counting ==
    ASSUME IInv, AfterShot
    PROVE  IInv'
<1>1. NInv(npc) /\ stack \in Seq(Frames) /\ OneShot(stack) /\ ShotOK(npc, stack)
  BY DEF IInv, Others
<1>2. /\ stack # <<>> /\ stack[Len(stack)].op = "shot" /\ stack' = Rest
      /\ npc' = Spent(npc) /\ UNCHANGED <<state, sprinting, alive>>
  BY DEF AfterShot, Resumes
<1>3. HasShot(stack)
  BY <1>1, <1>2 DEF HasShot
<1>4. /\ ~ArmsInShot => npc.infinite \/ npc.clip >= 1
      /\ Orderly => npc.aiming
  BY <1>1, <1>3 DEF ShotOK
<1>5. NInv(npc') /\ npc'.target = npc.target /\ npc'.aiming = npc.aiming
  BY <1>1, <1>2, <1>4, SpentKeeps
<1>6. stack' \in Seq(Frames) /\ OneShot(stack') /\ ~HasShot(stack')
  BY <1>1, <1>2, RestKeeps DEF Rest
<1> QED
  BY <1>2, <1>5, <1>6 DEF IInv, Others, ShotOK, Watched

\* Players come and go between the operations.
LEMMA Visiting ==
    ASSUME IInv, NEW p \in Players, PlayerJoins(p) \/ PlayerLeaves(p)
    PROVE  IInv'
<1>1. NInv(npc) /\ Watched(npc, alive) /\ ~HasShot(stack)
  BY DEF IInv, HasShot, PlayerJoins, PlayerLeaves
<1>2. CASE PlayerJoins(p)
  BY <1>1, <1>2 DEF PlayerJoins, IInv, Others, ShotOK, Watched
<1>3. CASE PlayerLeaves(p)
  <2>1. /\ NInv(npc')
        /\ npc'.target # p \/ SprintAim
        /\ npc'.target \in {npc.target, None}
    <3>1. CASE npc.target = p
      <4>1. npc' = AimStopped(npc)
        BY <1>3, <3>1 DEF PlayerLeaves
      <4>2. p # None
        BY CombatAssumption
      <4>3. SprintAim \/ npc.aiming
        BY <1>1, <3>1, <4>2 DEF NInv, Aimed
      <4> QED
        BY <1>1, <4>1, <4>2, <4>3, AimStoppedKeeps
    <3>2. CASE npc.target # p
      BY <1>1, <1>3, <3>2 DEF PlayerLeaves
    <3> QED
      BY <3>1, <3>2
  <2>2. Watched(npc', alive \ {p})
    BY <1>1, <2>1 DEF Watched
  <2> QED
    BY <1>1, <1>3, <2>1, <2>2 DEF PlayerLeaves, IInv, Others, ShotOK
<1> QED
  BY <1>2, <1>3

\* Every step keeps the invariant.
THEOREM NextInv == IInv /\ [Next]_vars => IInv'
<1> SUFFICES ASSUME IInv, [Next]_vars PROVE IInv'
  OBVIOUS
<1>1. CASE Script
  BY <1>1, ScriptArms, ScriptActs, SettingAmmo, Spawning DEF Script
<1>2. CASE Resume
  BY <1>2, SettingAmmo, Spawning, Counting DEF Resume
<1>3. CASE Tick
  BY <1>3, Ticking
<1>4. CASE \E p \in Players : PlayerJoins(p) \/ PlayerLeaves(p)
  BY <1>4, Visiting
<1>5. CASE UNCHANGED vars
  BY <1>5 DEF vars, IInv, Others, ShotOK, HasShot, OneShot, Watched
<1> QED
  BY <1>1, <1>2, <1>3, <1>4, <1>5 DEF Next

LEMMA Invariance == Spec => []IInv
  BY InitInv, NextInv, PTL DEF Spec

-----------------------------------------------------------------------------
(***************************************************************************)
(* What it implies                                                         *)
(***************************************************************************)
\* The types of the module's variables, for any weapons, players and bounds.
THEOREM TypeCorrect == Spec => []TypeOK
<1>1. IInv => TypeOK
  BY DEF IInv, Others, NInv, TypeOK
<1> QED
  BY <1>1, Invariance, PTL

\* No callback, however nested, leaves more bullets in the clip of an NPC than
\* the NPC has.
THEOREM ClipNeverExceedsAmmo == Spec => []ClipWithinAmmo
<1>1. IInv => ClipWithinAmmo
  BY DEF IInv, NInv, Good, ClipWithinAmmo
<1> QED
  BY <1>1, Invariance, PTL

\* An NPC never shoots and reloads at once, whatever its scripts do and when.
THEOREM ReloadingIsNotShooting == Spec => []ReloadExcludesShooting
<1>1. IInv => ReloadExcludesShooting
  BY DEF IInv, NInv, Good, ReloadExcludesShooting
<1> QED
  BY <1>1, Invariance, PTL

\* The counts of ammunition stay natural if no script changes the weapon or
\* its ammunition from an event of a shot, which counts the bullet later.
THEOREM CountsStayNatural ==
    ASSUME ~ArmsInShot
    PROVE  Spec => []NeverOverdrawn
<1>1. IInv => NeverOverdrawn
  BY DEF IInv, NInv, Drawn, NeverOverdrawn
<1> QED
  BY <1>1, Invariance, PTL

\* An NPC that does not aim neither shoots nor reloads, if no script ends the
\* aim from an event of a shot or puts the weapon into reloading itself.
THEOREM StoppedIsQuiet ==
    ASSUME ~StopInShot /\ "Reloading" \notin ScriptStates
    PROVE  Spec => []AimlessIsQuiet
<1>1. IInv => AimlessIsQuiet
  BY DEF IInv, NInv, Quiet, AimlessIsQuiet, Orderly
<1> QED
  BY <1>1, Invariance, PTL

\* Under the same two conditions no key of an attack stays pressed.
THEOREM NoStuckKeys ==
    ASSUME ~StopInShot /\ "Reloading" \notin ScriptStates
    PROVE  Spec => []KeysReleased
<1>1. IInv => KeysReleased
  BY DEF IInv, NInv, Quiet, KeysReleased, MeleeKeys, Orderly
<1> QED
  BY <1>1, Invariance, PTL

\* The player an NPC aims at is never one that has left, if no script has a
\* sprinting NPC aim: what aimAt refuses, onPoolEntryDestroyed does not undo.
THEOREM NoStaleTarget ==
    ASSUME ~SprintAim
    PROVE  Spec => []TargetInPool
<1>1. IInv => TargetInPool
  BY DEF IInv, Watched, TargetInPool
<1> QED
  BY <1>1, Invariance, PTL
=============================================================================
