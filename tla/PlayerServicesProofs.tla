------------------------ MODULE PlayerServicesProofs ------------------------
(***************************************************************************)
(* Proofs about the services of MCServices for the players: dialogs,       *)
(* checkpoints, classes, looks, the packets that are passed on, what       *)
(* clients report, the fixes, attributes and weapons.  Each component has  *)
(* an inductive invariant, one lemma for each action, which keeps it, and  *)
(* one of what it implies; the theorems that rest on them are those of     *)
(* ServicesProofs.                                                         *)
(***************************************************************************)
EXTENDS MCServices, FiniteSetTheorems, SequenceTheorems, WellFoundedInduction,
        TLAPS

\* A set of numbers that is not empty has a lowest one, which is taken.
LEMMA LowestOf ==
  ASSUME NEW I, I \subseteq Nat, I # {}
  PROVE  /\ (CHOOSE i \in I : \A j \in I : i <= j) \in I
         /\ \A j \in I : (CHOOSE i \in I : \A k \in I : i <= k) <= j
<1>1. PICK i \in I : \A j \in I : <<j, i>> \notin OpToRel(<, Nat)
  BY WFMin, NatLessThanWellFounded
<1>2. \A j \in I : ~(j < i)
  BY <1>1 DEF OpToRel
<1>3. \A j \in I : i <= j
  BY <1>2
<1> QED BY <1>3

\* What is left of a sequence, and what it is with one element more.
LEMMA TailIs ==
  ASSUME NEW U, NEW s \in Seq(U), s # <<>>
  PROVE  /\ Tail(s) \in Seq(U) /\ Len(Tail(s)) = Len(s) - 1 /\ Len(s) \in Nat \ {0}
         /\ Head(s) = s[1] /\ s[1] \in U
         /\ \A i \in 1 .. Len(Tail(s)) : Tail(s)[i] = s[i + 1] /\ i + 1 \in 1 .. Len(s)
  BY EmptySeq, HeadTailProperties

LEMMA AppendIs ==
  ASSUME NEW U, NEW s \in Seq(U), NEW x \in U
  PROVE  /\ Append(s, x) \in Seq(U) /\ Len(Append(s, x)) = Len(s) + 1 /\ Len(s) \in Nat
         /\ Append(s, x) # <<>> /\ Append(s, x)[Len(s) + 1] = x
         /\ \A i \in 1 .. Len(s) : Append(s, x)[i] = s[i]
  BY AppendProperties

-----------------------------------------------------------------------------
(* Checkpoints                                                              *)

\* Of players that are not connected no client shows a marker, and none is
\* enabled.
CheckpointsApart == \A p \in Alone \ players, k \in K!Kinds :
    ~cp[p][k].enabled /\ marker[p][k] = None /\ ~entered[p][k]

CheckpointInv == K!TypeOK /\ K!ViewExact /\ K!Alternate /\ CheckpointsApart

CheckpointRecord == [enabled : BOOLEAN, inside : BOOLEAN, at : Spots \union {None}]

\* What a handler does to the checkpoint of one kind of one player.
LEMMA CheckpointsOne ==
  ASSUME CheckpointInv, NEW p \in players, NEW k \in K!Kinds,
         NEW r \in CheckpointRecord, NEW m \in Spots \union {None}, NEW t \in BOOLEAN,
         r.enabled => r.inside = t /\ m = r.at,
         ~r.enabled => m = None,
         players' = players,
         cp' = [cp EXCEPT ![p][k] = r], marker' = [marker EXCEPT ![p][k] = m],
         entered' = [entered EXCEPT ![p][k] = t]
  PROVE  /\ K!ViewExact' /\ K!Alternate' /\ CheckpointsApart'
         /\ players' \subseteq Alone
         /\ cp' \in [Alone -> [K!Kinds -> CheckpointRecord]]
         /\ marker' \in [Alone -> [K!Kinds -> Spots \union {None}]]
         /\ entered' \in [Alone -> [K!Kinds -> BOOLEAN]]
<1>1. /\ players \subseteq Alone
      /\ cp \in [Alone -> [K!Kinds -> CheckpointRecord]]
      /\ marker \in [Alone -> [K!Kinds -> Spots \union {None}]]
      /\ entered \in [Alone -> [K!Kinds -> BOOLEAN]]
  BY DEF CheckpointInv, K!TypeOK, CheckpointRecord
<1>2. /\ cp' \in [Alone -> [K!Kinds -> CheckpointRecord]]
      /\ marker' \in [Alone -> [K!Kinds -> Spots \union {None}]]
      /\ entered' \in [Alone -> [K!Kinds -> BOOLEAN]]
  BY <1>1
<1>3. \A q \in Alone, l \in K!Kinds :
        /\ cp'[q][l] = IF q = p /\ l = k THEN r ELSE cp[q][l]
        /\ marker'[q][l] = IF q = p /\ l = k THEN m ELSE marker[q][l]
        /\ entered'[q][l] = IF q = p /\ l = k THEN t ELSE entered[q][l]
  BY <1>1
<1>4. K!ViewExact'
  BY <1>1, <1>3 DEF CheckpointInv, K!ViewExact
<1>5. K!Alternate'
  BY <1>1, <1>3 DEF CheckpointInv, K!Alternate
<1>6. CheckpointsApart'
  BY <1>1, <1>3 DEF CheckpointInv, CheckpointsApart
<1> QED BY <1>1, <1>2, <1>4, <1>5, <1>6

LEMMA CheckpointsInit == ASSUME K!Init PROVE CheckpointInv
  BY CheckpointsAssumption
  DEF K!Init, K!Each, CheckpointInv, CheckpointsApart, K!TypeOK, K!ViewExact,
      K!Alternate, K!Kinds, K!First, K!Second

LEMMA CheckpointsStutter ==
  ASSUME CheckpointInv, UNCHANGED <<players, checkpointsVars>>
  PROVE  CheckpointInv'
  BY DEF checkpointsVars, CheckpointInv, CheckpointsApart, K!TypeOK,
         K!ViewExact, K!Alternate, K!Kinds, K!First, K!Second

LEMMA CheckpointsConnect ==
  ASSUME CheckpointInv, NEW p \in Alone, NEW garbage \in BOOLEAN,
         K!Connect(p, garbage)
  PROVE  CheckpointInv'
  BY CheckpointsAssumption
  DEF K!Connect, CheckpointInv, CheckpointsApart, K!TypeOK, K!ViewExact,
      K!Alternate, K!Kinds, K!First, K!Second

LEMMA CheckpointsDisconnect ==
  ASSUME CheckpointInv, NEW p \in Alone, K!Disconnect(p)
  PROVE  CheckpointInv'
  BY CheckpointsAssumption
  DEF K!Disconnect, CheckpointInv, CheckpointsApart, K!TypeOK, K!ViewExact,
      K!Alternate, K!Kinds, K!First, K!Second

LEMMA CheckpointsSet ==
  ASSUME CheckpointInv, NEW p \in Alone, NEW k \in K!Kinds,
         NEW spot \in Spots, K!Set(p, k, spot)
  PROVE  CheckpointInv'
<1> DEFINE r == [enabled |-> TRUE, inside |-> FALSE, at |-> spot]
<1>1. r \in CheckpointRecord /\ r.enabled /\ r.inside = FALSE /\ r.at = spot
  BY DEF CheckpointRecord
<1>2. /\ p \in players /\ players' = players /\ updating' = updating
      /\ cp' = [cp EXCEPT ![p][k] = r] /\ marker' = [marker EXCEPT ![p][k] = spot]
      /\ entered' = [entered EXCEPT ![p][k] = FALSE]
  BY DEF K!Set
<1> HIDE DEF r
<1>3. /\ K!ViewExact' /\ K!Alternate' /\ CheckpointsApart'
      /\ players' \subseteq Alone
      /\ cp' \in [Alone -> [K!Kinds -> CheckpointRecord]]
      /\ marker' \in [Alone -> [K!Kinds -> Spots \union {None}]]
      /\ entered' \in [Alone -> [K!Kinds -> BOOLEAN]]
  BY <1>1, <1>2, CheckpointsOne
<1> QED BY <1>2, <1>3 DEF CheckpointInv, K!TypeOK, CheckpointRecord

LEMMA CheckpointsDisable ==
  ASSUME CheckpointInv, NEW p \in Alone, NEW k \in K!Kinds, K!Disable(p, k)
  PROVE  CheckpointInv'
<1> DEFINE r == [cp[p][k] EXCEPT !.enabled = FALSE, !.inside = FALSE]
<1>1. /\ p \in players /\ players' = players /\ updating' = updating
      /\ marker' = [marker EXCEPT ![p][k] = None]
      /\ entered' = [entered EXCEPT ![p][k] = FALSE]
  BY DEF K!Disable
<1>2. cp[p][k] \in CheckpointRecord /\ cp \in [Alone -> [K!Kinds -> CheckpointRecord]]
  BY DEF CheckpointInv, K!TypeOK, CheckpointRecord
<1>3. r \in CheckpointRecord /\ ~r.enabled
  BY <1>2 DEF CheckpointRecord
<1>4. cp' = [cp EXCEPT ![p][k] = r]
  BY <1>2, <1>3 DEF K!Disable, CheckpointRecord
<1> HIDE DEF r
<1>5. /\ K!ViewExact' /\ K!Alternate' /\ CheckpointsApart'
      /\ players' \subseteq Alone
      /\ cp' \in [Alone -> [K!Kinds -> CheckpointRecord]]
      /\ marker' \in [Alone -> [K!Kinds -> Spots \union {None}]]
      /\ entered' \in [Alone -> [K!Kinds -> BOOLEAN]]
  BY <1>1, <1>3, <1>4, CheckpointsOne
<1> QED BY <1>1, <1>5 DEF CheckpointInv, K!TypeOK, CheckpointRecord

LEMMA CheckpointsOnPlayerUpdate ==
  ASSUME CheckpointInv, NEW p \in Alone, K!OnPlayerUpdate(p)
  PROVE  CheckpointInv'
  BY CheckpointsAssumption
  DEF K!OnPlayerUpdate, CheckpointInv, CheckpointsApart, K!TypeOK, K!ViewExact,
      K!Alternate, K!Kinds, K!First, K!Second

\* The handler goes on to the other kind, or is through.
LEMMA CheckpointsAfter ==
  ASSUME NEW u \in [player : players, kind : K!Kinds, calling : BOOLEAN]
  PROVE  K!After(u) \in [player : players, kind : K!Kinds, calling : BOOLEAN] \union {None}
  BY DEF K!After, K!Kinds, K!First, K!Second

LEMMA CheckpointsProcess ==
  ASSUME CheckpointInv, NEW near \in BOOLEAN, K!Process(near)
  PROVE  CheckpointInv'
<1> DEFINE p == updating.player
           k == updating.kind
           r == [cp[p][k] EXCEPT !.inside = near]
<1>1. /\ updating \in [player : players, kind : K!Kinds, calling : BOOLEAN]
      /\ p \in players /\ p \in Alone /\ k \in K!Kinds
      /\ players' = players /\ marker' = marker
  BY DEF K!Process, CheckpointInv, K!TypeOK
<1>2. /\ cp \in [Alone -> [K!Kinds -> CheckpointRecord]]
      /\ marker \in [Alone -> [K!Kinds -> Spots \union {None}]]
  BY DEF CheckpointInv, K!TypeOK, CheckpointRecord
<1>3. CASE cp[p][k].enabled /\ cp[p][k].inside # near
  <2>1. /\ cp' = [cp EXCEPT ![p][k] = r] /\ entered' = [entered EXCEPT ![p][k] = near]
        /\ updating' = [updating EXCEPT !.calling = TRUE]
    BY <1>1, <1>2, <1>3 DEF K!Process, CheckpointRecord
  <2>2. r \in CheckpointRecord /\ r.inside = near /\ r.enabled /\ r.at = marker[p][k]
    <3> DEFINE c == cp[p][k]
    <3>1. c \in CheckpointRecord /\ c.enabled /\ c.inside # near
      BY <1>1, <1>2, <1>3
    <3>2. marker[p][k] = c.at
      BY <1>1, <1>3 DEF CheckpointInv, K!ViewExact
    <3> HIDE DEF c
    <3>3. [c EXCEPT !.inside = near] \in CheckpointRecord
          /\ [c EXCEPT !.inside = near].inside = near
          /\ [c EXCEPT !.inside = near].enabled /\ [c EXCEPT !.inside = near].at = c.at
      BY <3>1 DEF CheckpointRecord
    <3> QED BY <3>2, <3>3 DEF c
  <2>3. /\ marker' = [marker EXCEPT ![p][k] = marker[p][k]]
        /\ marker[p][k] \in Spots \union {None}
    BY <1>1, <1>2
  <2> HIDE DEF r, p, k
  <2>4. /\ K!ViewExact' /\ K!Alternate' /\ CheckpointsApart'
        /\ players' \subseteq Alone
        /\ cp' \in [Alone -> [K!Kinds -> CheckpointRecord]]
        /\ marker' \in [Alone -> [K!Kinds -> Spots \union {None}]]
        /\ entered' \in [Alone -> [K!Kinds -> BOOLEAN]]
    BY <1>1, <2>1, <2>2, <2>3, CheckpointsOne
  <2>5. updating' \in [player : players', kind : K!Kinds, calling : BOOLEAN]
    BY <1>1, <2>1
  <2> QED BY <2>4, <2>5 DEF CheckpointInv, K!TypeOK, CheckpointRecord
<1>4. CASE ~(cp[p][k].enabled /\ cp[p][k].inside # near)
  <2>1. updating' = K!After(updating) /\ cp' = cp /\ entered' = entered
    BY <1>4 DEF K!Process
  <2> QED BY <1>1, <2>1, CheckpointsAfter
          DEF CheckpointInv, K!TypeOK, K!ViewExact, K!Alternate, CheckpointsApart
<1> QED BY <1>3, <1>4

LEMMA CheckpointsReturn == ASSUME CheckpointInv, K!Return PROVE CheckpointInv'
<1>1. /\ updating \in [player : players, kind : K!Kinds, calling : BOOLEAN]
      /\ updating' = K!After(updating)
      /\ players' = players /\ cp' = cp /\ marker' = marker /\ entered' = entered
  BY DEF K!Return, CheckpointInv, K!TypeOK
<1> QED BY <1>1, CheckpointsAfter
        DEF CheckpointInv, K!TypeOK, K!ViewExact, K!Alternate, CheckpointsApart

LEMMA CheckpointsReset == ASSUME CheckpointInv, K!Reset PROVE CheckpointInv'
<1>1. /\ cp \in [Alone -> [K!Kinds -> CheckpointRecord]]
      /\ players' = players /\ updating' = updating
      /\ cp' = [p \in Alone |-> [k \in K!Kinds |-> [cp[p][k] EXCEPT !.enabled = FALSE]]]
      /\ marker' = [p \in Alone |-> [k \in K!Kinds |-> None]]
      /\ entered' = [p \in Alone |-> [k \in K!Kinds |-> FALSE]]
  BY DEF K!Reset, K!Each, CheckpointInv, K!TypeOK, CheckpointRecord
<1>2. ASSUME NEW p \in Alone, NEW k \in K!Kinds
      PROVE  /\ [cp[p][k] EXCEPT !.enabled = FALSE] \in CheckpointRecord
             /\ cp'[p][k].enabled = FALSE
  <2>1. cp[p][k] \in CheckpointRecord
    BY <1>1
  <2>2. cp'[p][k] = [cp[p][k] EXCEPT !.enabled = FALSE]
    BY <1>1
  <2> QED BY <2>1, <2>2 DEF CheckpointRecord
<1>3. cp' \in [Alone -> [K!Kinds -> CheckpointRecord]]
  BY <1>1, <1>2
<1> QED BY <1>1, <1>2, <1>3
        DEF CheckpointInv, K!TypeOK, K!ViewExact, K!Alternate, CheckpointsApart,
            CheckpointRecord

LEMMA CheckpointsStep == ASSUME CheckpointInv, K!Next PROVE CheckpointInv'
  BY CheckpointsConnect, CheckpointsDisconnect, CheckpointsSet,
     CheckpointsDisable, CheckpointsOnPlayerUpdate, CheckpointsProcess,
     CheckpointsReturn, CheckpointsReset
  DEF K!Next

LEMMA CheckpointsImply ==
  ASSUME CheckpointInv
  PROVE  K!TypeOK /\ K!ViewExact /\ K!Alternate
  BY DEF CheckpointInv

-----------------------------------------------------------------------------
(* Classes and spawning                                                     *)

\* A player that is not connected has no class, state or spawn yet.
SpawningApart == \A p \in Alone \ players :
    data[p] = S!NoData /\ player[p] = S!Fresh /\ spawnInfo[p] = S!Told

\* The player whose request for a class is being answered has the skin of the
\* class, unless a script gave it another in the callback.
AskedSkin == \A p \in players \ dressed :
    S!InClassRequest(p) => skinOf[p] = data[p].cls

SpawnInv == S!TypeOK /\ S!ViewExact /\ S!SpawnAllowed /\ S!DefaultExact /\ SpawningApart
            /\ AskedSkin

LEMMA SpawningInit == ASSUME S!Init PROVE SpawnInv
  BY SpawningAssumption
  DEF S!Init, S!NoData, S!Told, S!Fresh, S!Default, SpawnInv, SpawningApart,
      S!TypeOK, S!ViewExact, S!SpawnAllowed, S!DefaultExact, S!Classes, S!States,
      S!InGame, AskedSkin, S!InClassRequest

LEMMA SpawningStutter ==
  ASSUME SpawnInv, UNCHANGED <<players, spawningVars>>
  PROVE  SpawnInv'
  BY DEF spawningVars, SpawnInv, SpawningApart, S!TypeOK, S!ViewExact,
         S!SpawnAllowed, S!DefaultExact, S!Classes, S!States, S!InGame,
         AskedSkin, S!InClassRequest

PlayerRecord == [state : S!States, toSpawn : BOOLEAN, leavingSpec : BOOLEAN,
                 spectating : BOOLEAN]

\* What a message or a script changes in the state of one player.
LEMMA SpawningPlayer ==
  ASSUME SpawnInv, NEW p \in players, NEW r \in PlayerRecord,
         r.state \in S!InGame \/ r.leavingSpec => r.toSpawn,
         player' = [player EXCEPT ![p] = r], players' = players
  PROVE  /\ player' \in [Alone -> PlayerRecord]
         /\ S!SpawnAllowed'
         /\ \A q \in Alone \ players' : player'[q] = S!Fresh
<1>1. player \in [Alone -> PlayerRecord] /\ players \subseteq Alone
  BY DEF SpawnInv, S!TypeOK, PlayerRecord
<1>2. \A q \in Alone : player'[q] = IF q = p THEN r ELSE player[q]
  BY <1>1
<1>3. S!SpawnAllowed'
  BY <1>1, <1>2 DEF SpawnInv, S!SpawnAllowed
<1>4. \A q \in Alone \ players' : player'[q] = S!Fresh
  BY <1>1, <1>2 DEF SpawnInv, SpawningApart
<1> QED BY <1>1, <1>3, <1>4

LEMMA SpawningRecord ==
  ASSUME SpawnInv, NEW p \in players
  PROVE  /\ p \in Alone /\ player[p] \in PlayerRecord
         /\ player[p].state \in S!InGame \/ player[p].leavingSpec => player[p].toSpawn
         /\ player \in [Alone -> PlayerRecord]
  BY DEF SpawnInv, S!TypeOK, PlayerRecord, S!SpawnAllowed

LEMMA SpawningConnect ==
  ASSUME SpawnInv, NEW p \in Alone, S!Connect(p)
  PROVE  SpawnInv'
<1>1. /\ players' = players \union {p} /\ spawnRequest = None
      /\ classes' = classes /\ data' = data /\ player' = player
      /\ spawnInfo' = spawnInfo /\ skinOf' = skinOf /\ dressed' = dressed
      /\ classRefused' = classRefused /\ spawnRequest' = spawnRequest
  BY DEF S!Connect, S!own
<1>2. /\ data[p] = S!NoData /\ player[p] = S!Fresh /\ spawnInfo[p] = S!Told
  BY DEF S!Connect, SpawnInv, SpawningApart
<1>3. /\ spawnInfo[p] = [skin |-> data[p].cls, rest |-> data[p].cls] /\ ~player[p].toSpawn
      /\ ~(player[p].state \in S!InGame \/ player[p].leavingSpec)
      /\ data[p].default => data[p].cls = S!Default
  BY <1>2 DEF S!NoData, S!Told, S!Fresh, S!Default, S!InGame
<1>4. S!TypeOK'
  BY <1>1, SpawningAssumption DEF S!Connect, SpawnInv, S!TypeOK
<1> QED BY <1>1, <1>2, <1>3, <1>4
        DEF SpawnInv, S!ViewExact, S!SpawnAllowed, S!DefaultExact, SpawningApart,
            AskedSkin, S!InClassRequest

LEMMA SpawningDisconnect ==
  ASSUME SpawnInv, NEW p \in Alone, S!Disconnect(p)
  PROVE  SpawnInv'
<1>1. /\ players' = players \ {p} /\ spawnRequest = None /\ spawnRequest' = None
      /\ classes' = classes /\ classRefused' = classRefused \ {p}
      /\ dressed' = dressed \ {p}
      /\ \A q \in players \ {p} : /\ data'[q] = data[q] /\ player'[q] = player[q]
                                  /\ spawnInfo'[q] = spawnInfo[q]
  BY DEF S!Disconnect, SpawnInv, S!TypeOK
<1>2. S!TypeOK'
  BY <1>1, SpawningAssumption
  DEF S!Disconnect, S!NoData, S!Told, S!Fresh, S!Default, SpawnInv, S!TypeOK,
      S!Classes, S!States, S!InGame
<1>3. S!ViewExact' /\ S!SpawnAllowed' /\ S!DefaultExact' /\ AskedSkin'
  BY <1>1 DEF SpawnInv, S!ViewExact, S!SpawnAllowed, S!DefaultExact, AskedSkin,
              S!InClassRequest
<1>4. SpawningApart'
  BY <1>1 DEF S!Disconnect, SpawnInv, S!TypeOK, SpawningApart
<1> QED BY <1>2, <1>3, <1>4 DEF SpawnInv

LEMMA SpawningCreate ==
  ASSUME SpawnInv, NEW look \in Looks, S!Create(look)
  PROVE  SpawnInv'
  BY SpawningAssumption
  DEF S!Create, SpawnInv, SpawningApart, S!TypeOK, S!ViewExact, S!SpawnAllowed,
      S!DefaultExact, S!Classes, S!States, S!InGame,
      AskedSkin, S!InClassRequest

LEMMA SpawningSetClass ==
  ASSUME SpawnInv, NEW i \in S!ClassIds, NEW look \in Looks,
         S!SetClass(i, look)
  PROVE  SpawnInv'
  BY SpawningAssumption
  DEF S!SetClass, SpawnInv, SpawningApart, S!TypeOK, S!ViewExact,
      S!SpawnAllowed, S!DefaultExact, S!Classes, S!States, S!InGame,
         AskedSkin, S!InClassRequest

LEMMA SpawningSetSpawnInfo ==
  ASSUME SpawnInv, NEW p \in Alone, NEW look \in Looks, S!SetSpawnInfo(p, look)
  PROVE  SpawnInv'
  BY SpawningAssumption
  DEF S!SetSpawnInfo, S!InfoSet, SpawnInv, SpawningApart, S!TypeOK,
      S!ViewExact, S!SpawnAllowed, S!DefaultExact, S!Classes, S!States,
      S!InGame, AskedSkin, S!InClassRequest

LEMMA SpawningSpawnPlayer ==
  ASSUME SpawnInv, NEW p \in Alone, S!SpawnPlayer(p)
  PROVE  SpawnInv'
<1> DEFINE r == [player[p] EXCEPT !.spectating = FALSE, !.toSpawn = TRUE]
<1>1. /\ p \in players /\ players' = players /\ classes' = classes
      /\ spawnRequest' = spawnRequest
  BY DEF S!SpawnPlayer
<1>2. r \in PlayerRecord /\ r.toSpawn /\ player' = [player EXCEPT ![p] = r]
  BY <1>1, SpawningRecord DEF S!SpawnPlayer, PlayerRecord
<1>3. /\ player' \in [Alone -> PlayerRecord] /\ S!SpawnAllowed'
      /\ \A q \in Alone \ players' : player'[q] = S!Fresh
  BY <1>1, <1>2, SpawningPlayer
<1> HIDE DEF r
<1>4. CASE data[p].default
  <2>1. /\ data' = [data EXCEPT ![p] = [cls |-> S!Default, default |-> FALSE]]
        /\ spawnInfo' = [spawnInfo EXCEPT ![p] = [skin |-> S!Default, rest |-> S!Default]]
        /\ skinOf' = [skinOf EXCEPT ![p] = S!Default] /\ dressed' = dressed \ {p}
        /\ classRefused' = classRefused \ {p}
        /\ S!Default \in S!Classes /\ p \in Alone
    BY <1>4 DEF S!SpawnPlayer, S!InfoSet, S!Classes
  <2>2. S!TypeOK'
    BY <1>1, <1>3, <2>1 DEF SpawnInv, S!TypeOK, PlayerRecord
  <2> QED BY <1>1, <1>3, <2>1, <2>2
          DEF SpawnInv, SpawningApart, S!TypeOK, S!ViewExact, S!DefaultExact,
              AskedSkin, S!InClassRequest
<1>5. CASE ~data[p].default
  BY <1>1, <1>3, <1>5 DEF S!SpawnPlayer, SpawnInv, SpawningApart,
     S!TypeOK, S!ViewExact, S!DefaultExact, AskedSkin,
            S!InClassRequest, PlayerRecord
<1> QED BY <1>4, <1>5

LEMMA SpawningSetSkin ==
  ASSUME SpawnInv, NEW p \in Alone, NEW look \in Looks, S!SetSkin(p, look)
  PROVE  SpawnInv'
<1>1. /\ p \in players /\ players' = players /\ classes' = classes /\ data' = data
      /\ player' = player /\ spawnInfo' = spawnInfo /\ classRefused' = classRefused
      /\ spawnRequest' = spawnRequest
      /\ skinOf' = [skinOf EXCEPT ![p] = look]
      /\ dressed \subseteq dressed' /\ dressed' \subseteq dressed \union {p}
      /\ S!InClassRequest(p) => p \in dressed'
  BY DEF S!SetSkin
<1>2. S!TypeOK'
  BY <1>1 DEF SpawnInv, S!TypeOK, S!Classes
<1>3. AskedSkin'
  BY <1>1 DEF SpawnInv, S!TypeOK, AskedSkin, S!InClassRequest
<1> QED BY <1>1, <1>2, <1>3
        DEF SpawnInv, SpawningApart, S!ViewExact, S!SpawnAllowed, S!DefaultExact

LEMMA SpawningSetSpectating ==
  ASSUME SpawnInv, NEW p \in Alone, NEW on \in BOOLEAN, S!SetSpectating(p, on)
  PROVE  SpawnInv'
<1> DEFINE r == IF on THEN [player[p] EXCEPT !.spectating = TRUE]
                ELSE [player[p] EXCEPT !.spectating = FALSE, !.toSpawn = TRUE,
                                       !.leavingSpec = TRUE]
<1>1. /\ p \in players /\ players' = players /\ classes' = classes /\ data' = data
      /\ spawnInfo' = spawnInfo /\ skinOf' = skinOf /\ dressed' = dressed
      /\ classRefused' = classRefused
      /\ spawnRequest' = spawnRequest
  BY DEF S!SetSpectating
<1>2. /\ r \in PlayerRecord /\ player' = [player EXCEPT ![p] = r]
      /\ r.state \in S!InGame \/ r.leavingSpec => r.toSpawn
  BY <1>1, SpawningRecord DEF S!SetSpectating, PlayerRecord, S!States, S!InGame
<1> HIDE DEF r
<1>3. /\ player' \in [Alone -> PlayerRecord] /\ S!SpawnAllowed'
      /\ \A q \in Alone \ players' : player'[q] = S!Fresh
  BY <1>1, <1>2, SpawningPlayer
<1> QED BY <1>1, <1>3
        DEF SpawnInv, SpawningApart, S!TypeOK, S!ViewExact, S!DefaultExact, AskedSkin,
            S!InClassRequest, PlayerRecord

LEMMA SpawningOnPlayerRequestClass ==
  ASSUME SpawnInv, NEW p \in Alone, NEW i \in S!ClassIds,
         S!OnPlayerRequestClass(p, i)
  PROVE  SpawnInv'
  BY SpawningAssumption
  DEF S!OnPlayerRequestClass, S!Default, SpawnInv, SpawningApart, S!TypeOK,
      S!ViewExact, S!SpawnAllowed, S!DefaultExact, S!Classes, S!States,
      S!InGame, AskedSkin, S!InClassRequest

LEMMA SpawningClassResponse ==
  ASSUME SpawnInv, NEW b \in BOOLEAN, S!ClassResponse(b)
  PROVE  SpawnInv'
<1> DEFINE p == spawnRequest.of
<1>1. /\ p \in players /\ p \in Alone /\ players' = players /\ classes' = classes
      /\ data' = data /\ player' = player /\ spawnRequest' = None
      /\ skinOf' = skinOf /\ dressed' = dressed
      /\ S!InClassRequest(p)
  BY DEF S!ClassResponse, SpawnInv, S!TypeOK, S!InClassRequest
<1>2. CASE b
  <2>1. /\ spawnInfo' = [spawnInfo EXCEPT ![p] = [skin |-> skinOf[p], rest |-> data[p].cls]]
        /\ classRefused' = classRefused \ {p} /\ data[p].cls \in S!Classes
        /\ skinOf[p] \in S!Classes /\ (p \notin dressed => skinOf[p] = data[p].cls)
    BY <1>1, <1>2 DEF S!ClassResponse, SpawnInv, S!TypeOK, AskedSkin
  <2> QED BY <1>1, <2>1
          DEF SpawnInv, SpawningApart, S!TypeOK, S!ViewExact, S!SpawnAllowed,
              S!DefaultExact, AskedSkin, S!InClassRequest
<1>3. CASE ~b
  <2>1. spawnInfo' = spawnInfo /\ classRefused' = classRefused
    BY <1>3 DEF S!ClassResponse
  <2> QED BY <1>1, <2>1
          DEF SpawnInv, SpawningApart, S!TypeOK, S!ViewExact, S!SpawnAllowed,
              S!DefaultExact, AskedSkin, S!InClassRequest
<1> QED BY <1>2, <1>3

LEMMA SpawningOnPlayerRequestSpawn ==
  ASSUME SpawnInv, NEW p \in Alone, S!OnPlayerRequestSpawn(p)
  PROVE  SpawnInv'
  BY SpawningAssumption
  DEF S!OnPlayerRequestSpawn, SpawnInv, SpawningApart, S!TypeOK, S!ViewExact,
      S!SpawnAllowed, S!DefaultExact, S!Classes, S!States, S!InGame,
         AskedSkin, S!InClassRequest

LEMMA SpawningSpawnResponse ==
  ASSUME SpawnInv, NEW b \in BOOLEAN, S!SpawnResponse(b)
  PROVE  SpawnInv'
  BY SpawningAssumption
  DEF S!SpawnResponse, SpawnInv, SpawningApart, S!TypeOK, S!ViewExact,
      S!SpawnAllowed, S!DefaultExact, S!Classes, S!States, S!InGame,
         AskedSkin, S!InClassRequest

LEMMA SpawningOnPlayerSpawn ==
  ASSUME SpawnInv, NEW p \in Alone, S!OnPlayerSpawn(p)
  PROVE  SpawnInv'
<1> DEFINE r == [player[p] EXCEPT !.state = "spawned", !.leavingSpec = FALSE]
<1>1. /\ p \in players /\ players' = players /\ classes' = classes /\ data' = data
      /\ spawnInfo' = spawnInfo /\ dressed' = dressed
      /\ classRefused' = classRefused
      /\ spawnRequest' = None /\ skinOf' = [skinOf EXCEPT ![p] = data[p].cls]
  BY DEF S!OnPlayerSpawn
<1>2. /\ r \in PlayerRecord /\ player' = [player EXCEPT ![p] = r]
      /\ r.state \in S!InGame \/ r.leavingSpec => r.toSpawn
  BY <1>1, SpawningRecord DEF S!OnPlayerSpawn, PlayerRecord, S!States, S!InGame
<1> HIDE DEF r
<1>3. /\ player' \in [Alone -> PlayerRecord] /\ S!SpawnAllowed'
      /\ \A q \in Alone \ players' : player'[q] = S!Fresh
  BY <1>1, <1>2, SpawningPlayer
<1> QED BY <1>1, <1>3
        DEF SpawnInv, SpawningApart, S!TypeOK, S!ViewExact, S!DefaultExact, AskedSkin,
            S!InClassRequest, PlayerRecord

LEMMA SpawningOnPlayerDeath ==
  ASSUME SpawnInv, NEW p \in Alone, S!OnPlayerDeath(p)
  PROVE  SpawnInv'
  BY SpawningAssumption
  DEF S!OnPlayerDeath, SpawnInv, SpawningApart, S!TypeOK, S!ViewExact,
      S!SpawnAllowed, S!DefaultExact, S!Classes, S!States, S!InGame,
         AskedSkin, S!InClassRequest

LEMMA SpawningOnFootSync ==
  ASSUME SpawnInv, NEW p \in Alone, S!OnFootSync(p)
  PROVE  SpawnInv'
  BY SpawningAssumption
  DEF S!OnFootSync, SpawnInv, SpawningApart, S!TypeOK, S!ViewExact,
      S!SpawnAllowed, S!DefaultExact, S!Classes, S!States, S!InGame,
         AskedSkin, S!InClassRequest

LEMMA SpawningOnSpectatorSync ==
  ASSUME SpawnInv, NEW p \in Alone, S!OnSpectatorSync(p)
  PROVE  SpawnInv'
  BY SpawningAssumption
  DEF S!OnSpectatorSync, SpawnInv, SpawningApart, S!TypeOK, S!ViewExact,
      S!SpawnAllowed, S!DefaultExact, S!Classes, S!States, S!InGame,
         AskedSkin, S!InClassRequest

LEMMA SpawningReset == ASSUME SpawnInv, S!Reset PROVE SpawnInv'
  BY SpawningAssumption
  DEF S!Reset, S!NoData, S!Told, S!Fresh, S!Default, SpawnInv, SpawningApart, S!TypeOK,
      S!ViewExact, S!SpawnAllowed, S!DefaultExact, S!Classes, S!States,
      S!InGame, AskedSkin, S!InClassRequest

LEMMA SpawningStep == ASSUME SpawnInv, S!Next PROVE SpawnInv'
  BY SpawningConnect, SpawningDisconnect, SpawningCreate, SpawningSetClass,
     SpawningSetSpawnInfo, SpawningSpawnPlayer, SpawningSetSkin,
     SpawningSetSpectating,
     SpawningOnPlayerRequestClass, SpawningClassResponse,
     SpawningOnPlayerRequestSpawn, SpawningSpawnResponse,
     SpawningOnPlayerSpawn, SpawningOnPlayerDeath, SpawningOnFootSync,
     SpawningOnSpectatorSync, SpawningReset
  DEF S!Next

LEMMA SpawningImply ==
  ASSUME SpawnInv
  PROVE  S!TypeOK /\ S!ViewExact /\ S!SpawnAllowed /\ S!DefaultExact
  BY DEF SpawnInv

-----------------------------------------------------------------------------
(* What players look like                                                   *)

LookTables ==
    worn \in [Players -> [Players -> [style : {0, 1}, skin : {0, 1}] \union {None}]]

\* A player that leaves is streamed in for nobody, and nobody for it; the
\* others have forgotten what they had of it.
LeavingApart == leaving # None =>
    /\ \A s \in streamed : s[1] # leaving /\ s[2] # leaving
    /\ Careful => \A q \in Players : others[q][leaving] = None

\* What the client of one player has of another.
LookSeen(p, q) ==
    /\ seen[q][p] = L!ColourFor(q, p)
    /\ <<p, q>> \in streamed => worn[q][p] = [style |-> style[p], skin |-> skin[p]]

LookViews == \A p, q \in players : p # q /\ leaving \notin {p, q} => LookSeen(p, q)

LookInv ==
    /\ L!TypeOK /\ LookTables /\ LeavingApart
    /\ Careful => L!NoStale /\ LookViews

LEMMA LooksInit == ASSUME L!Init PROVE LookInv
  BY LooksAssumption
  DEF L!Init, L!Pairs, LookInv, LookTables, LeavingApart, L!TypeOK, LookViews,
      LookSeen, L!NoStale, L!Others, L!ColourFor, L!Values

LEMMA LooksStutter ==
  ASSUME LookInv, UNCHANGED <<players, looksVars>>
  PROVE  LookInv'
  BY DEF looksVars, LookInv, LookTables, LeavingApart, L!TypeOK, LookViews,
         LookSeen, L!NoStale, L!Others, L!ColourFor, L!Values

Wear == [style : {0, 1}, skin : {0, 1}]
Bits == [Players -> {0, 1}]

\* The team, skills, style or skin of a player changes, or those it is streamed
\* in for.
LEMMA LooksChange ==
  ASSUME LookInv, NEW p \in players, style' \in Bits, skin' \in Bits,
         \A q \in Players \ {p} : style'[q] = style[q] /\ skin'[q] = skin[q],
         worn' \in [Players -> [Players -> Wear \union {None}]],
         \A q, r \in Players : r # p => worn'[q][r] = worn[q][r],
         streamed' \subseteq streamed,
         Careful => \A q \in Players : <<p, q>> \in streamed' =>
           worn'[q][p] = [style |-> style'[p], skin |-> skin'[p]],
         UNCHANGED <<players, leaving, colour, others, seen>>
  PROVE  LookInv'
<1>1. /\ players' = players /\ leaving' = leaving /\ colour' = colour
      /\ others' = others /\ seen' = seen /\ players \subseteq Players
  BY DEF LookInv, L!TypeOK
<1>2. L!TypeOK' /\ LookTables'
  BY <1>1 DEF LookInv, LookTables, L!TypeOK, L!Values, Bits, Wear
<1>3. LeavingApart' /\ (Careful => L!NoStale')
  BY <1>1 DEF LookInv, LeavingApart, L!NoStale
<1>4. ASSUME Careful PROVE LookViews'
  <2>1. ASSUME NEW r \in players, NEW q \in players, r # q, leaving \notin {r, q}
        PROVE  LookSeen(r, q)'
    <3>1. q \in Players /\ r \in Players /\ LookSeen(r, q)
      BY <1>1, <1>4, <2>1 DEF LookInv, LookViews
    <3>2. CASE r = p
      BY <1>1, <1>4, <3>1, <3>2 DEF LookSeen, L!ColourFor
    <3>3. CASE r # p
      BY <1>1, <1>4, <3>1, <3>3 DEF LookSeen, L!ColourFor
    <3> QED BY <3>2, <3>3
  <2> QED BY <1>1, <2>1 DEF LookViews
<1> QED BY <1>2, <1>3, <1>4 DEF LookInv

\* What those are shown that it is streamed in for.
LEMMA LooksTold ==
  ASSUME LookInv, NEW p \in players, NEW w \in Wear, worn' = L!Told(p, w)
  PROVE  /\ worn' \in [Players -> [Players -> Wear \union {None}]]
         /\ \A q, r \in Players : r # p => worn'[q][r] = worn[q][r]
         /\ \A q \in Players : <<p, q>> \in streamed => worn'[q][p] = w
<1>1. worn \in [Players -> [Players -> Wear \union {None}]] /\ p \in Players
  BY DEF LookInv, LookTables, L!TypeOK, Wear
<1> QED BY <1>1 DEF L!Told

LEMMA LooksConnect ==
  ASSUME LookInv, NEW p \in Players, L!Connect(p)
  PROVE  LookInv'
  BY LooksAssumption
  DEF L!Connect, LookInv, LookTables, LeavingApart, L!TypeOK, LookViews,
      LookSeen, L!NoStale, L!Others, L!ColourFor, L!Values

LEMMA LooksBeginLeave ==
  ASSUME LookInv, NEW p \in Players, L!BeginLeave(p)
  PROVE  LookInv'
<1>1. /\ leaving = None /\ p \in players /\ leaving' = p /\ p # None
      /\ streamed' = {s \in streamed : p \notin {s[1], s[2]}}
      /\ others' = [q \in Players |-> [others[q] EXCEPT ![p] = None]]
      /\ players' = players /\ colour' = colour /\ seen' = seen /\ style' = style
      /\ skin' = skin /\ worn' = worn
  BY LooksAssumption DEF L!BeginLeave, L!Forgotten
<1>2. /\ others \in [Players -> [Players -> {0, 1} \union {None}]]
      /\ players \subseteq Players /\ streamed \subseteq players \X players
  BY DEF LookInv, L!TypeOK, L!Values
<1>3. /\ others' \in [Players -> [Players -> {0, 1} \union {None}]]
      /\ \A q, r \in Players : others'[q][r] = IF r = p THEN None ELSE others[q][r]
  BY <1>1, <1>2
<1>4. L!TypeOK' /\ LookTables'
  BY <1>1, <1>2, <1>3 DEF LookInv, LookTables, L!TypeOK, L!Values
<1>5. LeavingApart'
  BY <1>1, <1>3 DEF LeavingApart
<1>6. Careful => L!NoStale'
  BY <1>1, <1>2, <1>3 DEF LookInv, L!NoStale
<1>7. ASSUME Careful, NEW r \in players, NEW q \in players, r # q, p \notin {r, q}
      PROVE  LookSeen(r, q)'
  <2>1. r \in Players /\ q \in Players /\ LookSeen(r, q)
    BY <1>1, <1>2, <1>7, LooksAssumption DEF LookInv, LookViews
  <2> QED BY <1>1, <1>3, <1>7, <2>1 DEF LookSeen, L!ColourFor
<1>8. Careful => LookViews'
  BY <1>1, <1>7 DEF LookViews
<1> QED BY <1>4, <1>5, <1>6, <1>8 DEF LookInv

LEMMA LooksEndLeave == ASSUME LookInv, L!EndLeave PROVE LookInv'
  BY LooksAssumption
  DEF L!EndLeave, LookInv, LookTables, LeavingApart, L!TypeOK, LookViews,
      LookSeen, L!NoStale, L!Others, L!ColourFor, L!Values

LEMMA LooksStreamIn ==
  ASSUME LookInv, NEW p \in Players, NEW q \in Players, L!StreamIn(p, q)
  PROVE  LookInv'
<1> DEFINE w == [style |-> style[p], skin |-> skin[p]]
<1>1. /\ p \in players \ {leaving} /\ q \in players \ {leaving} /\ p # q
      /\ streamed' = streamed \union {<<p, q>>}
      /\ seen' = [seen EXCEPT ![q][p] = L!ColourFor(q, p)]
      /\ worn' = [worn EXCEPT ![q][p] = w]
      /\ players' = players /\ leaving' = leaving /\ colour' = colour
      /\ others' = others /\ style' = style /\ skin' = skin
  BY DEF L!StreamIn
<1>2. /\ colour \in Bits /\ style \in Bits /\ skin \in Bits
      /\ others \in [Players -> [Players -> {0, 1} \union {None}]]
      /\ seen \in [Players -> [Players -> {0, 1} \union {None}]]
      /\ worn \in [Players -> [Players -> Wear \union {None}]]
      /\ players \subseteq Players /\ streamed \subseteq players \X players
  BY DEF LookInv, LookTables, L!TypeOK, L!Values, Bits, Wear
<1>3. w \in Wear /\ L!ColourFor(q, p) \in {0, 1} \union {None}
  BY <1>2 DEF Bits, Wear, L!ColourFor
<1>4. /\ worn' \in [Players -> [Players -> Wear \union {None}]]
      /\ seen' \in [Players -> [Players -> {0, 1} \union {None}]]
      /\ \A r, s \in Players :
           /\ worn'[r][s] = IF r = q /\ s = p THEN w ELSE worn[r][s]
           /\ seen'[r][s] = IF r = q /\ s = p THEN L!ColourFor(q, p) ELSE seen[r][s]
  <2> HIDE DEF w
  <2> QED BY <1>1, <1>2, <1>3
<1>5. L!TypeOK' /\ LookTables'
  BY <1>1, <1>2, <1>4 DEF LookInv, LookTables, L!TypeOK, L!Values, Bits, Wear
<1>6. LeavingApart' /\ (Careful => L!NoStale')
  BY <1>1 DEF LookInv, LeavingApart, L!NoStale
<1>7. ASSUME Careful, NEW s \in players, NEW r \in players, r # s, leaving \notin {r, s}
      PROVE  LookSeen(s, r)'
  <2>1. r \in Players /\ s \in Players /\ LookSeen(s, r)
    BY <1>2, <1>7 DEF LookInv, LookViews
  <2>2. CASE r = q /\ s = p
    BY <1>1, <1>4, <2>1, <2>2 DEF LookSeen, L!ColourFor
  <2>3. CASE ~(r = q /\ s = p)
    <3>1. <<s, r>> \in streamed' => <<s, r>> \in streamed
      BY <1>1, <2>3
    <3> QED BY <1>1, <1>4, <2>1, <2>3, <3>1 DEF LookSeen, L!ColourFor
  <2> QED BY <2>2, <2>3
<1>8. Careful => LookViews'
  BY <1>1, <1>7 DEF LookViews
<1> QED BY <1>5, <1>6, <1>8 DEF LookInv

LEMMA LooksStreamOut ==
  ASSUME LookInv, NEW p \in Players, NEW q \in Players, L!StreamOut(p, q)
  PROVE  LookInv'
  BY LooksAssumption
  DEF L!StreamOut, LookInv, LookTables, LeavingApart, L!TypeOK, LookViews,
      LookSeen, L!NoStale, L!Others, L!ColourFor, L!Values

LEMMA LooksSetColour ==
  ASSUME LookInv, NEW p \in Players, NEW v \in L!Values, L!SetColour(p, v)
  PROVE  LookInv'
  BY LooksAssumption
  DEF L!SetColour, L!Forgotten, LookInv, LookTables, LeavingApart, L!TypeOK,
      LookViews, LookSeen, L!NoStale, L!Others, L!ColourFor, L!Values

LEMMA LooksSetOtherColour ==
  ASSUME LookInv, NEW q \in Players, NEW p \in Players, NEW v \in L!Values,
         L!SetOtherColour(q, p, v)
  PROVE  LookInv'
  BY LooksAssumption
  DEF L!SetOtherColour, LookInv, LookTables, LeavingApart, L!TypeOK, LookViews,
      LookSeen, L!NoStale, L!Others, L!ColourFor, L!Values

LEMMA LooksSetStyle ==
  ASSUME LookInv, NEW p \in Players, NEW v \in L!Values, L!SetStyle(p, v)
  PROVE  LookInv'
<1> DEFINE w == [style |-> v, skin |-> skin[p]]
<1>1. /\ p \in players /\ style' = [style EXCEPT ![p] = v] /\ skin' = skin
      /\ worn' = L!Told(p, w) /\ streamed' = streamed
      /\ UNCHANGED <<players, leaving, colour, others, seen>>
  BY DEF L!SetStyle
<1>2. style \in Bits /\ skin \in Bits /\ p \in Players /\ v \in {0, 1}
  BY DEF LookInv, L!TypeOK, L!Values, Bits
<1>3. /\ style' \in Bits /\ skin' \in Bits /\ w = [style |-> style'[p], skin |-> skin'[p]]
      /\ \A q \in Players \ {p} : style'[q] = style[q] /\ skin'[q] = skin[q]
  BY <1>1, <1>2 DEF Bits
<1>4. w \in Wear
  BY <1>2 DEF Bits, Wear
<1> HIDE DEF w
<1>5. /\ worn' \in [Players -> [Players -> Wear \union {None}]]
      /\ \A q, r \in Players : r # p => worn'[q][r] = worn[q][r]
      /\ \A q \in Players : <<p, q>> \in streamed => worn'[q][p] = w
  BY <1>1, <1>4, LooksTold
<1> QED BY <1>1, <1>3, <1>5, LooksChange

LEMMA LooksSetSkin ==
  ASSUME LookInv, NEW p \in Players, NEW v \in L!Values, L!SetSkin(p, v)
  PROVE  LookInv'
<1> DEFINE w == [style |-> style[p], skin |-> v]
<1>1. /\ p \in players /\ skin' = [skin EXCEPT ![p] = v] /\ style' = style
      /\ worn' = L!Told(p, w) /\ streamed' = streamed
      /\ UNCHANGED <<players, leaving, colour, others, seen>>
  BY DEF L!SetSkin
<1>2. style \in Bits /\ skin \in Bits /\ p \in Players /\ v \in {0, 1}
  BY DEF LookInv, L!TypeOK, L!Values, Bits
<1>3. /\ style' \in Bits /\ skin' \in Bits /\ w = [style |-> style'[p], skin |-> skin'[p]]
      /\ \A q \in Players \ {p} : style'[q] = style[q] /\ skin'[q] = skin[q]
  BY <1>1, <1>2 DEF Bits
<1>4. w \in Wear
  BY <1>2 DEF Bits, Wear
<1> HIDE DEF w
<1>5. /\ worn' \in [Players -> [Players -> Wear \union {None}]]
      /\ \A q, r \in Players : r # p => worn'[q][r] = worn[q][r]
      /\ \A q \in Players : <<p, q>> \in streamed => worn'[q][p] = w
  BY <1>1, <1>4, LooksTold
<1> QED BY <1>1, <1>3, <1>5, LooksChange

LEMMA LooksSetSpawnInfo ==
  ASSUME LookInv, NEW p \in Players, NEW v \in L!Values, L!SetSpawnInfo(p, v)
  PROVE  LookInv'
<1>1. /\ p \in players /\ skin' = [skin EXCEPT ![p] = v] /\ style' = style
      /\ worn' = worn /\ streamed' = streamed
      /\ Careful => \A q \in players : <<p, q>> \notin streamed
      /\ UNCHANGED <<players, leaving, colour, others, seen>>
  BY DEF L!SetSpawnInfo
<1>2. /\ style \in Bits
      /\ skin \in Bits
      /\ streamed \subseteq players \X players
      /\ v \in {0, 1}
      /\ worn \in [Players -> [Players -> Wear \union {None}]]
  BY DEF LookInv, LookTables, L!TypeOK, L!Values, Bits, Wear
<1>3. /\ style' \in Bits /\ skin' \in Bits
      /\ \A q \in Players \ {p} : style'[q] = style[q] /\ skin'[q] = skin[q]
  BY <1>1, <1>2 DEF Bits
<1>4. Careful => \A q \in Players : <<p, q>> \notin streamed'
  BY <1>1, <1>2
<1> QED BY <1>1, <1>2, <1>3, <1>4, LooksChange

LEMMA LooksSpawn ==
  ASSUME LookInv, NEW p \in Players, NEW v \in L!Values, L!Spawn(p, v)
  PROVE  LookInv'
<1>1. /\ p \in players /\ skin' = [skin EXCEPT ![p] = v] /\ style' = style
      /\ worn' = [q \in Players |-> [worn[q] EXCEPT ![p] = None]]
      /\ streamed' = {s \in streamed : s[1] # p}
      /\ UNCHANGED <<players, leaving, colour, others, seen>>
  BY DEF L!Spawn
<1>2. style \in Bits /\ skin \in Bits /\ v \in {0, 1}
      /\ worn \in [Players -> [Players -> Wear \union {None}]]
  BY DEF LookInv, LookTables, L!TypeOK, L!Values, Bits, Wear
<1>3. /\ style' \in Bits /\ skin' \in Bits
      /\ \A q \in Players \ {p} : style'[q] = style[q] /\ skin'[q] = skin[q]
  BY <1>1, <1>2 DEF Bits
<1>4. /\ worn' \in [Players -> [Players -> Wear \union {None}]]
      /\ \A q, r \in Players : r # p => worn'[q][r] = worn[q][r]
  BY <1>1, <1>2
<1>5. streamed' \subseteq streamed /\ \A q \in Players : <<p, q>> \notin streamed'
  BY <1>1
<1> QED BY <1>1, <1>3, <1>4, <1>5, LooksChange

LEMMA LooksStep == ASSUME LookInv, L!Next PROVE LookInv'
  BY LooksConnect, LooksBeginLeave, LooksEndLeave, LooksStreamIn,
     LooksStreamOut, LooksSetColour, LooksSetOtherColour, LooksSetStyle,
     LooksSetSkin, LooksSetSpawnInfo, LooksSpawn
  DEF L!Next

LEMMA LooksImply ==
  ASSUME LookInv
  PROVE  L!TypeOK /\ (Careful => L!ViewExact /\ L!NoStale)
<1>1. ASSUME Careful
      PROVE  L!ViewExact
  <2> SUFFICES ASSUME NEW p \in players \ {leaving},
                      NEW q \in L!Others(p) \ {leaving}
               PROVE  LookSeen(p, q)
    BY DEF L!ViewExact, LookSeen
  <2> QED BY <1>1 DEF LookInv, LookViews, L!Others
<1> QED BY <1>1 DEF LookInv

-----------------------------------------------------------------------------
(* Dialogs                                                                  *)

\* The answers on their way, as sequences, each of a row that its dialog has.
DialogQueues ==
    /\ players \subseteq Alone
    /\ activeId \in [Alone -> DialogIds \union {None}]
    /\ content \in [Alone -> D!Contents \union {D!NoContent}]
    /\ box \in [Alone -> [id : DialogIds, content : D!Contents] \union {None}]
    /\ responses \in [Alone -> Seq(D!Unread)]
    /\ \A p \in Alone : /\ Len(responses[p]) <= MaxAnswers
                        /\ \A i \in 1 .. Len(responses[p]) :
                             responses[p][i].item \in D!Rows(responses[p][i].of)
    /\ responding \in players \union {None}
    /\ answerCrossed \subseteq players

\* The dialog a client shows is the active one, if one is.
BoxActive == \A p \in Alone : box[p] # None =>
    /\ activeId[p] # None => activeId[p] = box[p].id /\ content[p] = box[p].content
    /\ p \notin answerCrossed =>
         /\ activeId[p] # None
         /\ \A i \in 1 .. Len(responses[p]) : responses[p][i].id # box[p].id

\* An answer under the active id was given to the dialog that is active.
AnswersFit == \A p \in Alone \ answerCrossed : \A i \in 1 .. Len(responses[p]) :
    responses[p][i].id = activeId[p] => responses[p][i].of = content[p]

\* The active dialog is shown, or the last answer is the one to it.
AnswerComes == \A p \in Alone : activeId[p] # None =>
    \/ box[p] # None
    \/ /\ responses[p] # <<>>
       /\ responses[p][Len(responses[p])].id = activeId[p]
       /\ responses[p][Len(responses[p])].of = content[p]

DialogsApart == \A p \in Alone \ players :
    activeId[p] = None /\ box[p] = None /\ responses[p] = <<>>

DialogInv == DialogQueues /\ BoxActive /\ AnswersFit /\ AnswerComes /\ DialogsApart

\* A row that the client of a dialog can choose is one that the handler takes.
LEMMA RowsFit ==
  ASSUME NEW c \in D!Contents, NEW item \in D!Rows(c)
  PROVE  D!Fits(item, c)
<1>1. CASE c = [style |-> "box", lines |-> 1]
  BY <1>1 DEF D!Rows, D!Fits
<1>2. CASE c = [style |-> "list", lines |-> 0]
  BY <1>2 DEF D!Rows, D!Fits
<1>3. CASE c = [style |-> "list", lines |-> 1]
  BY <1>3 DEF D!Rows, D!Fits
<1>4. CASE c = [style |-> "headers", lines |-> 3]
  BY <1>4 DEF D!Rows, D!Fits
<1> QED BY <1>1, <1>2, <1>3, <1>4 DEF D!Contents

LEMMA DialogNones ==
  /\ MaxAnswers \in Nat /\ None \notin Alone /\ None \notin DialogIds
  /\ None \notin [id : DialogIds, content : D!Contents]
<1>1. D!Contents \subseteq [style : {"box", "list", "headers"}, lines : 0 .. 3]
  BY DEF D!Contents
<1> QED BY <1>1, DialogsAssumption

LEMMA DialogAnswered ==
  ASSUME DialogQueues
  PROVE  \A p \in Alone : \A i \in 1 .. Len(responses[p]) :
           /\ responses[p][i] \in D!Unread /\ responses[p][i].id \in DialogIds
           /\ responses[p][i].id # None /\ responses[p][i].of \in D!Contents
<1> SUFFICES ASSUME NEW p \in Alone, NEW i \in 1 .. Len(responses[p])
             PROVE  /\ responses[p][i] \in D!Unread /\ responses[p][i].id \in DialogIds
                    /\ responses[p][i].id # None /\ responses[p][i].of \in D!Contents
  OBVIOUS
<1>1. responses[p] \in Seq(D!Unread)
  BY DEF DialogQueues
<1>2. responses[p][i] \in D!Unread
  BY <1>1, ElementOfSeq
<1> QED BY <1>2, DialogNones DEF D!Unread

LEMMA DialogsInit == ASSUME D!Init PROVE DialogInv
  BY DialogNones
  DEF D!Init, D!NoContent, DialogInv, DialogQueues, BoxActive, AnswersFit,
      AnswerComes, DialogsApart

LEMMA DialogsStutter ==
  ASSUME DialogInv, UNCHANGED <<players, dialogsVars>>
  PROVE  DialogInv'
  BY DEF dialogsVars, DialogInv, DialogQueues, BoxActive, AnswersFit,
         AnswerComes, DialogsApart

LEMMA DialogsConnect ==
  ASSUME DialogInv, NEW p \in Alone, D!Connect(p)
  PROVE  DialogInv'
  BY DialogNones
  DEF D!Connect, D!own, DialogInv, DialogQueues, BoxActive, AnswersFit,
      AnswerComes, DialogsApart

LEMMA DialogsDisconnect ==
  ASSUME DialogInv, NEW p \in Alone, D!Disconnect(p)
  PROVE  DialogInv'
  BY DialogNones
  DEF D!Disconnect, D!Gone, DialogInv, DialogQueues, BoxActive, AnswersFit,
      AnswerComes, DialogsApart

LEMMA DialogsShow ==
  ASSUME DialogInv, NEW p \in Alone, NEW i \in DialogIds,
         NEW c \in D!Contents, D!Show(p, i, c)
  PROVE  DialogInv'
<1>1. /\ p \in players /\ players' = players /\ responses' = responses /\ responding' = responding
      /\ activeId' \in [Alone -> DialogIds \union {None}]
      /\ content' \in [Alone -> D!Contents \union {D!NoContent}]
      /\ box' \in [Alone -> [id : DialogIds, content : D!Contents] \union {None}]
      /\ activeId'[p] = i /\ content'[p] = c /\ box'[p].id = i /\ box'[p].content = c
      /\ box'[p] # None /\ i # None
      /\ \A q \in Alone \ {p} : /\ activeId'[q] = activeId[q] /\ content'[q] = content[q]
                                /\ box'[q] = box[q]
      /\ answerCrossed' \subseteq players
      /\ \A q \in Alone \ {p} : q \in answerCrossed' <=> q \in answerCrossed
  BY DialogNones DEF D!Show, DialogInv, DialogQueues
<1>2. p \notin answerCrossed' => \A j \in 1 .. Len(responses[p]) : responses[p][j].id # i
  <2>1. \A j \in 1 .. Len(responses[p]) : responses[p][j] \in Range(responses[p])
    BY DEF Range, DialogInv, DialogQueues
  <2> QED BY <1>1, <2>1 DEF D!Show, Range, D!Range
<1>3. DialogQueues' /\ DialogsApart'
  BY <1>1 DEF DialogInv, DialogQueues, DialogsApart
<1>4. BoxActive'
  BY <1>1, <1>2 DEF DialogInv, BoxActive
<1>5. AnswersFit'
  BY <1>1, <1>2 DEF DialogInv, AnswersFit
<1>6. AnswerComes'
  BY <1>1 DEF DialogInv, AnswerComes
<1> QED BY <1>3, <1>4, <1>5, <1>6 DEF DialogInv

LEMMA DialogsHide ==
  ASSUME DialogInv, NEW p \in Alone, D!Hide(p)
  PROVE  DialogInv'
<1>1. /\ p \in players /\ players' = players /\ responses' = responses /\ responding' = responding
      /\ answerCrossed' = answerCrossed /\ content' = content
      /\ activeId' \in [Alone -> DialogIds \union {None}]
      /\ box' \in [Alone -> [id : DialogIds, content : D!Contents] \union {None}]
      /\ activeId'[p] = None /\ (box'[p] # None => box'[p] = box[p] /\ activeId[p] = None)
      /\ \A q \in Alone \ {p} : activeId'[q] = activeId[q] /\ box'[q] = box[q]
  BY DEF D!Hide, D!Hidden, DialogInv, DialogQueues
<1>3. DialogQueues' /\ DialogsApart'
  BY <1>1 DEF DialogInv, DialogQueues, DialogsApart
<1>4. BoxActive'
  BY <1>1 DEF DialogInv, BoxActive
<1>5. AnswersFit'
  <2>1. \A j \in 1 .. Len(responses[p]) : responses[p][j].id # None
    BY DialogAnswered DEF DialogInv
  <2> QED BY <1>1, <2>1 DEF DialogInv, AnswersFit
<1>6. AnswerComes'
  BY <1>1 DEF DialogInv, AnswerComes
<1> QED BY <1>3, <1>4, <1>5, <1>6 DEF DialogInv

LEMMA DialogsClientAnswers ==
  ASSUME DialogInv, NEW p \in Alone, NEW item \in -1 .. 1,
         D!ClientAnswers(p, item)
  PROVE  DialogInv'
<1> DEFINE r == [id |-> box[p].id, item |-> item, of |-> box[p].content]
<1>1. /\ p \in players /\ box[p] # None /\ box[p].id \in DialogIds
      /\ box[p].content \in D!Contents /\ r \in D!Unread /\ item \in D!Rows(box[p].content)
      /\ responses[p] \in Seq(D!Unread) /\ Len(responses[p]) < MaxAnswers
  BY DEF D!ClientAnswers, DialogInv, DialogQueues, D!Unread
<1>2. /\ r.id = box[p].id /\ r.item = item /\ r.of = box[p].content
  OBVIOUS
<1>3. /\ responses' = [responses EXCEPT ![p] = Append(@, r)]
      /\ box' = [box EXCEPT ![p] = None]
      /\ players' = players /\ activeId' = activeId /\ content' = content
      /\ responding' = responding /\ answerCrossed' = answerCrossed
  BY DEF D!ClientAnswers
<1> HIDE DEF r
<1>4. /\ Append(responses[p], r) \in Seq(D!Unread)
      /\ Len(Append(responses[p], r)) = Len(responses[p]) + 1 /\ Len(responses[p]) \in Nat
      /\ Append(responses[p], r) # <<>> /\ Append(responses[p], r)[Len(responses[p]) + 1] = r
      /\ \A i \in 1 .. Len(responses[p]) : Append(responses[p], r)[i] = responses[p][i]
  BY <1>1, AppendIs
<1>5. /\ responses' \in [Alone -> Seq(D!Unread)] /\ responses'[p] # <<>>
      /\ Len(responses'[p]) = Len(responses[p]) + 1 /\ responses'[p][Len(responses'[p])] = r
      /\ \A i \in 1 .. Len(responses'[p]) : \/ i \in 1 .. Len(responses[p])
                                               /\ responses'[p][i] = responses[p][i]
                                            \/ responses'[p][i] = r
      /\ \A q \in Alone \ {p} : responses'[q] = responses[q]
      /\ \A q \in Alone : box'[q] = IF q = p THEN None ELSE box[q]
  BY <1>3, <1>4 DEF DialogInv, DialogQueues
<1>6. DialogQueues'
  BY <1>1, <1>2, <1>3, <1>5, DialogNones DEF DialogInv, DialogQueues
<1>7. BoxActive'
  BY <1>3, <1>5 DEF DialogInv, BoxActive
<1>8. AnswersFit'
  BY <1>1, <1>2, <1>3, <1>5 DEF DialogInv, AnswersFit, BoxActive
<1>9. AnswerComes'
  BY <1>1, <1>2, <1>3, <1>5 DEF DialogInv, AnswerComes, BoxActive
<1>10. DialogsApart'
  BY <1>1, <1>3, <1>5 DEF DialogInv, DialogsApart
<1> QED BY <1>6, <1>7, <1>8, <1>9, <1>10 DEF DialogInv

LEMMA DialogsOnDialogResponse ==
  ASSUME DialogInv, NEW p \in Alone, D!OnDialogResponse(p)
  PROVE  DialogInv'
<1>1. /\ responses[p] \in Seq(D!Unread) /\ responses[p] # <<>>
      /\ responses' = [responses EXCEPT ![p] = Tail(@)]
      /\ players' = players /\ content' = content /\ box' = box
      /\ answerCrossed' = answerCrossed
  BY DEF D!OnDialogResponse, DialogInv, DialogQueues
<1>2. /\ Tail(responses[p]) \in Seq(D!Unread)
      /\ Len(Tail(responses[p])) = Len(responses[p]) - 1 /\ Len(responses[p]) \in Nat \ {0}
      /\ Head(responses[p]) = responses[p][1] /\ responses[p][1] \in D!Unread
      /\ \A i \in 1 .. Len(Tail(responses[p])) :
           Tail(responses[p])[i] = responses[p][i + 1] /\ i + 1 \in 1 .. Len(responses[p])
  BY <1>1, TailIs
<1>3. /\ responses' \in [Alone -> Seq(D!Unread)]
      /\ Len(responses'[p]) = Len(responses[p]) - 1
      /\ \A i \in 1 .. Len(responses'[p]) :
           responses'[p][i] = responses[p][i + 1] /\ i + 1 \in 1 .. Len(responses[p])
      /\ \A q \in Alone \ {p} : responses'[q] = responses[q]
      /\ p \in players
  BY <1>1, <1>2 DEF DialogInv, DialogQueues, DialogsApart
<1>4. \/ D!Accepted(p, Head(responses[p])) /\ activeId' = [activeId EXCEPT ![p] = None]
         /\ responding' = p
      \/ ~D!Accepted(p, Head(responses[p])) /\ activeId' = activeId /\ responding' = responding
  BY DEF D!OnDialogResponse
<1>5. /\ activeId' \in [Alone -> DialogIds \union {None}]
      /\ responding' \in players \union {None}
      /\ \A q \in Alone \ {p} : activeId'[q] = activeId[q]
  BY <1>3, <1>4 DEF DialogInv, DialogQueues
<1>6. DialogQueues'
  <2>1. /\ players' \subseteq Alone /\ answerCrossed' \subseteq players'
        /\ content' \in [Alone -> D!Contents \union {D!NoContent}]
        /\ box' \in [Alone -> [id : DialogIds, content : D!Contents] \union {None}]
        /\ responding' \in players' \union {None}
    BY <1>1, <1>5 DEF DialogInv, DialogQueues
  <2>2. Len(responses'[p]) <= MaxAnswers
    BY <1>2, <1>3, DialogNones DEF DialogInv, DialogQueues
  <2>3. \A i \in 1 .. Len(responses'[p]) : responses'[p][i].item \in D!Rows(responses'[p][i].of)
    BY <1>3 DEF DialogInv, DialogQueues
  <2> QED BY <1>3, <1>5, <2>1, <2>2, <2>3 DEF DialogInv, DialogQueues
<1>7. DialogsApart'
  BY <1>1, <1>3, <1>5 DEF DialogInv, DialogsApart
<1>8. AnswersFit'
  <2>1. \A i \in 1 .. Len(responses'[p]) : responses'[p][i].id # None
    BY <1>3, DialogAnswered DEF DialogInv
  <2>2. activeId'[p] = activeId[p] \/ activeId'[p] = None
    BY <1>4 DEF DialogInv, DialogQueues
  <2> QED BY <1>1, <1>3, <1>5, <2>1, <2>2 DEF DialogInv, AnswersFit
<1>9. BoxActive'
  <2>1. ASSUME D!Accepted(p, Head(responses[p])), p \notin answerCrossed, box[p] # None
        PROVE  FALSE
    <3>1. responses[p][1].id = activeId[p] /\ activeId[p] # None
      BY <2>1, <1>2, DialogNones DEF D!Accepted, D!Unread
    <3>2. responses[p][1].id # box[p].id /\ activeId[p] = box[p].id
      BY <2>1, <1>2, <1>3, <3>1 DEF DialogInv, BoxActive
    <3> QED BY <3>1, <3>2
  <2>2. activeId'[p] = activeId[p] \/ (activeId'[p] = None /\ (p \in answerCrossed \/ box[p] = None))
    BY <1>4, <2>1 DEF DialogInv, DialogQueues
  <2> QED BY <1>1, <1>3, <1>5, <2>2 DEF DialogInv, BoxActive
<1>10. AnswerComes'
  <2>1. ASSUME activeId'[p] # None, box[p] = None
        PROVE  /\ responses'[p] # <<>>
               /\ responses'[p][Len(responses'[p])].id = activeId'[p]
               /\ responses'[p][Len(responses'[p])].of = content[p]
    <3> DEFINE n == Len(responses[p])
    <3>1. activeId'[p] = activeId[p] /\ ~D!Accepted(p, Head(responses[p]))
      BY <2>1, <1>4 DEF DialogInv, DialogQueues
    <3>2. responses[p][n].id = activeId[p] /\ responses[p][n].of = content[p]
      BY <3>1, <2>1, <1>3 DEF DialogInv, AnswerComes
    <3>3. n # 1
      <4>1. SUFFICES ASSUME n = 1 PROVE FALSE
        OBVIOUS
      <4>2. /\ responses[p][1].of = content[p] /\ responses[p][1].of \in D!Contents
            /\ responses[p][1].item \in D!Rows(responses[p][1].of)
        BY <4>1, <3>2, <1>2 DEF DialogInv, DialogQueues, D!Unread
      <4>3. D!Fits(responses[p][1].item, content[p])
        BY <4>2, RowsFit
      <4> QED BY <4>1, <4>3, <3>1, <3>2, <1>2 DEF D!Accepted
    <3>6. n \in Nat \ {0} /\ Len(responses'[p]) = n - 1
      BY <1>2, <1>3
    <3> HIDE DEF n
    <3>4. n - 1 \in 1 .. Len(responses'[p]) /\ Len(responses'[p]) = n - 1 /\ (n - 1) + 1 = n
      BY <3>3, <3>6
    <3>5. responses'[p][n - 1] = responses[p][n] /\ responses'[p] # <<>>
      BY <3>4, <1>3, EmptySeq
    <3> QED BY <3>1, <3>2, <3>4, <3>5
  <2> QED BY <1>1, <1>3, <1>5, <2>1 DEF DialogInv, AnswerComes
<1> QED BY <1>6, <1>7, <1>8, <1>9, <1>10 DEF DialogInv

LEMMA DialogsResponded == ASSUME DialogInv, D!Responded PROVE DialogInv'
  BY DialogNones
  DEF D!Responded, DialogInv, DialogQueues, BoxActive, AnswersFit, AnswerComes,
      DialogsApart

LEMMA DialogsReset == ASSUME DialogInv, D!Reset PROVE DialogInv'
<1>1. /\ \A p \in Alone : activeId'[p] = None /\ box'[p] = None
      /\ activeId' \in [Alone -> DialogIds \union {None}]
      /\ box' \in [Alone -> [id : DialogIds, content : D!Contents] \union {None}]
      /\ UNCHANGED <<players, content, responses, responding, answerCrossed>>
  BY DEF D!Reset
<1>2. \A p \in Alone : \A j \in 1 .. Len(responses[p]) : responses[p][j].id # None
  BY DialogAnswered DEF DialogInv
<1> QED BY <1>1, <1>2 DEF DialogInv, DialogQueues, BoxActive, AnswersFit, AnswerComes,
           DialogsApart

LEMMA DialogImply ==
  ASSUME DialogInv
  PROVE  D!TypeOK /\ D!ViewExact /\ D!NotWaiting
<1>1. ASSUME NEW p \in Alone
      PROVE  responses[p] \in Seq(D!Unread) /\ Len(responses[p]) <= MaxAnswers
  BY DialogNones DEF DialogInv, DialogQueues
<1>2. D!TypeOK
  BY <1>1 DEF DialogInv, DialogQueues, D!TypeOK
<1>3. \A p \in Alone : \A r \in D!Range(responses[p]) :
        \E i \in 1 .. Len(responses[p]) : r = responses[p][i]
  BY LenProperties DEF DialogInv, DialogQueues, D!Range
<1>4. D!ViewExact
  BY <1>3 DEF DialogInv, DialogQueues, BoxActive, AnswersFit, D!ViewExact, D!Accepted
<1>5. \A p \in Alone : responses[p] # <<>> =>
        responses[p][Len(responses[p])] \in D!Range(responses[p])
  BY EmptySeq DEF DialogInv, DialogQueues, D!Range
<1>6. D!NotWaiting
  BY <1>5 DEF DialogInv, DialogQueues, BoxActive, AnswerComes, D!NotWaiting
<1> QED BY <1>2, <1>4, <1>6

LEMMA DialogsStep == ASSUME DialogInv, D!Next PROVE DialogInv'
  BY DialogsConnect, DialogsDisconnect, DialogsShow, DialogsHide,
     DialogsClientAnswers, DialogsOnDialogResponse, DialogsResponded,
     DialogsReset
  DEF D!Next

-----------------------------------------------------------------------------
(* Synchronisation packets                                                  *)

SyncTypes ==
    /\ players \subseteq Alone /\ cars \subseteq Cars /\ dying \subseteq cars
    /\ carShown \subseteq cars \X players
    /\ spectating \subseteq players
    /\ packet \in [Alone -> [Y!Kinds -> Y!Packets]]
    /\ primary \in [Alone -> Y!Primary \union {None}]
    /\ secondary \in [Alone -> SUBSET Y!Secondary]
    /\ handling \in [player : players, kind : Y!Kinds, no : 1 .. MaxPackets,
                     car : Cars \union {None}] \union {None}
    /\ count \in [Alone -> 0 .. MaxPackets]
    /\ refusedSync \in [Alone -> SUBSET (1 .. MaxPackets)]
    /\ relayed \in [Alone -> [Y!Kinds -> 0 .. MaxPackets]]
    /\ freed \in BOOLEAN

\* The last packet of a kind is at least the one of it relayed last; the one that
\* is handled is the last that came.
PacketsInOrder == \A p \in Alone :
    /\ \A k \in Y!Kinds : relayed[p][k] <= packet[p][k].no /\ packet[p][k].no <= count[p]
    /\ \A n \in refusedSync[p] : n <= count[p]
    /\ handling # None /\ handling.player = p =>
         /\ handling.no = count[p]
         /\ \A k \in Y!Kinds : packet[p][k].no < handling.no
         /\ handling.no \notin refusedSync[p]

\* The vehicle of a handler is there as long as it runs.
HandlerKeeps ==
    /\ handling # None => handling.car \in cars \union {None}
    /\ ~freed

\* What is flagged to be relayed is newer than what was relayed, and not refused.
FlaggedNew == \A p \in Alone : \A k \in Y!Kinds : k = primary[p] \/ k \in secondary[p] =>
    /\ packet[p][k].no > relayed[p][k]
    /\ packet[p][k].no \notin refusedSync[p]

\* Only the vehicle that a handler locks waits to be released.
DyingLocked == dying \subseteq Y!Locked

\* A vehicle that waits to be released is streamed in for nobody.
DyingGone == \A s \in carShown : s[1] \notin dying

SyncInv ==
    /\ DyingGone /\ SyncTypes /\ PacketsInOrder /\ FlaggedNew /\ DyingLocked
    /\ Careful => HandlerKeeps

LEMMA SyncInit == ASSUME Y!Init PROVE SyncInv
<1>1. /\ Y!NoPacket \in Y!Packets /\ Y!NoPacket.no = 0
      /\ Y!Blank \in [Y!Kinds -> Y!Packets] /\ \A k \in Y!Kinds : Y!Blank[k].no = 0
  BY SyncAssumption DEF Y!Blank, Y!NoPacket, Y!Packets
<1>2. SyncTypes
  <2>1. packet \in [Alone -> [Y!Kinds -> Y!Packets]]
    BY <1>1 DEF Y!Init
  <2>2. /\ relayed \in [Alone -> [Y!Kinds -> 0 .. MaxPackets]]
        /\ count \in [Alone -> 0 .. MaxPackets]
    BY SyncAssumption DEF Y!Init
  <2> QED BY <2>1, <2>2 DEF Y!Init, SyncTypes
<1>3. PacketsInOrder /\ HandlerKeeps
  BY <1>1, SyncAssumption DEF Y!Init, PacketsInOrder, HandlerKeeps
<1>4. FlaggedNew
  BY <1>1, SyncAssumption DEF Y!Init, FlaggedNew, Y!Kinds, Y!Primary, Y!Secondary
<1> QED BY <1>2, <1>3, <1>4 DEF SyncInv, DyingLocked, DyingGone, Y!Init

LEMMA SyncStutter ==
  ASSUME SyncInv, UNCHANGED <<players, syncVars>>
  PROVE  SyncInv'
  BY DEF syncVars, SyncInv, SyncTypes, PacketsInOrder, HandlerKeeps,
         FlaggedNew, DyingLocked, DyingGone, Y!Locked, Y!Kinds, Y!Primary,
         Y!Secondary

LEMMA SyncConnect ==
  ASSUME SyncInv, NEW p \in Alone, Y!Connect(p)
  PROVE  SyncInv'
  BY SyncAssumption
  DEF Y!Connect, Y!own, SyncInv, SyncTypes, PacketsInOrder, HandlerKeeps,
      FlaggedNew, DyingLocked, DyingGone, Y!Locked, Y!Kinds, Y!Primary,
      Y!Secondary

LEMMA SyncDisconnect ==
  ASSUME SyncInv, NEW p \in Alone, Y!Disconnect(p)
  PROVE  SyncInv'
  BY SyncAssumption
  DEF Y!Disconnect, Y!Blank, Y!NoPacket, Y!Packets, SyncInv, SyncTypes,
      PacketsInOrder, HandlerKeeps, FlaggedNew, DyingLocked, DyingGone,
      Y!Locked, Y!Kinds, Y!Primary, Y!Secondary

LEMMA SyncStreamCar ==
  ASSUME SyncInv, NEW x \in Cars, NEW p \in Alone, Y!StreamCar(x, p)
  PROVE  SyncInv'
  BY SyncAssumption
  DEF Y!StreamCar, SyncInv, SyncTypes, PacketsInOrder, HandlerKeeps,
      FlaggedNew, DyingLocked, DyingGone, Y!Locked, Y!Kinds, Y!Primary,
      Y!Secondary

LEMMA SyncCreateCar ==
  ASSUME SyncInv, NEW x \in Cars, Y!CreateCar(x)
  PROVE  SyncInv'
  BY SyncAssumption
  DEF Y!CreateCar, SyncInv, SyncTypes, PacketsInOrder, HandlerKeeps,
      FlaggedNew, DyingLocked, DyingGone, Y!Locked, Y!Kinds, Y!Primary,
      Y!Secondary

LEMMA SyncDestroyCar ==
  ASSUME SyncInv, NEW x \in Cars, Y!DestroyCar(x)
  PROVE  SyncInv'
<1>1. /\ carShown' = {s \in carShown : s[1] # x}
      /\ dying' = dying \union ({x} \intersect Y!Locked)
      /\ cars' = IF x \in Y!Locked THEN cars ELSE cars \ {x}
      /\ UNCHANGED <<players, spectating, packet, primary, secondary, handling, count,
                     refusedSync, relayed, freed>>
      /\ x \in cars /\ (Careful => x \notin Y!Held \ Y!Locked)
  BY DEF Y!DestroyCar
<1>2. dying' \subseteq cars' /\ cars' \subseteq cars /\ carShown' \subseteq cars' \X players
  <2>1. CASE x \in Y!Locked
    BY <1>1, <2>1 DEF SyncInv, SyncTypes
  <2>2. CASE x \notin Y!Locked
    <3>1. x \notin dying
      BY <1>1, <2>2 DEF SyncInv, DyingLocked
    <3> QED BY <1>1, <2>2, <3>1 DEF SyncInv, SyncTypes
  <2> QED BY <2>1, <2>2
<1>3. SyncTypes' /\ DyingLocked' /\ DyingGone'
  <2>1. Y!Locked' = Y!Locked
    BY <1>1 DEF Y!Locked
  <2> QED BY <1>1, <1>2, <2>1 DEF SyncInv, SyncTypes, DyingLocked, DyingGone
<1>4. PacketsInOrder' /\ FlaggedNew'
  BY <1>1 DEF SyncInv, PacketsInOrder, FlaggedNew
<1>5. Careful => HandlerKeeps'
  BY <1>1, SyncAssumption DEF SyncInv, HandlerKeeps, Y!Held
<1> QED BY <1>3, <1>4, <1>5 DEF SyncInv

LEMMA SyncSetSpectating ==
  ASSUME SyncInv, NEW p \in Alone, Y!SetSpectating(p)
  PROVE  SyncInv'
  BY SyncAssumption
  DEF Y!SetSpectating, SyncInv, SyncTypes, PacketsInOrder, HandlerKeeps,
      FlaggedNew, DyingLocked, DyingGone, Y!Locked, Y!Kinds, Y!Primary,
      Y!Secondary

\* A handler begins with a packet newer than every other of its player.
LEMMA HandlerBegins ==
  ASSUME SyncInv, NEW p \in Alone, NEW k \in Y!Kinds, NEW x \in Cars \union {None},
         x \in cars \union {None}, Y!Begin(p, k, x)
  PROVE  SyncInv'
<1> DEFINE h == [player |-> p, kind |-> k, no |-> count[p] + 1, car |-> x]
<1>1. /\ handling' = h /\ handling = None /\ p \in players
      /\ count[p] \in 0 .. MaxPackets /\ count[p] < MaxPackets
      /\ count' = [count EXCEPT ![p] = @ + 1]
      /\ UNCHANGED <<players, cars, dying, carShown, spectating, packet, primary, secondary,
                     refusedSync, relayed, freed>>
  BY DEF Y!Begin, Y!Counted, SyncInv, SyncTypes
<1>2. /\ h \in [player : players, kind : Y!Kinds, no : 1 .. MaxPackets, car : Cars \union {None}]
      /\ h.player = p /\ h.no = count[p] + 1 /\ h.car = x
  BY <1>1, SyncAssumption
<1> HIDE DEF h
<1>3. /\ count' \in [Alone -> 0 .. MaxPackets] /\ count'[p] = count[p] + 1
      /\ \A q \in Alone : q # p => count'[q] = count[q]
      /\ \A q \in Alone : count[q] <= count'[q] /\ count[q] \in Nat /\ count'[q] \in Nat
  BY <1>1, SyncAssumption DEF SyncInv, SyncTypes
<1>4. SyncTypes'
  BY <1>1, <1>2, <1>3 DEF SyncInv, SyncTypes
<1>5. PacketsInOrder'
  <2>1. \A q \in Alone : /\ refusedSync[q] \subseteq Nat
                         /\ \A j \in Y!Kinds : packet[q][j].no \in Nat
    BY SyncAssumption DEF SyncInv, SyncTypes, Y!Packets
  <2> QED BY <1>1, <1>2, <1>3, <2>1 DEF SyncInv, PacketsInOrder
<1>6. FlaggedNew' /\ DyingLocked' /\ DyingGone'
  BY <1>1 DEF SyncInv, FlaggedNew, DyingGone, DyingLocked, Y!Locked
<1>7. Careful => HandlerKeeps'
  BY <1>1, <1>2 DEF SyncInv, HandlerKeeps
<1> QED BY <1>4, <1>5, <1>6, <1>7 DEF SyncInv

LEMMA SyncPlayerFootSync ==
  ASSUME SyncInv, NEW p \in Alone, Y!PlayerFootSync(p)
  PROVE  SyncInv'
  BY HandlerBegins DEF Y!PlayerFootSync, Y!Kinds, Y!Primary, Y!Secondary

LEMMA SyncPlayerVehicleSync ==
  ASSUME SyncInv, NEW p \in Alone, NEW x \in Cars, Y!PlayerVehicleSync(p, x)
  PROVE  SyncInv'
  BY HandlerBegins DEF Y!PlayerVehicleSync, Y!Kinds, Y!Primary, Y!Secondary

LEMMA SyncPlayerPassengerSync ==
  ASSUME SyncInv, NEW p \in Alone, NEW x \in Cars, Y!PlayerPassengerSync(p, x)
  PROVE  SyncInv'
  BY HandlerBegins DEF Y!PlayerPassengerSync, Y!Kinds, Y!Primary, Y!Secondary

LEMMA SyncPlayerUnoccupiedSync ==
  ASSUME SyncInv, NEW p \in Alone, NEW x \in Cars, Y!PlayerUnoccupiedSync(p, x)
  PROVE  SyncInv'
  BY HandlerBegins DEF Y!PlayerUnoccupiedSync, Y!Kinds, Y!Primary, Y!Secondary

LEMMA SyncPlayerTrailerSync ==
  ASSUME SyncInv, NEW p \in Alone, NEW x \in Cars, Y!PlayerTrailerSync(p, x)
  PROVE  SyncInv'
  BY HandlerBegins DEF Y!PlayerTrailerSync, Y!Kinds, Y!Primary, Y!Secondary

LEMMA SyncPlayerAimSync ==
  ASSUME SyncInv, NEW p \in Alone, Y!PlayerAimSync(p)
  PROVE  SyncInv'
  BY SyncAssumption
  DEF Y!PlayerAimSync, Y!Counted, Y!Packets, SyncInv, SyncTypes,
      PacketsInOrder, HandlerKeeps, FlaggedNew, DyingLocked, DyingGone,
      Y!Locked, Y!Kinds, Y!Primary, Y!Secondary

LEMMA SyncReturn ==
  ASSUME SyncInv, NEW ok \in BOOLEAN, Y!Return(ok)
  PROVE  SyncInv'
<1> DEFINE h == handling
<1>1. /\ h # None /\ handling' = None /\ dying' = {} /\ cars' = cars \ dying
      /\ UNCHANGED <<players, carShown, spectating, count, relayed>>
      /\ freed' = (freed \/ (h.car # None /\ h.car \notin cars))
  BY DEF Y!Return
<1>2. /\ h.player \in players /\ h.player \in Alone /\ h.kind \in Y!Kinds
      /\ h.no \in 1 .. MaxPackets /\ h.car \in Cars \union {None}
  BY <1>1 DEF SyncInv, SyncTypes
<1>3. /\ h.no = count[h.player] /\ h.no \notin refusedSync[h.player]
      /\ \A k \in Y!Kinds : packet[h.player][k].no < h.no
  BY <1>1, <1>2 DEF SyncInv, PacketsInOrder
<1>4. \A p \in Alone : \A k \in Y!Kinds : relayed[p][k] \in Nat /\ packet[p][k].no \in Nat
  BY SyncAssumption DEF SyncInv, SyncTypes, Y!Packets
<1>8. carShown' \subseteq cars' \X players'
  BY <1>1 DEF SyncInv, SyncTypes, DyingGone
<1>5. CASE ok
  <2> DEFINE x == [no |-> h.no, car |-> h.car]
  <2>1. x \in Y!Packets /\ x.no = h.no
    BY <1>2 DEF Y!Packets
  <2>2. /\ packet' = [packet EXCEPT ![h.player][h.kind] = x] /\ refusedSync' = refusedSync
        /\ \/ h.kind \in Y!Primary /\ secondary' = secondary
              /\ primary' = [primary EXCEPT ![h.player] = h.kind]
           \/ h.kind \in Y!Secondary /\ primary' = primary
              /\ secondary' = [secondary EXCEPT ![h.player] = @ \union {h.kind}]
    BY <1>2, <1>5 DEF Y!Return, Y!Store, Y!Kinds
  <2> HIDE DEF x
  <2>3. /\ packet' \in [Alone -> [Y!Kinds -> Y!Packets]]
        /\ \A p \in Alone : \A k \in Y!Kinds :
             packet'[p][k] = IF p = h.player /\ k = h.kind THEN x ELSE packet[p][k]
    BY <1>2, <2>1, <2>2 DEF SyncInv, SyncTypes
  <2>4. /\ primary' \in [Alone -> Y!Primary \union {None}]
        /\ secondary' \in [Alone -> SUBSET Y!Secondary]
        /\ \A p \in Alone : \A k \in Y!Kinds : k = primary'[p] \/ k \in secondary'[p] =>
             \/ p = h.player /\ k = h.kind
             \/ k = primary[p] \/ k \in secondary[p]
    <3>1. CASE /\ h.kind \in Y!Primary /\ secondary' = secondary
               /\ primary' = [primary EXCEPT ![h.player] = h.kind]
      BY <1>2, <3>1 DEF SyncInv, SyncTypes
    <3>2. CASE /\ h.kind \in Y!Secondary /\ primary' = primary
               /\ secondary' = [secondary EXCEPT ![h.player] = @ \union {h.kind}]
      <4>1. \A p \in Alone : secondary'[p] = IF p = h.player THEN secondary[p] \union {h.kind}
                                             ELSE secondary[p]
        BY <1>2, <3>2 DEF SyncInv, SyncTypes
      <4>2. secondary' \in [Alone -> SUBSET Y!Secondary]
        BY <1>2, <3>2 DEF SyncInv, SyncTypes
      <4> QED BY <3>2, <4>1, <4>2 DEF SyncInv, SyncTypes
    <3> QED BY <2>2, <3>1, <3>2
  <2>5. SyncTypes'
    BY <1>1, <1>8, <2>2, <2>3, <2>4 DEF SyncInv, SyncTypes
  <2>6. PacketsInOrder'
    BY <1>1, <1>2, <1>3, <1>4, <2>1, <2>2, <2>3 DEF SyncInv, PacketsInOrder
  <2>7. FlaggedNew'
    <3>1. relayed[h.player][h.kind] < h.no
      BY <1>2, <1>3, <1>4 DEF SyncInv, PacketsInOrder
    <3> QED BY <1>1, <1>3, <2>1, <2>2, <2>3, <2>4, <3>1 DEF SyncInv, FlaggedNew
  <2> QED BY <1>1, <2>5, <2>6, <2>7 DEF SyncInv, HandlerKeeps, DyingLocked, DyingGone
<1>6. CASE ~ok
  <2>1. /\ UNCHANGED <<packet, primary, secondary>>
        /\ refusedSync' = [refusedSync EXCEPT ![h.player] = @ \union {h.no}]
    BY <1>6 DEF Y!Return
  <2>2. /\ refusedSync' \in [Alone -> SUBSET (1 .. MaxPackets)]
        /\ \A p \in Alone : refusedSync'[p] = IF p = h.player THEN refusedSync[p] \union {h.no}
                                              ELSE refusedSync[p]
    BY <1>2, <2>1 DEF SyncInv, SyncTypes
  <2>3. SyncTypes'
    BY <1>1, <1>8, <2>1, <2>2 DEF SyncInv, SyncTypes
  <2>4. PacketsInOrder'
    BY <1>1, <1>2, <1>3, <2>1, <2>2 DEF SyncInv, PacketsInOrder
  <2>5. FlaggedNew'
    <3>1. \A p \in Alone : \A k : k = primary[p] \/ k \in secondary[p] => k \in Y!Kinds \union {None}
      BY DEF SyncInv, SyncTypes, Y!Kinds
    <3> QED BY <1>1, <1>3, <1>4, <2>1, <2>2 DEF SyncInv, FlaggedNew
  <2> QED BY <1>1, <2>3, <2>4, <2>5 DEF SyncInv, HandlerKeeps, DyingLocked, DyingGone
<1> QED BY <1>5, <1>6

LEMMA SyncTick == ASSUME SyncInv, NEW p \in Alone, Y!Tick(p) PROVE SyncInv'
  BY SyncAssumption
  DEF Y!Tick, Y!Flagged, Y!Sent, Y!Packets, SyncInv, SyncTypes, PacketsInOrder,
      HandlerKeeps, FlaggedNew, DyingLocked, DyingGone, Y!Locked, Y!Kinds,
      Y!Primary, Y!Secondary

LEMMA SyncImply ==
  ASSUME SyncInv
  PROVE  Y!TypeOK /\ Y!RelaysExact /\ (Careful => Y!NoDangling)
<1>1. Y!TypeOK
  BY DEF SyncInv, SyncTypes, Y!TypeOK
<1>2. Y!RelaysExact
  BY SyncAssumption DEF SyncInv, SyncTypes, FlaggedNew, Y!RelaysExact, Y!Flagged,
     Y!Kinds
<1> QED BY <1>1, <1>2 DEF SyncInv, HandlerKeeps, Y!NoDangling

LEMMA SyncStep == ASSUME SyncInv, Y!Next PROVE SyncInv'
  BY SyncConnect, SyncDisconnect, SyncStreamCar, SyncCreateCar,
     SyncDestroyCar, SyncSetSpectating, SyncPlayerFootSync,
     SyncPlayerVehicleSync, SyncPlayerPassengerSync,
     SyncPlayerUnoccupiedSync, SyncPlayerTrailerSync, SyncPlayerAimSync,
     SyncReturn, SyncTick
  DEF Y!Next

-----------------------------------------------------------------------------
(* What clients report                                                      *)

ReportRecord == [kind : Q!Kinds, from : Players,
                 about : Players \union Cars \union Things \union {None},
                 asked : Seq(BOOLEAN)]

Locking == {"shotVehicle", "shotObject", "shotPlayerObject"}

ReportTypes ==
    /\ players \subseteq Players /\ reportCars \subseteq Cars /\ objects \subseteq Things
    /\ seenBy \in [Players -> SUBSET Players]
    /\ carSeen \subseteq Cars \X Alone /\ ownObjects \subseteq Alone \X Things
    /\ inCar \in [Players -> Cars \union {None}]
    /\ mayShoot \in [Players -> BOOLEAN]
    /\ aimed \in [Alone -> Cars \union {None}]
    /\ report = Q!NoReport \/ report \in ReportRecord
    /\ lockedEntry \in BOOLEAN /\ releasedEntry \in BOOLEAN

\* The entry of a vehicle or an object is locked, and no other is released late.
ReportHeld ==
    /\ report.kind \in Locking => lockedEntry
    /\ releasedEntry => report.kind \in Locking

\* What a report is about is there as long as it is handled.
ReportAbout == report.about # None =>
    /\ /\ Careful
       /\ report.kind \in {"shotPlayer", "giveDamage", "takeDamage", "clickPlayer"}
       => report.about \in players
    /\ report.kind = "shotVehicle" => report.about \in reportCars
    /\ report.kind = "shotObject" => report.about \in objects
    /\ report.kind = "shotPlayerObject" => <<report.from, report.about>> \in ownObjects

ReportPassed ==
    /\ outcomeOf = Q!NoReport \/ outcomeOf.kind \in Q!Kinds
    /\ Q!PassedOnRightly

ReportInv == ReportTypes /\ ReportHeld /\ ReportAbout /\ ReportPassed

\* The kinds of reports.
LEMMA ReportKinds ==
  /\ Q!Kinds = {"shotMissed", "shotPlayer", "shotVehicle", "shotObject",
                "shotPlayerObject", "text", "command", "giveDamage",
                "takeDamage", "clickMap", "clickPlayer", "check"}
  /\ Q!NoReport.kind = "none" /\ Q!NoReport.about = None
  /\ Q!NoReport \notin ReportRecord
<1>1. Q!Kinds = {"shotMissed", "shotPlayer", "shotVehicle", "shotObject",
                 "shotPlayerObject", "text", "command", "giveDamage",
                 "takeDamage", "clickMap", "clickPlayer", "check"}
  BY DEF Q!Kinds, Q!StopAtFalse, Q!StopAtTrue, Q!AskAll
<1>2. Q!NoReport.kind = "none" /\ Q!NoReport.about = None
  BY DEF Q!NoReport
<1>3. \A r \in ReportRecord : r.kind # "none"
  BY <1>1 DEF ReportRecord
<1> QED BY <1>1, <1>2, <1>3

\* The event handlers are asked about something that is there.
LEMMA ReportsAsk ==
  ASSUME ReportInv, NEW k \in Q!Kinds, NEW p \in players,
         NEW x \in Players \union Cars \union Things \union {None},
         NEW lock \in BOOLEAN, Q!Ask(k, p, x, lock), Q!Rest,
         k \in Locking => lock, inCar' \in [Players -> Cars \union {None}],
         aimed' = aimed,
         x # None =>
           /\ k \in {"shotPlayer", "giveDamage", "takeDamage", "clickPlayer"}
              => x \in players
           /\ k = "shotVehicle" => x \in reportCars
           /\ k = "shotObject" => x \in objects
           /\ k = "shotPlayerObject" => <<p, x>> \in ownObjects
  PROVE  ReportInv'
<1>1. /\ report' = [kind |-> k, from |-> p, about |-> x, asked |-> << >>]
      /\ lockedEntry' = lock /\ releasedEntry' = FALSE /\ outcomeOf' = Q!NoReport
      /\ UNCHANGED <<players, seenBy, reportCars, carSeen, objects, ownObjects, mayShoot>>
  BY DEF Q!Ask, Q!Rest
<1>2. report' \in ReportRecord
  <2>1. << >> \in Seq(BOOLEAN)
    BY EmptySeq
  <2> QED BY <1>1, <2>1 DEF ReportRecord, ReportInv, ReportTypes
<1>3. ReportTypes'
  BY <1>1, <1>2 DEF ReportInv, ReportTypes
<1>4. ReportHeld' /\ ReportAbout'
  BY <1>1 DEF ReportHeld, ReportAbout
<1>5. ReportPassed'
  BY <1>1 DEF ReportPassed, Q!PassedOnRightly
<1> QED BY <1>3, <1>4, <1>5 DEF ReportInv

\* What changes between two reports, or while the handlers of one are asked.
LEMMA ReportsBetween ==
  ASSUME ReportInv, Q!Between,
         players' \subseteq Players, reportCars' \subseteq Cars, objects' \subseteq Things,
         seenBy' \in [Players -> SUBSET Players],
         carSeen' \subseteq Cars \X Alone, ownObjects' \subseteq Alone \X Things,
         inCar' \in [Players -> Cars \union {None}],
         mayShoot' \in [Players -> BOOLEAN],
         \/ releasedEntry' = releasedEntry
         \/ releasedEntry' = TRUE /\ report.kind \in Locking,
         Q!Idle \/ ReportAbout'
  PROVE  ReportInv'
<1>1. /\ aimed' = aimed /\ report' = report /\ lockedEntry' = lockedEntry
      /\ outcomeOf' = Q!NoReport
  BY DEF Q!Between
<1>2. ReportTypes'
  BY <1>1 DEF ReportInv, ReportTypes
<1>3. ReportHeld'
  BY <1>1 DEF ReportInv, ReportHeld
<1>4. ReportAbout'
  BY <1>1, ReportKinds DEF Q!Idle, ReportAbout
<1>5. ReportPassed'
  BY <1>1 DEF ReportPassed, Q!PassedOnRightly
<1> QED BY <1>2, <1>3, <1>4, <1>5 DEF ReportInv

LEMMA ReportsInit == ASSUME Q!Init PROVE ReportInv
<1>1. ReportTypes
  BY DEF Q!Init, ReportTypes
<1>2. ReportHeld /\ ReportAbout
  BY ReportKinds DEF Q!Init, ReportHeld, ReportAbout, Locking
<1>3. ReportPassed
  BY DEF Q!Init, ReportPassed, Q!PassedOnRightly
<1> QED BY <1>1, <1>2, <1>3 DEF ReportInv

LEMMA ReportsStutter ==
  ASSUME ReportInv, UNCHANGED <<players, reportsVars>>
  PROVE  ReportInv'
  BY DEF reportsVars, ReportInv, ReportTypes, ReportHeld, ReportAbout,
         ReportPassed, Q!PassedOnRightly

LEMMA ReportsBullet ==
  ASSUME ReportInv, NEW p \in Alone, Q!Bullet(p)
  PROVE  ReportInv'
<1>1. p \in players /\ Q!Rest /\ inCar' = inCar /\ aimed' = aimed /\ Q!Idle
      /\ inCar' \in [Players -> Cars \union {None}]
  BY DEF Q!Bullet, ReportInv, ReportTypes
<1>2. CASE Q!Missed(p)
  BY <1>1, <1>2, ReportKinds, ReportsAsk DEF Q!Missed, Locking
<1>3. ASSUME NEW q \in Players, Q!HitPlayer(p, q)
      PROVE  ReportInv'
  BY <1>1, <1>3, ReportKinds, ReportsAsk DEF Q!HitPlayer, Locking
<1>4. ASSUME NEW x \in Cars, Q!HitVehicle(p, x)
      PROVE  ReportInv'
  BY <1>1, <1>4, ReportKinds, ReportsAsk DEF Q!HitVehicle
<1>5. ASSUME NEW o \in Things, Q!HitObject(p, o)
      PROVE  ReportInv'
  <2>1. CASE o \in objects
    BY <1>1, <1>5, <2>1, ReportKinds, ReportsAsk DEF Q!HitObject
  <2>2. CASE o \notin objects /\ <<p, o>> \in ownObjects
    BY <1>1, <1>5, <2>2, ReportKinds, ReportsAsk DEF Q!HitObject
  <2>3. CASE o \notin objects /\ <<p, o>> \notin ownObjects
    <3>1. /\ outcomeOf' = [kind |-> "shotPlayerObject", from |-> p, about |-> o,
                           asked |-> << >>, to |-> seenBy[p] \ {p}]
          /\ UNCHANGED <<report, lockedEntry, releasedEntry>>
      BY <1>5, <2>3 DEF Q!HitObject
    <3>2. ReportTypes' /\ ReportHeld' /\ ReportAbout'
      BY <1>1, <3>1 DEF Q!Rest, ReportInv, ReportTypes, ReportHeld, ReportAbout
    <3>3. ReportPassed'
      BY <1>1, <2>3, <3>1, ReportKinds DEF Q!Rest, ReportPassed, Q!PassedOnRightly
    <3> QED BY <3>2, <3>3 DEF ReportInv
  <2> QED BY <2>1, <2>2, <2>3
<1> QED BY <1>2, <1>3, <1>4, <1>5 DEF Q!Bullet

LEMMA ReportsTakeDamage ==
  ASSUME ReportInv, NEW p \in Alone, NEW x \in Players \union {None},
         Q!TakeDamage(p, x)
  PROVE  ReportInv'
<1>1. /\ p \in players /\ Q!Ask("takeDamage", p, x, FALSE) /\ Q!Rest
      /\ inCar' = inCar /\ aimed' = aimed /\ (x # None => x \in players)
      /\ inCar' \in [Players -> Cars \union {None}]
  BY DEF Q!TakeDamage, ReportInv, ReportTypes
<1> QED BY <1>1, ReportKinds, ReportsAsk DEF Locking

LEMMA ReportsGiveDamage ==
  ASSUME ReportInv, NEW p \in Alone, NEW x \in Players, Q!GiveDamage(p, x)
  PROVE  ReportInv'
<1>1. /\ p \in players /\ Q!Ask("giveDamage", p, x, FALSE) /\ Q!Rest
      /\ inCar' = inCar /\ aimed' = aimed /\ x \in players
      /\ inCar' \in [Players -> Cars \union {None}]
  BY DEF Q!GiveDamage, ReportInv, ReportTypes
<1> QED BY <1>1, ReportKinds, ReportsAsk DEF Locking

LEMMA ReportsClickPlayer ==
  ASSUME ReportInv, NEW p \in Alone, NEW x \in Players, Q!ClickPlayer(p, x)
  PROVE  ReportInv'
<1>1. /\ p \in players /\ Q!Ask("clickPlayer", p, x, FALSE) /\ Q!Rest
      /\ inCar' = inCar /\ aimed' = aimed /\ x \in players
      /\ inCar' \in [Players -> Cars \union {None}]
  BY DEF Q!ClickPlayer, ReportInv, ReportTypes
<1> QED BY <1>1, ReportKinds, ReportsAsk DEF Locking

LEMMA ReportsClickMap ==
  ASSUME ReportInv, NEW p \in Alone, NEW b \in BOOLEAN, Q!ClickMap(p, b)
  PROVE  ReportInv'
<1>1. /\ p \in players /\ Q!Ask("clickMap", p, None, FALSE) /\ Q!Rest
      /\ aimed' = aimed /\ inCar' \in [Players -> Cars \union {None}]
  BY DEF Q!ClickMap, ReportInv, ReportTypes
<1> QED BY <1>1, ReportKinds, ReportsAsk DEF Locking

LEMMA ReportsText ==
  ASSUME ReportInv, NEW p \in Alone, Q!Text(p)
  PROVE  ReportInv'
<1>1. /\ p \in players /\ Q!Ask("text", p, None, FALSE) /\ Q!Rest
      /\ aimed' = aimed /\ inCar' \in [Players -> Cars \union {None}]
  BY DEF Q!Text, ReportInv, ReportTypes
<1> QED BY <1>1, ReportKinds, ReportsAsk DEF Locking

LEMMA ReportsCommand ==
  ASSUME ReportInv, NEW p \in Alone, Q!Command(p)
  PROVE  ReportInv'
<1>1. /\ p \in players /\ Q!Ask("command", p, None, FALSE) /\ Q!Rest
      /\ aimed' = aimed /\ inCar' \in [Players -> Cars \union {None}]
  BY DEF Q!Command, ReportInv, ReportTypes
<1> QED BY <1>1, ReportKinds, ReportsAsk DEF Locking

LEMMA ReportsCheckResponse ==
  ASSUME ReportInv, NEW p \in Alone, Q!CheckResponse(p)
  PROVE  ReportInv'
<1>1. /\ p \in players /\ Q!Ask("check", p, None, FALSE) /\ Q!Rest
      /\ aimed' = aimed /\ inCar' \in [Players -> Cars \union {None}]
  BY DEF Q!CheckResponse, ReportInv, ReportTypes
<1> QED BY <1>1, ReportKinds, ReportsAsk DEF Locking

LEMMA ReportsCameraTarget ==
  ASSUME ReportInv, NEW p \in Alone, NEW x \in Cars, Q!CameraTarget(p, x)
  PROVE  ReportInv'
  BY DEF Q!CameraTarget, Q!Rest, ReportInv, ReportTypes, ReportHeld,
         ReportAbout, ReportPassed, Q!PassedOnRightly

LEMMA ReportsAnswer ==
  ASSUME ReportInv, NEW b \in BOOLEAN, Q!Answer(b)
  PROVE  ReportInv'
<1>1. /\ report \in ReportRecord /\ report' = [report EXCEPT !.asked = Append(@, b)]
      /\ UNCHANGED <<inCar, aimed, lockedEntry, releasedEntry, outcomeOf>> /\ Q!Rest
  BY DEF Q!Answer, Q!Idle, ReportInv, ReportTypes
<1>2. Append(report.asked, b) \in Seq(BOOLEAN)
  BY <1>1, AppendIs DEF ReportRecord
<1>3. /\ report' \in ReportRecord /\ report'.kind = report.kind
      /\ report'.about = report.about /\ report'.from = report.from
  BY <1>1, <1>2 DEF ReportRecord
<1> QED BY <1>1, <1>3
        DEF Q!Rest, ReportInv, ReportTypes, ReportHeld, ReportAbout, ReportPassed,
            Q!PassedOnRightly

LEMMA ReportsFinish ==
  ASSUME ReportInv, NEW near \in SUBSET Players, Q!Finish(near)
  PROVE  ReportInv'
<1> DEFINE r == report
           a == report.asked
<1>1. r \in ReportRecord /\ r.kind \in Q!Kinds /\ Q!Stops(r)
  BY DEF Q!Finish, Q!Idle, ReportInv, ReportTypes, ReportRecord
<1>2. a \in Seq(BOOLEAN) /\ DOMAIN a = 1 .. Len(a) /\ Len(a) \in Nat
      /\ \A i \in 1 .. Len(a) : a[i] \in BOOLEAN
  BY <1>1, LenProperties, ElementOfSeq DEF ReportRecord
<1>3. Cardinality(Q!Handlers) = 2 /\ Q!Handlers = 1 .. 2
  <2>1. Cardinality({1}) = 1 /\ IsFiniteSet({1})
    BY FS_Singleton
  <2>2. Cardinality({1} \union {2}) = Cardinality({1}) + 1
    BY <2>1, FS_AddElement
  <2>3. {1} \union {2} = 1 .. 2
    OBVIOUS
  <2> QED BY <2>1, <2>2, <2>3 DEF Q!Handlers
<1>4. /\ outcomeOf' = [kind |-> r.kind, from |-> r.from, about |-> r.about,
                       asked |-> a, to |-> Q!Recipients(r, near)]
      /\ report' = Q!NoReport /\ lockedEntry' = FALSE /\ releasedEntry' = FALSE
      /\ UNCHANGED <<players, seenBy, mayShoot, aimed>>
  BY DEF Q!Finish
<1>5. /\ reportCars' \subseteq reportCars /\ carSeen' \subseteq carSeen
      /\ objects' \subseteq objects /\ ownObjects' \subseteq ownObjects
      /\ inCar' \in [Players -> Cars \union {None}]
  <2>1. CASE ~releasedEntry
    BY <2>1 DEF Q!Finish, ReportInv, ReportTypes
  <2>2. CASE releasedEntry
    <3>1. r.kind \in Locking
      BY <2>2 DEF ReportInv, ReportHeld
    <3> QED BY <2>2, <3>1 DEF Q!Finish, ReportInv, ReportTypes, Locking
  <2> QED BY <2>1, <2>2
<1>6. ReportTypes' /\ ReportHeld' /\ ReportAbout'
  BY <1>4, <1>5, ReportKinds
  DEF ReportInv, ReportTypes, ReportHeld, ReportAbout, Locking
<1>7. ReportPassed'
  <2> HIDE DEF r, a
  <2>1. outcomeOf'.kind \in Q!Kinds
    BY <1>1, <1>4
  <2>2. ASSUME outcomeOf'.to # {}
        PROVE  \/ r.kind \in Q!StopAtFalse /\ a = [h \in Q!Handlers |-> TRUE]
               \/ r.kind = "command" /\ a = [h \in Q!Handlers |-> FALSE]
    <3>1. Q!Recipients(r, near) # {} /\ r.asked = a
      BY <1>4, <2>2 DEF r, a
    <3>2. CASE r.kind \in Q!Shots \union {"text"}
      <4>2. r.kind # "command" /\ r.kind \in Q!StopAtFalse
        BY <3>2 DEF Q!Shots, Q!StopAtFalse
      <4>0. \A i \in DOMAIN r.asked : r.asked[i]
        <5> DEFINE all == \A i \in DOMAIN r.asked : r.asked[i]
        <5>1. Q!Recipients(r, near) =
                IF all THEN IF r.kind = "text" THEN near ELSE seenBy[r.from] \ {r.from}
                ELSE {}
          BY <3>2, <4>2 DEF Q!Recipients
        <5> QED BY <3>1, <5>1
      <4>1. \A i \in 1 .. Len(a) : a[i] = TRUE
        BY <1>2, <3>1, <4>0
      <4>3. Len(a) = 2
        <5>1. r.kind \notin Q!StopAtTrue
          BY <4>2 DEF Q!StopAtTrue
        <5>2. ~\E i \in DOMAIN r.asked :
                  \/ r.kind \in Q!StopAtFalse /\ ~r.asked[i]
                  \/ r.kind \in Q!StopAtTrue /\ r.asked[i]
          BY <4>0, <5>1
        <5>3. Len(r.asked) = Cardinality(Q!Handlers)
          BY <1>1, <5>2 DEF Q!Stops, Q!Cardinality, Cardinality
        <5> QED BY <1>3, <3>1, <5>3
      <4>4. a = [h \in Q!Handlers |-> TRUE]
        BY <1>2, <1>3, <4>1, <4>3
      <4> QED BY <4>2, <4>4
    <3>3. CASE r.kind \notin Q!Shots \union {"text"}
      <4>0. r.kind = "command" /\ \A i \in DOMAIN r.asked : ~r.asked[i]
        BY <3>1, <3>3 DEF Q!Recipients
      <4>1. r.kind = "command" /\ \A i \in 1 .. Len(a) : a[i] = FALSE
        BY <1>2, <3>1, <4>0
      <4>2. Len(a) = 2
        <5>1. r.kind \notin Q!StopAtFalse
          BY <4>1 DEF Q!StopAtFalse
        <5>2. ~\E i \in DOMAIN r.asked :
                  \/ r.kind \in Q!StopAtFalse /\ ~r.asked[i]
                  \/ r.kind \in Q!StopAtTrue /\ r.asked[i]
          BY <4>0, <5>1
        <5>3. Len(r.asked) = Cardinality(Q!Handlers)
          BY <1>1, <5>2 DEF Q!Stops, Q!Cardinality, Cardinality
        <5> QED BY <1>3, <3>1, <5>3
      <4>3. a = [h \in Q!Handlers |-> FALSE]
        BY <1>2, <1>3, <4>1, <4>2
      <4> QED BY <4>1, <4>3
    <3> QED BY <3>2, <3>3
  <2> QED BY <1>4, <2>1, <2>2 DEF ReportPassed, Q!PassedOnRightly
<1> QED BY <1>6, <1>7 DEF ReportInv

LEMMA ReportsJoin ==
  ASSUME ReportInv, NEW p \in Players, Q!Join(p)
  PROVE  ReportInv'
<1>1. /\ players' \subseteq Players /\ reportCars' \subseteq Cars
      /\ objects' \subseteq Things /\ seenBy' \in [Players -> SUBSET Players]
      /\ carSeen' \subseteq Cars \X Alone /\ ownObjects' \subseteq Alone \X Things
      /\ inCar' \in [Players -> Cars \union {None}]
      /\ mayShoot' \in [Players -> BOOLEAN]
  BY DEF Q!Join, ReportInv, ReportTypes
<1>2. Q!Idle \/ ReportAbout'
  BY DEF Q!Join, Q!Between, Q!About, ReportInv, ReportHeld, ReportAbout, Locking
<1>3. /\ Q!Between
      /\ \/ releasedEntry' = releasedEntry
         \/ releasedEntry' = TRUE /\ report.kind \in Locking
  BY DEF Q!Join, Q!About, Locking
<1> QED BY <1>1, <1>2, <1>3, ReportsBetween

LEMMA ReportsLeave ==
  ASSUME ReportInv, NEW p \in Players, Q!Leave(p)
  PROVE  ReportInv'
<1>1. /\ players' \subseteq Players /\ reportCars' \subseteq Cars
      /\ objects' \subseteq Things /\ seenBy' \in [Players -> SUBSET Players]
      /\ carSeen' \subseteq Cars \X Alone /\ ownObjects' \subseteq Alone \X Things
      /\ inCar' \in [Players -> Cars \union {None}]
      /\ mayShoot' \in [Players -> BOOLEAN]
  BY DEF Q!Leave, ReportInv, ReportTypes
<1>2. Q!Idle \/ ReportAbout'
  BY DEF Q!Leave, Q!Between, Q!About, ReportInv, ReportHeld, ReportAbout, Locking
<1>3. /\ Q!Between
      /\ \/ releasedEntry' = releasedEntry
         \/ releasedEntry' = TRUE /\ report.kind \in Locking
  BY DEF Q!Leave, Q!About, Locking
<1> QED BY <1>1, <1>2, <1>3, ReportsBetween

LEMMA ReportsStream ==
  ASSUME ReportInv, NEW x \in Players, NEW p \in Players, Q!Stream(x, p)
  PROVE  ReportInv'
<1>1. /\ players' \subseteq Players /\ reportCars' \subseteq Cars
      /\ objects' \subseteq Things /\ seenBy' \in [Players -> SUBSET Players]
      /\ carSeen' \subseteq Cars \X Alone /\ ownObjects' \subseteq Alone \X Things
      /\ inCar' \in [Players -> Cars \union {None}]
      /\ mayShoot' \in [Players -> BOOLEAN]
  BY DEF Q!Stream, ReportInv, ReportTypes
<1>2. Q!Idle \/ ReportAbout'
  BY DEF Q!Stream, Q!Between, Q!About, ReportInv, ReportHeld, ReportAbout, Locking
<1>3. /\ Q!Between
      /\ \/ releasedEntry' = releasedEntry
         \/ releasedEntry' = TRUE /\ report.kind \in Locking
  BY DEF Q!Stream, Q!About, Locking
<1> QED BY <1>1, <1>2, <1>3, ReportsBetween

LEMMA ReportsStreamCar ==
  ASSUME ReportInv, NEW x \in Cars, NEW p \in Alone, Q!StreamCar(x, p)
  PROVE  ReportInv'
<1>1. /\ players' \subseteq Players /\ reportCars' \subseteq Cars
      /\ objects' \subseteq Things /\ seenBy' \in [Players -> SUBSET Players]
      /\ carSeen' \subseteq Cars \X Alone /\ ownObjects' \subseteq Alone \X Things
      /\ inCar' \in [Players -> Cars \union {None}]
      /\ mayShoot' \in [Players -> BOOLEAN]
  BY DEF Q!StreamCar, ReportInv, ReportTypes
<1>2. Q!Idle \/ ReportAbout'
  BY DEF Q!StreamCar, Q!Between, Q!About, ReportInv, ReportHeld, ReportAbout, Locking
<1>3. /\ Q!Between
      /\ \/ releasedEntry' = releasedEntry
         \/ releasedEntry' = TRUE /\ report.kind \in Locking
  BY DEF Q!StreamCar, Q!About, Locking
<1> QED BY <1>1, <1>2, <1>3, ReportsBetween

LEMMA ReportsCreateCar ==
  ASSUME ReportInv, NEW x \in Cars, Q!CreateCar(x)
  PROVE  ReportInv'
<1>1. /\ players' \subseteq Players /\ reportCars' \subseteq Cars
      /\ objects' \subseteq Things /\ seenBy' \in [Players -> SUBSET Players]
      /\ carSeen' \subseteq Cars \X Alone /\ ownObjects' \subseteq Alone \X Things
      /\ inCar' \in [Players -> Cars \union {None}]
      /\ mayShoot' \in [Players -> BOOLEAN]
  BY DEF Q!CreateCar, ReportInv, ReportTypes
<1>2. Q!Idle \/ ReportAbout'
  BY DEF Q!CreateCar, Q!Between, Q!About, ReportInv, ReportHeld, ReportAbout, Locking
<1>3. /\ Q!Between
      /\ \/ releasedEntry' = releasedEntry
         \/ releasedEntry' = TRUE /\ report.kind \in Locking
  BY DEF Q!CreateCar, Q!About, Locking
<1> QED BY <1>1, <1>2, <1>3, ReportsBetween

LEMMA ReportsDestroyCar ==
  ASSUME ReportInv, NEW x \in Cars, Q!DestroyCar(x)
  PROVE  ReportInv'
<1>1. /\ players' \subseteq Players /\ reportCars' \subseteq Cars
      /\ objects' \subseteq Things /\ seenBy' \in [Players -> SUBSET Players]
      /\ carSeen' \subseteq Cars \X Alone /\ ownObjects' \subseteq Alone \X Things
      /\ inCar' \in [Players -> Cars \union {None}]
      /\ mayShoot' \in [Players -> BOOLEAN]
  BY DEF Q!DestroyCar, ReportInv, ReportTypes
<1>2. Q!Idle \/ ReportAbout'
  BY DEF Q!DestroyCar, Q!Between, Q!About, ReportInv, ReportHeld, ReportAbout, Locking
<1>3. /\ Q!Between
      /\ \/ releasedEntry' = releasedEntry
         \/ releasedEntry' = TRUE /\ report.kind \in Locking
  BY DEF Q!DestroyCar, Q!About, Locking
<1> QED BY <1>1, <1>2, <1>3, ReportsBetween

LEMMA ReportsBoard ==
  ASSUME ReportInv, NEW p \in Players, NEW x \in Cars \union {None},
         Q!Board(p, x)
  PROVE  ReportInv'
<1>1. /\ players' \subseteq Players /\ reportCars' \subseteq Cars
      /\ objects' \subseteq Things /\ seenBy' \in [Players -> SUBSET Players]
      /\ carSeen' \subseteq Cars \X Alone /\ ownObjects' \subseteq Alone \X Things
      /\ inCar' \in [Players -> Cars \union {None}]
      /\ mayShoot' \in [Players -> BOOLEAN]
  BY DEF Q!Board, ReportInv, ReportTypes
<1>2. Q!Idle \/ ReportAbout'
  BY DEF Q!Board, Q!Between, Q!About, ReportInv, ReportHeld, ReportAbout, Locking
<1>3. /\ Q!Between
      /\ \/ releasedEntry' = releasedEntry
         \/ releasedEntry' = TRUE /\ report.kind \in Locking
  BY DEF Q!Board, Q!About, Locking
<1> QED BY <1>1, <1>2, <1>3, ReportsBetween

LEMMA ReportsSetObject ==
  ASSUME ReportInv, NEW o \in Things, Q!SetObject(o)
  PROVE  ReportInv'
<1>1. /\ players' \subseteq Players /\ reportCars' \subseteq Cars
      /\ objects' \subseteq Things /\ seenBy' \in [Players -> SUBSET Players]
      /\ carSeen' \subseteq Cars \X Alone /\ ownObjects' \subseteq Alone \X Things
      /\ inCar' \in [Players -> Cars \union {None}]
      /\ mayShoot' \in [Players -> BOOLEAN]
  BY DEF Q!SetObject, ReportInv, ReportTypes
<1>2. Q!Idle \/ ReportAbout'
  BY DEF Q!SetObject, Q!Between, Q!About, ReportInv, ReportHeld, ReportAbout, Locking
<1>3. /\ Q!Between
      /\ \/ releasedEntry' = releasedEntry
         \/ releasedEntry' = TRUE /\ report.kind \in Locking
  BY DEF Q!SetObject, Q!About, Locking
<1> QED BY <1>1, <1>2, <1>3, ReportsBetween

LEMMA ReportsSetOwnObject ==
  ASSUME ReportInv, NEW p \in Alone, NEW o \in Things, Q!SetOwnObject(p, o)
  PROVE  ReportInv'
<1>1. /\ players' \subseteq Players /\ reportCars' \subseteq Cars
      /\ objects' \subseteq Things /\ seenBy' \in [Players -> SUBSET Players]
      /\ carSeen' \subseteq Cars \X Alone /\ ownObjects' \subseteq Alone \X Things
      /\ inCar' \in [Players -> Cars \union {None}]
      /\ mayShoot' \in [Players -> BOOLEAN]
  BY DEF Q!SetOwnObject, ReportInv, ReportTypes
<1>2. Q!Idle \/ ReportAbout'
  BY DEF Q!SetOwnObject, Q!Between, Q!About, ReportInv, ReportHeld, ReportAbout, Locking
<1>3. /\ Q!Between
      /\ \/ releasedEntry' = releasedEntry
         \/ releasedEntry' = TRUE /\ report.kind \in Locking
  BY DEF Q!SetOwnObject, Q!About, Locking
<1> QED BY <1>1, <1>2, <1>3, ReportsBetween

LEMMA ReportsArm ==
  ASSUME ReportInv, NEW p \in Players, NEW b \in BOOLEAN, Q!Arm(p, b)
  PROVE  ReportInv'
<1>1. /\ players' \subseteq Players /\ reportCars' \subseteq Cars
      /\ objects' \subseteq Things /\ seenBy' \in [Players -> SUBSET Players]
      /\ carSeen' \subseteq Cars \X Alone /\ ownObjects' \subseteq Alone \X Things
      /\ inCar' \in [Players -> Cars \union {None}]
      /\ mayShoot' \in [Players -> BOOLEAN]
  BY DEF Q!Arm, ReportInv, ReportTypes
<1>2. Q!Idle \/ ReportAbout'
  BY DEF Q!Arm, Q!Between, Q!About, ReportInv, ReportHeld, ReportAbout, Locking
<1>3. /\ Q!Between
      /\ \/ releasedEntry' = releasedEntry
         \/ releasedEntry' = TRUE /\ report.kind \in Locking
  BY DEF Q!Arm, Q!About, Locking
<1> QED BY <1>1, <1>2, <1>3, ReportsBetween

LEMMA ReportsImply ==
  ASSUME ReportInv
  PROVE  /\ Q!TypeOK /\ Q!PassedOnRightly /\ Q!TargetSeen
         /\ Careful => Q!AskedAboutWhatIs
<1>1. Q!TypeOK
  BY DEF ReportInv, ReportTypes, ReportPassed, ReportRecord, Q!TypeOK
<1>2. ASSUME Careful
      PROVE  Q!AskedAboutWhatIs
  BY <1>2 DEF ReportInv, ReportAbout, Q!AskedAboutWhatIs, Q!There
<1> QED BY <1>1, <1>2 DEF ReportInv, ReportPassed, Q!TargetSeen, Q!TargetVehicle

LEMMA ReportsStep == ASSUME ReportInv, Q!Next PROVE ReportInv'
  BY ReportsBullet, ReportsTakeDamage, ReportsGiveDamage, ReportsClickPlayer,
     ReportsClickMap, ReportsText, ReportsCommand, ReportsCheckResponse,
     ReportsCameraTarget, ReportsAnswer, ReportsFinish, ReportsJoin,
     ReportsLeave, ReportsStream, ReportsStreamCar, ReportsCreateCar,
     ReportsDestroyCar, ReportsBoard, ReportsSetObject, ReportsSetOwnObject,
     ReportsArm
  DEF Q!Next

-----------------------------------------------------------------------------
(* Fixes                                                                    *)

\* What waits to be applied again: for the clients of players that are connected,
\* about somebody who is there, and as it was told last.
FixEntries == [viewer : Alone \union {None}, target : Alone \union Actors \union {None},
               anim : {1, 2}]

FixEntry(e, connected_, there, died, told) ==
    /\ e.viewer \in connected_ \union {None}
    /\ e.viewer # None /\ e.target # None => e.target \in there
    /\ e.viewer # None /\ e.target # None /\ e.target \notin died
         => told[e.viewer][e.target] = e.anim

AnimTypes ==
    /\ players \subseteq Alone /\ actors \subseteq Actors
    /\ queue \in Seq(FixEntries)
    /\ saw \in [Alone -> SUBSET {1, 2}]
    /\ view \in [Alone -> [Alone \union Actors -> {0, 1, 2}]]
    /\ uncleared \subseteq players

AnimInv ==
    /\ AnimTypes
    /\ Len(queue) <= MaxQueue /\ animationTimers = Len(queue)
    /\ \A i \in 1 .. Len(queue) :
         FixEntry(queue[i], players, players \union actors, uncleared, view)

LEMMA FunctionIsSeq ==
  ASSUME NEW U, NEW n \in Nat, NEW q \in [1 .. n -> U]
  PROVE  q \in Seq(U) /\ Len(q) = n
<1>1. q \in Seq(U)
  BY SeqDef
<1> QED BY <1>1, LenProperties

\* Blanking leaves the length of the queue, and of each entry all but its target.
LEMMA BlankedIs ==
  ASSUME AnimTypes, NEW t
  PROVE  /\ A!Blanked(t) \in Seq(FixEntries) /\ Len(A!Blanked(t)) = Len(queue)
         /\ Len(queue) \in Nat
         /\ \A i \in 1 .. Len(queue) :
              /\ queue[i] \in FixEntries
              /\ A!Blanked(t)[i] = [queue[i] EXCEPT !.target = IF queue[i].target = t THEN None ELSE @]
<1>1. Len(queue) \in Nat /\ DOMAIN queue = 1 .. Len(queue)
      /\ \A i \in 1 .. Len(queue) : queue[i] \in FixEntries
  BY LenProperties, ElementOfSeq DEF AnimTypes
<1>2. A!Blanked(t) = [i \in 1 .. Len(queue) |-> IF queue[i].target = t
                        THEN [queue[i] EXCEPT !.target = None] ELSE queue[i]]
  BY <1>1 DEF A!Blanked, A!Mapped
<1>3. \A e \in FixEntries :
        (IF e.target = t THEN [e EXCEPT !.target = None] ELSE e)
           = [e EXCEPT !.target = IF e.target = t THEN None ELSE @]
  BY DEF FixEntries
<1>4. \A e \in FixEntries : [e EXCEPT !.target = IF e.target = t THEN None ELSE @] \in FixEntries
  BY DEF FixEntries
<1>5. A!Blanked(t) \in [1 .. Len(queue) -> FixEntries]
  BY <1>1, <1>2, <1>3, <1>4
<1> QED BY <1>1, <1>2, <1>3, <1>5, FunctionIsSeq

LEMMA WithoutIs ==
  ASSUME AnimTypes, NEW p
  PROVE  /\ A!Without(p) \in Seq(FixEntries) /\ Len(A!Without(p)) = Len(queue)
         /\ Len(queue) \in Nat
         /\ \A i \in 1 .. Len(queue) :
              /\ queue[i] \in FixEntries
              /\ A!Without(p)[i] = [queue[i] EXCEPT !.viewer = IF @ = p THEN None ELSE @,
                                                    !.target = IF @ = p THEN None ELSE @]
<1>1. Len(queue) \in Nat /\ DOMAIN queue = 1 .. Len(queue)
      /\ \A i \in 1 .. Len(queue) : queue[i] \in FixEntries
  BY LenProperties, ElementOfSeq DEF AnimTypes
<1> DEFINE g(e) == [e EXCEPT !.viewer = IF @ = p THEN None ELSE @,
                             !.target = IF @ = p THEN None ELSE @]
<1>2. A!Without(p) = [i \in 1 .. Len(queue) |-> g(queue[i])]
  BY <1>1 DEF A!Without, A!Mapped
<1>3. \A e \in FixEntries : g(e) \in FixEntries
  BY DEF FixEntries
<1>4. \A i \in 1 .. Len(queue) : A!Without(p)[i] = g(queue[i])
  BY <1>2
<1> HIDE DEF g
<1>5. A!Without(p) \in [1 .. Len(queue) -> FixEntries]
  BY <1>1, <1>2, <1>3
<1>6. A!Without(p) \in Seq(FixEntries) /\ Len(A!Without(p)) = Len(queue)
  BY <1>1, <1>5, FunctionIsSeq
<1> QED BY <1>1, <1>4, <1>6 DEF g

\* The queue keeps its length and its entries stay right.
LEMMA AnimMapped ==
  ASSUME AnimInv, AnimTypes', Len(queue') = Len(queue), animationTimers' = animationTimers,
         \A i \in 1 .. Len(queue) :
           FixEntry(queue'[i], players', players' \union actors', uncleared', view')
  PROVE  AnimInv'
  BY DEF AnimInv

LEMMA AnimConnect ==
  ASSUME AnimInv, NEW p \in Alone, A!Connect(p)
  PROVE  AnimInv'
<1>1. AnimTypes'
  BY DEF A!Connect, A!animationVars, AnimInv, AnimTypes
<1>2. \A i \in 1 .. Len(queue) :
        FixEntry(queue'[i], players', players' \union actors', uncleared', view')
  BY DEF A!Connect, A!animationVars, AnimInv, AnimTypes, FixEntry
<1> QED BY <1>1, <1>2, AnimMapped DEF A!Connect, A!animationVars

LEMMA AnimDisconnect ==
  ASSUME AnimInv, NEW p \in Alone, A!Disconnect(p)
  PROVE  AnimInv'
<1>1. AnimTypes
  BY DEF AnimInv
<1>2. /\ queue' \in Seq(FixEntries) /\ Len(queue') = Len(queue)
      /\ \A i \in 1 .. Len(queue) :
           /\ queue[i] \in FixEntries
           /\ queue'[i] = [queue[i] EXCEPT !.viewer = IF @ = p THEN None ELSE @,
                                           !.target = IF @ = p THEN None ELSE @]
  BY <1>1, WithoutIs DEF A!Disconnect
<1>3. AnimTypes'
  <2>1. view' \in [Alone -> [Alone \union Actors -> {0, 1, 2}]]
    BY <1>1 DEF A!Disconnect, A!Targets, A!Nothing, AnimTypes
  <2> QED BY <1>1, <1>2, <2>1 DEF A!Disconnect, AnimTypes
<1>4. \A i \in 1 .. Len(queue) :
        FixEntry(queue'[i], players', players' \union actors', uncleared', view')
  <2> SUFFICES ASSUME NEW i \in 1 .. Len(queue)
               PROVE  FixEntry(queue'[i], players', players' \union actors', uncleared', view')
    OBVIOUS
  <2> DEFINE e == queue[i]
             f == queue'[i]
  <2>1. /\ e \in FixEntries /\ f.anim = e.anim
        /\ f.viewer = IF e.viewer = p THEN None ELSE e.viewer
        /\ f.target = IF e.target = p THEN None ELSE e.target
    BY <1>2 DEF FixEntries
  <2>2. FixEntry(e, players, players \union actors, uncleared, view)
    BY DEF AnimInv
  <2> HIDE DEF e, f
  <2>3. \A q \in Alone \ {p}, t \in (Alone \union Actors) \ {p} : view'[q][t] = view[q][t]
    BY <1>1 DEF A!Disconnect, AnimTypes
  <2>4. f.viewer \in players' \union {None}
    BY <2>1, <2>2, FixesAssumption DEF A!Disconnect, FixEntry
  <2>5. ASSUME f.viewer # None, f.target # None
        PROVE  /\ f.viewer = e.viewer /\ e.viewer # p /\ f.target = e.target /\ e.target # p
               /\ e.viewer \in Alone /\ e.target \in Alone \union Actors
               /\ e.viewer # None /\ e.target # None
    BY <1>1, <2>1, <2>2, <2>5 DEF FixEntry, FixEntries
  <2>6. ASSUME f.viewer # None, f.target # None
        PROVE  f.target \in players' \union actors'
    BY <2>2, <2>5, <2>6 DEF A!Disconnect, FixEntry
  <2>7. ASSUME f.viewer # None, f.target # None, f.target \notin uncleared'
        PROVE  view'[f.viewer][f.target] = f.anim
    <3>1. e.target \notin uncleared
      BY <2>5, <2>7 DEF A!Disconnect
    <3>2. view[e.viewer][e.target] = e.anim
      BY <2>2, <2>5, <2>7, <3>1 DEF FixEntry
    <3> QED BY <2>1, <2>3, <2>5, <2>7, <3>2
  <2> QED BY <2>4, <2>6, <2>7 DEF FixEntry, f
<1> QED BY <1>2, <1>3, <1>4, AnimMapped DEF A!Disconnect

LEMMA AnimCreateActor ==
  ASSUME AnimInv, NEW a \in Actors, A!CreateActor(a)
  PROVE  AnimInv'
<1>1. AnimTypes'
  BY DEF A!CreateActor, AnimInv, AnimTypes
<1>2. \A i \in 1 .. Len(queue) :
        FixEntry(queue'[i], players', players' \union actors', uncleared', view')
  BY DEF A!CreateActor, AnimInv, AnimTypes, FixEntry
<1> QED BY <1>1, <1>2, AnimMapped DEF A!CreateActor

\* An action that blanks what waits for a target, whom nobody needs any more, and
\* tells nothing of anybody else.
LEMMA AnimBlanked ==
  ASSUME AnimInv, AnimTypes', NEW t,
         queue' \in Seq(FixEntries), Len(queue') >= Len(queue),
         \A i \in 1 .. Len(queue) : queue'[i] = A!Blanked(t)[i],
         players' = players,
         \A x \in (players \union actors) \ {t} : x \in players' \union actors',
         uncleared' \subseteq uncleared \union {t}, uncleared \subseteq uncleared' \union {t},
         \A p \in Alone, x \in (Alone \union Actors) \ {t} : view'[p][x] = view[p][x]
  PROVE  \A i \in 1 .. Len(queue) :
           FixEntry(queue'[i], players', players' \union actors', uncleared', view')
<1> SUFFICES ASSUME NEW i \in 1 .. Len(queue)
             PROVE  FixEntry(queue'[i], players', players' \union actors', uncleared', view')
  OBVIOUS
<1> DEFINE e == queue[i]
           f == queue'[i]
<1>1. /\ e \in FixEntries /\ f.anim = e.anim /\ f.viewer = e.viewer
      /\ f.target = IF e.target = t THEN None ELSE e.target
  <2>1. /\ e \in FixEntries
        /\ f = [e EXCEPT !.target = IF e.target = t THEN None ELSE @]
    BY BlankedIs DEF AnimInv
  <2> HIDE DEF e, f
  <2> QED BY <2>1 DEF FixEntries
<1>2. FixEntry(e, players, players \union actors, uncleared, view)
  BY DEF AnimInv
<1> HIDE DEF e, f
<1>3. ASSUME f.viewer # None, f.target # None
      PROVE  /\ f.target = e.target /\ e.target # t /\ e.target \in Alone \union Actors
             /\ e.viewer \in Alone
  BY <1>1, <1>2, <1>3 DEF FixEntry, FixEntries
<1>4. f.viewer \in players' \union {None}
  BY <1>1, <1>2 DEF FixEntry
<1>5. ASSUME f.viewer # None, f.target # None
      PROVE  f.target \in players' \union actors'
  BY <1>1, <1>2, <1>3, <1>5 DEF FixEntry
<1>6. ASSUME f.viewer # None, f.target # None, f.target \notin uncleared'
      PROVE  view'[f.viewer][f.target] = f.anim
  <2>1. view[e.viewer][e.target] = e.anim
    BY <1>1, <1>2, <1>3, <1>6 DEF FixEntry
  <2> QED BY <1>1, <1>3, <1>6, <2>1
<1> QED BY <1>4, <1>5, <1>6 DEF FixEntry, f

LEMMA AnimReleaseActor ==
  ASSUME AnimInv, NEW a \in Actors, A!ReleaseActor(a)
  PROVE  AnimInv'
<1>1. AnimTypes /\ AnimTypes'
  <2>1. AnimTypes
    BY DEF AnimInv
  <2>2. view' \in [Alone -> [Alone \union Actors -> {0, 1, 2}]]
    BY <2>1 DEF A!ReleaseActor, A!Nothing, AnimTypes
  <2> QED BY <2>1, <2>2, BlankedIs DEF A!ReleaseActor, AnimTypes
<1>2. /\ queue' \in Seq(FixEntries) /\ Len(queue') = Len(queue) /\ Len(queue) \in Nat
      /\ queue' = A!Blanked(a)
  BY <1>1, BlankedIs DEF A!ReleaseActor
<1>3. \A p \in Alone, x \in (Alone \union Actors) \ {a} : view'[p][x] = view[p][x]
  BY <1>1 DEF A!ReleaseActor, AnimTypes
<1>4. \A i \in 1 .. Len(queue) :
        FixEntry(queue'[i], players', players' \union actors', uncleared', view')
  <2>1. /\ players' = players
        /\ \A x \in (players \union actors) \ {a} : x \in players' \union actors'
        /\ uncleared' \subseteq uncleared \union {a}
        /\ uncleared \subseteq uncleared' \union {a}
    BY DEF A!ReleaseActor
  <2>2. Len(queue') >= Len(queue) /\ \A i \in 1 .. Len(queue) : queue'[i] = A!Blanked(a)[i]
    BY <1>2
  <2> QED BY <1>1, <1>2, <1>3, <2>1, <2>2, AnimBlanked
<1> QED BY <1>1, <1>2, <1>4, AnimMapped DEF A!ReleaseActor

LEMMA AnimClearAnimations ==
  ASSUME AnimInv, NEW t \in Alone \union Actors, NEW viewers \in SUBSET Alone,
         A!ClearAnimations(t, viewers)
  PROVE  AnimInv'
<1>1. AnimTypes /\ AnimTypes'
  <2>1. AnimTypes
    BY DEF AnimInv
  <2>2. view' \in [Alone -> [Alone \union Actors -> {0, 1, 2}]]
    BY <2>1 DEF A!ClearAnimations, A!Nothing, AnimTypes
  <2> QED BY <2>1, <2>2, BlankedIs DEF A!ClearAnimations, AnimTypes
<1>2. /\ queue' \in Seq(FixEntries) /\ Len(queue') = Len(queue) /\ Len(queue) \in Nat
      /\ queue' = A!Blanked(t)
  BY <1>1, BlankedIs DEF A!ClearAnimations
<1>3. \A p \in Alone, x \in (Alone \union Actors) \ {t} : view'[p][x] = view[p][x]
  BY <1>1 DEF A!ClearAnimations, AnimTypes
<1>4. \A i \in 1 .. Len(queue) :
        FixEntry(queue'[i], players', players' \union actors', uncleared', view')
  <2>1. /\ players' = players
        /\ \A x \in (players \union actors) \ {t} : x \in players' \union actors'
        /\ uncleared' \subseteq uncleared \union {t}
        /\ uncleared \subseteq uncleared' \union {t}
    BY DEF A!ClearAnimations
  <2>2. Len(queue') >= Len(queue) /\ \A i \in 1 .. Len(queue) : queue'[i] = A!Blanked(t)[i]
    BY <1>2
  <2> QED BY <1>1, <1>2, <1>3, <2>1, <2>2, AnimBlanked
<1> QED BY <1>1, <1>2, <1>4, AnimMapped DEF A!ClearAnimations

LEMMA AnimOnPlayerDeath ==
  ASSUME AnimInv, NEW p \in Alone, A!OnPlayerDeath(p)
  PROVE  AnimInv'
<1>1. AnimTypes /\ AnimTypes'
  <2>1. AnimTypes
    BY DEF AnimInv
  <2>2. view' \in [Alone -> [Alone \union Actors -> {0, 1, 2}]]
    BY <2>1 DEF A!OnPlayerDeath, A!Nothing, AnimTypes
  <2> QED BY <2>1, <2>2 DEF A!OnPlayerDeath, AnimTypes
<1>2. \A q \in Alone, x \in Alone \union Actors : x # p => view'[q][x] = view[q][x]
  BY <1>1 DEF A!OnPlayerDeath, AnimTypes
<1>3. \A i \in 1 .. Len(queue) : queue[i] \in FixEntries
  BY <1>1, ElementOfSeq DEF AnimTypes
<1>4. \A i \in 1 .. Len(queue) :
        FixEntry(queue'[i], players', players' \union actors', uncleared', view')
  <2> SUFFICES ASSUME NEW i \in 1 .. Len(queue)
               PROVE  FixEntry(queue[i], players, players \union actors, uncleared', view')
    BY DEF A!OnPlayerDeath
  <2> QED BY <1>1, <1>2, <1>3 DEF A!OnPlayerDeath, AnimInv, FixEntry, FixEntries
<1> QED BY <1>1, <1>4, AnimMapped DEF A!OnPlayerDeath

LEMMA AnimReset == ASSUME AnimInv, A!Reset PROVE AnimInv'
<1>1. AnimTypes /\ Len(queue) \in Nat /\ DOMAIN queue = 1 .. Len(queue)
      /\ \A i \in 1 .. Len(queue) : queue[i] \in FixEntries
  BY LenProperties, ElementOfSeq DEF AnimInv, AnimTypes
<1>2. queue' = [i \in 1 .. Len(queue) |-> [queue[i] EXCEPT !.viewer = None,
                                             !.target = IF @ \in Alone THEN None ELSE @]]
  BY <1>1 DEF A!Reset
<1>3. \A e \in FixEntries : [e EXCEPT !.viewer = None,
                                      !.target = IF @ \in Alone THEN None ELSE @] \in FixEntries
  BY DEF FixEntries
<1>4. queue' \in [1 .. Len(queue) -> FixEntries]
  BY <1>1, <1>2, <1>3
<1>5. queue' \in Seq(FixEntries) /\ Len(queue') = Len(queue)
  BY <1>1, <1>4, FunctionIsSeq
<1>6. AnimTypes'
  <2>1. view' \in [Alone -> [Alone \union Actors -> {0, 1, 2}]]
    BY DEF A!Reset, A!Nothing, A!Targets
  <2> QED BY <1>1, <1>5, <2>1 DEF A!Reset, AnimTypes
<1>7. \A i \in 1 .. Len(queue) : queue'[i].viewer = None
  BY <1>1, <1>2 DEF FixEntries
<1>8. \A i \in 1 .. Len(queue) :
        FixEntry(queue'[i], players', players' \union actors', uncleared', view')
  BY <1>7 DEF FixEntry
<1> QED BY <1>5, <1>6, <1>8, AnimMapped DEF A!Reset

\* What a set becomes as a sequence, and how many elements its image has.
LEMMA SetToSeqIs ==
  ASSUME NEW U, NEW elements, elements \subseteq U, IsFiniteSet(elements)
  PROVE  A!SetToSeq(elements) \in Seq(U) /\ Len(A!SetToSeq(elements)) = Cardinality(elements)
         /\ Cardinality(elements) \in Nat
         /\ \A i \in 1 .. Cardinality(elements) : A!SetToSeq(elements)[i] \in elements
<1>1. Cardinality(elements) \in Nat /\ ExistsBijection(1 .. Cardinality(elements), elements)
  BY FS_CardinalityType
<1>2. \E f \in [1 .. Cardinality(elements) -> elements] : A!IsInjective(f)
  BY <1>1 DEF ExistsBijection, Bijection, Injection, IsInjective, A!IsInjective
<1>3. A!SetToSeq(elements) = CHOOSE f \in [1 .. Cardinality(elements) -> elements] : A!IsInjective(f)
  BY DEF A!SetToSeq, A!Cardinality, Cardinality
<1>4. A!SetToSeq(elements) \in [1 .. Cardinality(elements) -> elements]
  BY <1>2, <1>3
<1>5. A!SetToSeq(elements) \in [1 .. Cardinality(elements) -> U]
  BY <1>4
<1> QED BY <1>1, <1>4, <1>5, FunctionIsSeq

LEMMA AgainIs ==
  ASSUME NEW again, again \subseteq Alone, NEW rows_,
         \A w \in rows_ : w.viewer \in again,
         \A p \in again : \E w \in rows_ : w.viewer = p,
         \A w, z \in rows_ : w.viewer = z.viewer => w = z
  PROVE  IsFiniteSet(rows_) /\ Cardinality(rows_) = Cardinality(again)
<1> DEFINE f == [p \in again |-> CHOOSE w \in rows_ : w.viewer = p]
<1>1. IsFiniteSet(again)
  BY FS_Subset, FixesAssumption
<1>2. \A p \in again : f[p] \in rows_ /\ f[p].viewer = p
  OBVIOUS
<1>3. f \in [again -> rows_]
  BY <1>2
<1>7. \A w \in rows_ : w.viewer \in again /\ f[w.viewer] = w
  BY <1>2
<1> HIDE DEF f
<1>4. f \in Bijection(again, rows_)
  BY <1>2, <1>3, <1>7 DEF Bijection, Injection, Surjection, IsInjective
<1>5. ExistsBijection(again, rows_)
  BY <1>4 DEF ExistsBijection
<1> QED BY <1>1, <1>5, FS_Bijection

LEMMA AnimApplyAnimation ==
  ASSUME AnimInv, NEW t \in Alone \union Actors, NEW viewers \in SUBSET Alone,
         NEW a \in {1, 2}, A!ApplyAnimation(t, viewers, a)
  PROVE  AnimInv'
<1> DEFINE again == {p \in viewers : a \notin saw[p]}
           rows_     == {[viewer |-> p, target |-> t, anim |-> a] : p \in again}
           more  == A!SetToSeq(rows_)
<1>1. AnimTypes /\ viewers \subseteq players
  BY DEF AnimInv, A!ApplyAnimation
<1>2. again \in SUBSET Alone
  OBVIOUS
<1>3. /\ Len(queue) + Cardinality(again) <= MaxQueue
      /\ queue' = A!Blanked(t) \o more
      /\ animationTimers' = animationTimers + Cardinality(again)
  BY DEF A!ApplyAnimation, A!Cardinality, Cardinality
<1> HIDE DEF again
<1>4. rows_ = {[viewer |-> p, target |-> t, anim |-> a] : p \in again}
  OBVIOUS
<1> HIDE DEF rows_
<1>5. IsFiniteSet(rows_) /\ Cardinality(rows_) = Cardinality(again)
  <2>1. \A p \in again : \E w \in rows_ : w.viewer = p
    <3>1. \A p \in again : [viewer |-> p, target |-> t, anim |-> a] \in rows_
      BY <1>4
    <3> QED BY <3>1
  <2>2. /\ \A w \in rows_ : w.viewer \in again
        /\ \A w, z \in rows_ : w.viewer = z.viewer => w = z
    <3>1. \A w \in rows_ : \E p \in again : w = [viewer |-> p, target |-> t, anim |-> a]
      BY <1>4
    <3>2. \A w \in rows_ : /\ w.viewer \in again
                           /\ w = [viewer |-> w.viewer, target |-> t, anim |-> a]
      BY <3>1
    <3> QED BY <3>2
  <2> QED BY <1>2, <2>1, <2>2, AgainIs
<1>6. rows_ \subseteq FixEntries
      /\ \A w \in rows_ : \E p \in viewers : w = [viewer |-> p, target |-> t, anim |-> a]
  BY <1>4 DEF FixEntries, again
<1>7. /\ more \in Seq(FixEntries) /\ Len(more) = Cardinality(again) /\ Len(more) \in Nat
      /\ \A i \in 1 .. Len(more) : more[i] \in rows_
  BY <1>5, <1>6, SetToSeqIs
<1> HIDE DEF more
<1>8. /\ A!Blanked(t) \in Seq(FixEntries) /\ Len(A!Blanked(t)) = Len(queue) /\ Len(queue) \in Nat
  BY <1>1, BlankedIs
<1>9. /\ queue' \in Seq(FixEntries) /\ Len(queue') = Len(queue) + Len(more)
      /\ \A i \in 1 .. Len(queue) + Len(more) :
           queue'[i] = IF i <= Len(queue) THEN A!Blanked(t)[i] ELSE more[i - Len(queue)]
  <2> DEFINE b == A!Blanked(t)
  <2>1. b \in Seq(FixEntries) /\ queue' = b \o more /\ Len(b) = Len(queue)
    BY <1>3, <1>8
  <2> HIDE DEF b
  <2>2. /\ b \o more \in Seq(FixEntries) /\ Len(b \o more) = Len(b) + Len(more)
        /\ \A i \in 1 .. Len(b) + Len(more) :
             (b \o more)[i] = IF i <= Len(b) THEN b[i] ELSE more[i - Len(b)]
    BY <1>7, <2>1, ConcatProperties
  <2> QED BY <2>1, <2>2 DEF b
<1>10. /\ view' \in [Alone -> [Alone \union Actors -> {0, 1, 2}]]
       /\ \A p \in viewers : view'[p][t] = a
       /\ \A p \in Alone, x \in (Alone \union Actors) \ {t} : view'[p][x] = view[p][x]
  BY <1>1 DEF A!ApplyAnimation, AnimTypes
<1>11. AnimTypes'
  BY <1>1, <1>9, <1>10 DEF A!ApplyAnimation, AnimTypes
<1>12. \A i \in 1 .. Len(queue) :
        FixEntry(queue'[i], players', players' \union actors', uncleared', view')
  <2>1. /\ players' = players
        /\ \A x \in (players \union actors) \ {t} : x \in players' \union actors'
        /\ uncleared' \subseteq uncleared \union {t}
        /\ uncleared \subseteq uncleared' \union {t}
    BY DEF A!ApplyAnimation
  <2>2. Len(queue') >= Len(queue) /\ \A i \in 1 .. Len(queue) : queue'[i] = A!Blanked(t)[i]
    BY <1>7, <1>8, <1>9
  <2> QED BY <1>9, <1>10, <1>11, <2>1, <2>2, AnimBlanked
<1>13. \A w \in rows_ : FixEntry(w, players', players' \union actors', uncleared', view')
  BY <1>1, <1>6, <1>10 DEF A!ApplyAnimation, A!Alive, FixEntry
<1>14. \A i \in 1 .. Len(queue') :
         FixEntry(queue'[i], players', players' \union actors', uncleared', view')
  <2> SUFFICES ASSUME NEW i \in 1 .. Len(queue')
               PROVE  FixEntry(queue'[i], players', players' \union actors', uncleared', view')
    OBVIOUS
  <2>1. CASE i <= Len(queue)
    BY <1>8, <1>9, <1>12, <2>1
  <2>2. CASE ~(i <= Len(queue))
    <3>1. i - Len(queue) \in 1 .. Len(more)
      BY <1>7, <1>8, <1>9, <2>2
    <3>2. queue'[i] = more[i - Len(queue)]
      BY <1>9, <2>2
    <3> QED BY <1>7, <1>13, <3>1, <3>2
  <2> QED BY <2>1, <2>2
<1> QED BY <1>3, <1>7, <1>9, <1>11, <1>14 DEF AnimInv

LEMMA AnimAnimationTimer == ASSUME AnimInv, A!AnimationTimer PROVE AnimInv'
<1> DEFINE e == Head(queue)
<1>1. AnimTypes /\ animationTimers = Len(queue) /\ Len(queue) \in Nat
  BY LenProperties DEF AnimInv, AnimTypes
<1>2. queue # <<>>
  BY <1>1, EmptySeq DEF A!AnimationTimer
<1>3. /\ queue' \in Seq(FixEntries) /\ Len(queue') = Len(queue) - 1
      /\ e = queue[1] /\ e \in FixEntries /\ 1 \in 1 .. Len(queue)
      /\ \A i \in 1 .. Len(queue') : queue'[i] = queue[i + 1] /\ i + 1 \in 1 .. Len(queue)
  BY <1>1, <1>2, TailIs DEF A!AnimationTimer, AnimTypes
<1>4. FixEntry(e, players, players \union actors, uncleared, view)
  BY <1>3 DEF AnimInv
<1> HIDE DEF e
<1>5. /\ saw' = IF e.viewer = None THEN saw
                ELSE [saw EXCEPT ![e.viewer] = @ \union {e.anim}]
      /\ view' = IF e.viewer = None \/ e.target = None THEN view
                 ELSE [view EXCEPT ![e.viewer][e.target] = e.anim]
      /\ animationTimers' = animationTimers - 1
      /\ UNCHANGED <<players, actors, uncleared>>
  BY DEF A!AnimationTimer, e
<1>6. AnimTypes'
  <2>1. e.viewer \in Alone \union {None} /\ e.target \in Alone \union Actors \union {None}
        /\ e.anim \in {1, 2}
    BY <1>3 DEF FixEntries
  <2>2. saw' \in [Alone -> SUBSET {1, 2}]
    BY <1>1, <1>5, <2>1 DEF AnimTypes
  <2>3. view' \in [Alone -> [Alone \union Actors -> {0, 1, 2}]]
    BY <1>1, <1>5, <2>1 DEF AnimTypes
  <2> QED BY <1>1, <1>3, <1>5, <2>2, <2>3 DEF AnimTypes
<1>7. \A p \in Alone, x \in Alone \union Actors : x \notin uncleared =>
        view'[p][x] = view[p][x]
  BY <1>1, <1>3, <1>4, <1>5 DEF FixEntry, FixEntries, AnimTypes
<1>8. \A i \in 1 .. Len(queue) : queue[i] \in FixEntries
  BY <1>1, ElementOfSeq DEF AnimTypes
<1>9. \A i \in 1 .. Len(queue) :
        FixEntry(queue[i], players', players' \union actors', uncleared', view')
  <2> SUFFICES ASSUME NEW i \in 1 .. Len(queue)
               PROVE  FixEntry(queue[i], players, players \union actors, uncleared, view')
    BY <1>5
  <2> QED BY <1>1, <1>7, <1>8 DEF AnimInv, FixEntry, FixEntries, AnimTypes
<1>10. Len(queue') <= MaxQueue /\ animationTimers' = Len(queue')
  BY <1>1, <1>3, <1>5, FixesAssumption DEF AnimInv
<1> QED BY <1>3, <1>6, <1>9, <1>10 DEF AnimInv

\* A game text has its text draw and a timer that runs, which no other style has;
\* what was asked for is there until its timer has run out.
TextDraws_ == [owner : {"style1", "style2", "script", "nobody"}, text : {0, 1, 2},
               look : {"style1", "style2", "script", "none"}, shown : BOOLEAN]

HideRecord == [style : {"style1", "style2", "none"}, left : {0, 1, 2}, running : BOOLEAN]

TextTypes ==
    /\ playerHere \in BOOLEAN
    /\ ownDraws \in [{0, 1} -> TextDraws_] /\ drawScreen \in [{0, 1} -> TextDraws_]
    /\ gts \in [{"style1", "style2"} -> {0, 1, None}]
    /\ gtTimers \in [{"style1", "style2"} -> HideTimers \union {None}]
    /\ hideTimer \in [HideTimers -> HideRecord]
    /\ textAsked \in [{"style1", "style2"} -> [text : {0, 1, 2}, left : {0, 1, 2}]]

OnScreen == \A i \in {0, 1} :
    drawScreen[i] = IF ownDraws[i].shown THEN ownDraws[i] ELSE A!NoDraw

TimersHide ==
    /\ \A s \in {"style1", "style2"} :
         /\ gtTimers[s] # None <=> gts[s] # None
         /\ gtTimers[s] # None =>
              hideTimer[gtTimers[s]].running /\ hideTimer[gtTimers[s]].style = s
    /\ \A h \in HideTimers : hideTimer[h].running =>
         hideTimer[h].style \in {"style1", "style2"} /\ h = gtTimers[hideTimer[h].style]

TextKept(s) ==
    /\ gts[s] # None => ownDraws[gts[s]].owner = s
    /\ textAsked[s] # A!NoText =>
         /\ gts[s] # None /\ ownDraws[gts[s]] = A!Dressed(s, textAsked[s].text)
         /\ textAsked[s].left \in {1, 2}
         /\ hideTimer[gtTimers[s]].left = textAsked[s].left
    /\ textAsked[s] = A!NoText /\ gtTimers[s] # None => hideTimer[gtTimers[s]].left = 0

TextInv ==
    /\ TextTypes /\ OnScreen /\ TimersHide
    /\ Careful => \A s \in {"style1", "style2"} : TextKept(s)

\* What a text that is hidden leaves.
LEMMA TextHidden ==
  ASSUME TextInv, NEW s \in {"style1", "style2"}
  PROVE  /\ A!WithoutDraw(ownDraws, s) \in [{0, 1} -> TextDraws_]
         /\ A!WithoutDraw(drawScreen, s) \in [{0, 1} -> TextDraws_]
         /\ \A i \in {0, 1} :
              /\ A!WithoutDraw(ownDraws, s)[i] = IF i = gts[s] THEN A!NoDraw ELSE ownDraws[i]
              /\ A!WithoutDraw(drawScreen, s)[i] = IF i = gts[s] THEN A!NoDraw ELSE drawScreen[i]
         /\ A!Killed(s) \in [HideTimers -> HideRecord]
         /\ \A h \in HideTimers :
              /\ A!Killed(s)[h].style = hideTimer[h].style
              /\ A!Killed(s)[h].left = hideTimer[h].left
              /\ A!Killed(s)[h].running <=> hideTimer[h].running /\ h # gtTimers[s]
              /\ h # gtTimers[s] => A!Killed(s)[h] = hideTimer[h]
<1>1. A!NoDraw \in TextDraws_
  BY DEF A!NoDraw, TextDraws_
<1>2. TextTypes /\ gts[s] \in {0, 1, None} /\ gtTimers[s] \in HideTimers \union {None}
  BY DEF TextInv, TextTypes
<1>3. \A f \in [{0, 1} -> TextDraws_] :
        /\ A!WithoutDraw(f, s) \in [{0, 1} -> TextDraws_]
        /\ \A i \in {0, 1} : A!WithoutDraw(f, s)[i] = IF i = gts[s] THEN A!NoDraw ELSE f[i]
  BY <1>1, <1>2, FixesAssumption DEF A!WithoutDraw
<1>4. A!Killed(s) \in [HideTimers -> HideRecord]
  BY <1>2 DEF A!Killed, TextTypes, HideRecord
<1>5. \A h \in HideTimers :
              /\ A!Killed(s)[h].style = hideTimer[h].style
              /\ A!Killed(s)[h].left = hideTimer[h].left
              /\ A!Killed(s)[h].running <=> hideTimer[h].running /\ h # gtTimers[s]
              /\ h # gtTimers[s] => A!Killed(s)[h] = hideTimer[h]
  BY <1>2, FixesAssumption DEF A!Killed, TextTypes, HideRecord
<1> QED BY <1>2, <1>3, <1>4, <1>5 DEF TextTypes

\* No two styles share a text draw.
LEMMA TextsApart ==
  ASSUME TextInv, Careful, NEW s \in {"style1", "style2"}, NEW u \in {"style1", "style2"},
         s # u, gts[u] # None
  PROVE  gts[u] # gts[s] /\ gtTimers[u] # gtTimers[s]
<1>1. TextKept(s) /\ TextKept(u)
  BY DEF TextInv
<1>2. gts[u] # gts[s]
  BY <1>1 DEF TextKept
<1>3. gtTimers[u] # gtTimers[s]
  BY DEF TextInv, TimersHide
<1> QED BY <1>2, <1>3

\* Hiding: what was asked for in the style is nothing any more.
LEMMA TextDoHide ==
  ASSUME TextInv, NEW s \in {"style1", "style2"}, A!DoHideGameText(s),
         playerHere' \in BOOLEAN,
         Careful => \/ textAsked' = [textAsked EXCEPT ![s] = A!NoText]
                    \/ textAsked' = textAsked /\ textAsked[s] = A!NoText,
         textAsked' \in {textAsked, [textAsked EXCEPT ![s] = A!NoText]}
  PROVE  TextInv'
<1>1. TextTypes'
  <2>1. A!NoText \in [text : {0, 1, 2}, left : {0, 1, 2}]
    BY DEF A!NoText
  <2>2. textAsked' \in [{"style1", "style2"} -> [text : {0, 1, 2}, left : {0, 1, 2}]]
    BY <2>1 DEF TextInv, TextTypes
  <2>3. /\ gts' \in [{"style1", "style2"} -> {0, 1, None}]
        /\ gtTimers' \in [{"style1", "style2"} -> HideTimers \union {None}]
    BY DEF A!DoHideGameText, TextInv, TextTypes
  <2> QED BY <2>2, <2>3, TextHidden DEF A!DoHideGameText, TextTypes
<1>2. /\ gts'[s] = None /\ gtTimers'[s] = None
      /\ \A u \in {"style1", "style2"} : u # s => gts'[u] = gts[u] /\ gtTimers'[u] = gtTimers[u]
  BY DEF A!DoHideGameText, TextInv, TextTypes
<1>3. OnScreen'
  <2>1. A!NoDraw.shown = FALSE
    BY DEF A!NoDraw
  <2> QED BY <2>1, TextHidden DEF A!DoHideGameText, OnScreen, TextInv
<1>4. TimersHide'
  <2>1. \A h \in HideTimers : /\ hideTimer'[h].style = hideTimer[h].style
                              /\ hideTimer'[h].running <=> hideTimer[h].running /\ h # gtTimers[s]
    BY TextHidden DEF A!DoHideGameText
  <2>2. ASSUME NEW u \in {"style1", "style2"}
        PROVE  /\ gtTimers'[u] # None <=> gts'[u] # None
               /\ gtTimers'[u] # None =>
                    hideTimer'[gtTimers'[u]].running /\ hideTimer'[gtTimers'[u]].style = u
    <3>1. CASE u = s
      BY <1>2, <3>1
    <3>2. CASE u # s
      <4>1. gtTimers[u] # None => gtTimers[u] \in HideTimers /\ gtTimers[u] # gtTimers[s]
        BY <3>2 DEF TextInv, TextTypes, TimersHide
      <4> QED BY <1>2, <2>1, <3>2, <4>1 DEF TextInv, TimersHide
    <3> QED BY <3>1, <3>2
  <2>3. ASSUME NEW h \in HideTimers, hideTimer'[h].running
        PROVE  hideTimer'[h].style \in {"style1", "style2"} /\ h = gtTimers'[hideTimer'[h].style]
    <3>1. hideTimer[h].running /\ h # gtTimers[s]
      BY <2>1, <2>3
    <3>2. hideTimer[h].style \in {"style1", "style2"} /\ h = gtTimers[hideTimer[h].style]
      BY <3>1 DEF TextInv, TimersHide
    <3>3. hideTimer[h].style # s
      BY <3>1, <3>2
    <3> QED BY <1>2, <2>1, <3>2, <3>3
  <2> QED BY <2>2, <2>3 DEF TimersHide
<1>5. ASSUME Careful, NEW u \in {"style1", "style2"}
      PROVE  TextKept(u)'
  <2>1. CASE u = s
    BY <1>2, <1>5, <2>1 DEF TextKept, TextInv, TextTypes
  <2>2. CASE u # s
    <3>1. TextKept(u) /\ textAsked'[u] = textAsked[u]
      BY <1>5, <2>2 DEF TextInv, TextTypes
    <3>2. gts'[u] = gts[u] /\ gtTimers'[u] = gtTimers[u]
      BY <1>2, <2>2
    <3>3. CASE gts[u] = None
      <4>1. gtTimers[u] = None
        BY <3>3 DEF TextInv, TimersHide
      <4> QED BY <3>1, <3>2, <3>3, <4>1 DEF TextKept
    <3>4. CASE gts[u] # None
      <4>1. /\ gts[u] # gts[s] /\ gtTimers[u] # gtTimers[s]
            /\ gts[u] \in {0, 1} /\ gtTimers[u] \in HideTimers
        BY <1>5, <2>2, <3>4, TextsApart DEF TextInv, TextTypes, TimersHide
      <4>2. ownDraws'[gts[u]] = ownDraws[gts[u]]
        BY <4>1, TextHidden DEF A!DoHideGameText
      <4>3. hideTimer'[gtTimers[u]] = hideTimer[gtTimers[u]]
        BY <4>1, TextHidden DEF A!DoHideGameText
      <4> QED BY <3>1, <3>2, <4>2, <4>3 DEF TextKept, A!Dressed
    <3> QED BY <3>3, <3>4
  <2> QED BY <2>1, <2>2
<1> QED BY <1>1, <1>3, <1>4, <1>5 DEF TextInv

LEMMA TextHideGameText ==
  ASSUME TextInv, NEW s \in {"style1", "style2"}, A!HideGameText(s)
  PROVE  TextInv'
<1>1. playerHere' \in BOOLEAN
  BY DEF A!HideGameText, TextInv, TextTypes
<1> QED BY <1>1, TextDoHide DEF A!HideGameText

LEMMA TextHideTimer ==
  ASSUME TextInv, NEW h \in HideTimers, A!HideTimer(h)
  PROVE  TextInv'
<1> DEFINE s == hideTimer[h].style
<1>1. s \in {"style1", "style2"} /\ gtTimers[s] = h /\ hideTimer[h].left = 0
  BY DEF A!HideTimer, TextInv, TimersHide
<1>2. A!DoHideGameText(s) /\ playerHere' \in BOOLEAN /\ textAsked' = textAsked
  BY DEF A!HideTimer, TextInv, TextTypes
<1>3. Careful => textAsked[s] = A!NoText
  BY <1>1, FixesAssumption DEF TextInv, TextKept
<1> HIDE DEF s
<1> QED BY <1>1, <1>2, <1>3, TextDoHide

LEMMA TextDeleteTimer ==
  ASSUME TextInv, NEW h \in HideTimers, A!DeleteTimer(h)
  PROVE  TextInv'
<1>1. A!NoTimer \in HideRecord /\ A!NoTimer.running = FALSE
  BY DEF A!NoTimer, HideRecord
<1>2. /\ UNCHANGED <<playerHere, ownDraws, gts, gtTimers, drawScreen, textAsked>>
      /\ hideTimer' = [hideTimer EXCEPT ![h] = A!NoTimer] /\ ~hideTimer[h].running
  BY DEF A!DeleteTimer
<1>3. /\ hideTimer' \in [HideTimers -> HideRecord] /\ hideTimer'[h].running = FALSE
      /\ \A g \in HideTimers : g # h => hideTimer'[g] = hideTimer[g]
  BY <1>1, <1>2 DEF TextInv, TextTypes
<1>4. TextTypes' /\ OnScreen'
  BY <1>2, <1>3 DEF TextInv, TextTypes, OnScreen
<1>5. \A s \in {"style1", "style2"} : gtTimers[s] # None =>
        gtTimers[s] \in HideTimers /\ gtTimers[s] # h
  BY <1>2 DEF TextInv, TextTypes, TimersHide
<1>6. TimersHide'
  BY <1>2, <1>3, <1>5 DEF TextInv, TimersHide
<1>7. ASSUME Careful, NEW s \in {"style1", "style2"}
      PROVE  TextKept(s)'
  <2>1. TextKept(s) /\ (gts[s] # None => gtTimers[s] # None)
    BY <1>7 DEF TextInv, TimersHide
  <2> QED BY <1>2, <1>3, <1>5, <2>1 DEF TextKept, A!Dressed, A!NoText
<1> QED BY <1>4, <1>6, <1>7 DEF TextInv

LEMMA TextPassTime == ASSUME TextInv, A!PassTime PROVE TextInv'
<1>1. /\ UNCHANGED <<playerHere, ownDraws, gts, gtTimers, drawScreen>>
      /\ \A h \in HideTimers : hideTimer[h].running => hideTimer[h].left > 0
      /\ hideTimer' = [h \in HideTimers |-> IF hideTimer[h].running
                         THEN [hideTimer[h] EXCEPT !.left = @ - 1] ELSE hideTimer[h]]
      /\ textAsked' = [s \in {"style1", "style2"} |-> IF textAsked[s].left < 2 THEN A!NoText
                         ELSE [textAsked[s] EXCEPT !.left = @ - 1]]
  BY DEF A!PassTime, A!Styles
<1>2. /\ hideTimer' \in [HideTimers -> HideRecord]
      /\ \A h \in HideTimers :
           /\ hideTimer'[h].running <=> hideTimer[h].running
           /\ hideTimer'[h].style = hideTimer[h].style
           /\ hideTimer[h].running => hideTimer'[h].left = hideTimer[h].left - 1
  <2> SUFFICES ASSUME NEW h \in HideTimers
               PROVE  /\ hideTimer'[h] \in HideRecord
                      /\ hideTimer'[h].running <=> hideTimer[h].running
                      /\ hideTimer'[h].style = hideTimer[h].style
                      /\ hideTimer[h].running => hideTimer'[h].left = hideTimer[h].left - 1
    BY <1>1
  <2> DEFINE r == hideTimer[h]
             n == hideTimer'[h]
  <2>1. /\ r \in HideRecord /\ (r.running => r.left > 0)
        /\ n = IF r.running THEN [r EXCEPT !.left = @ - 1] ELSE r
    BY <1>1 DEF TextInv, TextTypes
  <2> HIDE DEF r, n
  <2>2. /\ n \in HideRecord /\ (n.running <=> r.running) /\ n.style = r.style
        /\ r.running => n.left = r.left - 1
    BY <2>1 DEF HideRecord
  <2> QED BY <2>2 DEF r, n
<1>3. \A s \in {"style1", "style2"} :
        /\ textAsked[s] \in [text : {0, 1, 2}, left : {0, 1, 2}]
        /\ textAsked'[s] = IF textAsked[s].left < 2 THEN A!NoText
                         ELSE [textAsked[s] EXCEPT !.left = @ - 1]
  BY <1>1 DEF TextInv, TextTypes
<1>4. \A s \in {"style1", "style2"} :
        /\ textAsked'[s] \in [text : {0, 1, 2}, left : {0, 1, 2}]
        /\ \/ textAsked'[s] = A!NoText /\ textAsked[s].left \in {0, 1}
           \/ /\ textAsked[s].left = 2 /\ textAsked'[s].left = 1
              /\ textAsked'[s].text = textAsked[s].text /\ textAsked[s] # A!NoText
              /\ textAsked'[s] # A!NoText
  BY <1>3 DEF A!NoText
<1>5. TextTypes' /\ OnScreen'
  <2>1. textAsked' \in [{"style1", "style2"} -> [text : {0, 1, 2}, left : {0, 1, 2}]]
    BY <1>1, <1>4
  <2> QED BY <1>1, <1>2, <2>1 DEF TextInv, TextTypes, OnScreen
<1>6. \A s \in {"style1", "style2"} : gtTimers[s] # None =>
        gtTimers[s] \in HideTimers /\ hideTimer[gtTimers[s]].running
  BY DEF TextInv, TextTypes, TimersHide
<1>7. TimersHide'
  BY <1>1, <1>2, <1>6 DEF TextInv, TimersHide
<1>8. ASSUME Careful, NEW s \in {"style1", "style2"}
      PROVE  TextKept(s)'
  <2>1. TextKept(s) /\ (gts[s] # None => gtTimers[s] # None)
    BY <1>8 DEF TextInv, TimersHide
  <2>2. gtTimers[s] # None => /\ hideTimer'[gtTimers[s]].left = hideTimer[gtTimers[s]].left - 1
                              /\ hideTimer[gtTimers[s]].left \in {1, 2}
    <3> SUFFICES ASSUME gtTimers[s] # None
                 PROVE  /\ hideTimer'[gtTimers[s]].left = hideTimer[gtTimers[s]].left - 1
                        /\ hideTimer[gtTimers[s]].left \in {1, 2}
      OBVIOUS
    <3>1. hideTimer[gtTimers[s]] \in HideRecord
      BY <1>6 DEF TextInv, TextTypes
    <3>2. hideTimer[gtTimers[s]].left \in {0, 1, 2}
      BY <3>1 DEF HideRecord
    <3> QED BY <1>1, <1>2, <1>6, <3>2
  <2>3. CASE textAsked[s] = A!NoText
    <3>1. gtTimers[s] = None /\ gts[s] = None
      BY <2>1, <2>2, <2>3 DEF TextKept
    <3>2. textAsked'[s] = A!NoText
      BY <1>4, <2>3 DEF A!NoText
    <3> QED BY <1>1, <3>1, <3>2 DEF TextKept
  <2>4. CASE textAsked[s] # A!NoText
    <3>1. /\ gts[s] # None /\ ownDraws[gts[s]] = A!Dressed(s, textAsked[s].text)
          /\ textAsked[s].left \in {1, 2} /\ ownDraws[gts[s]].owner = s
          /\ hideTimer[gtTimers[s]].left = textAsked[s].left
      BY <2>1, <2>4 DEF TextKept
    <3>2. hideTimer'[gtTimers[s]].left = textAsked[s].left - 1
      BY <2>1, <2>2, <3>1
    <3>3. CASE textAsked[s].left = 1
      <4>1. textAsked'[s] = A!NoText
        BY <1>4, <3>3
      <4> QED BY <1>1, <3>1, <3>2, <3>3, <4>1 DEF TextKept
    <3>4. CASE textAsked[s].left = 2
      <4>1. textAsked'[s].left = 1 /\ textAsked'[s].text = textAsked[s].text
            /\ textAsked'[s] # A!NoText
        BY <1>4, <3>4 DEF A!NoText
      <4>2. hideTimer'[gtTimers[s]].left = 1
        BY <3>2, <3>4
      <4>3. /\ gts'[s] = gts[s] /\ gtTimers'[s] = gtTimers[s] /\ ownDraws' = ownDraws
        BY <1>1
      <4> QED BY <3>1, <4>1, <4>2, <4>3 DEF TextKept
    <3> QED BY <3>1, <3>3, <3>4
  <2> QED BY <2>3, <2>4
<1> QED BY <1>5, <1>7, <1>8 DEF TextInv

LEMMA DressedIs ==
  ASSUME NEW s \in {"style1", "style2"}, NEW text_ \in {1, 2}
  PROVE  A!Dressed(s, text_) \in TextDraws_ /\ A!Dressed(s, text_).owner = s
         /\ A!Dressed(s, text_).shown = TRUE /\ A!Dressed(s, text_) # A!NoDraw
  BY DEF A!Dressed, TextDraws_, A!NoDraw

\* A text is sent and there is a text draw and a timer for it.
LEMMA TextSent ==
  ASSUME TextInv, NEW s \in {"style1", "style2"}, NEW text_ \in {1, 2}, NEW time \in {1, 2},
         NEW i \in {0, 1}, A!WithoutDraw(ownDraws, s)[i] = A!NoDraw,
         NEW h \in HideTimers, hideTimer[h] = A!NoTimer,
         UNCHANGED playerHere,
         ownDraws' = [A!WithoutDraw(ownDraws, s) EXCEPT ![i] = A!Dressed(s, text_)],
         drawScreen' = [A!WithoutDraw(drawScreen, s) EXCEPT ![i] = A!Dressed(s, text_)],
         hideTimer' = [A!Killed(s) EXCEPT ![h] = [style |-> s, left |-> time, running |-> TRUE]],
         gts' = [gts EXCEPT ![s] = i], gtTimers' = [gtTimers EXCEPT ![s] = h],
         textAsked' = [textAsked EXCEPT ![s] = [text |-> text_, left |-> time]]
  PROVE  TextInv'
<1> DEFINE new == [style |-> s, left |-> time, running |-> TRUE]
           asks == [text |-> text_, left |-> time]
           look == A!Dressed(s, text_)
<1>1. new \in HideRecord /\ new.running = TRUE /\ new.style = s /\ new.left = time
  BY DEF HideRecord
<1>2. asks \in [text : {0, 1, 2}, left : {0, 1, 2}] /\ asks # A!NoText /\ asks.left = time
      /\ asks.text = text_
  BY DEF A!NoText
<1>3. look \in TextDraws_ /\ look.owner = s /\ look.shown = TRUE
  BY DressedIs
<1> HIDE DEF new, asks, look
<1>4. TextTypes /\ TimersHide /\ OnScreen
  BY DEF TextInv
<1>5. /\ ownDraws' \in [{0, 1} -> TextDraws_] /\ drawScreen' \in [{0, 1} -> TextDraws_]
      /\ ownDraws'[i] = look /\ drawScreen'[i] = look
      /\ \A j \in {0, 1} : j # i =>
           /\ ownDraws'[j] = IF j = gts[s] THEN A!NoDraw ELSE ownDraws[j]
           /\ drawScreen'[j] = IF j = gts[s] THEN A!NoDraw ELSE drawScreen[j]
  BY <1>3, TextHidden DEF look
<1>6. /\ hideTimer' \in [HideTimers -> HideRecord] /\ hideTimer'[h] = new
      /\ \A g \in HideTimers \ {h} :
           /\ hideTimer'[g].style = hideTimer[g].style
           /\ hideTimer'[g].running <=> hideTimer[g].running /\ g # gtTimers[s]
           /\ g # gtTimers[s] => hideTimer'[g] = hideTimer[g]
  BY <1>1, TextHidden DEF new
<1>7. /\ gts'[s] = i /\ gtTimers'[s] = h /\ textAsked'[s] = asks
      /\ \A u \in {"style1", "style2"} : u # s =>
           gts'[u] = gts[u] /\ gtTimers'[u] = gtTimers[u] /\ textAsked'[u] = textAsked[u]
      /\ gts' \in [{"style1", "style2"} -> {0, 1, None}]
      /\ gtTimers' \in [{"style1", "style2"} -> HideTimers \union {None}]
      /\ textAsked' \in [{"style1", "style2"} -> [text : {0, 1, 2}, left : {0, 1, 2}]]
  BY <1>2, <1>4 DEF TextTypes, asks
<1>8. TextTypes'
  BY <1>4, <1>5, <1>6, <1>7 DEF TextTypes
<1>9. OnScreen'
  <2>1. A!NoDraw.shown = FALSE
    BY DEF A!NoDraw
  <2> QED BY <1>3, <1>4, <1>5, <2>1 DEF OnScreen
<1>10. ~hideTimer[h].running /\ h # None /\ i # None
  BY FixesAssumption DEF A!NoTimer
<1>11. \A u \in {"style1", "style2"} : gtTimers[u] # None =>
         gtTimers[u] \in HideTimers \ {h} /\ hideTimer[gtTimers[u]].style = u
  BY <1>4, <1>10 DEF TextTypes, TimersHide
<1>12. TimersHide'
  <2>1. ASSUME NEW u \in {"style1", "style2"}
        PROVE  /\ gtTimers'[u] # None <=> gts'[u] # None
               /\ gtTimers'[u] # None =>
                    hideTimer'[gtTimers'[u]].running /\ hideTimer'[gtTimers'[u]].style = u
    <3>1. CASE u = s
      BY <1>1, <1>6, <1>7, <1>10, <3>1
    <3>2. CASE u # s
      <4>1. gtTimers[u] # None => gtTimers[u] # gtTimers[s]
        BY <1>11, <3>2
      <4> QED BY <1>4, <1>6, <1>7, <1>11, <3>2, <4>1 DEF TimersHide
    <3> QED BY <3>1, <3>2
  <2>2. ASSUME NEW g \in HideTimers, hideTimer'[g].running
        PROVE  hideTimer'[g].style \in {"style1", "style2"} /\ g = gtTimers'[hideTimer'[g].style]
    <3>1. CASE g = h
      BY <1>1, <1>6, <1>7, <3>1
    <3>2. CASE g # h
      <4>1. /\ hideTimer[g].running /\ g # gtTimers[s] /\ hideTimer'[g].style = hideTimer[g].style
        BY <1>6, <2>2, <3>2
      <4>2. hideTimer[g].style \in {"style1", "style2"} /\ g = gtTimers[hideTimer[g].style]
        BY <1>4, <4>1 DEF TimersHide
      <4>3. hideTimer[g].style # s
        BY <4>1, <4>2
      <4> QED BY <1>7, <4>1, <4>2, <4>3
    <3> QED BY <3>1, <3>2
  <2> QED BY <2>1, <2>2 DEF TimersHide
<1>13. ASSUME Careful, NEW u \in {"style1", "style2"}
       PROVE  TextKept(u)'
  <2>1. CASE u = s
    <3>1. /\ gts'[s] # None /\ gtTimers'[s] # None /\ textAsked'[s] # A!NoText
          /\ textAsked'[s].left \in {1, 2}
      BY <1>2, <1>7, <1>10
    <3>2. ownDraws'[gts'[s]].owner = s
      BY <1>3, <1>5, <1>7
    <3>3. ownDraws'[gts'[s]] = A!Dressed(s, textAsked'[s].text)
      BY <1>2, <1>5, <1>7 DEF look
    <3>4. hideTimer'[gtTimers'[s]].left = textAsked'[s].left
      BY <1>1, <1>2, <1>6, <1>7
    <3> QED BY <2>1, <3>1, <3>2, <3>3, <3>4 DEF TextKept, A!Dressed
  <2>2. CASE u # s
    <3>1. TextKept(u)
      BY <1>13 DEF TextInv
    <3>2. gts'[u] = gts[u] /\ gtTimers'[u] = gtTimers[u] /\ textAsked'[u] = textAsked[u]
      BY <1>7, <2>2
    <3>3. CASE gts[u] = None
      <4>1. gtTimers[u] = None
        BY <1>4, <3>3 DEF TimersHide
      <4> QED BY <3>1, <3>2, <3>3, <4>1 DEF TextKept
    <3>4. CASE gts[u] # None
      <4>1. /\ gts[u] # gts[s] /\ gtTimers[u] # gtTimers[s]
            /\ gts[u] \in {0, 1} /\ gtTimers[u] \in HideTimers \ {h}
        BY <1>4, <1>11, <1>13, <2>2, <3>4, TextsApart DEF TextTypes, TimersHide
      <4>2. gts[u] # i
        <5>1. ownDraws[gts[u]].owner = u
          BY <3>1, <3>4 DEF TextKept
        <5>2. A!NoDraw.owner = "nobody"
          BY DEF A!NoDraw
        <5>3. A!WithoutDraw(ownDraws, s)[gts[u]] = ownDraws[gts[u]]
          BY <4>1, TextHidden
        <5> QED BY <5>1, <5>2, <5>3
      <4>3. /\ ownDraws'[gts[u]] = ownDraws[gts[u]]
            /\ hideTimer'[gtTimers[u]] = hideTimer[gtTimers[u]]
        BY <1>5, <1>6, <4>1, <4>2
      <4> QED BY <3>1, <3>2, <4>3 DEF TextKept, A!Dressed
    <3> QED BY <3>3, <3>4
  <2> QED BY <2>1, <2>2
<1> QED BY <1>8, <1>9, <1>12, <1>13 DEF TextInv

LEMMA TextSendGameText ==
  ASSUME TextInv, NEW s \in {"style1", "style2"}, NEW text_ \in {1, 2},
         NEW time \in {1, 2}, A!SendGameText(s, text_, time)
  PROVE  TextInv'
<1> DEFINE free == {i \in {0, 1} : A!WithoutDraw(ownDraws, s)[i] = A!NoDraw}
           i    == CHOOSE i \in free : \A j \in free : i <= j
<1>1. CASE free = {}
  <2>1. A!DoHideGameText(s) /\ textAsked' = [textAsked EXCEPT ![s] = A!NoText]
        /\ playerHere' \in BOOLEAN
    BY <1>1 DEF A!SendGameText, A!DrawIds, TextInv, TextTypes
  <2> QED BY <2>1, TextDoHide
<1>2. CASE free # {}
  <2>1. PICK h \in {h \in HideTimers : hideTimer[h] = A!NoTimer} :
          /\ ownDraws'   = [A!WithoutDraw(ownDraws, s) EXCEPT ![i] = A!Dressed(s, text_)]
          /\ drawScreen' = [A!WithoutDraw(drawScreen, s) EXCEPT ![i] = A!Dressed(s, text_)]
          /\ hideTimer'  = [A!Killed(s) EXCEPT ![h] =
                              [style |-> s, left |-> time, running |-> TRUE]]
          /\ gts'        = [gts EXCEPT ![s] = i]
          /\ gtTimers'   = [gtTimers EXCEPT ![s] = h]
          /\ textAsked'  = [textAsked EXCEPT ![s] = [text |-> text_, left |-> time]]
    BY <1>2 DEF A!SendGameText, A!DrawIds
  <2>2. free \subseteq Nat /\ UNCHANGED playerHere
    BY DEF A!SendGameText
  <2> HIDE DEF free
  <2>3. i \in free
    BY <1>2, <2>2, LowestOf
  <2>4. i \in {0, 1} /\ A!WithoutDraw(ownDraws, s)[i] = A!NoDraw
    BY <2>3 DEF free
  <2> HIDE DEF i
  <2> QED BY <2>1, <2>2, <2>4, TextSent
<1> QED BY <1>1, <1>2

\* A text draw changes that is no game text, with all timers as they are.
LEMMA TextScripts ==
  ASSUME TextInv, NEW i \in {0, 1}, ownDraws[i].owner \notin {"style1", "style2"} \/ ~Careful,
         ownDraws' \in [{0, 1} -> TextDraws_], drawScreen' \in [{0, 1} -> TextDraws_],
         \A j \in {0, 1} : j # i => ownDraws'[j] = ownDraws[j] /\ drawScreen'[j] = drawScreen[j],
         drawScreen'[i] = IF ownDraws'[i].shown THEN ownDraws'[i] ELSE A!NoDraw,
         UNCHANGED <<playerHere, gts, gtTimers, hideTimer, textAsked>>
  PROVE  TextInv'
<1>1. TextTypes' /\ OnScreen' /\ TimersHide'
  BY DEF TextInv, TextTypes, OnScreen, TimersHide
<1>2. ASSUME Careful, NEW s \in {"style1", "style2"}
      PROVE  TextKept(s)'
  <2>1. TextKept(s) /\ gts[s] \in {0, 1, None}
    BY <1>2 DEF TextInv, TextTypes
  <2>2. gts[s] # None => ownDraws'[gts[s]] = ownDraws[gts[s]]
    BY <1>2, <2>1 DEF TextKept
  <2> QED BY <2>1, <2>2 DEF TextKept, A!Dressed
<1> QED BY <1>1, <1>2 DEF TextInv

LEMMA TextCreateDraw ==
  ASSUME TextInv, NEW i \in {0, 1}, NEW text_ \in {1, 2},
         A!CreateDraw(i, text_)
  PROVE  TextInv'
<1> DEFINE new == [owner |-> "script", text |-> text_, look |-> "script", shown |-> FALSE]
<1>1. new \in TextDraws_ /\ new.shown = FALSE
  BY DEF TextDraws_
<1>2. /\ ownDraws[i] = A!NoDraw /\ ownDraws' = [ownDraws EXCEPT ![i] = new]
      /\ UNCHANGED <<playerHere, gts, gtTimers, hideTimer, drawScreen, textAsked>>
  BY DEF A!CreateDraw, A!Script
<1> HIDE DEF new
<1>3. A!NoDraw.owner = "nobody" /\ A!NoDraw.shown = FALSE
  BY DEF A!NoDraw
<1>4. /\ ownDraws' \in [{0, 1} -> TextDraws_] /\ drawScreen' \in [{0, 1} -> TextDraws_]
      /\ ownDraws'[i] = new /\ \A j \in {0, 1} : j # i => ownDraws'[j] = ownDraws[j]
  BY <1>1, <1>2 DEF TextInv, TextTypes
<1>5. drawScreen'[i] = A!NoDraw
  BY <1>2, <1>3 DEF TextInv, OnScreen
<1> QED BY <1>1, <1>2, <1>3, <1>4, <1>5, TextScripts

LEMMA TextShowDraw ==
  ASSUME TextInv, NEW i \in {0, 1}, A!ShowDraw(i)
  PROVE  TextInv'
<1> DEFINE new == [ownDraws[i] EXCEPT !.shown = TRUE]
<1>1. ownDraws[i] \in TextDraws_
  BY DEF TextInv, TextTypes
<1>2. new \in TextDraws_ /\ new.shown = TRUE
  BY <1>1 DEF TextDraws_
<1>3. /\ ownDraws[i].owner = "script" /\ ownDraws' = [ownDraws EXCEPT ![i] = new]
      /\ drawScreen' = [drawScreen EXCEPT ![i] = ownDraws'[i]]
      /\ UNCHANGED <<playerHere, gts, gtTimers, hideTimer, textAsked>>
  BY DEF A!ShowDraw, A!Script
<1> HIDE DEF new
<1>4. /\ ownDraws' \in [{0, 1} -> TextDraws_] /\ ownDraws'[i] = new
      /\ \A j \in {0, 1} : j # i => ownDraws'[j] = ownDraws[j]
  BY <1>2, <1>3 DEF TextInv, TextTypes
<1>5. /\ drawScreen' \in [{0, 1} -> TextDraws_] /\ drawScreen'[i] = new
      /\ \A j \in {0, 1} : j # i => drawScreen'[j] = drawScreen[j]
  BY <1>2, <1>3, <1>4 DEF TextInv, TextTypes
<1> QED BY <1>2, <1>3, <1>4, <1>5, TextScripts

LEMMA TextDestroyDraw ==
  ASSUME TextInv, NEW i \in {0, 1}, A!DestroyDraw(i)
  PROVE  TextInv'
<1>1. A!NoDraw \in TextDraws_ /\ A!NoDraw.shown = FALSE
  BY DEF A!NoDraw, TextDraws_
<1>2. /\ Careful => ownDraws[i].owner = "script"
      /\ ownDraws' = [ownDraws EXCEPT ![i] = A!NoDraw]
      /\ drawScreen' = [drawScreen EXCEPT ![i] = A!NoDraw]
      /\ UNCHANGED <<playerHere, gts, gtTimers, hideTimer, textAsked>>
  BY DEF A!DestroyDraw, A!Script, A!Released
<1>3. /\ ownDraws' \in [{0, 1} -> TextDraws_] /\ ownDraws'[i] = A!NoDraw
      /\ drawScreen' \in [{0, 1} -> TextDraws_] /\ drawScreen'[i] = A!NoDraw
      /\ \A j \in {0, 1} : j # i => ownDraws'[j] = ownDraws[j] /\ drawScreen'[j] = drawScreen[j]
  BY <1>1, <1>2 DEF TextInv, TextTypes
<1> QED BY <1>1, <1>2, <1>3, TextScripts

LEMMA TextForget ==
  ASSUME TextInv, playerHere' \in BOOLEAN, A!Forget
  PROVE  TextInv'
<1>1. /\ A!NoDraw \in TextDraws_ /\ A!NoDraw.shown = FALSE
      /\ A!NoText \in [text : {0, 1, 2}, left : {0, 1, 2}]
  BY DEF A!NoDraw, TextDraws_, A!NoText
<1>2. /\ ownDraws' = [i \in {0, 1} |-> A!NoDraw] /\ drawScreen' = [i \in {0, 1} |-> A!NoDraw]
      /\ gts' = [s \in {"style1", "style2"} |-> None]
      /\ gtTimers' = [s \in {"style1", "style2"} |-> None]
      /\ textAsked' = [s \in {"style1", "style2"} |-> A!NoText]
  <2>1. 0 .. 1 = {0, 1}
    OBVIOUS
  <2> QED BY <2>1 DEF A!Forget, A!DrawIds, A!Styles
<1>3. hideTimer' = [h \in HideTimers |-> IF \E s \in {"style1", "style2"} : gtTimers[s] = h
                      THEN [hideTimer[h] EXCEPT !.running = FALSE] ELSE hideTimer[h]]
  BY DEF A!Forget, A!Styles
<1>4. /\ hideTimer' \in [HideTimers -> HideRecord]
      /\ \A h \in HideTimers : ~hideTimer'[h].running
  <2> SUFFICES ASSUME NEW h \in HideTimers
               PROVE  hideTimer'[h] \in HideRecord /\ ~hideTimer'[h].running
    BY <1>3
  <2>1. /\ hideTimer[h] \in HideRecord
        /\ hideTimer[h].running => \E s \in {"style1", "style2"} : gtTimers[s] = h
    BY DEF TextInv, TextTypes, TimersHide
  <2>2. CASE \E s \in {"style1", "style2"} : gtTimers[s] = h
    <3>1. hideTimer'[h] = [hideTimer[h] EXCEPT !.running = FALSE]
      BY <1>3, <2>2
    <3> QED BY <2>1, <3>1 DEF HideRecord
  <2>3. CASE ~\E s \in {"style1", "style2"} : gtTimers[s] = h
    BY <1>3, <2>1, <2>3
  <2> QED BY <2>2, <2>3
<1>5. TextTypes'
  BY <1>1, <1>2, <1>4 DEF TextTypes
<1>6. OnScreen'
  BY <1>1, <1>2 DEF OnScreen
<1>7. TimersHide'
  BY <1>2, <1>4 DEF TimersHide
<1>8. \A s \in {"style1", "style2"} : TextKept(s)'
  BY <1>2 DEF TextKept
<1> QED BY <1>5, <1>6, <1>7, <1>8 DEF TextInv

\* While the player is dead its money is kept, and what is kept was given to it.
MoneyInv ==
    /\ moneyOf \in [server : {0, 1, 2}, client : {0, 1, 2}, kept : {0, 1, 2}]
    /\ moneyDue \in {0, 1, 2} /\ waitsToSpawn \in BOOLEAN /\ moneyTimer \in BOOLEAN
    /\ moneyTimer = waitsToSpawn
    /\ Careful => IF waitsToSpawn THEN moneyOf.kept = moneyDue
                  ELSE moneyOf.server = moneyDue /\ moneyOf.client = moneyDue

LEMMA MoneySteps ==
  ASSUME MoneyInv, playerHere \in BOOLEAN, A!MoneyStep
  PROVE  MoneyInv'
<1>1. CASE A!StartMoneyTimer
  BY <1>1, FixesAssumption DEF A!StartMoneyTimer, MoneyInv
<1>2. CASE A!Deduct
  BY <1>2 DEF A!Deduct, MoneyInv
<1>3. CASE A!ReportMoney
  BY <1>3 DEF A!ReportMoney, MoneyInv
<1>4. CASE A!MoneyTimer
  BY <1>4 DEF A!MoneyTimer, MoneyInv
<1>5. CASE A!StopMoneyTimer
  BY <1>5, FixesAssumption DEF A!StopMoneyTimer, MoneyInv
<1>6. ASSUME NEW n \in {0, 1, 2}, A!GiveMoney(n)
      PROVE  MoneyInv'
  BY <1>6, FixesAssumption DEF A!GiveMoney, MoneyInv
<1>7. A!Amounts = {0, 1, 2}
  BY DEF A!Amounts
<1> QED BY <1>1, <1>2, <1>3, <1>4, <1>5, <1>6, <1>7 DEF A!MoneyStep

LEMMA MoneyLost ==
  ASSUME MoneyInv, A!LoseMoney
  PROVE  MoneyInv'
  BY DEF A!LoseMoney, MoneyInv

\* The three follow each other's steps without a change.
FixInv == AnimInv /\ TextInv /\ MoneyInv /\ fixOf \in {"animations", "texts", "money"}

LEMMA AnimStays ==
  ASSUME AnimInv, UNCHANGED <<players, A!animationVars>>
  PROVE  AnimInv'
  BY DEF AnimInv, AnimTypes, A!animationVars

LEMMA TextStays ==
  ASSUME TextInv, UNCHANGED A!textVars, playerHere' \in BOOLEAN
  PROVE  TextInv'
  BY DEF TextInv, TextTypes, TimersHide, OnScreen, TextKept, A!Dressed, A!textVars

LEMMA MoneyStays ==
  ASSUME MoneyInv, UNCHANGED A!moneyVars
  PROVE  MoneyInv'
  BY DEF MoneyInv, A!moneyVars

LEMMA FixesInit == ASSUME A!Init PROVE FixInv
<1>1. AnimInv
  <2>1. queue \in Seq(FixEntries) /\ Len(queue) = 0
    BY EmptySeq DEF A!Init
  <2>2. view \in [Alone -> [Alone \union Actors -> {0, 1, 2}]]
    BY DEF A!Init, A!Nothing, A!Targets
  <2> QED BY <2>1, <2>2, FixesAssumption DEF A!Init, AnimInv, AnimTypes
<1>2. TextInv
  <2>1. /\ A!NoDraw \in TextDraws_ /\ A!NoDraw.shown = FALSE /\ A!NoTimer \in HideRecord
        /\ A!NoText \in [text : {0, 1, 2}, left : {0, 1, 2}] /\ ~A!NoTimer.running
    BY DEF A!NoDraw, TextDraws_, A!NoText, A!NoTimer, HideRecord
  <2>2. 0 .. 1 = {0, 1}
    OBVIOUS
  <2>3. /\ ownDraws = [i \in {0, 1} |-> A!NoDraw] /\ drawScreen = [i \in {0, 1} |-> A!NoDraw]
        /\ gts = [s \in {"style1", "style2"} |-> None]
        /\ gtTimers = [s \in {"style1", "style2"} |-> None]
        /\ hideTimer = [h \in HideTimers |-> A!NoTimer]
        /\ textAsked = [s \in {"style1", "style2"} |-> A!NoText] /\ playerHere = FALSE
    BY <2>2 DEF A!Init, A!DrawIds, A!Styles
  <2> QED BY <2>1, <2>3 DEF TextInv, TextTypes, OnScreen, TimersHide, TextKept
<1>3. MoneyInv
  BY DEF A!Init, MoneyInv
<1> QED BY <1>1, <1>2, <1>3 DEF FixInv, A!Init

LEMMA FixesStutter ==
  ASSUME FixInv, UNCHANGED <<players, fixesVars>>
  PROVE  FixInv'
<1>1. /\ UNCHANGED <<players, A!animationVars>> /\ UNCHANGED A!textVars
      /\ UNCHANGED A!moneyVars /\ playerHere' = playerHere /\ fixOf' = fixOf
  BY DEF fixesVars, A!animationVars, A!textVars, A!moneyVars
<1> QED BY <1>1, AnimStays, TextStays, MoneyStays DEF FixInv, TextInv, TextTypes

LEMMA FixesAnimations ==
  ASSUME FixInv, A!AnimationStep, UNCHANGED <<fixOf, playerHere, A!textVars, A!moneyVars>>
  PROVE  FixInv'
<1>1. AnimInv
  BY DEF FixInv
<1>2. AnimInv'
  <2>1. CASE A!AnimationTimer \/ A!Reset
    BY <1>1, <2>1, AnimAnimationTimer, AnimReset
  <2>2. CASE \E p \in Alone : A!Connect(p) \/ A!Disconnect(p) \/ A!OnPlayerDeath(p)
    BY <1>1, <2>2, AnimConnect, AnimDisconnect, AnimOnPlayerDeath
  <2>3. CASE \E a \in Actors : A!CreateActor(a) \/ A!ReleaseActor(a)
    BY <1>1, <2>3, AnimCreateActor, AnimReleaseActor
  <2>4. CASE \E t \in Alone \union Actors, viewers \in SUBSET Alone :
               \/ A!ClearAnimations(t, viewers)
               \/ \E a \in {1, 2} : A!ApplyAnimation(t, viewers, a)
    BY <1>1, <2>4, AnimClearAnimations, AnimApplyAnimation
  <2> QED BY <2>1, <2>2, <2>3, <2>4 DEF A!AnimationStep, A!Targets, A!Anims
<1> QED BY <1>2, TextStays, MoneyStays DEF FixInv, TextInv, TextTypes

LEMMA FixesTexts ==
  ASSUME FixInv, A!TextStep, UNCHANGED <<fixOf, players, A!animationVars, A!moneyVars>>
  PROVE  FixInv'
<1>1. TextInv /\ A!Texts = {1, 2} /\ A!Times = {1, 2} /\ A!DrawIds = {0, 1}
      /\ A!Styles = {"style1", "style2"}
  BY DEF FixInv, A!Texts, A!Times, A!DrawIds, A!Styles
<1>2. TextInv'
  <2>1. CASE \E s \in {"style1", "style2"} :
               \/ A!HideGameText(s)
               \/ \E x \in {1, 2}, time \in {1, 2} : A!SendGameText(s, x, time)
    BY <1>1, <2>1, TextHideGameText, TextSendGameText
  <2>2. CASE \E h \in HideTimers : A!DeleteTimer(h) \/ A!HideTimer(h)
    BY <1>1, <2>2, TextDeleteTimer, TextHideTimer
  <2>3. CASE A!PassTime
    BY <1>1, <2>3, TextPassTime
  <2>4. CASE \E i \in {0, 1} :
               \/ A!ShowDraw(i) \/ A!DestroyDraw(i)
               \/ \E x \in {1, 2} : A!CreateDraw(i, x)
    BY <1>1, <2>4, TextShowDraw, TextDestroyDraw, TextCreateDraw
  <2> QED BY <1>1, <2>1, <2>2, <2>3, <2>4 DEF A!TextStep
<1> QED BY <1>2, AnimStays, MoneyStays DEF FixInv

LEMMA FixesMoney ==
  ASSUME FixInv, A!MoneyStep, UNCHANGED <<fixOf, players, A!animationVars, A!textVars>>
  PROVE  FixInv'
<1>1. playerHere \in BOOLEAN /\ playerHere' \in BOOLEAN
  BY DEF FixInv, TextInv, TextTypes, A!MoneyStep, A!StartMoneyTimer, A!Deduct,
         A!ReportMoney,
         A!MoneyTimer, A!StopMoneyTimer, A!GiveMoney
<1> QED BY <1>1, AnimStays, TextStays, MoneySteps DEF FixInv

LEMMA FixesComesAndGoes ==
  ASSUME FixInv, A!Arrive \/ A!StartAgain, UNCHANGED <<fixOf, players, A!animationVars>>
  PROVE  FixInv'
<1>1. AnimInv' /\ AnimInv /\ TextInv /\ MoneyInv
  BY AnimStays DEF FixInv
<1>2. CASE A!Arrive
  BY <1>1, <1>2, TextStays, MoneyStays DEF FixInv, A!Arrive
<1>3. CASE A!StartAgain
  BY <1>1, <1>3, TextForget, MoneyLost DEF FixInv, A!StartAgain
<1> QED BY <1>2, <1>3

LEMMA FixesImply ==
  ASSUME FixInv
  PROVE  /\ A!TypeOK /\ A!ViewExact
         /\ Careful => A!NoDangling /\ A!TextsExact /\ A!MoneyKept
<1>1. AnimInv /\ AnimTypes /\ TextInv /\ TextTypes /\ MoneyInv
  BY DEF FixInv, AnimInv, TextInv
<1>2. Len(queue) \in Nat /\ DOMAIN queue = 1 .. Len(queue)
      /\ \A i \in 1 .. Len(queue) : queue[i] \in FixEntries
  BY <1>1, LenProperties, ElementOfSeq DEF AnimTypes
<1>3. \A e \in A!Range(queue) :
        e \in FixEntries /\ FixEntry(e, players, players \union actors, uncleared, view)
  BY <1>1, <1>2 DEF A!Range, AnimInv
<1>4. A!Range(queue) \subseteq A!Entries
  BY <1>3 DEF FixEntries, FixEntry, A!Entries, A!Targets, A!Anims
<1>5. A!DrawIds = {0, 1} /\ A!Styles = {"style1", "style2"} /\ A!Texts = {1, 2}
      /\ A!Times = {1, 2} /\ A!Amounts = {0, 1, 2} /\ A!Script = "script"
      /\ A!Anims = {1, 2} /\ A!Nothing = 0 /\ A!Targets = Alone \union Actors
  BY DEF A!DrawIds, A!Styles, A!Texts, A!Times, A!Amounts, A!Script, A!Anims,
         A!Nothing, A!Targets
<1>6. A!TypeOK
  <2>1. animationTimers \in 0 .. MaxQueue
    BY <1>1, <1>2, FixesAssumption DEF AnimInv
  <2>2. \A f \in {ownDraws, drawScreen} : \A i \in {0, 1} :
          f[i].owner \in {"style1", "style2"} \union {"script", "nobody"}
    BY <1>1 DEF TextTypes, TextDraws_
  <2>3. \A h \in HideTimers : /\ hideTimer[h].left \in {0} \union {1, 2}
                              /\ hideTimer[h].style \in {"style1", "style2"} \union {"none"}
    BY <1>1 DEF TextTypes, HideRecord
  <2>4. /\ gts \in [{"style1", "style2"} -> {0, 1} \union {None}]
        /\ textAsked \in [{"style1", "style2"} -> [text : {1, 2} \union {0}, left : {0} \union {1, 2}]]
    <3>1. /\ {0, 1} \union {None} = {0, 1, None} /\ {1, 2} \union {0} = {0, 1, 2}
          /\ {0} \union {1, 2} = {0, 1, 2}
      OBVIOUS
    <3> QED BY <1>1, <3>1 DEF TextTypes
  <2>5. /\ moneyOf \in [server : {0, 1, 2}, client : {0, 1, 2}, kept : {0, 1, 2}]
        /\ {playerHere, waitsToSpawn, moneyTimer} \subseteq BOOLEAN /\ moneyDue \in {0, 1, 2}
    BY <1>1 DEF TextTypes, MoneyInv
  <2>6. view \in [Alone -> [Alone \union Actors -> {1, 2} \union {0}]]
    <3>1. {1, 2} \union {0} = {0, 1, 2}
      OBVIOUS
    <3> QED BY <1>1, <3>1 DEF AnimTypes
  <2>7. Len(queue) <= MaxQueue
    BY <1>1 DEF AnimInv
  <2> QED BY <1>1, <1>4, <1>5, <2>1, <2>2, <2>3, <2>4, <2>5, <2>6, <2>7
          DEF A!TypeOK, AnimTypes, TextTypes
<1>7. A!ViewExact
  BY <1>3 DEF A!ViewExact, FixEntry
<1>8. ASSUME Careful
      PROVE  A!NoDangling /\ A!TextsExact /\ A!MoneyKept
  <2>1. \A s \in {"style1", "style2"} : TextKept(s)
    BY <1>1, <1>8 DEF TextInv
  <2>2. TimersHide /\ OnScreen
    BY <1>1 DEF TextInv
  <2>3. A!MoneyKept
    BY <1>1, <1>8 DEF MoneyInv, A!MoneyKept
  <2>4. A!NoDangling
    <3>1. \A s \in {"style1", "style2"} : gts[s] # None => ownDraws[gts[s]].owner = s
      BY <2>1 DEF TextKept
    <3>2. \A s \in {"style1", "style2"} :
            {h \in HideTimers : hideTimer[h].running /\ hideTimer[h].style = s} = {gtTimers[s]} \ {None}
      BY <1>1, <2>2, FixesAssumption DEF TimersHide, TextTypes
    <3>3. \A s \in {"style1", "style2"} : gtTimers[s] # None <=> gts[s] # None
      BY <2>2 DEF TimersHide
    <3>4. animationTimers = Len(queue)
      BY <1>1 DEF AnimInv
    <3>5. \A e \in A!Range(queue) : e.viewer # None /\ e.target # None => A!Alive(e.target)
      BY <1>3 DEF FixEntry, A!Alive
    <3> QED BY <1>5, <3>1, <3>2, <3>3, <3>4, <3>5 DEF A!NoDangling
  <2>5. A!TextsExact
    <3>1. drawScreen = [i \in {0, 1} |-> IF ownDraws[i].shown THEN ownDraws[i] ELSE A!NoDraw]
      BY <1>1, <2>2 DEF OnScreen, TextTypes
    <3>2. \A s \in {"style1", "style2"} :
            IF textAsked[s] # A!NoText
            THEN gts[s] # None /\ drawScreen[gts[s]] = A!Dressed(s, textAsked[s].text)
            ELSE gtTimers[s] # None => hideTimer[gtTimers[s]].left = 0
      <4> SUFFICES ASSUME NEW s \in {"style1", "style2"}
                   PROVE  IF textAsked[s] # A!NoText
                          THEN gts[s] # None /\ drawScreen[gts[s]] = A!Dressed(s, textAsked[s].text)
                          ELSE gtTimers[s] # None => hideTimer[gtTimers[s]].left = 0
        OBVIOUS
      <4>1. TextKept(s) /\ gts[s] \in {0, 1, None}
        BY <1>1, <2>1 DEF TextTypes
      <4>2. ASSUME textAsked[s] # A!NoText
            PROVE  gts[s] # None /\ drawScreen[gts[s]] = A!Dressed(s, textAsked[s].text)
        <5>1. gts[s] \in {0, 1} /\ ownDraws[gts[s]] = A!Dressed(s, textAsked[s].text)
          BY <4>1, <4>2 DEF TextKept
        <5>2. A!Dressed(s, textAsked[s].text).shown = TRUE
          BY DEF A!Dressed
        <5> QED BY <2>2, <4>1, <4>2, <5>1, <5>2 DEF OnScreen, TextKept
      <4> QED BY <4>1, <4>2 DEF TextKept
    <3> QED BY <1>5, <3>1, <3>2 DEF A!TextsExact
  <2> QED BY <2>3, <2>4, <2>5
<1> QED BY <1>6, <1>7, <1>8

LEMMA FixesStep == ASSUME FixInv, A!Next PROVE FixInv'
  BY FixesAnimations, FixesTexts, FixesMoney, FixesComesAndGoes
  DEF A!Next

-----------------------------------------------------------------------------
(* What players are like                                                    *)

\* A message to the client, and one of a chat bubble, which says how long.
AttrMessages == [how : {"set", "give", "reset"}, value : Int]
AttrBubbles  == [how : {"set"}, value : Int, time : 1 .. 2]

AttrSent == IF attribute = "chatBubble" THEN AttrBubbles ELSE AttrMessages

AttrTypes ==
    /\ attribute \in P!Attributes
    /\ clientVersion \in {"037", "03DL"}
    /\ serverValue \in Int /\ clientValue \in Int
    /\ toClient \in Seq(AttrSent) /\ Len(toClient) <= MaxWaiting
    /\ toServer \in Seq(Int) /\ Len(toServer) <= MaxReports
    /\ reported \in BOOLEAN /\ seated \in BOOLEAN
    /\ parachute \in BOOLEAN /\ inView \in BOOLEAN
    /\ expires \in 0 .. 2 /\ shows \in 0 .. 2

\* Only what clients report is reported, and nothing is sent of the bubble of a
\* player that is not in view.
AttrUnasked == attribute \notin P!Reported \union P!Both => toServer = <<>>
AttrUnseen == attribute = "chatBubble" /\ ~inView => toClient = <<>>

\* What was reported last is what the client has, if it was sent nothing since.
AttrKnown ==
    attribute \in P!Reported \union P!Both /\ toClient = <<>> /\ reported =>
        clientValue = IF toServer = <<>> THEN serverValue ELSE toServer[Len(toServer)]

\* The last bubble sent, or the one shown, is the server's and lasts as long.
AttrBubble ==
    attribute = "chatBubble" /\ inView /\ expires > 0 =>
        IF toClient = <<>> THEN shows >= expires /\ clientValue = serverValue
        ELSE /\ toClient[Len(toClient)].time >= expires
             /\ toClient[Len(toClient)].value = serverValue

AttributeInv ==
    AttrTypes /\ AttrUnasked /\ AttrUnseen /\ AttrKnown /\ AttrBubble /\ P!KeptExact

\* An attribute is of one kind.
LEMMA AttrApart ==
  /\ P!Kept \intersect (P!Reported \union P!Both \union P!Sent \union P!KeptHere
                          \union {"chatBubble", "virtualWorld", "money", "drunkLevel"}) = {}
  /\ (P!Reported \union P!Both \union P!Sent \union P!KeptHere)
       \intersect {"chatBubble", "virtualWorld"} = {}
  /\ "money" \in P!Both /\ "drunkLevel" \in P!Both /\ "position" \in P!Reported
<1>1. P!Kept = {"weather", "worldBounds", "widescreen", "clock", "time", "controllable",
                "lastPlayedSound", "lastPlayedAudio", "team", "gravity", "wantedLevel",
                "fightingStyle", "cameraPosition", "cameraLookAt", "shopName",
                "cameraTargeting", "defaultObjectsRemoved"}
  BY DEF P!Kept, P!KeptOfWorld, P!KeptOfScreen, P!KeptOfSelf, P!KeptOfSounds,
         P!KeptOfTeam, P!KeptGravity, P!KeptWanted, P!KeptFighting, P!KeptCamera,
         P!KeptShop, P!KeptTargeting, P!KeptObjects
<1>2. P!Reported = {"health", "armour", "action", "velocity", "interior", "position",
                    "rotation", "ammo", "armedWeapon"}
  BY DEF P!Reported, P!ReportedBody, P!ReportedMotion, P!ReportedInterior,
         P!ReportedPlace, P!ReportedAmmo
<1>3. P!Sent = {"worldTime", "stuntBonuses", "clientMessage", "chatMessage", "gameText",
                "explosion", "deathMessage", "cameraBehind", "interpolateCamera",
                "attachCamera", "mapIcon", "nameTag", "command", "classSelection",
                "vehicleCollisions", "clientCheck"}
  BY DEF P!Sent, P!SentOfWorld, P!SentMessages, P!SentDeaths, P!SentCamera,
         P!SentIcons, P!SentCommand, P!SentCollisions, P!SentCheck
<1>4. /\ P!Both = {"money", "drunkLevel"}
      /\ P!KeptHere = {"ghostMode", "allowTeleport", "rotTransform"}
  BY DEF P!Both, P!KeptHere
<1> QED BY <1>1, <1>2, <1>3, <1>4

\* What is added to what is on its way comes last.
LEMMA AttrSends ==
  ASSUME AttrTypes, NEW m \in AttrSent, toClient' = Append(toClient, m),
         Len(toClient) < MaxWaiting, attribute' = attribute
  PROVE  /\ toClient' \in Seq(AttrSent') /\ Len(toClient') <= MaxWaiting
         /\ toClient' # <<>> /\ toClient'[Len(toClient')] = m
         /\ Len(toClient') = Len(toClient) + 1 /\ Len(toClient) \in Nat
         /\ \A i \in 1 .. Len(toClient) : toClient'[i] = toClient[i]
         /\ DOMAIN toClient' = 1 .. Len(toClient') /\ DOMAIN toClient = 1 .. Len(toClient)
<1>1. AttrSent' = AttrSent /\ MaxWaiting \in Nat /\ toClient \in Seq(AttrSent)
  BY AttributesAssumption DEF AttrSent, AttrTypes
<1>2. Append(toClient, m) \in Seq(AttrSent)
  BY <1>1, AppendIs
<1> QED BY <1>1, <1>2, AppendIs

LEMMA AttributesInit == ASSUME P!Init PROVE AttributeInv
<1>1. toClient = <<>> /\ toServer = <<>> /\ toClient \in Seq(AttrSent) /\ toServer \in Seq(Int)
      /\ Len(toClient) = 0 /\ Len(toServer) = 0 /\ DOMAIN toClient = {}
  BY EmptySeq DEF P!Init
<1>2. AttrTypes
  <2>1. reported \in BOOLEAN /\ inView \in BOOLEAN
    BY Zenon DEF P!Init
  <2> QED BY <1>1, <2>1, AttributesAssumption DEF P!Init, AttrTypes
<1>3. AttrUnasked /\ AttrUnseen /\ AttrKnown /\ AttrBubble
  BY <1>1 DEF P!Init, AttrUnasked, AttrUnseen, AttrKnown, AttrBubble
<1>4. P!KeptExact
  BY <1>1 DEF P!Init, P!KeptExact
<1> QED BY <1>2, <1>3, <1>4 DEF AttributeInv

LEMMA AttributesStutter ==
  ASSUME AttributeInv, UNCHANGED <<players, attributesVars>>
  PROVE  AttributeInv'
  BY DEF attributesVars, AttributeInv, AttrTypes, AttrSent, AttrUnasked, AttrUnseen, AttrKnown,
         AttrBubble, P!KeptExact

\* One message more for the client, of an attribute that is not a bubble.
LEMMA AttributesTell ==
  ASSUME AttributeInv, NEW m \in AttrMessages, attribute # "chatBubble",
         Len(toClient) < MaxWaiting, toClient' = Append(toClient, m), P!Rest,
         serverValue' \in Int, UNCHANGED <<clientValue, toServer, reported>>,
         attribute \in P!Kept \/ attribute = "virtualWorld" =>
           m.how = "set" /\ serverValue' = m.value
  PROVE  AttributeInv'
<1>1. AttrTypes /\ m \in AttrSent /\ attribute' = attribute
  BY DEF AttributeInv, AttrSent, P!Rest
<1>2. /\ toClient' \in Seq(AttrSent') /\ Len(toClient') <= MaxWaiting
      /\ toClient' # <<>> /\ toClient'[Len(toClient')] = m
      /\ Len(toClient') = Len(toClient) + 1 /\ Len(toClient) \in Nat
      /\ \A i \in 1 .. Len(toClient) : toClient'[i] = toClient[i]
      /\ DOMAIN toClient' = 1 .. Len(toClient') /\ DOMAIN toClient = 1 .. Len(toClient)
  BY <1>1, AttrSends
<1>3. AttrTypes'
  BY <1>1, <1>2 DEF AttrTypes, P!Rest, P!bubble
<1>4. AttrUnasked' /\ AttrUnseen' /\ AttrKnown' /\ AttrBubble'
  BY <1>1, <1>2 DEF AttributeInv, AttrUnasked, AttrUnseen, AttrKnown, AttrBubble
<1>5. P!KeptExact'
  BY <1>1, <1>2 DEF AttributeInv, P!KeptExact, P!Rest
<1> QED BY <1>3, <1>4, <1>5 DEF AttributeInv

LEMMA AttributesSetKept ==
  ASSUME AttributeInv, NEW v \in P!Amounts, P!SetKept(v)
  PROVE  AttributeInv'
<1>1. /\ P!Tell("set", v) \in AttrMessages /\ v \in Int
      /\ P!Tell("set", v).how = "set" /\ P!Tell("set", v).value = v
  BY DEF AttrMessages, P!Tell, P!Amounts
<1>2. Len(toClient) < MaxWaiting /\ attribute # "chatBubble"
  BY AttrApart, AttributesAssumption, LenProperties
  DEF P!SetKept, P!Room, AttributeInv, AttrTypes
<1> QED BY <1>1, <1>2, AttributesTell DEF P!SetKept

LEMMA AttributesSetHere ==
  ASSUME AttributeInv, NEW v \in P!Amounts, P!SetHere(v)
  PROVE  AttributeInv'
<1>1. attribute \notin P!Kept \union P!Reported \union P!Both \union {"chatBubble", "virtualWorld"}
  <2>1. "ghostMode" \notin P!Reported \union P!Both /\ "allowTeleport" \notin P!Reported \union P!Both
        /\ "rotTransform" \notin P!Reported \union P!Both
    BY DEF P!Reported, P!ReportedBody, P!ReportedMotion, P!ReportedInterior,
           P!ReportedPlace, P!ReportedAmmo, P!Both
  <2> QED BY <2>1, AttrApart DEF P!SetHere, P!KeptHere
<1> QED
  BY <1>1
  DEF P!SetHere, P!Rest, P!bubble, P!Amounts, AttributeInv, AttrTypes, AttrSent,
      AttrUnasked, AttrUnseen, AttrKnown, AttrBubble, P!KeptExact

LEMMA AttributesSetReported ==
  ASSUME AttributeInv, NEW v \in P!Amounts, P!SetReported(v)
  PROVE  AttributeInv'
<1>1. P!Tell("set", v) \in AttrMessages
  BY DEF AttrMessages, P!Tell, P!Amounts
<1>2. /\ Len(toClient) < MaxWaiting /\ attribute \notin P!Kept \union {"chatBubble", "virtualWorld"}
      /\ serverValue' \in Int
  BY AttrApart, AttributesAssumption, LenProperties
  DEF P!SetReported, P!Room, AttributeInv, AttrTypes
<1> QED BY <1>1, <1>2, AttributesTell DEF P!SetReported

LEMMA AttributesSetPosition ==
  ASSUME AttributeInv, NEW v \in P!Amounts, P!SetPosition(v)
  PROVE  AttributeInv'
<1>1. P!Tell("set", v) \in AttrMessages
  BY DEF AttrMessages, P!Tell, P!Amounts
<1>2. /\ Len(toClient) < MaxWaiting /\ attribute = "position"
      /\ attribute \notin P!Kept \union {"chatBubble", "virtualWorld"}
      /\ attribute' = attribute /\ AttrTypes /\ P!Tell("set", v) \in AttrSent
      /\ toClient' = Append(toClient, P!Tell("set", v))
  BY <1>1, AttrApart, AttributesAssumption, LenProperties
  DEF P!SetPosition, P!Room, AttributeInv, AttrTypes, AttrSent
<1>3. /\ toClient' \in Seq(AttrSent') /\ Len(toClient') <= MaxWaiting
      /\ toClient' # <<>>
  BY <1>2, AttrSends
<1> QED
  BY <1>2, <1>3
  DEF P!SetPosition, P!bubble, AttributeInv, AttrTypes, AttrUnasked, AttrUnseen, AttrKnown,
      AttrBubble, P!KeptExact

LEMMA AttributesGiveMoney ==
  ASSUME AttributeInv, NEW n \in {-1, 1}, P!GiveMoney(n)
  PROVE  AttributeInv'
<1>1. P!Tell("give", n) \in AttrMessages
  BY DEF AttrMessages, P!Tell
<1>2. /\ Len(toClient) < MaxWaiting /\ attribute \notin P!Kept \union {"chatBubble", "virtualWorld"}
      /\ serverValue' \in Int
  BY AttrApart, AttributesAssumption, LenProperties
  DEF P!GiveMoney, P!Room, AttributeInv, AttrTypes
<1> QED BY <1>1, <1>2, AttributesTell DEF P!GiveMoney

LEMMA AttributesResetMoney ==
  ASSUME AttributeInv, P!ResetMoney
  PROVE  AttributeInv'
<1>1. P!Tell("reset", 0) \in AttrMessages
  BY DEF AttrMessages, P!Tell
<1>2. /\ Len(toClient) < MaxWaiting /\ attribute \notin P!Kept \union {"chatBubble", "virtualWorld"}
      /\ serverValue' \in Int
  BY AttrApart, AttributesAssumption, LenProperties
  DEF P!ResetMoney, P!Room, AttributeInv, AttrTypes
<1> QED BY <1>1, <1>2, AttributesTell DEF P!ResetMoney

LEMMA AttributesSetMoney ==
  ASSUME AttributeInv, NEW n \in P!Amounts, P!SetMoney(n)
  PROVE  AttributeInv'
<1> DEFINE two == <<P!Tell("reset", 0), P!Tell("give", n)>>
<1>1. P!Tell("reset", 0) \in AttrMessages /\ P!Tell("give", n) \in AttrMessages
  BY DEF AttrMessages, P!Tell, P!Amounts
<1>2. /\ attribute \notin P!Kept \union {"chatBubble", "virtualWorld"} /\ AttrTypes
      /\ attribute' = attribute /\ toClient \in Seq(AttrMessages)
      /\ Len(toClient) + 2 <= MaxWaiting /\ toClient' = toClient \o two
  BY AttrApart DEF P!SetMoney, P!Room, P!Rest, AttributeInv, AttrTypes, AttrSent
<1>3. two \in Seq(AttrMessages) /\ Len(two) = 2
  BY <1>1
<1> HIDE DEF two
<1>4. toClient' \in Seq(AttrMessages) /\ Len(toClient') = Len(toClient) + 2
      /\ Len(toClient) \in Nat
  BY <1>2, <1>3, ConcatProperties, LenProperties
<1>5. toClient' # <<>> /\ toClient' \in Seq(AttrSent') /\ Len(toClient') <= MaxWaiting
  BY <1>2, <1>4, EmptySeq DEF AttrSent
<1> QED
  BY <1>2, <1>5
  DEF P!SetMoney, P!Rest, P!bubble, P!Amounts, AttributeInv, AttrTypes, AttrUnasked, AttrUnseen, AttrKnown,
      AttrBubble, P!KeptExact

LEMMA AttributesSetVirtualWorld ==
  ASSUME AttributeInv, NEW v \in P!Amounts, P!SetVirtualWorld(v)
  PROVE  AttributeInv'
<1>1. /\ P!Tell("set", v) \in AttrMessages /\ v \in Int
      /\ P!Tell("set", v).how = "set" /\ P!Tell("set", v).value = v
  BY DEF AttrMessages, P!Tell, P!Amounts
<1>2. attribute = "virtualWorld"
      /\ attribute \notin P!Kept \union P!Reported \union P!Both \union {"chatBubble"}
  BY AttrApart DEF P!SetVirtualWorld
<1>3. CASE clientVersion = "037"
  BY <1>1, <1>2, <1>3
  DEF P!SetVirtualWorld, P!Rest, P!bubble, AttributeInv, AttrTypes, AttrSent,
      AttrUnasked, AttrUnseen, AttrKnown, AttrBubble, P!KeptExact
<1>4. CASE clientVersion # "037"
  <2>1. Len(toClient) < MaxWaiting
    BY <1>4, AttributesAssumption, LenProperties
    DEF P!SetVirtualWorld, P!Room, AttributeInv, AttrTypes
  <2> QED BY <1>1, <1>2, <1>4, <2>1, AttributesTell DEF P!SetVirtualWorld
<1> QED BY <1>3, <1>4

\* A bubble more for the client.
LEMMA AttributesShow ==
  ASSUME AttributeInv, attribute = "chatBubble", NEW v \in Int, NEW t \in 1 .. 2,
         Len(toClient) < MaxWaiting, toClient' = Append(toClient, P!Bubble(v, t)),
         serverValue' = v, expires' = t, inView' = TRUE,
         UNCHANGED <<attribute, clientVersion, clientValue, toServer, reported,
                     seated, parachute, shows>>
  PROVE  AttributeInv'
<1>1. /\ P!Bubble(v, t) \in AttrSent /\ AttrTypes
      /\ P!Bubble(v, t).value = v /\ P!Bubble(v, t).time = t
  BY DEF AttrSent, AttrBubbles, P!Bubble, AttributeInv
<1>2. /\ toClient' \in Seq(AttrSent') /\ Len(toClient') <= MaxWaiting
      /\ toClient' # <<>> /\ toClient'[Len(toClient')] = P!Bubble(v, t)
  BY <1>1, AttrSends
<1>3. attribute \notin P!Kept \union P!Reported \union P!Both
  BY AttrApart
<1> QED
  BY <1>1, <1>2, <1>3
  DEF AttributeInv, AttrTypes, AttrUnasked, AttrUnseen, AttrKnown, AttrBubble, P!KeptExact

LEMMA AttributesSetChatBubble ==
  ASSUME AttributeInv, NEW v \in P!Amounts, NEW t \in 1 .. 2, P!SetChatBubble(v, t)
  PROVE  AttributeInv'
<1>1. v \in Int /\ attribute = "chatBubble"
      /\ attribute \notin P!Kept \union P!Reported \union P!Both
  BY AttrApart DEF P!Amounts, P!SetChatBubble
<1>2. CASE inView
  <2>1. Len(toClient) < MaxWaiting
    BY <1>2, AttributesAssumption, LenProperties
    DEF P!SetChatBubble, P!Room, AttributeInv, AttrTypes
  <2> QED BY <1>1, <1>2, <2>1, AttributesShow DEF P!SetChatBubble
<1>3. CASE ~inView
  BY <1>1, <1>3
  DEF P!SetChatBubble, AttributeInv, AttrTypes, AttrSent, AttrUnasked, AttrUnseen, AttrKnown,
      AttrBubble, P!KeptExact
<1> QED BY <1>2, <1>3

LEMMA AttributesStreamIn ==
  ASSUME AttributeInv, P!StreamIn
  PROVE  AttributeInv'
<1>1. attribute = "chatBubble" /\ toClient = <<>> /\ Len(toClient) = 0
      /\ attribute \notin P!Kept \union P!Reported \union P!Both
  BY AttrApart, EmptySeq DEF P!StreamIn, AttributeInv, AttrUnseen
<1>2. CASE expires > 0
  <2>1. expires \in 1 .. 2 /\ serverValue \in Int
    BY <1>2 DEF AttributeInv, AttrTypes
  <2> QED BY <1>1, <1>2, <2>1, AttributesShow, AttributesAssumption DEF P!StreamIn
<1>3. CASE ~(expires > 0)
  BY <1>1, <1>3
  DEF P!StreamIn, AttributeInv, AttrTypes, AttrSent, AttrUnasked, AttrUnseen, AttrKnown, AttrBubble,
      P!KeptExact
<1> QED BY <1>2, <1>3

LEMMA AttributesStreamOut ==
  ASSUME AttributeInv, P!StreamOut
  PROVE  AttributeInv'
<1>1. attribute \notin P!Kept \union P!Reported \union P!Both
  BY AttrApart DEF P!StreamOut
<1>2. AttrTypes'
  <2>1. inView' \in BOOLEAN
    BY Zenon DEF P!StreamOut
  <2> QED BY <2>1 DEF P!StreamOut, AttributeInv, AttrTypes, AttrSent
<1> QED
  BY <1>1, <1>2
  DEF P!StreamOut, AttributeInv, AttrUnasked, AttrUnseen, AttrKnown, AttrBubble,
      P!KeptExact

\* A time that runs ends at nothing.
LEMMA TimeLeft ==
  ASSUME NEW n \in 0 .. 2
  PROVE  P!Max({n - 1, 0}) = IF n > 0 THEN n - 1 ELSE 0
<1> DEFINE left == IF n > 0 THEN n - 1 ELSE 0
<1>1. left \in {n - 1, 0} /\ \A y \in {n - 1, 0} : left >= y
  OBVIOUS
<1>2. \A x \in {n - 1, 0} : (\A y \in {n - 1, 0} : x >= y) => x = left
  OBVIOUS
<1> HIDE DEF left
<1>3. P!Max({n - 1, 0}) = left
  BY <1>1, <1>2 DEF P!Max
<1> QED BY <1>3 DEF left

LEMMA AttributesPass ==
  ASSUME AttributeInv, P!Pass
  PROVE  AttributeInv'
<1>1. attribute \notin P!Kept \union P!Reported \union P!Both /\ attribute = "chatBubble"
  BY AttrApart DEF P!Pass
<1>2. /\ expires \in 0 .. 2 /\ shows \in 0 .. 2
      /\ expires' = IF expires > 0 THEN expires - 1 ELSE 0
      /\ shows' = IF shows > 0 THEN shows - 1 ELSE 0
  BY TimeLeft DEF P!Pass, AttributeInv, AttrTypes
<1>3. AttrTypes' /\ AttrUnasked' /\ AttrUnseen' /\ AttrKnown' /\ P!KeptExact'
  BY <1>1, <1>2
  DEF P!Pass, AttributeInv, AttrTypes, AttrSent, AttrUnasked, AttrUnseen, AttrKnown, P!KeptExact
<1>4. CASE toClient = <<>>
  BY <1>1, <1>2, <1>3, <1>4 DEF P!Pass, AttributeInv, AttrBubble
<1>5. CASE toClient # <<>>
  <2>1. toClient[Len(toClient)] \in AttrBubbles
    BY <1>1, <1>5, EmptySeq, LenProperties, ElementOfSeq DEF AttributeInv, AttrTypes, AttrSent
  <2>2. toClient[Len(toClient)].time \in 1 .. 2
    BY <2>1 DEF AttrBubbles
  <2> QED BY <1>1, <1>2, <1>3, <1>5, <2>2 DEF P!Pass, AttributeInv, AttrBubble
<1> QED BY <1>4, <1>5

LEMMA AttributesTake ==
  ASSUME AttributeInv, P!Take
  PROVE  AttributeInv'
<1> DEFINE h == Head(toClient)
<1>1. /\ toClient \in Seq(AttrSent) /\ toClient # <<>> /\ AttrTypes
      /\ attribute' = attribute /\ AttrSent' = AttrSent
      /\ toClient' = Tail(toClient) /\ clientValue' = P!Taken(clientValue, h)
      /\ reported' = (attribute \notin P!Reported \union P!Both)
      /\ shows' = IF attribute = "chatBubble" THEN h.time ELSE shows
      /\ UNCHANGED <<clientVersion, serverValue, toServer, seated, parachute, inView, expires>>
  BY DEF AttributeInv, AttrTypes, AttrSent, P!Take
<1>2. /\ toClient' \in Seq(AttrSent') /\ Len(toClient') = Len(toClient) - 1
      /\ Len(toClient) \in Nat \ {0} /\ h = toClient[1] /\ h \in AttrSent
      /\ \A i \in 1 .. Len(toClient') : toClient'[i] = toClient[i + 1] /\ i + 1 \in 1 .. Len(toClient)
      /\ DOMAIN toClient' = 1 .. Len(toClient') /\ DOMAIN toClient = 1 .. Len(toClient)
      /\ (toClient' = <<>> <=> Len(toClient) = 1)
  <2>1. /\ Tail(toClient) \in Seq(AttrSent) /\ Len(Tail(toClient)) = Len(toClient) - 1
        /\ Len(toClient) \in Nat \ {0} /\ h = toClient[1] /\ toClient[1] \in AttrSent
        /\ \A i \in 1 .. Len(Tail(toClient)) :
             Tail(toClient)[i] = toClient[i + 1] /\ i + 1 \in 1 .. Len(toClient)
    BY <1>1, TailIs
  <2>2. /\ DOMAIN Tail(toClient) = 1 .. Len(Tail(toClient))
        /\ DOMAIN toClient = 1 .. Len(toClient)
        /\ (Tail(toClient) = <<>> <=> Len(Tail(toClient)) = 0)
    BY <1>1, <2>1, EmptySeq, LenProperties
  <2> QED BY <1>1, <2>1, <2>2
<1> HIDE DEF h
<1>3. /\ clientValue' \in Int /\ (h.how = "set" => clientValue' = h.value)
      /\ attribute = "chatBubble" => h.how = "set" /\ h.time \in 1 .. 2
  <2>1. CASE attribute = "chatBubble"
    BY <1>1, <1>2, <2>1 DEF AttrSent, AttrBubbles, P!Taken, AttrTypes
  <2>2. CASE attribute # "chatBubble"
    <3>1. h \in AttrMessages
      BY <1>2, <2>2 DEF AttrSent
    <3>2. h.how \in {"set", "give", "reset"} /\ h.value \in Int
      BY <3>1 DEF AttrMessages
    <3> QED BY <1>1, <2>2, <3>2 DEF P!Taken, AttrTypes
  <2> QED BY <2>1, <2>2
<1>4. AttrTypes'
  BY <1>1, <1>2, <1>3, AttributesAssumption DEF AttrTypes
<1>5. AttrUnasked' /\ AttrUnseen' /\ AttrKnown'
  BY <1>1 DEF AttributeInv, AttrUnasked, AttrUnseen, AttrKnown
<1>6. P!KeptExact'
  BY <1>1, <1>2, <1>3 DEF AttributeInv, P!KeptExact
<1>7. AttrBubble'
  BY <1>1, <1>2, <1>3 DEF AttributeInv, AttrBubble
<1> QED BY <1>4, <1>5, <1>6, <1>7 DEF AttributeInv

LEMMA AttributesChange ==
  ASSUME AttributeInv, NEW v \in P!Amounts, P!Change(v)
  PROVE  AttributeInv'
<1>1. attribute \notin P!Kept \union {"virtualWorld", "chatBubble"}
  BY AttrApart DEF P!Change
<1>2. AttrTypes'
  <2>1. reported' \in BOOLEAN
    BY Zenon DEF P!Change
  <2> QED BY <2>1 DEF P!Change, P!Rest, P!bubble, P!Amounts, AttributeInv, AttrTypes, AttrSent
<1> QED
  BY <1>1, <1>2
  DEF P!Change, P!Rest, P!bubble, AttributeInv, AttrUnasked, AttrUnseen, AttrKnown,
      AttrBubble, P!KeptExact

LEMMA AttributesReport ==
  ASSUME AttributeInv, P!Report
  PROVE  AttributeInv'
<1>1. attribute \notin P!Kept \union {"virtualWorld", "chatBubble"}
  BY AttrApart DEF P!Report
<1>2. /\ toServer' \in Seq(Int) /\ Len(toServer') <= MaxReports
      /\ toServer' # <<>> /\ toServer'[Len(toServer')] = clientValue
  BY AppendIs, AttributesAssumption DEF P!Report, AttributeInv, AttrTypes
<1> QED
  BY <1>1, <1>2
  DEF P!Report, P!Rest, P!bubble, AttributeInv, AttrTypes, AttrSent, AttrUnasked, AttrUnseen,
      AttrKnown, AttrBubble, P!KeptExact

LEMMA AttributesOnReport ==
  ASSUME AttributeInv, P!OnReport
  PROVE  AttributeInv'
<1>1. attribute \notin P!Kept \union {"virtualWorld", "chatBubble"}
  BY AttrApart DEF P!OnReport, AttributeInv, AttrUnasked
<1>2. /\ toServer \in Seq(Int) /\ toServer # <<>> /\ toServer' = Tail(toServer)
      /\ serverValue' = Head(toServer)
  BY DEF P!OnReport, AttributeInv, AttrTypes
<1>3. /\ toServer' \in Seq(Int) /\ Len(toServer') = Len(toServer) - 1
      /\ Len(toServer) \in Nat \ {0} /\ serverValue' = toServer[1] /\ toServer[1] \in Int
      /\ \A i \in 1 .. Len(toServer') : toServer'[i] = toServer[i + 1]
      /\ (toServer' = <<>> <=> Len(toServer) = 1)
  <2>1. /\ Tail(toServer) \in Seq(Int) /\ Len(Tail(toServer)) = Len(toServer) - 1
        /\ Len(toServer) \in Nat \ {0} /\ Head(toServer) = toServer[1] /\ toServer[1] \in Int
        /\ \A i \in 1 .. Len(Tail(toServer)) : Tail(toServer)[i] = toServer[i + 1]
    BY <1>2, TailIs
  <2>2. Tail(toServer) = <<>> <=> Len(Tail(toServer)) = 0
    BY <2>1, EmptySeq
  <2> QED BY <1>2, <2>1, <2>2
<1>4. AttrTypes'
  BY <1>2, <1>3, AttributesAssumption
  DEF P!OnReport, P!Rest, P!bubble, AttributeInv, AttrTypes, AttrSent
<1>5. AttrKnown'
  BY <1>2, <1>3 DEF P!OnReport, P!Rest, AttributeInv, AttrKnown
<1> QED
  BY <1>1, <1>4, <1>5
  DEF P!OnReport, P!Rest, P!bubble, AttributeInv, AttrUnasked, AttrUnseen,
      AttrBubble, P!KeptExact

LEMMA AttributesImply ==
  ASSUME AttributeInv
  PROVE  P!TypeOK /\ P!KeptExact /\ P!ReportedExact /\ P!BubbleSeen
<1>1. Len(toClient) \in 0 .. MaxWaiting /\ Len(toServer) \in 0 .. MaxReports
  BY LenProperties, AttributesAssumption DEF AttributeInv, AttrTypes
<1>2. \A i \in DOMAIN toClient : toClient[i].how \in {"set", "give", "reset"}
  <2>1. \A i \in DOMAIN toClient : toClient[i] \in AttrSent
    BY ElementOfSeq, LenProperties DEF AttributeInv, AttrTypes
  <2>2. \A m \in AttrSent : m.how \in {"set", "give", "reset"}
    BY DEF AttrSent, AttrMessages, AttrBubbles
  <2> QED BY <2>1, <2>2
<1>3. P!TypeOK
  BY <1>1, <1>2 DEF AttributeInv, AttrTypes, P!TypeOK
<1>4. P!KeptExact /\ P!ReportedExact /\ P!BubbleSeen
  BY DEF AttributeInv, AttrKnown, AttrBubble, P!ReportedExact, P!BubbleSeen
<1> QED BY <1>3, <1>4

LEMMA AttributesStep == ASSUME AttributeInv, P!Next PROVE AttributeInv'
  BY AttributesSetKept, AttributesSetHere, AttributesSetReported, AttributesSetPosition,
     AttributesGiveMoney, AttributesResetMoney, AttributesSetMoney,
     AttributesSetVirtualWorld, AttributesSetChatBubble, AttributesStreamIn,
     AttributesStreamOut, AttributesPass, AttributesTake, AttributesChange,
     AttributesReport, AttributesOnReport
  DEF P!Next

-----------------------------------------------------------------------------
(* Weapons                                                                  *)

\* What is sent of weapons: a slot to have, or that all are dropped.
WeaponOrders == Slots \union {"reset"}

WeaponTypes ==
    /\ players \subseteq Alone
    /\ interiorWeapons \in BOOLEAN
    /\ allow \in [Alone -> BOOLEAN]
    /\ interior \in [Alone -> {0, 1}]
    /\ record \in [Alone -> SUBSET Slots]
    /\ hands \in [Alone -> SUBSET Slots]
    /\ place \in [Alone -> {0, 1}]
    /\ down \in [Alone -> Seq(WeaponOrders)]
    /\ \A p \in Alone : Len(down[p]) <= MaxQueue + Cardinality(Slots)
    /\ unsaid \in [Alone -> BOOLEAN]
    /\ weaponsUpdate \in [Alone -> (SUBSET Slots) \union {None}]
    /\ entering \in [Alone -> {0, 1, None}]
    /\ owned \in [Alone -> SUBSET Slots]
    /\ crossed \subseteq players

\* The slots that are not taken are outside.
WeaponsApart == \A p \in Alone \ players : interior[p] = 0

\* A slot is given by what is on its way and not dropped again; it ends in the
\* client's hands; what is on its way changes nothing.
Given(s, rpcs) == \E i \in 1 .. Len(rpcs) :
    rpcs[i] = s /\ \A j \in 1 .. Len(rpcs) : j > i => rpcs[j] # "reset"

Comes(s, weapons, rpcs) ==
    \/ Given(s, rpcs)
    \/ s \in weapons /\ \A j \in 1 .. Len(rpcs) : rpcs[j] # "reset"

Quiet(weapons, rpcs) == \A i \in 1 .. Len(rpcs) : W!Held(weapons, rpcs[i]) = weapons

WeaponUnarmed(p) == ~W!AreWeaponsAllowed(p) =>
    IF down[p] = <<>> THEN hands[p] = {} ELSE down[p][Len(down[p])] = "reset"

\* The update on its way is what a client has, if it has nothing more to say.
WeaponSaid(p) == ~unsaid[p] /\ weaponsUpdate[p] # None => weaponsUpdate[p] = hands[p]

\* And if nothing on its way will give it more to say, it has what is recorded.
WeaponRecorded(p) ==
    /\ W!AreWeaponsAllowed(p) /\ ~unsaid[p] /\ weaponsUpdate[p] = None
    /\ Quiet(hands[p], down[p])
    => record[p] = hands[p]

\* What is a player's will be in its hands, or is in the record.
WeaponOwned(p) == p \notin crossed => \A s \in owned[p] :
    IF W!AreWeaponsAllowed(p) THEN Comes(s, hands[p], down[p]) ELSE s \in record[p]

WeaponsFollow(p) ==
    WeaponUnarmed(p) /\ WeaponSaid(p) /\ WeaponRecorded(p) /\ WeaponOwned(p)

WeaponInv ==
    /\ WeaponTypes
    /\ WeaponsApart
    /\ Careful => \A p \in Alone : WeaponsFollow(p)

\* Of whom an action is not, what was so stays so.
LEMMA WeaponsOther ==
  ASSUME NEW p \in Alone, WeaponsFollow(p),
         allow'[p] = allow[p], interior'[p] = interior[p], record'[p] = record[p],
         hands'[p] = hands[p], down'[p] = down[p], unsaid'[p] = unsaid[p],
         weaponsUpdate'[p] = weaponsUpdate[p], owned'[p] = owned[p],
         interiorWeapons' = interiorWeapons, p \in crossed' <=> p \in crossed
  PROVE  WeaponsFollow(p)'
<1>1. W!AreWeaponsAllowed(p)' <=> W!AreWeaponsAllowed(p)
  BY DEF W!AreWeaponsAllowed
<1>2. WeaponUnarmed(p)' /\ WeaponSaid(p)'
  BY <1>1 DEF WeaponsFollow, WeaponUnarmed, WeaponSaid
<1>3. WeaponRecorded(p)'
  BY <1>1 DEF WeaponsFollow, WeaponRecorded, Quiet, W!Held
<1>4. WeaponOwned(p)'
  BY <1>1 DEF WeaponsFollow, WeaponOwned, Comes, Given
<1> QED BY <1>2, <1>3, <1>4 DEF WeaponsFollow

\* When nothing is under way, the record is up to date.
LEMMA WeaponsSettled ==
  ASSUME WeaponTypes, NEW p \in Alone, WeaponsFollow(p), W!Settled(p)
  PROVE  /\ W!AreWeaponsAllowed(p) => record[p] = hands[p]
         /\ p \notin crossed => owned[p] \subseteq record[p]
<1>1. down[p] = <<>> /\ weaponsUpdate[p] = None /\ ~unsaid[p] /\ Len(down[p]) = 0
  BY EmptySeq DEF W!Settled
<1>2. W!AreWeaponsAllowed(p) => record[p] = hands[p]
  BY <1>1 DEF WeaponsFollow, WeaponRecorded, Quiet
<1>3. p \notin crossed => owned[p] \subseteq record[p]
  BY <1>1, <1>2 DEF WeaponsFollow, WeaponOwned, Comes, Given
<1> QED BY <1>2, <1>3

\* What comes of a queue to which something is added.
LEMMA WeaponsSent ==
  ASSUME NEW d \in Seq(WeaponOrders), NEW r \in Seq(WeaponOrders), r # <<>>, NEW h
  PROVE  /\ d \o r \in Seq(WeaponOrders) /\ d \o r # <<>>
         /\ Len(d \o r) = Len(d) + Len(r) /\ Len(d) \in Nat /\ Len(r) \in Nat \ {0}
         /\ (d \o r)[Len(d \o r)] = r[Len(r)]
         /\ Quiet(h, d \o r) => Quiet(h, d) /\ Quiet(h, r)
         /\ \A s : Given(s, r) => Comes(s, h, d \o r)
         /\ \A s : Comes(s, h, d) /\ (\A j \in 1 .. Len(r) : r[j] # "reset")
                   => Comes(s, h, d \o r)
<1> DEFINE e == d \o r
<1>1. /\ e \in Seq(WeaponOrders) /\ Len(e) = Len(d) + Len(r) /\ Len(d) \in Nat
      /\ Len(r) \in Nat \ {0} /\ e # <<>>
      /\ \A i \in 1 .. Len(d) + Len(r) : e[i] = IF i <= Len(d) THEN d[i] ELSE r[i - Len(d)]
  BY ConcatProperties, EmptySeq, LenProperties
<1> HIDE DEF e
<1>2. /\ \A i \in 1 .. Len(d) : i \in 1 .. Len(e) /\ e[i] = d[i]
      /\ \A i \in 1 .. Len(r) : i + Len(d) \in 1 .. Len(e) /\ e[i + Len(d)] = r[i]
      /\ \A i \in 1 .. Len(e) : i \in 1 .. Len(d) \/ i - Len(d) \in 1 .. Len(r)
      /\ \A i \in 1 .. Len(e) : i - Len(d) \in 1 .. Len(r) => e[i] = r[i - Len(d)]
  <2> DEFINE n == Len(r)  m == Len(d)  k == Len(e)
  <2>1. /\ n \in Nat /\ m \in Nat /\ k = m + n
        /\ \A i \in 1 .. m + n : e[i] = IF i <= m THEN d[i] ELSE r[i - m]
    BY <1>1
  <2> HIDE DEF n, m, k
  <2>2. \A i \in 1 .. m : i \in 1 .. k /\ e[i] = d[i]
    BY <2>1
  <2>3. \A i \in 1 .. n : i + m \in 1 .. k /\ ~(i + m <= m) /\ i + m - m = i
    BY <2>1
  <2>4. \A i \in 1 .. n : i + m \in 1 .. k /\ e[i + m] = r[i]
    BY <2>1, <2>3
  <2>5. /\ \A i \in 1 .. k : i \in 1 .. m \/ i - m \in 1 .. n
        /\ \A i \in 1 .. k : i - m \in 1 .. n => e[i] = r[i - m]
    BY <2>1
  <2> QED BY <2>2, <2>4, <2>5 DEF n, m, k
<1>3. e[Len(e)] = r[Len(r)]
  <2> DEFINE n == Len(r)  m == Len(d)
  <2>1. n \in Nat \ {0} /\ m \in Nat /\ Len(e) = m + n
    BY <1>1
  <2> HIDE DEF n, m
  <2>2. n \in 1 .. n /\ Len(e) = n + m
    BY <2>1
  <2> QED BY <1>2, <2>2 DEF n, m
<1>4. Quiet(h, e) => Quiet(h, d) /\ Quiet(h, r)
  BY <1>2 DEF Quiet
<1>5. ASSUME NEW s, Given(s, r)
      PROVE  Comes(s, h, e)
  <2> PICK i \in 1 .. Len(r) :
        r[i] = s /\ \A j \in 1 .. Len(r) : j > i => r[j] # "reset"
    BY <1>5 DEF Given
  <2>1. i + Len(d) \in 1 .. Len(e) /\ e[i + Len(d)] = s
    BY <1>2
  <2>2. ASSUME NEW j \in 1 .. Len(e), j > i + Len(d)
        PROVE  e[j] # "reset"
    <3>1. j - Len(d) \in 1 .. Len(r) /\ j - Len(d) > i
      BY <1>1, <1>2, <2>2
    <3> QED BY <1>2, <3>1
  <2> QED BY <2>1, <2>2 DEF Comes, Given
<1>6. ASSUME NEW s, Comes(s, h, d), \A j \in 1 .. Len(r) : r[j] # "reset"
      PROVE  Comes(s, h, e)
  <2>1. CASE s \in h /\ \A j \in 1 .. Len(d) : d[j] # "reset"
    <3>1. \A j \in 1 .. Len(e) : e[j] # "reset"
      BY <1>2, <1>6, <2>1
    <3> QED BY <2>1, <3>1 DEF Comes
  <2>2. ASSUME NEW i \in 1 .. Len(d), d[i] = s,
               \A j \in 1 .. Len(d) : j > i => d[j] # "reset"
        PROVE  Comes(s, h, e)
    <3>1. i \in 1 .. Len(e) /\ e[i] = s
      BY <1>2, <2>2
    <3>2. \A j \in 1 .. Len(e) : j > i => e[j] # "reset"
      BY <1>2, <1>6, <2>2
    <3> QED BY <3>1, <3>2 DEF Comes, Given
  <2> QED BY <1>6, <2>1, <2>2 DEF Comes, Given
<1> QED BY <1>1, <1>3, <1>4, <1>5, <1>6 DEF e

\* One order is a queue.
LEMMA WeaponsOne ==
  ASSUME NEW x \in WeaponOrders
  PROVE  /\ <<x>> \in Seq(WeaponOrders) /\ <<x>> # <<>> /\ Len(<<x>>) = 1
         /\ <<x>>[1] = x /\ <<x>>[Len(<<x>>)] = x
  OBVIOUS

\* The slots of a record, each of them once.
LEMMA SlotsInTurn ==
  ASSUME NEW w \in SUBSET Slots
  PROVE  /\ W!SetToSeq(w) \in Seq(w) /\ Len(W!SetToSeq(w)) = Cardinality(w)
         /\ Cardinality(w) \in Nat /\ Cardinality(w) <= Cardinality(Slots)
         /\ Cardinality(Slots) \in Nat
         /\ \A s \in w : \E i \in 1 .. Cardinality(w) : W!SetToSeq(w)[i] = s
<1>1. /\ IsFiniteSet(w) /\ Cardinality(w) <= Cardinality(Slots)
      /\ Cardinality(w) \in Nat /\ Cardinality(Slots) \in Nat
      /\ ExistsBijection(1 .. Cardinality(w), w)
  BY FS_Subset, FS_CardinalityType, WeaponsAssumption
<1>2. \E f \in [1 .. Cardinality(w) -> w] : W!IsInjective(f)
  BY <1>1 DEF ExistsBijection, Bijection, Injection, IsInjective, W!IsInjective
<1>3. W!SetToSeq(w) = CHOOSE f \in [1 .. Cardinality(w) -> w] : W!IsInjective(f)
  BY DEF W!SetToSeq, W!Cardinality, Cardinality
<1> DEFINE f == W!SetToSeq(w)
<1>4. f \in [1 .. Cardinality(w) -> w] /\ W!IsInjective(f)
  BY <1>2, <1>3
<1> HIDE DEF f
<1>5. f \in Seq(w) /\ Len(f) = Cardinality(w)
  BY <1>1, <1>4
<1>6. f \in Injection(1 .. Cardinality(w), w)
  BY <1>4 DEF Injection, IsInjective, W!IsInjective
<1>7. Cardinality(1 .. Cardinality(w)) = Cardinality(w)
  BY <1>1, FS_Interval
<1>8. f \in Surjection(1 .. Cardinality(w), w)
  BY <1>1, <1>6, <1>7, FS_Injection
<1>9. \A s \in w : \E i \in 1 .. Cardinality(w) : f[i] = s
  BY <1>8 DEF Surjection
<1> QED BY <1>1, <1>5, <1>9 DEF f

\* All are dropped, and those of a record given again.
Back(w) == <<"reset">> \o W!SetToSeq(w)

LEMMA WeaponsRestored ==
  ASSUME NEW w \in SUBSET Slots
  PROVE  /\ Back(w) \in Seq(WeaponOrders) /\ Back(w) # <<>>
         /\ Len(Back(w)) <= 1 + Cardinality(Slots)
         /\ \A h : Quiet(h, Back(w)) => h = {} /\ w = {}
         /\ \A s \in w : Given(s, Back(w))
<1> DEFINE one == <<"reset">>  all == W!SetToSeq(w)  r == Back(w)
<1>1. /\ all \in Seq(w) /\ all \in Seq(WeaponOrders) /\ Len(all) = Cardinality(w)
      /\ Cardinality(w) \in Nat /\ Cardinality(w) <= Cardinality(Slots)
      /\ Cardinality(Slots) \in Nat
      /\ \A s \in w : \E i \in 1 .. Len(all) : all[i] = s
      /\ \A i \in 1 .. Len(all) : all[i] \in w
  <2>1. /\ all \in Seq(w) /\ Len(all) = Cardinality(w)
        /\ Cardinality(w) \in Nat /\ Cardinality(w) <= Cardinality(Slots)
        /\ Cardinality(Slots) \in Nat
        /\ \A s \in w : \E i \in 1 .. Cardinality(w) : all[i] = s
    BY SlotsInTurn
  <2> HIDE DEF all
  <2>2. \A i \in 1 .. Len(all) : all[i] \in w
    BY <2>1, ElementOfSeq
  <2>3. all \in Seq(WeaponOrders)
    BY <2>1, SeqMonotonic DEF WeaponOrders
  <2> QED BY <2>1, <2>2, <2>3
<1>2. one \in Seq(WeaponOrders) /\ Len(one) = 1 /\ one[1] = "reset"
  BY WeaponsOne DEF WeaponOrders
<1>3. r = one \o all
  BY DEF Back
<1> HIDE DEF one, all, r
<1>4. /\ r \in Seq(WeaponOrders) /\ Len(r) = 1 + Len(all) /\ r[1] = "reset" /\ 1 \in 1 .. Len(r)
      /\ \A i \in 1 .. Len(all) : r[i + 1] = all[i] /\ i + 1 \in 1 .. Len(r)
      /\ \A i \in 1 .. Len(r) : i > 1 => i - 1 \in 1 .. Len(all) /\ r[i] = all[i - 1]
  <2>1. /\ one \o all \in Seq(WeaponOrders) /\ Len(one \o all) = Len(one) + Len(all)
        /\ \A i \in 1 .. Len(one) + Len(all) :
             (one \o all)[i] = IF i <= Len(one) THEN one[i] ELSE all[i - Len(one)]
    BY <1>1, <1>2, ConcatProperties
  <2>2. r \in Seq(WeaponOrders) /\ Len(r) = 1 + Len(all) /\ Len(all) \in Nat
    BY <1>1, <1>2, <1>3, <2>1
  <2>3. \A i \in 1 .. 1 + Len(all) : r[i] = IF i <= 1 THEN one[i] ELSE all[i - 1]
    BY <1>2, <1>3, <2>1
  <2> QED BY <1>2, <2>2, <2>3
<1>5. r # <<>>
  BY <1>1, <1>4, EmptySeq
<1>6. ASSUME NEW h, Quiet(h, r)
      PROVE  h = {} /\ w = {}
  <2>1. h = {}
    BY <1>4, <1>6 DEF Quiet, W!Held
  <2>2. ASSUME NEW s \in w PROVE FALSE
    <3>1. PICK i \in 1 .. Len(all) : all[i] = s
      BY <1>1
    <3>2. W!Held(h, s) = h
      BY <1>4, <1>6, <3>1 DEF Quiet
    <3> QED BY <2>1, <2>2, <3>2, WeaponsAssumption DEF W!Held
  <2> QED BY <2>1, <2>2
<1>7. ASSUME NEW s \in w
      PROVE  Given(s, r)
  <2>1. PICK i \in 1 .. Len(all) : all[i] = s
    BY <1>1
  <2>2. i + 1 \in 1 .. Len(r) /\ r[i + 1] = s
    BY <1>4, <2>1
  <2>3. ASSUME NEW j \in 1 .. Len(r), j > i + 1 PROVE r[j] # "reset"
    BY <1>1, <1>4, <2>3, WeaponsAssumption
  <2> QED BY <2>2, <2>3 DEF Given
<1>8. Len(r) <= 1 + Cardinality(Slots)
  BY <1>1, <1>4
<1> QED BY <1>4, <1>5, <1>6, <1>7, <1>8 DEF r

\* An action of one player keeps the invariant if it does so for that player.
LEMMA WeaponsFor ==
  ASSUME WeaponInv, NEW p \in Alone, WeaponTypes',
         interiorWeapons' = interiorWeapons,
         \A q \in Alone \ {p} :
           /\ q \in players' <=> q \in players
           /\ q \in crossed' <=> q \in crossed
           /\ allow'[q] = allow[q] /\ interior'[q] = interior[q]
           /\ record'[q] = record[q] /\ hands'[q] = hands[q]
           /\ down'[q] = down[q] /\ unsaid'[q] = unsaid[q]
           /\ weaponsUpdate'[q] = weaponsUpdate[q] /\ owned'[q] = owned[q],
         p \notin players' => interior'[p] = 0,
         Careful => WeaponsFollow(p)'
  PROVE  WeaponInv'
<1>1. WeaponsApart'
  BY DEF WeaponInv, WeaponsApart
<1>2. ASSUME Careful, NEW q \in Alone
      PROVE  WeaponsFollow(q)'
  <2>1. CASE q = p
    BY <1>2, <2>1
  <2>2. CASE q # p
    <3>1. WeaponsFollow(q)
      BY <1>2 DEF WeaponInv
    <3> QED BY <2>2, <3>1, WeaponsOther
  <2> QED BY <2>1, <2>2
<1> QED BY <1>1, <1>2, WeaponsAssumption DEF WeaponInv

\* Something is sent to a client, and its queue is not full.
LEMMA WeaponsSendTo ==
  ASSUME WeaponTypes, NEW p \in Alone, W!Ready(p), NEW r \in Seq(WeaponOrders),
         Len(r) <= 1 + Cardinality(Slots), r # <<>>, W!Send(p, r)
  PROVE  /\ down' \in [Alone -> Seq(WeaponOrders)]
         /\ \A q \in Alone : Len(down'[q]) <= MaxQueue + Cardinality(Slots)
         /\ down'[p] = down[p] \o r /\ down[p] \in Seq(WeaponOrders)
         /\ \A q \in Alone \ {p} : down'[q] = down[q]
<1>1. /\ down \in [Alone -> Seq(WeaponOrders)] /\ down' = [down EXCEPT ![p] = @ \o r]
      /\ Len(down[p]) < MaxQueue /\ down[p] \in Seq(WeaponOrders)
      /\ \A q \in Alone : Len(down[q]) <= MaxQueue + Cardinality(Slots)
  BY DEF WeaponTypes, W!Send, W!Ready
<1>2. /\ down[p] \o r \in Seq(WeaponOrders) /\ Len(down[p] \o r) = Len(down[p]) + Len(r)
      /\ Len(down[p]) \in Nat /\ Len(r) \in Nat
  BY <1>1, ConcatProperties, LenProperties
<1>3. Cardinality(Slots) \in Nat /\ MaxQueue \in Nat
  BY FS_CardinalityType, WeaponsAssumption
<1>4. Len(down[p] \o r) <= MaxQueue + Cardinality(Slots)
  BY <1>1, <1>2, <1>3
<1>5. down'[p] = down[p] \o r /\ \A q \in Alone \ {p} : down'[q] = down[q]
  BY <1>1
<1>6. down' \in [Alone -> Seq(WeaponOrders)]
  BY <1>1, <1>2
<1> QED BY <1>1, <1>4, <1>5, <1>6

\* The queue's bound and one order of each kind.
LEMMA WeaponsFits ==
  /\ Cardinality(Slots) \in Nat /\ MaxQueue \in Nat
  /\ "reset" \in WeaponOrders /\ \A s \in Slots : s \in WeaponOrders /\ s # "reset"
  BY FS_CardinalityType, WeaponsAssumption DEF WeaponOrders

\* The record is given back where weapons are allowed, and all are owned that are
\* in it, if no news of them was on its way.
LEMMA WeaponsGivenBack ==
  ASSUME WeaponTypes, NEW p \in Alone, NEW w \in SUBSET Slots,
         down[p] \in Seq(WeaponOrders), down'[p] = down[p] \o Back(w),
         hands'[p] = hands[p], weaponsUpdate'[p] = weaponsUpdate[p],
         unsaid'[p] = unsaid[p], record'[p] = w, WeaponSaid(p),
         W!AreWeaponsAllowed(p)',
         p \notin crossed' => owned'[p] \subseteq w
  PROVE  WeaponsFollow(p)'
<1> DEFINE r == Back(w)
<1>1. /\ r \in Seq(WeaponOrders) /\ r # <<>>
      /\ \A h : Quiet(h, r) => h = {} /\ w = {}
      /\ \A s \in w : Given(s, r)
  BY WeaponsRestored
<1> HIDE DEF r
<1>2. /\ \A h : Quiet(h, down[p] \o r) => Quiet(h, r)
      /\ \A h, s : Given(s, r) => Comes(s, h, down[p] \o r)
  BY <1>1, WeaponsSent
<1>3. WeaponUnarmed(p)' /\ WeaponSaid(p)'
  BY DEF WeaponUnarmed, WeaponSaid
<1>4. WeaponRecorded(p)'
  <2>1. Quiet(hands[p], down[p] \o r) => hands[p] = {} /\ w = {}
    BY <1>1, <1>2
  <2>2. Quiet(hands'[p], down'[p]) => hands'[p] = {} /\ w = {}
    BY <2>1 DEF r
  <2> QED BY <2>2 DEF WeaponRecorded
<1>5. WeaponOwned(p)'
  <2>1. \A s \in w : Comes(s, hands[p], down[p] \o r)
    BY <1>1, <1>2
  <2>2. \A s \in w : Comes(s, hands'[p], down'[p])
    BY <2>1 DEF r
  <2> QED BY <2>2 DEF WeaponOwned
<1> QED BY <1>3, <1>4, <1>5 DEF WeaponsFollow

\* A client's weapons are taken where none are allowed from now on.
LEMMA WeaponsTaken ==
  ASSUME WeaponTypes, NEW p \in Alone,
         down[p] \in Seq(WeaponOrders), down'[p] = down[p] \o <<"reset">>,
         hands'[p] = hands[p], weaponsUpdate'[p] = weaponsUpdate[p],
         unsaid'[p] = unsaid[p], record'[p] = record[p], WeaponSaid(p),
         ~W!AreWeaponsAllowed(p)', owned'[p] = owned[p],
         p \notin crossed' => owned[p] \subseteq record[p]
  PROVE  WeaponsFollow(p)'
<1>1. down'[p] # <<>> /\ down'[p][Len(down'[p])] = "reset"
  BY WeaponsSent, WeaponsOne, WeaponsFits
<1>2. WeaponUnarmed(p)'
  BY <1>1 DEF WeaponUnarmed
<1>3. WeaponSaid(p)' /\ WeaponRecorded(p)' /\ WeaponOwned(p)'
  BY DEF WeaponSaid, WeaponRecorded, WeaponOwned
<1> QED BY <1>2, <1>3 DEF WeaponsFollow

LEMMA WeaponsInit == ASSUME W!Init PROVE WeaponInv
<1>1. \A p \in Alone : down[p] = <<>> /\ Len(down[p]) = 0 /\ down[p] \in Seq(WeaponOrders)
  BY EmptySeq DEF W!Init
<1>2. WeaponTypes /\ WeaponsApart
  <2>1. /\ down \in [Alone -> Seq(WeaponOrders)] /\ unsaid \in [Alone -> BOOLEAN]
        /\ allow \in [Alone -> BOOLEAN]
    BY <1>1, Zenon DEF W!Init
  <2>2. /\ players = {} /\ crossed = {} /\ interiorWeapons \in BOOLEAN
        /\ interior \in [Alone -> {0, 1}] /\ place \in [Alone -> {0, 1}]
        /\ \A p \in Alone : interior[p] = 0
    BY DEF W!Init
  <2>3. /\ record \in [Alone -> SUBSET Slots] /\ hands \in [Alone -> SUBSET Slots]
        /\ owned \in [Alone -> SUBSET Slots]
    BY DEF W!Init, W!None0
  <2>4. /\ weaponsUpdate \in [Alone -> (SUBSET Slots) \union {None}]
        /\ entering \in [Alone -> {0, 1, None}]
    <3>1. /\ weaponsUpdate = [p \in Alone |-> None] /\ entering = [p \in Alone |-> None]
          /\ None \in (SUBSET Slots) \union {None} /\ None \in {0, 1, None}
      BY DEF W!Init
    <3> QED BY <3>1, Zenon
  <2>5. \A p \in Alone : Len(down[p]) <= MaxQueue + Cardinality(Slots)
    BY <1>1, WeaponsFits
  <2> QED BY <2>1, <2>2, <2>3, <2>4, <2>5 DEF WeaponTypes, WeaponsApart
<1>3. ASSUME NEW p \in Alone PROVE WeaponsFollow(p)
  BY <1>1
  DEF W!Init, W!None0, WeaponsFollow, WeaponUnarmed, WeaponSaid, WeaponRecorded,
      WeaponOwned, W!AreWeaponsAllowed
<1> QED BY <1>2, <1>3 DEF WeaponInv

LEMMA WeaponsStutter ==
  ASSUME WeaponInv, UNCHANGED <<players, weaponsVars>>
  PROVE  WeaponInv'
<1>1. WeaponTypes' /\ WeaponsApart'
  BY DEF weaponsVars, WeaponInv, WeaponTypes, WeaponsApart
<1>2. ASSUME Careful, NEW p \in Alone PROVE WeaponsFollow(p)'
  BY <1>2, WeaponsOther DEF weaponsVars, WeaponInv
<1> QED BY <1>1, <1>2, WeaponsAssumption DEF WeaponInv

LEMMA WeaponsConnect ==
  ASSUME WeaponInv, NEW p \in Alone, W!Connect(p)
  PROVE  WeaponInv'
<1>1. WeaponTypes' /\ WeaponsApart'
  BY DEF W!Connect, W!own, WeaponInv, WeaponTypes, WeaponsApart
<1>2. ASSUME Careful, NEW q \in Alone PROVE WeaponsFollow(q)'
  BY <1>2, WeaponsOther DEF W!Connect, W!own, WeaponInv
<1> QED BY <1>1, <1>2, WeaponsAssumption DEF WeaponInv

LEMMA WeaponsDisconnect ==
  ASSUME WeaponInv, NEW p \in Alone, W!Disconnect(p)
  PROVE  WeaponInv'
<1>1. WeaponTypes
  BY DEF WeaponInv
<1>2. /\ allow'[p] = TRUE /\ interior'[p] = 0 /\ record'[p] = {} /\ hands'[p] = {}
      /\ down'[p] = <<>> /\ unsaid'[p] = FALSE /\ weaponsUpdate'[p] = None /\ owned'[p] = {}
      /\ \A q \in Alone \ {p} :
           /\ q \in players' <=> q \in players
           /\ q \in crossed' <=> q \in crossed
           /\ allow'[q] = allow[q] /\ interior'[q] = interior[q]
           /\ record'[q] = record[q] /\ hands'[q] = hands[q]
           /\ down'[q] = down[q] /\ unsaid'[q] = unsaid[q]
           /\ weaponsUpdate'[q] = weaponsUpdate[q] /\ owned'[q] = owned[q]
      /\ interiorWeapons' = interiorWeapons
  BY <1>1 DEF W!Disconnect, WeaponTypes
<1>3. WeaponTypes'
  <2>1. <<>> \in Seq(WeaponOrders) /\ Len(<<>>) = 0
    BY EmptySeq
  <2>2. /\ down' \in [Alone -> Seq(WeaponOrders)]
        /\ \A q \in Alone : Len(down'[q]) <= MaxQueue + Cardinality(Slots)
    BY <1>1, <2>1, WeaponsFits DEF W!Disconnect, WeaponTypes
  <2>3. /\ allow' \in [Alone -> BOOLEAN] /\ unsaid' \in [Alone -> BOOLEAN]
        /\ crossed' \subseteq players'
    BY <1>1 DEF W!Disconnect, WeaponTypes
  <2>4. /\ record' \in [Alone -> SUBSET Slots] /\ hands' \in [Alone -> SUBSET Slots]
        /\ owned' \in [Alone -> SUBSET Slots]
    BY <1>1 DEF W!Disconnect, WeaponTypes
  <2>5. /\ interior' \in [Alone -> {0, 1}] /\ place' \in [Alone -> {0, 1}]
        /\ players' \subseteq Alone
    BY <1>1 DEF W!Disconnect, WeaponTypes
  <2>6. /\ weaponsUpdate' \in [Alone -> (SUBSET Slots) \union {None}]
        /\ entering' \in [Alone -> {0, 1, None}]
    <3> DEFINE U == (SUBSET Slots) \union {None}  Places == {0, 1, None}
    <3>1. /\ weaponsUpdate \in [Alone -> U] /\ entering \in [Alone -> Places]
          /\ weaponsUpdate' = [weaponsUpdate EXCEPT ![p] = None]
          /\ entering' = [entering EXCEPT ![p] = None]
          /\ None \in U /\ None \in Places
      BY <1>1 DEF W!Disconnect, WeaponTypes
    <3> HIDE DEF U, Places
    <3>2. weaponsUpdate' \in [Alone -> U] /\ entering' \in [Alone -> Places]
      BY <3>1
    <3> QED BY <3>2 DEF U, Places
  <2> QED BY <1>1, <1>2, <2>2, <2>3, <2>4, <2>5, <2>6 DEF WeaponTypes
<1>4. WeaponsFollow(p)'
  BY <1>2
  DEF WeaponsFollow, WeaponUnarmed, WeaponSaid, WeaponRecorded, WeaponOwned,
      W!AreWeaponsAllowed
<1> QED BY <1>2, <1>3, <1>4, WeaponsFor

LEMMA WeaponsGive ==
  ASSUME WeaponInv, NEW p \in Alone, NEW s \in Slots, W!GiveWeapon(p, s)
  PROVE  WeaponInv'
<1>1. WeaponTypes /\ W!Ready(p) /\ (Careful => WeaponsFollow(p)) /\ p \in players
  BY DEF WeaponInv, W!GiveWeapon, W!Ready
<1>2. /\ owned' = [owned EXCEPT ![p] = @ \union {s}]
      /\ UNCHANGED <<players, interiorWeapons, allow, interior, hands, place,
                     unsaid, weaponsUpdate, entering, crossed>>
  BY DEF W!GiveWeapon
<1>3. W!AreWeaponsAllowed(p)' <=> W!AreWeaponsAllowed(p)
  BY <1>2 DEF W!AreWeaponsAllowed
<1>4. CASE W!AreWeaponsAllowed(p)
  <2>1. W!Send(p, <<s>>) /\ record' = record
    BY <1>4 DEF W!GiveWeapon
  <2>2. <<s>> \in Seq(WeaponOrders) /\ <<s>> # <<>> /\ Len(<<s>>) = 1 /\ <<s>>[1] = s
    BY WeaponsOne, WeaponsFits
  <2>3. /\ down' \in [Alone -> Seq(WeaponOrders)]
        /\ \A q \in Alone : Len(down'[q]) <= MaxQueue + Cardinality(Slots)
        /\ down'[p] = down[p] \o <<s>> /\ down[p] \in Seq(WeaponOrders)
        /\ \A q \in Alone \ {p} : down'[q] = down[q]
    <3>1. Len(<<s>>) <= 1 + Cardinality(Slots)
      BY <2>2, WeaponsFits
    <3> QED BY <1>1, <2>1, <2>2, <3>1, WeaponsSendTo
  <2>4. WeaponTypes'
    BY <1>1, <1>2, <2>1, <2>3 DEF WeaponTypes
  <2>5. ASSUME Careful PROVE WeaponsFollow(p)'
    <3>1. WeaponUnarmed(p)' /\ WeaponSaid(p)'
      BY <1>1, <1>2, <1>3, <1>4, <2>5 DEF WeaponsFollow, WeaponUnarmed, WeaponSaid
    <3>2. /\ \A h : Quiet(h, down'[p]) => Quiet(h, down[p])
          /\ \A h : Comes(s, h, down'[p])
          /\ \A h, t : Comes(t, h, down[p]) => Comes(t, h, down'[p])
      <4>1. /\ Given(s, <<s>>)
            /\ \A j \in 1 .. Len(<<s>>) : <<s>>[j] # "reset"
        BY <2>2, WeaponsFits DEF Given
      <4> DEFINE one == <<s>>
      <4>2. /\ one \in Seq(WeaponOrders) /\ one # <<>> /\ Given(s, one)
            /\ \A j \in 1 .. Len(one) : one[j] # "reset"
            /\ down'[p] = down[p] \o one
        BY <2>2, <2>3, <4>1
      <4> HIDE DEF one
      <4>3. \A h : Quiet(h, down'[p]) => Quiet(h, down[p])
        BY <2>3, <4>2, WeaponsSent
      <4>4. ASSUME NEW h
            PROVE  /\ Comes(s, h, down'[p])
                   /\ \A t : Comes(t, h, down[p]) => Comes(t, h, down'[p])
        <5>1. /\ \A t : Given(t, one) => Comes(t, h, down[p] \o one)
              /\ \A t : Comes(t, h, down[p]) /\ (\A j \in 1 .. Len(one) : one[j] # "reset")
                        => Comes(t, h, down[p] \o one)
          BY <2>3, <4>2, WeaponsSent
        <5> QED BY <4>2, <5>1
      <4> QED BY <4>3, <4>4
    <3>3. WeaponRecorded(p)'
      BY <1>1, <1>2, <1>3, <2>1, <2>5, <3>2 DEF WeaponsFollow, WeaponRecorded
    <3>4. WeaponOwned(p)'
      <4>1. \A t \in owned'[p] : t = s \/ t \in owned[p]
        BY <1>1, <1>2 DEF WeaponTypes
      <4> QED BY <1>1, <1>2, <1>3, <1>4, <2>5, <3>2, <4>1 DEF WeaponsFollow, WeaponOwned
    <3> QED BY <3>1, <3>3, <3>4 DEF WeaponsFollow
  <2>6. \A q \in Alone \ {p} : owned'[q] = owned[q]
    BY <1>1, <1>2 DEF WeaponTypes
  <2> QED BY <1>1, <1>2, <2>1, <2>3, <2>4, <2>5, <2>6, WeaponsFor
<1>5. CASE ~W!AreWeaponsAllowed(p)
  <2>1. record' = [record EXCEPT ![p] = @ \union {s}] /\ down' = down
    BY <1>5 DEF W!GiveWeapon
  <2>2. WeaponTypes'
    BY <1>1, <1>2, <2>1 DEF WeaponTypes
  <2>3. /\ owned'[p] = owned[p] \union {s} /\ record'[p] = record[p] \union {s}
        /\ \A q \in Alone \ {p} : owned'[q] = owned[q] /\ record'[q] = record[q]
    BY <1>1, <1>2, <2>1 DEF WeaponTypes
  <2>4. ASSUME Careful PROVE WeaponsFollow(p)'
    BY <1>1, <1>2, <1>3, <1>5, <2>1, <2>3, <2>4
    DEF WeaponsFollow, WeaponUnarmed, WeaponSaid, WeaponRecorded, WeaponOwned
  <2> QED BY <1>1, <1>2, <2>1, <2>2, <2>3, <2>4, WeaponsFor
<1> QED BY <1>4, <1>5

LEMMA WeaponsRemove ==
  ASSUME WeaponInv, NEW p \in Alone, NEW s \in Slots, W!RemoveWeapon(p, s)
  PROVE  WeaponInv'
<1>1. /\ WeaponTypes /\ W!Ready(p) /\ (Careful => WeaponsFollow(p)) /\ p \in players
      /\ crossed' = IF W!Settled(p) THEN crossed ELSE crossed \union {p}
  BY DEF WeaponInv, W!RemoveWeapon, W!Ready, W!Crosses
<1>2. /\ owned' = [owned EXCEPT ![p] = @ \ {s}]
      /\ record' = [record EXCEPT ![p] = @ \ {s}]
      /\ UNCHANGED <<players, interiorWeapons, allow, interior, hands, place,
                     unsaid, weaponsUpdate, entering>>
  BY DEF W!RemoveWeapon
<1>3. W!AreWeaponsAllowed(p)' <=> W!AreWeaponsAllowed(p)
  BY <1>2 DEF W!AreWeaponsAllowed
<1>4. /\ owned'[p] = owned[p] \ {s} /\ record'[p] = record[p] \ {s}
      /\ record[p] \ {s} \in SUBSET Slots
      /\ \A q \in Alone \ {p} : /\ owned'[q] = owned[q] /\ record'[q] = record[q]
                                /\ q \in crossed' <=> q \in crossed
      /\ p \notin crossed' => p \notin crossed /\ W!Settled(p)
      /\ crossed' \subseteq players
  BY <1>1, <1>2 DEF WeaponTypes
<1>5. Careful /\ p \notin crossed' => owned'[p] \subseteq record[p] \ {s}
  BY <1>1, <1>4, WeaponsSettled
<1>6. CASE W!AreWeaponsAllowed(p)
  <2> DEFINE r == Back(record[p] \ {s})
  <2>1. W!Send(p, r)
    BY <1>6 DEF W!RemoveWeapon, W!Restore, Back
  <2>2. r \in Seq(WeaponOrders) /\ r # <<>> /\ Len(r) <= 1 + Cardinality(Slots)
    BY <1>4, WeaponsRestored
  <2>3. /\ down' \in [Alone -> Seq(WeaponOrders)]
        /\ \A q \in Alone : Len(down'[q]) <= MaxQueue + Cardinality(Slots)
        /\ down'[p] = down[p] \o r /\ down[p] \in Seq(WeaponOrders)
        /\ \A q \in Alone \ {p} : down'[q] = down[q]
    BY <1>1, <2>1, <2>2, WeaponsSendTo
  <2>4. WeaponTypes'
    BY <1>1, <1>2, <1>4, <2>3 DEF WeaponTypes
  <2>5. ASSUME Careful PROVE WeaponsFollow(p)'
    <3>1. WeaponSaid(p)
      BY <1>1, <2>5 DEF WeaponsFollow
    <3>2. p \notin crossed' => owned'[p] \subseteq record[p] \ {s}
      BY <1>5, <2>5
    <3> QED BY <1>1, <1>2, <1>3, <1>4, <1>6, <2>3, <3>1, <3>2, WeaponsGivenBack
  <2> QED BY <1>1, <1>2, <1>4, <2>3, <2>4, <2>5, WeaponsFor
<1>7. CASE ~W!AreWeaponsAllowed(p)
  <2>1. down' = down
    BY <1>7 DEF W!RemoveWeapon
  <2>2. WeaponTypes'
    BY <1>1, <1>2, <1>4, <2>1 DEF WeaponTypes
  <2>3. ASSUME Careful PROVE WeaponsFollow(p)'
    BY <1>1, <1>2, <1>3, <1>4, <1>5, <1>7, <2>1, <2>3
    DEF WeaponsFollow, WeaponUnarmed, WeaponSaid, WeaponRecorded, WeaponOwned
  <2> QED BY <1>1, <1>2, <1>4, <2>1, <2>2, <2>3, WeaponsFor
<1> QED BY <1>6, <1>7

LEMMA WeaponsReset ==
  ASSUME WeaponInv, NEW p \in Alone, W!ResetWeapons(p)
  PROVE  WeaponInv'
<1>1. WeaponTypes /\ W!Ready(p) /\ (Careful => WeaponsFollow(p)) /\ p \in players
  BY DEF WeaponInv, W!ResetWeapons, W!Ready
<1>2. /\ owned' = [owned EXCEPT ![p] = {}]
      /\ UNCHANGED <<players, interiorWeapons, allow, interior, hands, place,
                     unsaid, weaponsUpdate, entering, crossed>>
  BY DEF W!ResetWeapons
<1>3. W!AreWeaponsAllowed(p)' <=> W!AreWeaponsAllowed(p)
  BY <1>2 DEF W!AreWeaponsAllowed
<1>4. owned'[p] = {} /\ \A q \in Alone \ {p} : owned'[q] = owned[q]
  BY <1>1, <1>2 DEF WeaponTypes
<1>5. CASE W!AreWeaponsAllowed(p)
  <2> DEFINE r == <<"reset">>
  <2>1. W!Send(p, r) /\ record' = record
    BY <1>5 DEF W!ResetWeapons
  <2>2. r \in Seq(WeaponOrders) /\ r # <<>> /\ Len(r) <= 1 + Cardinality(Slots)
    BY WeaponsOne, WeaponsFits
  <2>3. /\ down' \in [Alone -> Seq(WeaponOrders)]
        /\ \A q \in Alone : Len(down'[q]) <= MaxQueue + Cardinality(Slots)
        /\ down'[p] = down[p] \o r /\ down[p] \in Seq(WeaponOrders)
        /\ \A q \in Alone \ {p} : down'[q] = down[q]
    BY <1>1, <2>1, <2>2, WeaponsSendTo
  <2>4. WeaponTypes'
    BY <1>1, <1>2, <2>1, <2>3 DEF WeaponTypes
  <2>5. Quiet(hands[p], down[p] \o r) => Quiet(hands[p], down[p])
    <3> HIDE DEF r
    <3> QED BY <2>2, <2>3, WeaponsSent
  <2>6. ASSUME Careful PROVE WeaponsFollow(p)'
    <3>1. WeaponRecorded(p)'
      BY <1>1, <1>2, <1>3, <2>1, <2>3, <2>5, <2>6 DEF WeaponsFollow, WeaponRecorded
    <3>2. WeaponUnarmed(p)' /\ WeaponSaid(p)' /\ WeaponOwned(p)'
      BY <1>1, <1>2, <1>3, <1>4, <1>5, <2>6
      DEF WeaponsFollow, WeaponUnarmed, WeaponSaid, WeaponOwned
    <3> QED BY <3>1, <3>2 DEF WeaponsFollow
  <2> QED BY <1>1, <1>2, <1>4, <2>1, <2>3, <2>4, <2>6, WeaponsFor
<1>6. CASE ~W!AreWeaponsAllowed(p)
  <2>1. record' = [record EXCEPT ![p] = {}] /\ down' = down
    BY <1>6 DEF W!ResetWeapons
  <2>2. WeaponTypes'
    BY <1>1, <1>2, <2>1 DEF WeaponTypes
  <2>3. \A q \in Alone \ {p} : record'[q] = record[q]
    BY <1>1, <2>1 DEF WeaponTypes
  <2>4. ASSUME Careful PROVE WeaponsFollow(p)'
    BY <1>1, <1>2, <1>3, <1>4, <1>6, <2>1, <2>4
    DEF WeaponsFollow, WeaponUnarmed, WeaponSaid, WeaponRecorded, WeaponOwned
  <2> QED BY <1>1, <1>2, <1>4, <2>1, <2>2, <2>3, <2>4, WeaponsFor
<1> QED BY <1>5, <1>6

\* What an order to take or give all of a client's weapons leaves alone.
LEMMA WeaponsOrdered ==
  ASSUME WeaponInv, NEW p \in Alone, W!Ready(p), W!Crosses(p),
         NEW r \in Seq(WeaponOrders), Len(r) <= 1 + Cardinality(Slots), r # <<>>,
         W!Send(p, r),
         UNCHANGED <<players, interiorWeapons, record, hands, place, unsaid,
                     weaponsUpdate, owned>>
  PROVE  /\ WeaponTypes /\ (Careful => WeaponsFollow(p)) /\ p \in players
         /\ down'[p] = down[p] \o r /\ down[p] \in Seq(WeaponOrders)
         /\ Careful /\ p \notin crossed' => owned[p] \subseteq record[p]
         /\ \A q \in Alone \ {p} :
              /\ q \in players' <=> q \in players
              /\ q \in crossed' <=> q \in crossed
              /\ record'[q] = record[q] /\ hands'[q] = hands[q]
              /\ down'[q] = down[q] /\ unsaid'[q] = unsaid[q]
              /\ weaponsUpdate'[q] = weaponsUpdate[q] /\ owned'[q] = owned[q]
         /\ allow' \in [Alone -> BOOLEAN] /\ interior' \in [Alone -> {0, 1}]
            /\ entering' \in [Alone -> {0, 1, None}] => WeaponTypes'
<1>1. /\ WeaponTypes /\ (Careful => WeaponsFollow(p)) /\ p \in players
      /\ crossed' = IF W!Settled(p) THEN crossed ELSE crossed \union {p}
  BY DEF WeaponInv, W!Ready, W!Crosses
<1>2. /\ down' \in [Alone -> Seq(WeaponOrders)]
      /\ \A q \in Alone : Len(down'[q]) <= MaxQueue + Cardinality(Slots)
      /\ down'[p] = down[p] \o r /\ down[p] \in Seq(WeaponOrders)
      /\ \A q \in Alone \ {p} : down'[q] = down[q]
  BY <1>1, WeaponsSendTo
<1>3. p \notin crossed' => p \notin crossed /\ W!Settled(p)
  BY <1>1
<1>4. Careful /\ p \notin crossed' => owned[p] \subseteq record[p]
  BY <1>1, <1>3, WeaponsSettled
<1>5. crossed' \subseteq players /\ \A q \in Alone \ {p} : q \in crossed' <=> q \in crossed
  BY <1>1 DEF WeaponTypes
<1>6. allow' \in [Alone -> BOOLEAN] /\ interior' \in [Alone -> {0, 1}]
      /\ entering' \in [Alone -> {0, 1, None}] => WeaponTypes'
  BY <1>1, <1>2, <1>5 DEF WeaponTypes
<1> QED BY <1>1, <1>2, <1>4, <1>5, <1>6

LEMMA WeaponsAllow ==
  ASSUME WeaponInv, NEW p \in Alone, W!AllowWeapons(p)
  PROVE  WeaponInv'
<1> DEFINE r == Back(record[p])
<1>1. /\ W!Ready(p) /\ W!Crosses(p) /\ W!Send(p, r) /\ record[p] \in SUBSET Slots
      /\ allow' = [allow EXCEPT ![p] = TRUE] /\ WeaponTypes
      /\ UNCHANGED <<players, interiorWeapons, interior, record, hands, place,
                     unsaid, weaponsUpdate, entering, owned>>
      /\ Careful => interiorWeapons \/ interior[p] = 0
  BY DEF W!AllowWeapons, W!Restore, Back, WeaponInv, WeaponTypes
<1>2. r \in Seq(WeaponOrders) /\ r # <<>> /\ Len(r) <= 1 + Cardinality(Slots)
  BY <1>1, WeaponsRestored
<1>3. /\ allow'[p] = TRUE /\ \A q \in Alone \ {p} : allow'[q] = allow[q]
      /\ allow' \in [Alone -> BOOLEAN] /\ interior' \in [Alone -> {0, 1}]
      /\ entering' \in [Alone -> {0, 1, None}]
  BY <1>1 DEF WeaponTypes
<1>4. /\ Careful => WeaponsFollow(p)
      /\ down'[p] = down[p] \o r /\ down[p] \in Seq(WeaponOrders) /\ p \in players
      /\ Careful /\ p \notin crossed' => owned[p] \subseteq record[p]
      /\ \A q \in Alone \ {p} :
           /\ q \in players' <=> q \in players
           /\ q \in crossed' <=> q \in crossed
           /\ record'[q] = record[q] /\ hands'[q] = hands[q]
           /\ down'[q] = down[q] /\ unsaid'[q] = unsaid[q]
           /\ weaponsUpdate'[q] = weaponsUpdate[q] /\ owned'[q] = owned[q]
      /\ WeaponTypes'
  <2> HIDE DEF r
  <2> QED BY <1>1, <1>2, <1>3, WeaponsOrdered
<1>5. ASSUME Careful PROVE WeaponsFollow(p)'
  <2>1. W!AreWeaponsAllowed(p)' /\ WeaponSaid(p)
    BY <1>1, <1>3, <1>4, <1>5 DEF W!AreWeaponsAllowed, WeaponsFollow
  <2> QED BY <1>1, <1>4, <1>5, <2>1, WeaponsGivenBack
<1> QED BY <1>1, <1>3, <1>4, <1>5, WeaponsFor

LEMMA WeaponsBan ==
  ASSUME WeaponInv, NEW p \in Alone, W!BanWeapons(p)
  PROVE  WeaponInv'
<1> DEFINE r == <<"reset">>
<1>1. /\ W!Ready(p) /\ W!Crosses(p) /\ W!Send(p, r)
      /\ allow' = [allow EXCEPT ![p] = FALSE] /\ WeaponTypes
      /\ UNCHANGED <<players, interiorWeapons, interior, record, hands, place,
                     unsaid, weaponsUpdate, entering, owned>>
  BY DEF W!BanWeapons, WeaponInv
<1>2. r \in Seq(WeaponOrders) /\ r # <<>> /\ Len(r) <= 1 + Cardinality(Slots)
  BY WeaponsOne, WeaponsFits
<1>3. /\ allow'[p] = FALSE /\ \A q \in Alone \ {p} : allow'[q] = allow[q]
      /\ allow' \in [Alone -> BOOLEAN] /\ interior' \in [Alone -> {0, 1}]
      /\ entering' \in [Alone -> {0, 1, None}]
  BY <1>1 DEF WeaponTypes
<1>4. /\ Careful => WeaponsFollow(p)
      /\ down'[p] = down[p] \o r /\ down[p] \in Seq(WeaponOrders) /\ p \in players
      /\ Careful /\ p \notin crossed' => owned[p] \subseteq record[p]
      /\ \A q \in Alone \ {p} :
           /\ q \in players' <=> q \in players
           /\ q \in crossed' <=> q \in crossed
           /\ record'[q] = record[q] /\ hands'[q] = hands[q]
           /\ down'[q] = down[q] /\ unsaid'[q] = unsaid[q]
           /\ weaponsUpdate'[q] = weaponsUpdate[q] /\ owned'[q] = owned[q]
      /\ WeaponTypes'
  <2> HIDE DEF r
  <2> QED BY <1>1, <1>2, <1>3, WeaponsOrdered
<1>5. ASSUME Careful PROVE WeaponsFollow(p)'
  <2>1. ~W!AreWeaponsAllowed(p)' /\ WeaponSaid(p)
    BY <1>1, <1>3, <1>4, <1>5 DEF W!AreWeaponsAllowed, WeaponsFollow
  <2> QED BY <1>1, <1>4, <1>5, <2>1, WeaponsTaken
<1> QED BY <1>1, <1>3, <1>4, <1>5, WeaponsFor

LEMMA WeaponsInteriors ==
  ASSUME WeaponInv, NEW enable \in BOOLEAN, W!AllowInteriorWeapons(enable)
  PROVE  WeaponInv'
<1>1. /\ interiorWeapons' = enable
      /\ UNCHANGED <<players, allow, interior, record, hands, place, down,
                     unsaid, weaponsUpdate, entering, owned, crossed>>
      /\ Careful => \A p \in players : interior[p] = 0
  BY DEF W!AllowInteriorWeapons
<1>2. WeaponTypes' /\ WeaponsApart'
  BY <1>1 DEF WeaponInv, WeaponTypes, WeaponsApart
<1>3. ASSUME Careful, NEW p \in Alone PROVE WeaponsFollow(p)'
  <2>1. interior[p] = 0 /\ WeaponsFollow(p)
    BY <1>1, <1>3 DEF WeaponInv, WeaponsApart
  <2>2. W!AreWeaponsAllowed(p)' <=> W!AreWeaponsAllowed(p)
    BY <1>1, <2>1 DEF W!AreWeaponsAllowed
  <2>3. WeaponUnarmed(p)' /\ WeaponSaid(p)'
    BY <1>1, <2>1, <2>2 DEF WeaponsFollow, WeaponUnarmed, WeaponSaid
  <2>4. WeaponRecorded(p)'
    BY <1>1, <2>1, <2>2 DEF WeaponsFollow, WeaponRecorded, Quiet, W!Held
  <2>5. WeaponOwned(p)'
    BY <1>1, <2>1, <2>2 DEF WeaponsFollow, WeaponOwned, Comes, Given
  <2> QED BY <2>3, <2>4, <2>5 DEF WeaponsFollow
<1> QED BY <1>2, <1>3, WeaponsAssumption DEF WeaponInv

LEMMA WeaponsEnter ==
  ASSUME WeaponInv, NEW p \in Alone, NEW i \in W!Interiors, W!ClientEnters(p, i)
  PROVE  WeaponInv'
<1>1. /\ place' = [place EXCEPT ![p] = i] /\ entering' = [entering EXCEPT ![p] = i]
      /\ UNCHANGED <<players, interiorWeapons, allow, interior, record, hands,
                     down, unsaid, weaponsUpdate, owned, crossed>>
      /\ i \in {0, 1} /\ WeaponTypes
  BY DEF W!ClientEnters, W!Interiors, WeaponInv
<1>2. WeaponTypes' /\ WeaponsApart'
  BY <1>1 DEF WeaponInv, WeaponTypes, WeaponsApart
<1>3. ASSUME Careful, NEW q \in Alone PROVE WeaponsFollow(q)'
  BY <1>1, <1>3, WeaponsOther DEF WeaponInv
<1> QED BY <1>2, <1>3, WeaponsAssumption DEF WeaponInv

LEMMA WeaponsUpdated ==
  ASSUME WeaponInv, NEW p \in Alone, W!OnWeaponsUpdate(p)
  PROVE  WeaponInv'
<1>1. /\ WeaponTypes /\ (Careful => WeaponsFollow(p)) /\ p \in players
      /\ weaponsUpdate[p] # None /\ weaponsUpdate[p] \in SUBSET Slots
      /\ weaponsUpdate' = [weaponsUpdate EXCEPT ![p] = None]
      /\ record' = IF W!AreWeaponsAllowed(p)
                   THEN [record EXCEPT ![p] = weaponsUpdate[p]] ELSE record
      /\ UNCHANGED <<players, interiorWeapons, allow, interior, hands, place,
                     down, unsaid, entering, owned, crossed>>
  BY DEF W!OnWeaponsUpdate, WeaponInv, WeaponTypes
<1>2. W!AreWeaponsAllowed(p)' <=> W!AreWeaponsAllowed(p)
  BY <1>1 DEF W!AreWeaponsAllowed
<1>3. /\ weaponsUpdate'[p] = None
      /\ W!AreWeaponsAllowed(p) => record'[p] = weaponsUpdate[p]
      /\ ~W!AreWeaponsAllowed(p) => record'[p] = record[p]
      /\ \A q \in Alone \ {p} : weaponsUpdate'[q] = weaponsUpdate[q] /\ record'[q] = record[q]
  BY <1>1 DEF WeaponTypes
<1>4. WeaponTypes'
  <2> DEFINE U == (SUBSET Slots) \union {None}
  <2>1. weaponsUpdate \in [Alone -> U] /\ None \in U
    BY <1>1 DEF WeaponTypes
  <2> HIDE DEF U
  <2>2. weaponsUpdate' \in [Alone -> U]
    BY <1>1, <2>1
  <2>3. record' \in [Alone -> SUBSET Slots]
    BY <1>1 DEF WeaponTypes
  <2> QED BY <1>1, <2>2, <2>3 DEF WeaponTypes, U
<1>5. ASSUME Careful PROVE WeaponsFollow(p)'
  BY <1>1, <1>2, <1>3, <1>5
  DEF WeaponsFollow, WeaponUnarmed, WeaponSaid, WeaponRecorded, WeaponOwned
<1> QED BY <1>1, <1>3, <1>4, <1>5, WeaponsFor

LEMMA WeaponsReported ==
  ASSUME WeaponInv, NEW p \in Alone, W!ClientReports(p)
  PROVE  WeaponInv'
<1>1. /\ WeaponTypes /\ (Careful => WeaponsFollow(p)) /\ p \in players
      /\ unsaid' = [unsaid EXCEPT ![p] = FALSE]
      /\ weaponsUpdate' = [weaponsUpdate EXCEPT ![p] = hands[p]]
      /\ UNCHANGED <<players, interiorWeapons, allow, interior, record, hands,
                     place, down, entering, owned, crossed>>
      /\ hands[p] \in SUBSET Slots /\ hands[p] # None
  BY WeaponsAssumption DEF W!ClientReports, WeaponInv, WeaponTypes
<1>2. W!AreWeaponsAllowed(p)' <=> W!AreWeaponsAllowed(p)
  BY <1>1 DEF W!AreWeaponsAllowed
<1>3. /\ weaponsUpdate'[p] = hands[p]
      /\ \A q \in Alone \ {p} : weaponsUpdate'[q] = weaponsUpdate[q] /\ unsaid'[q] = unsaid[q]
  BY <1>1 DEF WeaponTypes
<1>4. WeaponTypes'
  BY <1>1 DEF WeaponTypes
<1>5. ASSUME Careful PROVE WeaponsFollow(p)'
  BY <1>1, <1>2, <1>3, <1>5
  DEF WeaponsFollow, WeaponUnarmed, WeaponSaid, WeaponRecorded, WeaponOwned
<1> QED BY <1>1, <1>3, <1>4, <1>5, WeaponsFor

LEMMA WeaponsUsedUp ==
  ASSUME WeaponInv, NEW p \in Alone, NEW s \in Slots, W!ClientUsesUp(p, s)
  PROVE  WeaponInv'
<1>1. /\ WeaponTypes /\ (Careful => WeaponsFollow(p)) /\ p \in players
      /\ s \in hands[p]
      /\ hands' = [hands EXCEPT ![p] = @ \ {s}]
      /\ owned' = [owned EXCEPT ![p] = @ \ {s}]
      /\ unsaid' = [unsaid EXCEPT ![p] = TRUE]
      /\ UNCHANGED <<players, interiorWeapons, allow, interior, record, place,
                     down, weaponsUpdate, entering, crossed>>
  BY DEF W!ClientUsesUp, WeaponInv
<1>2. W!AreWeaponsAllowed(p)' <=> W!AreWeaponsAllowed(p)
  BY <1>1 DEF W!AreWeaponsAllowed
<1>3. /\ hands'[p] = hands[p] \ {s} /\ owned'[p] = owned[p] \ {s} /\ unsaid'[p] = TRUE
      /\ \A q \in Alone \ {p} : /\ hands'[q] = hands[q] /\ owned'[q] = owned[q]
                                /\ unsaid'[q] = unsaid[q]
  BY <1>1 DEF WeaponTypes
<1>4. WeaponTypes'
  BY <1>1 DEF WeaponTypes
<1>5. ASSUME Careful PROVE WeaponsFollow(p)'
  BY <1>1, <1>2, <1>3, <1>5
  DEF WeaponsFollow, WeaponUnarmed, WeaponSaid, WeaponRecorded, WeaponOwned, Comes
<1> QED BY <1>1, <1>3, <1>4, <1>5, WeaponsFor

\* The first order of a queue is carried out.
LEMMA WeaponsTail ==
  ASSUME NEW d \in Seq(WeaponOrders), d # <<>>, NEW h
  PROVE  /\ Head(d) \in WeaponOrders /\ Tail(d) \in Seq(WeaponOrders)
         /\ Len(Tail(d)) <= Len(d)
         /\ Tail(d) = <<>> => d[Len(d)] = Head(d)
         /\ Tail(d) # <<>> => Tail(d)[Len(Tail(d))] = d[Len(d)]
         /\ Quiet(W!Held(h, Head(d)), Tail(d)) /\ W!Held(h, Head(d)) = h => Quiet(h, d)
         /\ \A s \in Slots : Comes(s, h, d) => Comes(s, W!Held(h, Head(d)), Tail(d))
<1> DEFINE t == Tail(d)  x == Head(d)  n == Len(t)  m == Len(d)
<1>1. /\ t \in Seq(WeaponOrders) /\ x = d[1] /\ x \in WeaponOrders /\ n \in Nat /\ m = n + 1
      /\ \A i \in 1 .. n : t[i] = d[i + 1]
      /\ t = <<>> <=> n = 0
  <2>1. Len(d) \in Nat /\ Len(d) # 0 /\ d[1] \in WeaponOrders /\ x = d[1]
    BY EmptySeq, LenProperties, ElementOfSeq
  <2>2. /\ Tail(d) \in Seq(WeaponOrders) /\ Len(Tail(d)) = Len(d) - 1
        /\ \A i \in 1 .. Len(Tail(d)) : Tail(d)[i] = d[i + 1]
        /\ Tail(d) = <<>> <=> Len(Tail(d)) = 0
    BY HeadTailProperties, EmptySeq
  <2>3. n \in Nat /\ m = n + 1
    BY <2>1, <2>2
  <2> QED BY <2>1, <2>2, <2>3
<1> HIDE DEF t, x, n, m
<1>2. /\ \A i \in 1 .. m : i = 1 \/ i - 1 \in 1 .. n
      /\ \A i \in 1 .. m : i - 1 \in 1 .. n => d[i] = t[i - 1]
      /\ \A i \in 1 .. n : i + 1 \in 1 .. m /\ d[i + 1] = t[i]
      /\ 1 \in 1 .. m
  BY <1>1
<1>3. /\ t = <<>> => d[m] = x
      /\ t # <<>> => t[n] = d[m]
  BY <1>1
<1>4. ASSUME Quiet(W!Held(h, x), t), W!Held(h, x) = h
      PROVE  Quiet(h, d)
  BY <1>1, <1>2, <1>4 DEF Quiet, n, m
<1>5. ASSUME NEW s \in Slots, Comes(s, h, d)
      PROVE  Comes(s, W!Held(h, x), t)
  <2>1. CASE s \in h /\ \A j \in 1 .. m : d[j] # "reset"
    <3>1. x # "reset" /\ \A j \in 1 .. n : t[j] # "reset"
      BY <1>1, <1>2, <2>1
    <3> QED BY <2>1, <3>1 DEF Comes, W!Held, n
  <2>2. ASSUME NEW i \in 1 .. m, d[i] = s, \A j \in 1 .. m : j > i => d[j] # "reset"
        PROVE  Comes(s, W!Held(h, x), t)
    <3>1. CASE i = 1
      <4>1. x = s /\ s # "reset"
        BY <1>1, <2>2, <3>1, WeaponsFits
      <4>2. \A j \in 1 .. n : t[j] # "reset"
        BY <1>1, <1>2, <2>2, <3>1
      <4> QED BY <4>1, <4>2 DEF Comes, W!Held, n
    <3>2. CASE i # 1
      <4>1. i - 1 \in 1 .. n /\ t[i - 1] = s
        BY <1>2, <2>2, <3>2
      <4>2. ASSUME NEW j \in 1 .. n, j > i - 1 PROVE t[j] # "reset"
        <5>1. j + 1 \in 1 .. m /\ j + 1 > i
          BY <1>1, <4>2
        <5> QED BY <1>2, <2>2, <5>1
      <4> QED BY <4>1, <4>2 DEF Comes, Given, n
    <3> QED BY <3>1, <3>2
  <2> QED BY <1>5, <2>1, <2>2 DEF Comes, Given, m
<1>6. n <= m
  BY <1>1
<1> QED BY <1>1, <1>3, <1>4, <1>5, <1>6 DEF t, x, n, m

LEMMA WeaponsReceived ==
  ASSUME WeaponInv, NEW p \in Alone, W!ClientReceives(p)
  PROVE  WeaponInv'
<1> DEFINE x == Head(down[p])
<1>1. /\ WeaponTypes /\ (Careful => WeaponsFollow(p)) /\ p \in players
      /\ down[p] # <<>> /\ down[p] \in Seq(WeaponOrders)
      /\ hands' = [hands EXCEPT ![p] = W!Held(@, x)]
      /\ unsaid' = [unsaid EXCEPT ![p] = @ \/ hands'[p] # hands[p]]
      /\ down' = [down EXCEPT ![p] = Tail(@)]
      /\ UNCHANGED <<players, interiorWeapons, allow, interior, record, place,
                     weaponsUpdate, entering, owned, crossed>>
  BY DEF W!ClientReceives, WeaponInv, WeaponTypes
<1>2. /\ x \in WeaponOrders /\ Tail(down[p]) \in Seq(WeaponOrders)
      /\ Len(Tail(down[p])) <= Len(down[p])
      /\ Tail(down[p]) = <<>> => down[p][Len(down[p])] = x
      /\ Tail(down[p]) # <<>> =>
           Tail(down[p])[Len(Tail(down[p]))] = down[p][Len(down[p])]
      /\ Quiet(W!Held(hands[p], x), Tail(down[p])) /\ W!Held(hands[p], x) = hands[p]
           => Quiet(hands[p], down[p])
      /\ \A s \in Slots :
           Comes(s, hands[p], down[p]) => Comes(s, W!Held(hands[p], x), Tail(down[p]))
  BY <1>1, WeaponsTail
<1> HIDE DEF x
<1>3. W!AreWeaponsAllowed(p)' <=> W!AreWeaponsAllowed(p)
  BY <1>1 DEF W!AreWeaponsAllowed
<1>4. /\ hands'[p] = W!Held(hands[p], x) /\ down'[p] = Tail(down[p])
      /\ unsaid'[p] <=> unsaid[p] \/ hands'[p] # hands[p]
      /\ \A q \in Alone \ {p} : /\ hands'[q] = hands[q] /\ down'[q] = down[q]
                                /\ unsaid'[q] = unsaid[q]
  <2>1. /\ hands'[p] = W!Held(hands[p], x) /\ down'[p] = Tail(down[p])
        /\ \A q \in Alone \ {p} : hands'[q] = hands[q] /\ down'[q] = down[q]
    BY <1>1 DEF WeaponTypes
  <2>2. /\ unsaid'[p] <=> unsaid[p] \/ hands'[p] # hands[p]
        /\ \A q \in Alone \ {p} : unsaid'[q] = unsaid[q]
    BY <1>1, Zenon DEF WeaponTypes
  <2> QED BY <2>1, <2>2
<1>5. WeaponTypes'
  <2>1. down' \in [Alone -> Seq(WeaponOrders)]
    BY <1>1, <1>2 DEF WeaponTypes
  <2>2. ASSUME NEW q \in Alone PROVE Len(down'[q]) <= MaxQueue + Cardinality(Slots)
    <3>1. Len(down[p]) \in Nat /\ Len(Tail(down[p])) \in Nat
      BY <1>1, <1>2, LenProperties
    <3> QED BY <1>1, <1>2, <1>4, <2>2, <3>1, WeaponsFits DEF WeaponTypes
  <2>3. W!Held(hands[p], x) \in SUBSET Slots
    BY <1>1, <1>2 DEF WeaponTypes, W!Held, WeaponOrders
  <2>4. hands' \in [Alone -> SUBSET Slots]
    BY <1>1, <2>3 DEF WeaponTypes
  <2>5. unsaid' \in [Alone -> BOOLEAN]
    <3>1. (unsaid[p] \/ hands'[p] # hands[p]) \in BOOLEAN
      BY Zenon
    <3> QED BY <1>1, <3>1, Zenon DEF WeaponTypes
  <2> QED BY <1>1, <2>1, <2>2, <2>4, <2>5 DEF WeaponTypes
<1>6. ASSUME Careful PROVE WeaponsFollow(p)'
  <2>1. WeaponUnarmed(p)'
    <3>1. ASSUME ~W!AreWeaponsAllowed(p) PROVE down[p][Len(down[p])] = "reset"
      BY <1>1, <1>6, <3>1 DEF WeaponsFollow, WeaponUnarmed
    <3>2. x = "reset" => W!Held(hands[p], x) = {}
      BY DEF W!Held
    <3> QED BY <1>2, <1>3, <1>4, <3>1, <3>2 DEF WeaponUnarmed
  <2>2. WeaponSaid(p)'
    BY <1>1, <1>4, <1>6 DEF WeaponsFollow, WeaponSaid
  <2>3. WeaponRecorded(p)'
    BY <1>1, <1>2, <1>3, <1>4, <1>6 DEF WeaponsFollow, WeaponRecorded
  <2>4. WeaponOwned(p)'
    <3>1. \A s \in owned[p] : s \in Slots
      BY <1>1 DEF WeaponTypes
    <3> QED BY <1>1, <1>2, <1>3, <1>4, <1>6, <3>1 DEF WeaponsFollow, WeaponOwned
  <2> QED BY <2>1, <2>2, <2>3, <2>4 DEF WeaponsFollow
<1> QED BY <1>1, <1>4, <1>5, <1>6, WeaponsFor

LEMMA WeaponsMoved ==
  ASSUME WeaponInv, NEW p \in Alone, W!OnInteriorChange(p)
  PROVE  WeaponInv'
<1>1. /\ WeaponTypes /\ (Careful => WeaponsFollow(p)) /\ p \in players
      /\ W!Ready(p) /\ W!Crosses(p)
      /\ interior' = [interior EXCEPT ![p] = entering[p]] /\ entering[p] \in {0, 1}
      /\ entering' = [entering EXCEPT ![p] = None]
      /\ crossed' = IF W!Settled(p) THEN crossed ELSE crossed \union {p}
      /\ UNCHANGED <<players, interiorWeapons, allow, record, hands, place,
                     unsaid, weaponsUpdate, owned>>
  BY DEF W!OnInteriorChange, W!Crosses, W!Ready, WeaponInv, WeaponTypes
<1>2. /\ interior'[p] = entering[p] /\ \A q \in Alone \ {p} : interior'[q] = interior[q]
      /\ interior[p] \in {0, 1} /\ record[p] \in SUBSET Slots
      /\ allow' \in [Alone -> BOOLEAN] /\ interior' \in [Alone -> {0, 1}]
      /\ entering' \in [Alone -> {0, 1, None}]
      /\ p \in crossed => p \in crossed'
      /\ crossed' \subseteq players
      /\ \A q \in Alone \ {p} : q \in crossed' <=> q \in crossed
  BY <1>1 DEF WeaponTypes
<1>3. ASSUME NEW r \in Seq(WeaponOrders), r # <<>>, Len(r) <= 1 + Cardinality(Slots),
             W!Send(p, r),
             Careful /\ down[p] \in Seq(WeaponOrders) /\ down'[p] = down[p] \o r
               /\ (p \notin crossed' => owned[p] \subseteq record[p])
               /\ WeaponSaid(p) => WeaponsFollow(p)'
      PROVE  WeaponInv'
  <2>1. /\ down'[p] = down[p] \o r /\ down[p] \in Seq(WeaponOrders)
        /\ Careful /\ p \notin crossed' => owned[p] \subseteq record[p]
        /\ \A q \in Alone \ {p} :
             /\ q \in players' <=> q \in players
             /\ q \in crossed' <=> q \in crossed
             /\ record'[q] = record[q] /\ hands'[q] = hands[q]
             /\ down'[q] = down[q] /\ unsaid'[q] = unsaid[q]
             /\ weaponsUpdate'[q] = weaponsUpdate[q] /\ owned'[q] = owned[q]
        /\ WeaponTypes'
    BY <1>1, <1>2, <1>3, WeaponsOrdered
  <2>2. Careful => WeaponsFollow(p)'
    BY <1>1, <1>3, <2>1 DEF WeaponsFollow
  <2> QED BY <1>1, <1>2, <2>1, <2>2, WeaponsFor
<1>4. CASE down' = down /\ (W!AreWeaponsAllowed(p)' <=> W!AreWeaponsAllowed(p))
  <2>1. WeaponTypes'
    BY <1>1, <1>2, <1>4 DEF WeaponTypes
  <2>2. ASSUME Careful PROVE WeaponsFollow(p)'
    BY <1>1, <1>2, <1>4, <2>2
    DEF WeaponsFollow, WeaponUnarmed, WeaponSaid, WeaponRecorded, WeaponOwned
  <2> QED BY <1>1, <1>2, <1>4, <2>1, <2>2, WeaponsFor
<1>5. CASE entering[p] = interior[p] \/ interiorWeapons
  <2>1. down' = down
    BY <1>5 DEF W!OnInteriorChange
  <2> QED BY <1>1, <1>2, <1>4, <1>5, <2>1 DEF W!AreWeaponsAllowed
<1>6. CASE entering[p] # interior[p] /\ ~interiorWeapons /\ entering[p] # 0
  <2> DEFINE r == <<"reset">>
  <2>1. W!Send(p, r)
    BY <1>6 DEF W!OnInteriorChange
  <2>2. r \in Seq(WeaponOrders) /\ r # <<>> /\ Len(r) <= 1 + Cardinality(Slots)
    BY WeaponsOne, WeaponsFits
  <2>3. ~W!AreWeaponsAllowed(p)'
    BY <1>1, <1>2, <1>6 DEF W!AreWeaponsAllowed
  <2>4. ASSUME Careful, down[p] \in Seq(WeaponOrders), down'[p] = down[p] \o r,
               p \notin crossed' => owned[p] \subseteq record[p], WeaponSaid(p)
        PROVE  WeaponsFollow(p)'
    BY <1>1, <2>3, <2>4, WeaponsTaken
  <2> HIDE DEF r
  <2> QED BY <1>3, <2>1, <2>2, <2>4
<1>7. CASE entering[p] # interior[p] /\ ~interiorWeapons /\ entering[p] = 0
  <2> DEFINE r == Back(record[p])
  <2>1. IF allow[p] THEN W!Send(p, r) ELSE down' = down
    BY <1>7 DEF W!OnInteriorChange, W!Restore, Back
  <2>2. CASE ~allow[p]
    BY <1>1, <1>2, <1>4, <2>1, <2>2 DEF W!AreWeaponsAllowed
  <2>3. CASE allow[p]
    <3>1. r \in Seq(WeaponOrders) /\ r # <<>> /\ Len(r) <= 1 + Cardinality(Slots)
      BY <1>2, WeaponsRestored
    <3>2. W!AreWeaponsAllowed(p)'
      BY <1>1, <1>2, <1>7, <2>3 DEF W!AreWeaponsAllowed
    <3>3. ASSUME Careful, down[p] \in Seq(WeaponOrders), down'[p] = down[p] \o r,
                 p \notin crossed' => owned[p] \subseteq record[p], WeaponSaid(p)
          PROVE  WeaponsFollow(p)'
      BY <1>1, <1>2, <3>2, <3>3, WeaponsGivenBack
    <3> HIDE DEF r
    <3> QED BY <1>3, <2>1, <2>3, <3>1, <3>3
  <2> QED BY <2>2, <2>3
<1> QED BY <1>5, <1>6, <1>7

\* The type invariant of the weapons follows, and their two properties do.
LEMMA WeaponsImply ==
  ASSUME WeaponInv
  PROVE  W!TypeOK /\ (Careful => W!Unarmed /\ W!Kept)
<1>1. W!TypeOK
  BY DEF WeaponInv, WeaponTypes, WeaponOrders, W!TypeOK, W!Interiors, W!Cardinality,
     Cardinality
<1>2. ASSUME Careful PROVE W!Unarmed
  BY <1>2 DEF WeaponInv, WeaponTypes, WeaponsFollow, WeaponUnarmed, W!Unarmed
<1>3. ASSUME Careful PROVE W!Kept
  BY <1>3, WeaponsSettled DEF WeaponInv, WeaponTypes, W!Kept
<1> QED BY <1>1, <1>2, <1>3

LEMMA WeaponsStep == ASSUME WeaponInv, W!Next PROVE WeaponInv'
<1>1. ASSUME NEW enable \in BOOLEAN, W!AllowInteriorWeapons(enable) PROVE WeaponInv'
  BY <1>1, WeaponsInteriors
<1>2. ASSUME NEW p \in Alone,
             \/ W!Connect(p) \/ W!Disconnect(p) \/ W!ResetWeapons(p)
             \/ W!AllowWeapons(p) \/ W!BanWeapons(p)
      PROVE  WeaponInv'
  BY <1>2, WeaponsConnect, WeaponsDisconnect, WeaponsReset, WeaponsAllow, WeaponsBan
<1>3. ASSUME NEW p \in Alone,
             \/ W!OnInteriorChange(p) \/ W!OnWeaponsUpdate(p)
             \/ W!ClientReceives(p) \/ W!ClientReports(p)
      PROVE  WeaponInv'
  BY <1>3, WeaponsMoved, WeaponsUpdated, WeaponsReceived, WeaponsReported
<1>4. ASSUME NEW p \in Alone, NEW i \in W!Interiors, W!ClientEnters(p, i)
      PROVE  WeaponInv'
  BY <1>4, WeaponsEnter
<1>5. ASSUME NEW p \in Alone, NEW s \in Slots,
             W!GiveWeapon(p, s) \/ W!RemoveWeapon(p, s) \/ W!ClientUsesUp(p, s)
      PROVE  WeaponInv'
  BY <1>5, WeaponsGive, WeaponsRemove, WeaponsUsedUp
<1> QED BY <1>1, <1>2, <1>3, <1>4, <1>5 DEF W!Next
=============================================================================
