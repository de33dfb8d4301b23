--------------------------- MODULE ServicesProofs ---------------------------
(***************************************************************************)
(* Proofs about the services of MCServices that serve the scripts and the  *)
(* server: HTTP, databases, components, NPCs, bans, models, the console,   *)
(* timers, gamemodes and options; laid out as those of                     *)
(* PlayerServicesProofs.  At the end the invariant of the whole run, whose *)
(* behaviours are each of one component, and the theorems of the run.      *)
(***************************************************************************)
EXTENDS PlayerServicesProofs

-----------------------------------------------------------------------------
(* HTTP requests                                                            *)

\* An open request knows the script that made it, and its AMX.
RequestsWhole == \A r \in H!Open :
    request[r].script \in Scripts /\ request[r].amx \in Addresses

HttpInv == H!TypeOK /\ H!NoDangling /\ H!AnsweredOnce /\ RequestsWhole

LEMMA HttpInit == ASSUME H!Init PROVE HttpInv
  BY HttpAssumption
  DEF H!Init, H!NoRequest, HttpInv, RequestsWhole, H!TypeOK, H!NoDangling,
      H!AnsweredOnce, H!Open

LEMMA HttpStutter ==
  ASSUME HttpInv, UNCHANGED <<players, httpVars>>
  PROVE  HttpInv'
  BY DEF httpVars, HttpInv, RequestsWhole, H!TypeOK, H!NoDangling,
         H!AnsweredOnce, H!Open

LEMMA HttpLoadScript ==
  ASSUME HttpInv, NEW s \in Scripts, NEW a \in Addresses, H!LoadScript(s, a)
  PROVE  HttpInv'
  BY HttpAssumption
  DEF H!LoadScript, HttpInv, RequestsWhole, H!TypeOK, H!NoDangling,
      H!AnsweredOnce, H!Open

LEMMA HttpUnloadScript ==
  ASSUME HttpInv, NEW a \in Addresses, H!UnloadScript(a)
  PROVE  HttpInv'
  BY HttpAssumption
  DEF H!UnloadScript, HttpInv, RequestsWhole, H!TypeOK, H!NoDangling,
      H!AnsweredOnce, H!Open

LEMMA HttpRequestHTTP ==
  ASSUME HttpInv, NEW r \in Requests, NEW a \in Addresses, H!RequestHTTP(r, a)
  PROVE  HttpInv'
  BY HttpAssumption
  DEF H!RequestHTTP, HttpInv, RequestsWhole, H!TypeOK, H!NoDangling,
      H!AnsweredOnce, H!Open

LEMMA HttpThreadFinishes ==
  ASSUME HttpInv, NEW r \in Requests, H!ThreadFinishes(r)
  PROVE  HttpInv'
  BY HttpAssumption
  DEF H!ThreadFinishes, HttpInv, RequestsWhole, H!TypeOK, H!NoDangling,
      H!AnsweredOnce, H!Open

LEMMA HttpTryExec ==
  ASSUME HttpInv, NEW r \in Requests, H!TryExec(r)
  PROVE  HttpInv'
<1>1. r \in H!Open /\ request[r].amx \in Addresses /\ answering = None
  BY DEF H!TryExec, H!Open, HttpInv, RequestsWhole
<1>2. CASE scriptAt[request[r].amx] # None
  <2>1. /\ answering' = r /\ answers' = [answers EXCEPT ![r] = @ + 1]
        /\ scriptAt' = scriptAt /\ request' = request /\ reused' = reused
    BY <1>2 DEF H!TryExec
  <2>2. \A s \in Requests : s \in H!Open => answers[s] = 0
    BY <1>1, HttpAssumption DEF HttpInv, H!AnsweredOnce
  <2>3. H!TypeOK' /\ H!AnsweredOnce' /\ RequestsWhole'
    BY <1>1, <2>1, <2>2 DEF HttpInv, H!TypeOK, H!AnsweredOnce, H!Open, RequestsWhole
  <2>4. H!NoDangling'
    BY <1>1, <1>2, <2>1 DEF HttpInv, H!NoDangling, H!Open
  <2> QED BY <2>3, <2>4 DEF HttpInv
<1>3. CASE scriptAt[request[r].amx] = None
  BY <1>1, <1>3, HttpAssumption
  DEF H!TryExec, H!NoRequest, HttpInv, RequestsWhole, H!TypeOK, H!NoDangling,
      H!AnsweredOnce, H!Open
<1> QED BY <1>2, <1>3

LEMMA HttpErase == ASSUME HttpInv, H!Erase PROVE HttpInv'
  BY HttpAssumption
  DEF H!Erase, H!NoRequest, HttpInv, RequestsWhole, H!TypeOK, H!NoDangling,
      H!AnsweredOnce, H!Open

LEMMA HttpStep == ASSUME HttpInv, H!Next PROVE HttpInv'
  BY HttpLoadScript, HttpUnloadScript, HttpRequestHTTP, HttpThreadFinishes,
     HttpTryExec, HttpErase
  DEF H!Next

LEMMA HttpImply ==
  ASSUME HttpInv
  PROVE  H!TypeOK /\ H!NoDangling /\ H!AnsweredOnce
  BY DEF HttpInv

-----------------------------------------------------------------------------
(* Databases                                                                *)

\* The result set of the query that runs is given to nobody yet, and counts the
\* rows that SQLite handed it.
QueryExact == executing # None =>
    /\ ~handles[executing.set].given
    /\ resultSet[executing.set].rows = executing.rows
    /\ resultSet[executing.set].rowCount = executing.rows

DatabaseTypes ==
    /\ resultSet \in [ResultSets -> [used : BOOLEAN, rows : 0 .. MaxRows,
                                     rowCount : 0 .. MaxRows]]
    /\ handles \in [ResultSets -> [given : BOOLEAN, had : 0 .. MaxRows,
                                   passed : 0 .. MaxRows]]

DatabaseInv == B!TypeOK /\ B!HandlesExact /\ QueryExact /\ DatabaseTypes

LEMMA DatabasesInit == ASSUME B!Init PROVE DatabaseInv
  BY DatabasesAssumption
  DEF B!Init, B!NoSet, B!NoHandle, DatabaseInv, DatabaseTypes, QueryExact,
      B!TypeOK, B!HandlesExact

LEMMA DatabasesStutter ==
  ASSUME DatabaseInv, UNCHANGED <<players, databasesVars>>
  PROVE  DatabaseInv'
  BY DEF databasesVars, DatabaseInv, DatabaseTypes, QueryExact, B!TypeOK,
         B!HandlesExact

LEMMA DatabasesOpen == ASSUME DatabaseInv, B!Open PROVE DatabaseInv'
<1>1. Connections \ connected # {} /\ Connections \ connected \subseteq Nat
  BY DatabasesAssumption DEF B!Open, DatabaseInv, B!TypeOK
<1>2. B!Min(Connections \ connected) \in Connections
  BY <1>1, LowestOf DEF B!Min
<1> QED BY <1>2, DatabasesAssumption
        DEF B!Open, DatabaseInv, DatabaseTypes, QueryExact, B!TypeOK, B!HandlesExact

LEMMA DatabasesClose ==
  ASSUME DatabaseInv, NEW c \in Connections, B!Close(c)
  PROVE  DatabaseInv'
  BY DatabasesAssumption
  DEF B!Close, DatabaseInv, DatabaseTypes, QueryExact, B!TypeOK, B!HandlesExact

LEMMA DatabasesExecuteQuery ==
  ASSUME DatabaseInv, NEW c \in Connections, B!ExecuteQuery(c)
  PROVE  DatabaseInv'
<1>1. B!Free # {} /\ B!Free \subseteq Nat
  BY DatabasesAssumption DEF B!ExecuteQuery, B!Free
<1>2. PICK s \in B!Free : s = B!Min(B!Free)
  BY <1>1, LowestOf DEF B!Min
<1>3. s \in ResultSets /\ ~resultSet[s].used
  BY <1>2 DEF B!Free
<1>4. /\ executing = None /\ c \in connected
      /\ executing' = [connection |-> c, set |-> s, rows |-> 0]
      /\ resultSet' = [resultSet EXCEPT ![s] = [used |-> TRUE, rows |-> 0, rowCount |-> 0]]
      /\ connected' = connected /\ handles' = handles
  BY <1>2 DEF B!ExecuteQuery
<1> QED BY <1>3, <1>4, DatabasesAssumption
        DEF DatabaseInv, DatabaseTypes, QueryExact, B!TypeOK, B!HandlesExact

LEMMA DatabasesAddRow == ASSUME DatabaseInv, B!AddRow PROVE DatabaseInv'
  BY DatabasesAssumption
  DEF B!AddRow, DatabaseInv, DatabaseTypes, QueryExact, B!TypeOK,
      B!HandlesExact

LEMMA DatabasesFail == ASSUME DatabaseInv, B!Fail PROVE DatabaseInv'
  BY DatabasesAssumption
  DEF B!Fail, B!FreedSet, B!NoSet, DatabaseInv, DatabaseTypes, QueryExact,
      B!TypeOK, B!HandlesExact

LEMMA DatabasesSucceed == ASSUME DatabaseInv, B!Succeed PROVE DatabaseInv'
  BY DatabasesAssumption
  DEF B!Succeed, DatabaseInv, DatabaseTypes, QueryExact, B!TypeOK,
      B!HandlesExact

LEMMA DatabasesSelectNextRow ==
  ASSUME DatabaseInv, NEW s \in ResultSets, B!SelectNextRow(s)
  PROVE  DatabaseInv'
  BY DatabasesAssumption
  DEF B!SelectNextRow, DatabaseInv, DatabaseTypes, QueryExact, B!TypeOK,
      B!HandlesExact

LEMMA DatabasesFreeResultSet ==
  ASSUME DatabaseInv, NEW s \in ResultSets, B!FreeResultSet(s)
  PROVE  DatabaseInv'
  BY DatabasesAssumption
  DEF B!FreeResultSet, B!FreedSet, B!NoSet, B!NoHandle, DatabaseInv,
      DatabaseTypes, QueryExact, B!TypeOK, B!HandlesExact

LEMMA DatabasesStep == ASSUME DatabaseInv, B!Next PROVE DatabaseInv'
  BY DatabasesOpen, DatabasesClose, DatabasesExecuteQuery, DatabasesAddRow,
     DatabasesFail, DatabasesSucceed, DatabasesSelectNextRow,
     DatabasesFreeResultSet
  DEF B!Next

LEMMA DatabasesImply ==
  ASSUME DatabaseInv
  PROVE  B!TypeOK /\ B!HandlesExact
  BY DEF DatabaseInv

-----------------------------------------------------------------------------
(* The life of components                                                   *)

\* A component that is listed exists; one that was not tried yet does not.
ListedExist ==
    /\ listed \subseteq existing
    /\ coreStage = "loading" => notReached \cap existing = {}
    /\ coreStage \notin {"loading", "freeing"} => notReached \subseteq listed
    /\ coreStage = "freeing" => coreNetworks = {}
    /\ \A c \in listed : pointers[c] \subseteq existing
    /\ coreStage \in {"loading", "configured", "onLoad"} => \A c \in Components : pointers[c] = {}

\* The phase of each stage, and of the components that it has reached.
PhaseOf(s) == CASE s = "configured" -> 2 [] s = "onLoad" -> 3 [] s = "onInit" -> 4
                [] s \in {"onReady", "running"} -> 5 [] OTHER -> 1

PhaseInStep ==
    /\ coreStage = "loading" => \A c \in Components : phaseOf[c] = 1
    /\ coreStage \notin {"loading", "freeing"} => \A c \in listed :
         phaseOf[c] = IF c \in notReached THEN PhaseOf(coreStage) - 1
                      ELSE PhaseOf(coreStage)

\* Nobody is connected before the server runs, and no mode restarts.
AtRest == coreStage \notin {"running", "freeing"} =>
    /\ players = {} /\ gameOver = {} /\ ~coreReloading
    /\ syncHandled <=> coreStage \in {"onInit", "onReady"}

LifeInv ==
    /\ E!TypeOK /\ E!PointersAlive /\ E!ClientsInStep
    /\ ListedExist /\ PhaseInStep /\ AtRest

\* The place of each phase among the phases.
LEMMA Places ==
  /\ E!Place("configured") = 2 /\ E!Place("onLoad") = 3
  /\ E!Place("onInit") = 4 /\ E!Place("onReady") = 5
  /\ DOMAIN E!Phases = 1 .. 5
<1>1. DOMAIN E!Phases = 1 .. 5
  BY DEF E!Phases
<1>2. E!Phases[1] = "loaded" /\ E!Phases[2] = "configured" /\ E!Phases[3] = "onLoad"
      /\ E!Phases[4] = "onInit" /\ E!Phases[5] = "onReady"
  BY DEF E!Phases
<1>3. ASSUME NEW s, NEW k \in 1 .. 5, E!Phases[k] = s,
             \A i \in 1 .. 5 : E!Phases[i] = s => i = k
      PROVE  E!Place(s) = k
  BY <1>1, <1>3 DEF E!Place
<1>4. \A i \in 1 .. 5 : i = 1 \/ i = 2 \/ i = 3 \/ i = 4 \/ i = 5
  OBVIOUS
<1>5. E!Place("configured") = 2
  BY <1>2, <1>3, <1>4
<1>6. E!Place("onLoad") = 3
  BY <1>2, <1>3, <1>4
<1>7. E!Place("onInit") = 4
  BY <1>2, <1>3, <1>4
<1>8. E!Place("onReady") = 5
  BY <1>2, <1>3, <1>4
<1> QED BY <1>1, <1>5, <1>6, <1>7, <1>8

LEMMA LifeInit == ASSUME E!Init PROVE LifeInv
<1>1. /\ coreStage = "loading" /\ notReached = Components /\ listed = {} /\ coreNetworks = {}
      /\ existing = {} /\ phaseOf = [c \in Components |-> 1]
      /\ pointers = [c \in Components |-> {}] /\ coreReloading = FALSE
      /\ players = {} /\ gameOver = {} /\ syncHandled = FALSE
  BY DEF E!Init
<1>2. E!TypeOK
  <2>1. UNION {notReached, listed, coreNetworks, existing} \subseteq Components
    BY <1>1
  <2>2. phaseOf \in [Components -> DOMAIN E!Phases]
    BY <1>1, Places
  <2> QED BY <1>1, <2>1, <2>2 DEF E!TypeOK
<1> QED BY <1>1, <1>2
        DEF LifeInv, ListedExist, PhaseInStep, AtRest, E!PointersAlive, E!ClientsInStep

LEMMA LifeStutter ==
  ASSUME LifeInv, UNCHANGED <<players, lifeVars>>
  PROVE  LifeInv'
  BY DEF lifeVars, LifeInv, ListedExist, PhaseInStep, AtRest, E!TypeOK,
         E!PointersAlive, E!ClientsInStep, PhaseOf

LEMMA LifeLoadComponent ==
  ASSUME LifeInv, NEW c \in Components, E!LoadComponent(c)
  PROVE  LifeInv'
<1>1. /\ coreStage = "loading" /\ c \in notReached /\ coreStage' = coreStage
      /\ notReached' = notReached \ {c} /\ phaseOf' = phaseOf /\ pointers' = pointers
      /\ players' = players /\ coreReloading' = coreReloading /\ gameOver' = gameOver
      /\ syncHandled' = syncHandled
  BY DEF E!LoadComponent
<1>2. c \notin existing /\ c \notin listed
  BY <1>1 DEF LifeInv, ListedExist, E!TypeOK
<1>3. CASE existing' = existing /\ listed' = listed /\ coreNetworks' = coreNetworks
  BY <1>1, <1>3 DEF LifeInv, ListedExist, PhaseInStep, PhaseOf, AtRest, E!TypeOK,
     E!PointersAlive,
     E!ClientsInStep
<1>4. CASE E!AddComponent(c)
  <2>1. /\ existing' = existing \cup {c}
        /\ listed' = listed \/ listed' = listed \cup {c}
        /\ c \notin Twins => listed' = listed \cup {c}
        /\ coreNetworks' = IF c \in WithNetwork THEN coreNetworks \cup {c} ELSE coreNetworks
    BY <1>4 DEF E!AddComponent
  <2>2. E!TypeOK'
    BY <1>1, <2>1 DEF LifeInv, E!TypeOK
  <2>3. ListedExist'
    BY <1>1, <1>2, <2>1 DEF LifeInv, ListedExist
  <2>4. E!PointersAlive'
    BY <1>1, <2>1, <2>3, LifeAssumption DEF LifeInv, ListedExist, E!PointersAlive
  <2>5. PhaseInStep'
    BY <1>1 DEF LifeInv, PhaseInStep
  <2> QED BY <1>1, <2>2, <2>3, <2>4, <2>5 DEF LifeInv, AtRest, E!ClientsInStep
<1> QED BY <1>3, <1>4 DEF E!LoadComponent

LEMMA LifeReach ==
  ASSUME LifeInv, NEW c \in Components, E!Reach(c)
  PROVE  LifeInv'
  BY LifeAssumption, Places
  DEF E!Reach, PhaseOf, LifeInv, ListedExist, PhaseInStep, AtRest, E!TypeOK,
      E!PointersAlive, E!ClientsInStep

LEMMA LifeFree ==
  ASSUME LifeInv, NEW c \in Components, E!Free(c)
  PROVE  LifeInv'
  BY LifeAssumption, Places
  DEF E!Free, PhaseOf, LifeInv, ListedExist, PhaseInStep, AtRest, E!TypeOK,
      E!PointersAlive, E!ClientsInStep

LEMMA LifeEndLoading == ASSUME LifeInv, E!EndLoading PROVE LifeInv'
  BY LifeAssumption, Places
  DEF E!EndLoading, E!Enter, PhaseOf, LifeInv, ListedExist, PhaseInStep,
      AtRest, E!TypeOK, E!PointersAlive, E!ClientsInStep

LEMMA LifeDefaultConfig == ASSUME LifeInv, E!DefaultConfig PROVE LifeInv'
  BY LifeAssumption, Places
  DEF E!DefaultConfig, E!Enter, PhaseOf, LifeInv, ListedExist, PhaseInStep,
      AtRest, E!TypeOK, E!PointersAlive, E!ClientsInStep

\* The next phase begins: it is to reach every component that is listed, and
\* the one before reached them all.
LEMMA LifeEnter ==
  ASSUME LifeInv, notReached = {}, NEW s, E!Enter(s, listed),
         \/ coreStage = "configured" /\ s = "onLoad" /\ syncHandled' = syncHandled
         \/ coreStage = "onLoad" /\ s = "onInit" /\ syncHandled' = TRUE
         \/ coreStage = "onInit" /\ s = "onReady" /\ syncHandled' = syncHandled
  PROVE  LifeInv'
<1>1. /\ coreStage' = s /\ notReached' = listed /\ listed' = listed /\ players' = players
      /\ coreNetworks' = coreNetworks /\ existing' = existing /\ phaseOf' = phaseOf
      /\ pointers' = pointers /\ coreReloading' = coreReloading /\ gameOver' = gameOver
  BY DEF E!Enter
<1>2. /\ coreStage \in {"configured", "onLoad", "onInit"}
      /\ s \in {"onLoad", "onInit", "onReady"} /\ PhaseOf(s) - 1 = PhaseOf(coreStage)
      /\ PhaseOf(coreStage) \in Int
  BY DEF PhaseOf
<1>7. syncHandled' \in BOOLEAN
  BY DEF LifeInv, E!TypeOK
<1>3. E!TypeOK'
  BY <1>1, <1>2, <1>7 DEF LifeInv, E!TypeOK
<1>4. ListedExist' /\ E!PointersAlive'
  BY <1>1, <1>2 DEF LifeInv, ListedExist, E!PointersAlive
<1>5. PhaseInStep'
  BY <1>1, <1>2 DEF LifeInv, PhaseInStep
<1>6. AtRest' /\ E!ClientsInStep'
  BY <1>1, <1>2 DEF LifeInv, AtRest, E!ClientsInStep
<1> QED BY <1>3, <1>4, <1>5, <1>6 DEF LifeInv

LEMMA LifeEndPhase == ASSUME LifeInv, E!EndPhase PROVE LifeInv'
<1>1. CASE coreStage = "onReady" /\ E!Enter("running", {}) /\ UNCHANGED syncHandled
  <2>1. notReached = {}
    BY DEF E!EndPhase
  <2> QED BY <1>1, <2>1
          DEF E!Enter, LifeInv, ListedExist, PhaseInStep, PhaseOf, AtRest, E!TypeOK,
              E!PointersAlive, E!ClientsInStep
<1>2. CASE coreStage # "onReady"
  BY <1>2, LifeEnter DEF E!EndPhase
<1> QED BY <1>1, <1>2 DEF E!EndPhase

LEMMA LifeConnect ==
  ASSUME LifeInv, NEW p \in Alone, E!Connect(p)
  PROVE  LifeInv'
  BY LifeAssumption, Places
  DEF E!Connect, PhaseOf, LifeInv, ListedExist, PhaseInStep, AtRest, E!TypeOK,
      E!PointersAlive, E!ClientsInStep

LEMMA LifeDisconnect ==
  ASSUME LifeInv, NEW p \in Alone, E!Disconnect(p)
  PROVE  LifeInv'
  BY LifeAssumption, Places
  DEF E!Disconnect, PhaseOf, LifeInv, ListedExist, PhaseInStep, AtRest,
      E!TypeOK, E!PointersAlive, E!ClientsInStep

LEMMA LifeResetAll == ASSUME LifeInv, E!ResetAll PROVE LifeInv'
  BY LifeAssumption, Places
  DEF E!ResetAll, PhaseOf, LifeInv, ListedExist, PhaseInStep, AtRest, E!TypeOK,
      E!PointersAlive, E!ClientsInStep

LEMMA LifeReloadAll == ASSUME LifeInv, E!ReloadAll PROVE LifeInv'
  BY LifeAssumption, Places
  DEF E!ReloadAll, PhaseOf, LifeInv, ListedExist, PhaseInStep, AtRest,
      E!TypeOK, E!PointersAlive, E!ClientsInStep

LEMMA LifeStop == ASSUME LifeInv, E!Stop PROVE LifeInv'
  BY LifeAssumption, Places
  DEF E!Stop, PhaseOf, LifeInv, ListedExist, PhaseInStep, AtRest, E!TypeOK,
      E!PointersAlive, E!ClientsInStep

LEMMA LifeStep == ASSUME LifeInv, E!Next PROVE LifeInv'
  BY LifeLoadComponent, LifeReach, LifeFree, LifeEndLoading,
     LifeDefaultConfig, LifeEndPhase, LifeConnect, LifeDisconnect,
     LifeResetAll, LifeReloadAll, LifeStop
  DEF E!Next

LEMMA LifeImply ==
  ASSUME LifeInv
  PROVE  E!TypeOK /\ E!PointersAlive /\ E!PhasesInStep /\ E!ClientsInStep
<1>1. CASE coreStage = "freeing"
  BY <1>1 DEF LifeInv, E!PhasesInStep
<1>2. CASE coreStage = "loading"
  <2>1. \A c \in Components : phaseOf[c] = 1
    BY <1>2 DEF LifeInv, PhaseInStep
  <2>2. listed \subseteq Components
    BY DEF LifeInv, E!TypeOK
  <2> QED BY <2>1, <2>2 DEF LifeInv, E!PhasesInStep
<1>3. CASE coreStage \notin {"loading", "freeing"}
  <2>1. \A c \in listed : phaseOf[c] \in {PhaseOf(coreStage) - 1, PhaseOf(coreStage)}
    BY <1>3 DEF LifeInv, PhaseInStep
  <2>2. PhaseOf(coreStage) \in Nat
    BY DEF PhaseOf
  <2> QED BY <2>1, <2>2 DEF LifeInv, E!PhasesInStep
<1> QED BY <1>1, <1>2, <1>3

-----------------------------------------------------------------------------
(* NPCs: playback                                                           *)

PlaybackTypes ==
    /\ playback \in [Bots -> [record : R!RecordIds, file : Files, autoUnload : BOOLEAN,
                              frame : 0 .. MaxFrames, paused : BOOLEAN] \union {None}]
    /\ ending.next \in [record : R!RecordIds, autoUnload : BOOLEAN] \union {None}
    /\ ending \in [npc : Bots \union {None},
                   next : [record : R!RecordIds, autoUnload : BOOLEAN] \union {None}]
    /\ ending.next # None => ending.npc # None

\* Ids that were not given are of no record and of no playback.
RecordsNew ==
    /\ \A r \in R!RecordIds : r >= nextRecordId_ => records[r] = None
    /\ Careful => \A n \in Bots : playback[n] # None => playback[n].record < nextRecordId_

\* An NPC whose end another playback will follow has none.
EndingApart == ending.next # None => playback[ending.npc] = None

PlaybackInv ==
    /\ R!TypeOK /\ PlaybackTypes /\ RecordsNew
    /\ \A r, q \in R!RecordIds : records[r] = records[q] /\ records[r] # None => r = q
    /\ Careful => R!RecordsExact /\ EndingApart /\ R!EndsOnce

Playbacks == [record : R!RecordIds, file : Files, autoUnload : BOOLEAN,
              frame : 0 .. MaxFrames, paused : BOOLEAN]

\* A frame goes by, or a pause begins or ends: the record stays.
LEMMA PlaybackGoesOn ==
  ASSUME PlaybackInv, NEW n \in Bots, playback[n] # None, NEW b \in Playbacks,
         b.record = playback[n].record, b.file = playback[n].file,
         playback' = [playback EXCEPT ![n] = b],
         UNCHANGED <<records, nextRecordId_, ending, unended>>
  PROVE  PlaybackInv'
<1>1. /\ playback \in [Bots -> Playbacks \union {None}] /\ b # None
      /\ records' = records /\ nextRecordId_' = nextRecordId_ /\ ending' = ending
      /\ unended' = unended
  BY PlaybackAssumption DEF PlaybackInv, PlaybackTypes, Playbacks, R!RecordIds
<1>2. \A m \in Bots : playback'[m] = IF m = n THEN b ELSE playback[m]
  BY <1>1
<1>3. R!TypeOK' /\ PlaybackTypes'
  BY <1>1, <1>2 DEF PlaybackInv, PlaybackTypes, R!TypeOK, Playbacks
<1>4. RecordsNew' /\ \A r, q \in R!RecordIds : records'[r] = records'[q] /\ records'[r] # None => r = q
  BY <1>1, <1>2 DEF PlaybackInv, RecordsNew
<1>5. Careful => R!RecordsExact'
  BY <1>1, <1>2 DEF PlaybackInv, R!RecordsExact, R!Valid
<1>6. Careful => EndingApart' /\ R!EndsOnce'
  BY <1>1, <1>2 DEF PlaybackInv, EndingApart, R!EndsOnce, PlaybackTypes
<1> QED BY <1>3, <1>4, <1>5, <1>6 DEF PlaybackInv

\* A playback begins for an NPC that had none.
LEMMA PlaybackBegins ==
  ASSUME PlaybackInv, NEW n \in Bots, NEW r \in R!RecordIds, NEW auto \in BOOLEAN,
         Careful => playback[n] = None, R!Begun(n, r, auto),
         UNCHANGED <<records, nextRecordId_>>,
         \/ ending' = R!Calm
         \/ ending' = ending /\ (Careful => ~(ending.npc = n /\ ending.next # None))
  PROVE  PlaybackInv'
<1> DEFINE b == [record |-> r, file |-> records[r], autoUnload |-> auto, frame |-> 0,
                 paused |-> FALSE]
<1>1. /\ playback \in [Bots -> Playbacks \union {None}]
      /\ records' = records /\ nextRecordId_' = nextRecordId_
      /\ records[r] \in Files \union {None} /\ None \notin Files
  BY PlaybackAssumption DEF PlaybackInv, PlaybackTypes, Playbacks, R!TypeOK
<1>2. CASE records[r] # None
  <2>8. b \in Playbacks /\ b.record = r /\ b.file = records[r]
    BY <1>1, <1>2, PlaybackAssumption DEF Playbacks
  <2>9. b # None
    BY <2>8, PlaybackAssumption DEF Playbacks, R!RecordIds
  <2>1. /\ playback' = [playback EXCEPT ![n] = b] /\ unended' = [unended EXCEPT ![n] = @ + 1]
        /\ b \in Playbacks /\ b.record = r /\ b.file = records[r] /\ b # None
    BY <1>2, <2>8, <2>9 DEF R!Begun
  <2> HIDE DEF b
  <2>2. \A m \in Bots : playback'[m] = IF m = n THEN b ELSE playback[m]
    BY <1>1, <2>1
  <2>3. R!TypeOK' /\ PlaybackTypes'
    BY <1>1, <2>1, PlaybackAssumption
    DEF PlaybackInv, PlaybackTypes, R!TypeOK, Playbacks, R!Calm
  <2>4. /\ RecordsNew'
        /\ \A s, q \in R!RecordIds : records'[s] = records'[q] /\ records'[s] # None => s = q
    <3>1. r < nextRecordId_
      BY <1>2, PlaybackAssumption DEF PlaybackInv, RecordsNew, R!RecordIds, R!TypeOK
    <3> QED BY <1>1, <2>1, <2>2, <3>1 DEF PlaybackInv, RecordsNew
  <2>5. Careful => R!RecordsExact'
    BY <1>1, <2>1, <2>2 DEF PlaybackInv, R!RecordsExact, R!Valid
  <2>6. Careful => EndingApart'
    BY <2>2 DEF PlaybackInv, EndingApart, R!Calm, PlaybackTypes
  <2>7. Careful => R!EndsOnce'
    BY <1>1, <2>1, <2>2 DEF PlaybackInv, R!EndsOnce, R!TypeOK
  <2> QED BY <2>3, <2>4, <2>5, <2>6, <2>7 DEF PlaybackInv
<1>3. CASE records[r] = None
  <2>1. playback' = [playback EXCEPT ![n] = None] /\ unended' = unended
    BY <1>3 DEF R!Begun
  <2>2. \A m \in Bots : playback'[m] = IF m = n THEN None ELSE playback[m]
    BY <1>1, <2>1
  <2> QED BY <1>1, <2>1, <2>2
          DEF PlaybackInv, PlaybackTypes, RecordsNew, EndingApart, R!TypeOK, Playbacks,
              R!Calm, R!RecordsExact, R!EndsOnce, R!Valid
<1> QED BY <1>2, <1>3

LEMMA PlaybackInit == ASSUME R!Init PROVE PlaybackInv
  BY PlaybackAssumption
  DEF R!Init, R!Calm, PlaybackInv, PlaybackTypes, RecordsNew, EndingApart,
      R!TypeOK, R!RecordsExact, R!EndsOnce, R!RecordIds, R!Valid

LEMMA PlaybackStutter ==
  ASSUME PlaybackInv, UNCHANGED <<players, playbackVars>>
  PROVE  PlaybackInv'
  BY DEF playbackVars, PlaybackInv, PlaybackTypes, RecordsNew, EndingApart,
         R!TypeOK, R!RecordsExact, R!EndsOnce, R!RecordIds, R!Valid

LEMMA PlaybackLoadRecord ==
  ASSUME PlaybackInv, NEW f \in Files, R!LoadRecord(f)
  PROVE  PlaybackInv'
<1>1. /\ nextRecordId_ \in R!RecordIds /\ nextRecordId_' = nextRecordId_ + 1
      /\ records' = [records EXCEPT ![nextRecordId_] = f]
      /\ playback' = playback /\ ending' = ending /\ unended' = unended
      /\ \A r \in R!RecordIds : records[r] # f
  BY PlaybackAssumption DEF R!LoadRecord, R!Loaded, R!RecordIds, PlaybackInv, R!TypeOK
<1>2. R!TypeOK' /\ PlaybackTypes'
  BY <1>1, PlaybackAssumption DEF PlaybackInv, PlaybackTypes, R!TypeOK, R!RecordIds
<1>3. RecordsNew'
  BY <1>1, PlaybackAssumption
  DEF PlaybackInv, PlaybackTypes, RecordsNew, R!TypeOK, R!RecordIds
<1>4. \A s, q \in R!RecordIds : records'[s] = records'[q] /\ records'[s] # None => s = q
  BY <1>1 DEF PlaybackInv, R!TypeOK
<1>5. Careful => R!RecordsExact'
  <2>1. ASSUME Careful, NEW n \in Bots, playback[n] # None
        PROVE  playback[n].record \in R!RecordIds /\ playback[n].record # nextRecordId_
    BY <1>1, <2>1 DEF PlaybackInv, PlaybackTypes, RecordsNew, R!RecordIds, R!TypeOK
  <2> QED BY <1>1, <1>4, <2>1 DEF PlaybackInv, R!RecordsExact, R!Valid, R!TypeOK
<1>6. Careful => EndingApart' /\ R!EndsOnce'
  BY <1>1 DEF PlaybackInv, EndingApart, R!EndsOnce
<1> QED BY <1>2, <1>3, <1>4, <1>5, <1>6 DEF PlaybackInv

LEMMA PlaybackUnloadRecord ==
  ASSUME PlaybackInv, NEW r \in R!RecordIds, R!UnloadRecord(r)
  PROVE  PlaybackInv'
  BY PlaybackAssumption
  DEF R!UnloadRecord, PlaybackInv, PlaybackTypes, RecordsNew, EndingApart,
      R!TypeOK, R!RecordsExact, R!EndsOnce, R!RecordIds, R!Valid

LEMMA PlaybackUnloadAllRecords ==
  ASSUME PlaybackInv, R!UnloadAllRecords
  PROVE  PlaybackInv'
  BY PlaybackAssumption
  DEF R!UnloadAllRecords, PlaybackInv, PlaybackTypes, RecordsNew, EndingApart,
      R!TypeOK, R!RecordsExact, R!EndsOnce, R!RecordIds, R!Valid

LEMMA PlaybackStartPlayback ==
  ASSUME PlaybackInv, NEW n \in Bots, NEW r \in R!RecordIds,
         NEW auto \in BOOLEAN, R!StartPlayback(n, r, auto)
  PROVE  PlaybackInv'
  BY PlaybackBegins DEF R!StartPlayback

LEMMA PlaybackReplacePlayback ==
  ASSUME PlaybackInv, NEW n \in Bots, NEW r \in R!RecordIds,
         NEW auto \in BOOLEAN, R!ReplacePlayback(n, r, auto)
  PROVE  PlaybackInv'
  BY PlaybackAssumption
  DEF R!ReplacePlayback, R!EndPlayback, R!Calm, R!Unloaded, R!Ended,
      PlaybackInv, PlaybackTypes, RecordsNew, EndingApart, R!TypeOK,
      R!RecordsExact, R!EndsOnce, R!RecordIds, R!Valid

LEMMA PlaybackStopPlayback ==
  ASSUME PlaybackInv, NEW n \in Bots, R!StopPlayback(n)
  PROVE  PlaybackInv'
  BY PlaybackAssumption
  DEF R!StopPlayback, R!EndPlayback, R!Calm, R!Unloaded, R!Ended, PlaybackInv,
      PlaybackTypes, RecordsNew, EndingApart, R!TypeOK, R!RecordsExact,
      R!EndsOnce, R!RecordIds, R!Valid

LEMMA PlaybackReturn == ASSUME PlaybackInv, R!Return PROVE PlaybackInv'
<1>1. /\ ending' = R!Calm /\ records' = records /\ nextRecordId_' = nextRecordId_
      /\ ending \in [npc : Bots \union {None},
                     next : [record : R!RecordIds, autoUnload : BOOLEAN] \union {None}]
      /\ ending.next # None => ending.npc # None
  BY DEF R!Return, PlaybackInv, PlaybackTypes
<1>2. CASE ending.next = None
  <2>1. playback' = playback /\ unended' = unended
    BY <1>2 DEF R!Return
  <2> QED BY <1>1, <2>1 DEF R!Calm, PlaybackInv, PlaybackTypes, RecordsNew,
             EndingApart, R!TypeOK,
             R!RecordsExact, R!EndsOnce, R!Valid
<1>3. CASE ending.next # None
  <2>1. /\ ending.npc \in Bots /\ ending.next.record \in R!RecordIds
        /\ ending.next.autoUnload \in BOOLEAN
    BY <1>1, <1>3
  <2>2. Careful => playback[ending.npc] = None
    BY <1>3 DEF PlaybackInv, EndingApart
  <2>3. R!Begun(ending.npc, ending.next.record, ending.next.autoUnload)
    BY <1>3 DEF R!Return
  <2> QED BY <1>1, <2>1, <2>2, <2>3, PlaybackBegins
<1> QED BY <1>2, <1>3

LEMMA PlaybackPausePlayback ==
  ASSUME PlaybackInv, NEW n \in Bots, R!PausePlayback(n)
  PROVE  PlaybackInv'
<1> DEFINE b == [playback[n] EXCEPT !.paused = ~@]
<1>1. playback[n] \in Playbacks
  BY DEF R!PausePlayback, PlaybackInv, PlaybackTypes, Playbacks
<1>2. /\ b \in Playbacks /\ b.record = playback[n].record /\ b.file = playback[n].file
      /\ playback' = [playback EXCEPT ![n] = b]
  BY <1>1 DEF R!PausePlayback, Playbacks
<1> HIDE DEF b
<1> QED BY <1>2, PlaybackGoesOn DEF R!PausePlayback

LEMMA PlaybackProcess ==
  ASSUME PlaybackInv, NEW n \in Bots, R!Process(n)
  PROVE  PlaybackInv'
<1> DEFINE b == [playback[n] EXCEPT !.frame = @ + 1]
<1>1. playback[n] \in Playbacks /\ playback[n] # None
  BY DEF R!Process, R!Valid, PlaybackInv, PlaybackTypes, Playbacks
<1>2. /\ b \in Playbacks /\ b.record = playback[n].record /\ b.file = playback[n].file
      /\ playback' = [playback EXCEPT ![n] = b]
  BY <1>1, PlaybackAssumption DEF R!Process, Playbacks
<1> HIDE DEF b
<1> QED BY <1>1, <1>2, PlaybackGoesOn DEF R!Process

LEMMA PlaybackFinish ==
  ASSUME PlaybackInv, NEW n \in Bots, R!Finish(n)
  PROVE  PlaybackInv'
  BY PlaybackAssumption
  DEF R!Finish, R!EndPlayback, R!Calm, R!Unloaded, R!Ended, PlaybackInv,
      PlaybackTypes, RecordsNew, EndingApart, R!TypeOK, R!RecordsExact,
      R!EndsOnce, R!RecordIds, R!Valid

LEMMA PlaybackDestroy ==
  ASSUME PlaybackInv, NEW n \in Bots, R!Destroy(n)
  PROVE  PlaybackInv'
  BY PlaybackAssumption
  DEF R!Destroy, R!Unloaded, R!Ended, PlaybackInv, PlaybackTypes, RecordsNew,
      EndingApart, R!TypeOK, R!RecordsExact, R!EndsOnce, R!RecordIds, R!Valid

LEMMA PlaybackStep == ASSUME PlaybackInv, R!Next PROVE PlaybackInv'
  BY PlaybackLoadRecord, PlaybackUnloadRecord, PlaybackUnloadAllRecords,
     PlaybackStartPlayback, PlaybackReplacePlayback, PlaybackStopPlayback,
     PlaybackReturn, PlaybackPausePlayback, PlaybackProcess, PlaybackFinish,
     PlaybackDestroy
  DEF R!Next

LEMMA PlaybackImply ==
  ASSUME PlaybackInv
  PROVE  R!TypeOK /\ (Careful => R!RecordsExact /\ R!EndsOnce)
  BY DEF PlaybackInv

-----------------------------------------------------------------------------
(* Bans                                                                     *)

\* What may be left to do of a ban: of Player::ban, and of banip.
BanSteps == {<<"enforce", "add", "write", "kick">>, <<"add", "write", "kick">>,
             <<"write", "kick">>, <<"kick">>,
             <<"add", "enforce", "write">>, <<"enforce", "write">>, <<"write">>}

BanTypes ==
    /\ serverRuns \in BOOLEAN
    /\ banList \subseteq IPs /\ banFile \subseteq IPs /\ sampBan \subseteq IPs
    /\ inForce \subseteq IPs /\ addressesIn \subseteq IPs /\ addressesOut \subseteq IPs
    /\ banned \subseteq IPs /\ lifted \subseteq IPs /\ blocked \subseteq IPs
    /\ \/ doing = F!Nothing
       \/ doing \in [address : IPs, left : BanSteps]

\* A server that does not run keeps only its files.
Unstarted == ~serverRuns =>
    /\ banList = {} /\ inForce = {} /\ blocked = {}
    /\ addressesIn = {} /\ addressesOut = {}
    /\ doing = F!Nothing

\* While a ban is made its address is in the list and not yet in force, or the
\* other way round; what is in the file and not lifted is in the list.
BansHeld ==
    /\ \A a \in banList \ {LocalIP} :
         a \in inForce \/ (doing.left = <<"enforce", "write">> /\ doing.address = a)
    /\ doing.left = <<"add", "write", "kick">> => doing.address \in inForce \union {LocalIP}
    /\ banned \subseteq banFile
    /\ serverRuns => banned \subseteq banList
    /\ doing.left \in {<<"write", "kick">>, <<"enforce", "write">>, <<"write">>} =>
         doing.address \in banList
    /\ doing # F!Nothing => doing.address \notin lifted
    /\ F!Lifted

BanInv ==
    /\ BanTypes /\ Unstarted
    /\ addressesIn \intersect inForce \subseteq addressesOut
    /\ Careful => BansHeld

\* A ban that is being made goes to its next step.
LEMMA BanGoesOn ==
  ASSUME BanTypes, NEW step, F!Do(step)
  PROVE  /\ serverRuns /\ doing # F!Nothing /\ doing \in [address : IPs, left : BanSteps]
         /\ \/ /\ step = "enforce" /\ doing.left = <<"enforce", "add", "write", "kick">>
               /\ doing' = [address |-> doing.address, left |-> <<"add", "write", "kick">>]
            \/ /\ step = "add" /\ doing.left = <<"add", "write", "kick">>
               /\ doing' = [address |-> doing.address, left |-> <<"write", "kick">>]
            \/ /\ step = "write" /\ doing.left = <<"write", "kick">>
               /\ doing' = [address |-> doing.address, left |-> <<"kick">>]
            \/ /\ step = "kick" /\ doing.left = <<"kick">>
               /\ doing' = F!Nothing
            \/ /\ step = "add" /\ doing.left = <<"add", "enforce", "write">>
               /\ doing' = [address |-> doing.address, left |-> <<"enforce", "write">>]
            \/ /\ step = "enforce" /\ doing.left = <<"enforce", "write">>
               /\ doing' = [address |-> doing.address, left |-> <<"write">>]
            \/ /\ step = "write" /\ doing.left = <<"write">>
               /\ doing' = F!Nothing
<1>1. /\ serverRuns /\ doing # F!Nothing /\ doing \in [address : IPs, left : BanSteps]
      /\ doing.left \in BanSteps
  <2>1. serverRuns /\ doing # F!Nothing
    BY DEF F!Do
  <2>2. doing \in [address : IPs, left : BanSteps]
    BY <2>1 DEF BanTypes
  <2> QED BY <2>1, <2>2
<1>2. CASE doing.left = <<"enforce", "add", "write", "kick">>
  <2>1. /\ Head(<<"enforce", "add", "write", "kick">>) = "enforce"
        /\ Len(<<"enforce", "add", "write", "kick">>) = 4
        /\ Tail(<<"enforce", "add", "write", "kick">>) = <<"add", "write", "kick">>
    OBVIOUS
  <2> QED BY <1>1, <1>2, <2>1 DEF F!Do
<1>3. CASE doing.left = <<"add", "write", "kick">>
  <2>1. /\ Head(<<"add", "write", "kick">>) = "add"
        /\ Len(<<"add", "write", "kick">>) = 3
        /\ Tail(<<"add", "write", "kick">>) = <<"write", "kick">>
    OBVIOUS
  <2> QED BY <1>1, <1>3, <2>1 DEF F!Do
<1>4. CASE doing.left = <<"write", "kick">>
  <2>1. /\ Head(<<"write", "kick">>) = "write"
        /\ Len(<<"write", "kick">>) = 2
        /\ Tail(<<"write", "kick">>) = <<"kick">>
    OBVIOUS
  <2> QED BY <1>1, <1>4, <2>1 DEF F!Do
<1>5. CASE doing.left = <<"kick">>
  <2>1. Head(<<"kick">>) = "kick" /\ Len(<<"kick">>) = 1
    OBVIOUS
  <2> QED BY <1>1, <1>5, <2>1 DEF F!Do
<1>6. CASE doing.left = <<"add", "enforce", "write">>
  <2>1. /\ Head(<<"add", "enforce", "write">>) = "add"
        /\ Len(<<"add", "enforce", "write">>) = 3
        /\ Tail(<<"add", "enforce", "write">>) = <<"enforce", "write">>
    OBVIOUS
  <2> QED BY <1>1, <1>6, <2>1 DEF F!Do
<1>7. CASE doing.left = <<"enforce", "write">>
  <2>1. /\ Head(<<"enforce", "write">>) = "enforce"
        /\ Len(<<"enforce", "write">>) = 2
        /\ Tail(<<"enforce", "write">>) = <<"write">>
    OBVIOUS
  <2> QED BY <1>1, <1>7, <2>1 DEF F!Do
<1>8. CASE doing.left = <<"write">>
  <2>1. Head(<<"write">>) = "write" /\ Len(<<"write">>) = 1
    OBVIOUS
  <2> QED BY <1>1, <1>8, <2>1 DEF F!Do
<1> QED BY <1>1, <1>2, <1>3, <1>4, <1>5, <1>6, <1>7, <1>8 DEF BanSteps

LEMMA BansInit == ASSUME F!Init PROVE BanInv
  BY BansAssumption
  DEF F!Init, BanInv, BanTypes, Unstarted, BansHeld, F!Kept, F!Lifted, F!Idle,
      F!Nothing

LEMMA BansStutter ==
  ASSUME BanInv, UNCHANGED <<players, bansVars>>
  PROVE  BanInv'
  BY DEF bansVars, BanInv, BanTypes, Unstarted, BansHeld, F!Kept, F!Lifted,
         F!Idle, F!Nothing

LEMMA BansStart == ASSUME BanInv, F!Start PROVE BanInv'
  BY BansAssumption
  DEF F!Start, BanInv, BanTypes, Unstarted, BansHeld, F!Kept, F!Lifted, F!Idle,
      F!Nothing

LEMMA BansStop == ASSUME BanInv, F!Stop PROVE BanInv'
  BY BansAssumption
  DEF F!Stop, BanInv, BanTypes, Unstarted, BansHeld, F!Kept, F!Lifted, F!Idle,
      F!Nothing

LEMMA BansEnforceBan == ASSUME BanInv, F!EnforceBan PROVE BanInv'
<1> USE DEF BanInv
<1>1. serverRuns /\ doing # F!Nothing /\ doing \in [address : IPs, left : BanSteps]
  BY BanGoesOn DEF F!EnforceBan
<1>2. CASE /\ doing.left = <<"enforce", "add", "write", "kick">>
           /\ doing' = [address |-> doing.address, left |-> <<"add", "write", "kick">>]
  BY <1>1, <1>2, BansAssumption
  DEF F!EnforceBan, F!Enforce, BanTypes, BanSteps, Unstarted, BansHeld, F!Lifted,
      F!Nothing
<1>3. CASE /\ doing.left = <<"enforce", "write">>
           /\ doing' = [address |-> doing.address, left |-> <<"write">>]
  BY <1>1, <1>3, BansAssumption
  DEF F!EnforceBan, F!Enforce, BanTypes, BanSteps, Unstarted, BansHeld, F!Lifted,
      F!Nothing
<1> QED BY BanGoesOn, <1>2, <1>3 DEF F!EnforceBan

LEMMA BansAddBan == ASSUME BanInv, F!AddBan PROVE BanInv'
<1> USE DEF BanInv
<1>1. serverRuns /\ doing # F!Nothing /\ doing \in [address : IPs, left : BanSteps]
  BY BanGoesOn DEF F!AddBan
<1>2. CASE /\ doing.left = <<"add", "write", "kick">>
           /\ doing' = [address |-> doing.address, left |-> <<"write", "kick">>]
  <2>1. /\ banList' = banList \union {doing.address}
        /\ UNCHANGED <<serverRuns, banFile, sampBan, inForce,
          addressesIn, addressesOut, banned, lifted, blocked>>
    BY DEF F!AddBan
  <2>2. BanTypes' /\ Unstarted'
    BY <1>1, <1>2, <2>1, BansAssumption DEF BanTypes, BanSteps, Unstarted, F!Nothing
  <2>3. Careful => BansHeld'
    BY <1>1, <1>2, <2>1 DEF BansHeld, F!Lifted, F!Nothing
  <2> QED BY <2>1, <2>2, <2>3
<1>3. CASE /\ doing.left = <<"add", "enforce", "write">>
           /\ doing' = [address |-> doing.address, left |-> <<"enforce", "write">>]
  <2>1. /\ banList' = banList \union {doing.address}
        /\ UNCHANGED <<serverRuns, banFile, sampBan, inForce,
          addressesIn, addressesOut, banned, lifted, blocked>>
    BY DEF F!AddBan
  <2>2. BanTypes' /\ Unstarted'
    BY <1>1, <1>3, <2>1, BansAssumption DEF BanTypes, BanSteps, Unstarted, F!Nothing
  <2>3. Careful => BansHeld'
    BY <1>1, <1>3, <2>1 DEF BansHeld, F!Lifted, F!Nothing
  <2> QED BY <2>1, <2>2, <2>3
<1> QED BY BanGoesOn, <1>2, <1>3 DEF F!AddBan

LEMMA BansWriteBans == ASSUME BanInv, F!WriteBans PROVE BanInv'
<1> USE DEF BanInv
<1>1. serverRuns /\ doing # F!Nothing /\ doing \in [address : IPs, left : BanSteps]
  BY BanGoesOn DEF F!WriteBans
<1>2. CASE /\ doing.left = <<"write", "kick">>
           /\ doing' = [address |-> doing.address, left |-> <<"kick">>]
  BY <1>1, <1>2, BansAssumption
  DEF F!WriteBans, BanTypes, BanSteps, Unstarted, BansHeld, F!Lifted, F!Nothing
<1>3. CASE doing.left = <<"write">> /\ doing' = F!Nothing
  BY <1>1, <1>3, BansAssumption
  DEF F!WriteBans, BanTypes, BanSteps, Unstarted, BansHeld, F!Lifted, F!Nothing
<1> QED BY BanGoesOn, <1>2, <1>3 DEF F!WriteBans

LEMMA BansKick == ASSUME BanInv, F!Kick PROVE BanInv'
  BY BansAssumption, BanGoesOn
  DEF F!Kick, BanInv, BanTypes, Unstarted, BansHeld, F!Kept, F!Lifted, F!Idle,
      F!Nothing

LEMMA BansReloadBans == ASSUME BanInv, F!ReloadBans PROVE BanInv'
  BY BansAssumption
  DEF F!ReloadBans, BanInv, BanTypes, Unstarted, BansHeld, F!Kept, F!Lifted,
      F!Idle, F!Nothing

LEMMA BansClearBans == ASSUME BanInv, F!ClearBans PROVE BanInv'
  BY BansAssumption
  DEF F!ClearBans, BanInv, BanTypes, Unstarted, BansHeld, F!Kept, F!Lifted,
      F!Idle, F!Nothing

LEMMA BansBan == ASSUME BanInv, NEW a \in IPs, F!Ban(a) PROVE BanInv'
  BY BansAssumption
  DEF F!Ban, F!Begin, BanSteps, BanInv, BanTypes, Unstarted, BansHeld, F!Kept,
      F!Lifted, F!Idle, F!Nothing

LEMMA BansBanIp == ASSUME BanInv, NEW a \in IPs, F!BanIp(a) PROVE BanInv'
  BY BansAssumption
  DEF F!BanIp, F!Begin, BanSteps, BanInv, BanTypes, Unstarted, BansHeld,
      F!Kept, F!Lifted, F!Idle, F!Nothing

LEMMA BansUnbanIp == ASSUME BanInv, NEW a \in IPs, F!UnbanIp(a) PROVE BanInv'
  BY BansAssumption
  DEF F!UnbanIp, BanInv, BanTypes, Unstarted, BansHeld, F!Kept, F!Lifted,
      F!Idle, F!Nothing

LEMMA BansBlock == ASSUME BanInv, NEW a \in IPs, F!Block(a) PROVE BanInv'
  BY BansAssumption
  DEF F!Block, F!Enforce, BanInv, BanTypes, Unstarted, BansHeld, F!Kept,
      F!Lifted, F!Idle, F!Nothing

LEMMA BansUnblock == ASSUME BanInv, NEW a \in IPs, F!Unblock(a) PROVE BanInv'
  BY BansAssumption
  DEF F!Unblock, BanInv, BanTypes, Unstarted, BansHeld, F!Kept, F!Lifted,
      F!Idle, F!Nothing

LEMMA BansConnect == ASSUME BanInv, NEW a \in IPs, F!Connect(a) PROVE BanInv'
  BY BansAssumption
  DEF F!Connect, BanInv, BanTypes, Unstarted, BansHeld, F!Kept, F!Lifted,
      F!Idle, F!Nothing

LEMMA BansDisconnect ==
  ASSUME BanInv, NEW a \in IPs, F!Disconnect(a)
  PROVE  BanInv'
  BY BansAssumption
  DEF F!Disconnect, BanInv, BanTypes, Unstarted, BansHeld, F!Kept, F!Lifted,
      F!Idle, F!Nothing

LEMMA BansEditFile ==
  ASSUME BanInv, NEW addresses \in SUBSET IPs, F!EditFile(addresses)
  PROVE  BanInv'
  BY BansAssumption
  DEF F!EditFile, BanInv, BanTypes, Unstarted, BansHeld, F!Kept, F!Lifted,
      F!Idle, F!Nothing

LEMMA BansImply ==
  ASSUME BanInv
  PROVE  F!TypeOK /\ (Careful => F!Kept /\ F!Lifted)
<1>1. F!TypeOK
  <2>1. \A i \in DOMAIN doing.left : doing.left[i] \in {"enforce", "add", "write", "kick"}
    BY DEF BanInv, BanTypes, BanSteps, F!Nothing
  <2> QED BY <2>1, BansAssumption DEF BanInv, BanTypes, F!TypeOK, F!Nothing
<1> QED BY <1>1 DEF BanInv, BansHeld, F!Kept, F!Idle, F!Nothing

LEMMA BansStep == ASSUME BanInv, F!Next PROVE BanInv'
  BY BansStart, BansStop, BansEnforceBan, BansAddBan, BansWriteBans,
     BansKick, BansReloadBans, BansClearBans, BansBan, BansBanIp,
     BansUnbanIp, BansBlock, BansUnblock, BansConnect, BansDisconnect,
     BansEditFile
  DEF F!Next

-----------------------------------------------------------------------------
(* NPCs: movement, paths and nodes                                          *)

MoveTypes ==
    /\ points \in [Paths -> -1 .. MaxPoints]
    /\ opened \subseteq Nodes
    /\ moving \in BOOLEAN /\ following \in BOOLEAN /\ followAgain \in BOOLEAN
    /\ toEnter \in BOOLEAN /\ movingByPath \in BOOLEAN /\ pathReverse \in BOOLEAN
    /\ playing \in BOOLEAN /\ nodePaused \in BOOLEAN
    /\ currentPath \in Paths \union {None}
    /\ index \in 0 .. MaxPoints
    /\ movingByPath => index < MaxPoints
    /\ currentNode \in Nodes \union {None}
    /\ order \in {"none", "stop", "move"}

\* What the code does after a callback; after that of a point of a path the NPC
\* moves on, which it has an order for.
MoveCalls ==
    \/ pointCalling = [at |-> "none", next |-> None]
    \/ pointCalling = [at |-> "finish", next |-> None]
    \/ pointCalling = [at |-> "nodePoint", next |-> None]
    \/ pointCalling \in [at : {"node"}, next : Nodes \union {None}]
    \/ pointCalling \in [at : {"change"}, next : Nodes]
    \/ pointCalling \in [at : {"point"}, next : 0 .. MaxPoints] /\ order = "move"

MoveInv == MoveTypes /\ MoveCalls /\ V!NoDangling /\ V!Obeys

\* A stop ends the move, the pursuit of a player and the path.
LEMMA StopMoved ==
  ASSUME MoveInv, V!StopMove
  PROVE  /\ moving' = FALSE /\ following' = FALSE /\ movingByPath' = FALSE
         /\ currentPath' = None /\ index' \in 0 .. MaxPoints /\ pathReverse' \in BOOLEAN
         /\ followAgain' = followAgain
<1>1. /\ moving' = FALSE
      /\ following' = FALSE
      /\ movingByPath' = FALSE
      /\ followAgain' = followAgain
  BY DEF V!StopMove
<1>2. currentPath' = None
  BY DEF V!StopMove, V!NoDangling, MoveInv
<1>3. index' \in 0 .. MaxPoints
  BY MovesAssumption DEF V!StopMove, MoveInv, MoveTypes
<1>4. pathReverse' \in BOOLEAN
  <2>1. pathReverse \in BOOLEAN
    BY DEF MoveInv, MoveTypes
  <2>2. CASE movingByPath
    BY <2>2 DEF V!StopMove
  <2>3. CASE ~movingByPath
    BY <2>1, <2>3 DEF V!StopMove
  <2> QED BY <2>2, <2>3
<1> QED BY <1>1, <1>2, <1>3, <1>4

\* At a target without a path, the move is over, unless a player is followed.
LEMMA ArrivedThere ==
  ASSUME MoveInv, V!AfterArrival
  PROVE  /\ moving' = FALSE
         /\ following' \in BOOLEAN /\ movingByPath' \in BOOLEAN /\ pathReverse' \in BOOLEAN
         /\ followAgain' = followAgain
         /\ index' \in 0 .. MaxPoints /\ (movingByPath' => index' < MaxPoints)
         /\ following' => following /\ followAgain
         /\ movingByPath' <=> currentPath' # None
         /\ currentPath' \in {currentPath, None}
<1>1. CASE V!StopMove
  BY <1>1, StopMoved DEF MoveInv, MoveTypes
<1>2. CASE /\ ~((following /\ ~followAgain) \/ (~following /\ ~movingByPath))
           /\ moving' = FALSE /\ UNCHANGED <<following, followAgain, V!path>>
  BY <1>2 DEF MoveInv, MoveTypes, V!NoDangling, V!path
<1> QED BY <1>1, <1>2 DEF V!AfterArrival

LEMMA MovesInit == ASSUME V!Init PROVE MoveInv
<1>1. MoveTypes
  <2>1. points \in [Paths -> -1 .. MaxPoints] /\ opened \subseteq Nodes
    BY MovesAssumption DEF V!Init
  <2>2. /\ moving \in BOOLEAN /\ following \in BOOLEAN /\ followAgain \in BOOLEAN
        /\ toEnter \in BOOLEAN /\ movingByPath \in BOOLEAN /\ pathReverse \in BOOLEAN
        /\ playing \in BOOLEAN /\ nodePaused \in BOOLEAN
    BY DEF V!Init
  <2>3. index \in 0 .. MaxPoints /\ (movingByPath => index < MaxPoints)
    BY MovesAssumption DEF V!Init
  <2>4. /\ currentPath \in Paths \union {None} /\ currentNode \in Nodes \union {None}
        /\ order \in {"none", "stop", "move"}
    BY DEF V!Init
  <2> QED BY <2>1, <2>2, <2>3, <2>4 DEF MoveTypes
<1>2. MoveCalls
  BY DEF V!Init, MoveCalls, V!NoCall
<1>3. V!NoDangling /\ V!Obeys
  BY DEF V!Init, V!NoDangling, V!Obeys
<1> QED BY <1>1, <1>2, <1>3 DEF MoveInv

LEMMA MovesStutter ==
  ASSUME MoveInv, UNCHANGED <<players, movesVars>>
  PROVE  MoveInv'
  BY DEF movesVars, MoveInv, MoveTypes, MoveCalls, V!NoDangling, V!Obeys

LEMMA MovesCreatePath ==
  ASSUME MoveInv, NEW x \in Paths, Careful, V!CreatePath(x)
  PROVE  MoveInv'
  BY MovesAssumption
  DEF V!CreatePath, V!move, V!path, V!node, V!Call, V!NoCall, V!Idle, MoveInv,
      MoveTypes, MoveCalls, V!NoDangling, V!Obeys

LEMMA MovesDestroyPath ==
  ASSUME MoveInv, NEW x \in Paths, Careful, V!DestroyPath(x)
  PROVE  MoveInv'
  BY MovesAssumption
  DEF V!DestroyPath, V!move, V!path, V!node, V!Call, V!NoCall, V!Idle, MoveInv,
      MoveTypes, MoveCalls, V!NoDangling, V!Obeys

LEMMA MovesChangePath ==
  ASSUME MoveInv, NEW x \in Paths, NEW n \in 0 .. MaxPoints, Careful,
         V!ChangePath(x, n)
  PROVE  MoveInv'
  BY MovesAssumption
  DEF V!ChangePath, V!move, V!path, V!node, V!Call, V!NoCall, V!Idle, MoveInv,
      MoveTypes, MoveCalls, V!NoDangling, V!Obeys

LEMMA MovesOpenNode ==
  ASSUME MoveInv, NEW n \in Nodes, Careful, V!OpenNode(n)
  PROVE  MoveInv'
  BY MovesAssumption
  DEF V!OpenNode, V!move, V!path, V!node, V!Call, V!NoCall, V!Idle, MoveInv,
      MoveTypes, MoveCalls, V!NoDangling, V!Obeys

LEMMA MovesCloseNode ==
  ASSUME MoveInv, NEW n \in Nodes, Careful, V!CloseNode(n)
  PROVE  MoveInv'
  BY MovesAssumption
  DEF V!CloseNode, V!move, V!path, V!node, V!Call, V!NoCall, V!Idle, MoveInv,
      MoveTypes, MoveCalls, V!NoDangling, V!Obeys

LEMMA MovesPlayNode ==
  ASSUME MoveInv, NEW n \in Nodes, Careful, V!PlayNode(n)
  PROVE  MoveInv'
  BY MovesAssumption
  DEF V!PlayNode, V!move, V!path, V!node, V!Call, V!NoCall, V!Idle,
      V!StartNode, V!MayStop, MoveInv, MoveTypes, MoveCalls, V!NoDangling,
      V!Obeys

LEMMA MovesStopPlayingNode ==
  ASSUME MoveInv, NEW n \in Nodes \union {None}, Careful, V!StopPlayingNode(n)
  PROVE  MoveInv'
<1>1. MoveTypes'
  BY MovesAssumption, StopMoved
  DEF V!StopPlayingNode, V!StopNode, V!move, V!path, V!node, V!Call, V!NoCall,
      V!Idle, MoveInv, MoveTypes, V!NoDangling
<1>2. MoveCalls'
  BY MovesAssumption, StopMoved
  DEF V!StopPlayingNode, V!StopNode, V!move, V!path, V!node, V!Call, V!NoCall,
      V!Idle, MoveInv, MoveCalls, MoveTypes
<1>3. V!NoDangling'
  BY MovesAssumption, StopMoved
  DEF V!StopPlayingNode, V!StopNode, V!move, V!path, V!node, V!Call, V!NoCall,
      V!Idle, MoveInv, MoveTypes, V!NoDangling
<1>4. V!Obeys'
  BY MovesAssumption, StopMoved
  DEF V!StopPlayingNode, V!StopNode, V!move, V!path, V!node, V!Call, V!NoCall,
      V!Idle, MoveInv, MoveTypes, V!Obeys, V!NoDangling
<1> QED BY <1>1, <1>2, <1>3, <1>4 DEF MoveInv

LEMMA MovesMoveByPath ==
  ASSUME MoveInv, NEW x \in Paths, NEW reverse \in BOOLEAN, Careful,
         V!MoveByPath(x, reverse)
  PROVE  MoveInv'
  BY MovesAssumption
  DEF V!MoveByPath, V!move, V!path, V!node, V!Call, V!NoCall, V!Idle,
      V!MayStop, MoveInv, MoveTypes, MoveCalls, V!NoDangling, V!Obeys

LEMMA MovesMove == ASSUME MoveInv, Careful, V!Move PROVE MoveInv'
  BY MovesAssumption
  DEF V!Move, V!move, V!path, V!node, V!Call, V!NoCall, V!Idle, MoveInv,
      MoveTypes, MoveCalls, V!NoDangling, V!Obeys

LEMMA MovesStop == ASSUME MoveInv, Careful, V!Stop PROVE MoveInv'
<1>1. MoveTypes'
  BY MovesAssumption, StopMoved
  DEF V!Stop, V!MayStop, V!move, V!path, V!node, V!Call, V!NoCall, V!Idle,
      MoveInv, MoveTypes, V!NoDangling
<1>2. MoveCalls'
  BY MovesAssumption, StopMoved
  DEF V!Stop, V!MayStop, V!move, V!path, V!node, V!Call, V!NoCall, V!Idle,
      MoveInv, MoveCalls, MoveTypes
<1>3. V!NoDangling'
  BY MovesAssumption, StopMoved
  DEF V!Stop, V!MayStop, V!move, V!path, V!node, V!Call, V!NoCall, V!Idle,
      MoveInv, MoveTypes, V!NoDangling
<1>4. V!Obeys'
  BY MovesAssumption, StopMoved
  DEF V!Stop, V!MayStop, V!move, V!path, V!node, V!Call, V!NoCall, V!Idle,
      MoveInv, MoveTypes, V!Obeys, V!NoDangling
<1> QED BY <1>1, <1>2, <1>3, <1>4 DEF MoveInv

LEMMA MovesPausePath == ASSUME MoveInv, Careful, V!PausePath PROVE MoveInv'
<1>1. MoveTypes'
  BY MovesAssumption, StopMoved
  DEF V!PausePath, V!MayStop, V!move, V!path, V!node, V!Call, V!NoCall, V!Idle,
      MoveInv, MoveTypes, V!NoDangling
<1>2. MoveCalls'
  BY MovesAssumption, StopMoved
  DEF V!PausePath, V!MayStop, V!move, V!path, V!node, V!Call, V!NoCall, V!Idle,
      MoveInv, MoveCalls, MoveTypes
<1>3. V!NoDangling'
  BY MovesAssumption, StopMoved
  DEF V!PausePath, V!MayStop, V!move, V!path, V!node, V!Call, V!NoCall, V!Idle,
      MoveInv, MoveTypes, V!NoDangling
<1>4. V!Obeys'
  BY MovesAssumption, StopMoved
  DEF V!PausePath, V!MayStop, V!move, V!path, V!node, V!Call, V!NoCall, V!Idle,
      MoveInv, MoveTypes, V!Obeys, V!NoDangling
<1> QED BY <1>1, <1>2, <1>3, <1>4 DEF MoveInv

LEMMA MovesMoveToPlayer ==
  ASSUME MoveInv, NEW auto \in BOOLEAN, Careful, V!MoveToPlayer(auto)
  PROVE  MoveInv'
  BY MovesAssumption
  DEF V!MoveToPlayer, V!move, V!path, V!node, V!Call, V!NoCall, V!Idle,
      MoveInv, MoveTypes, MoveCalls, V!NoDangling, V!Obeys

LEMMA MovesGoToVehicle == ASSUME MoveInv, Careful, V!GoToVehicle PROVE MoveInv'
  BY MovesAssumption
  DEF V!GoToVehicle, V!move, V!path, V!node, V!Call, V!NoCall, V!Idle, MoveInv,
      MoveTypes, MoveCalls, V!NoDangling, V!Obeys

LEMMA MovesEndEnter == ASSUME MoveInv, Careful, V!EndEnter PROVE MoveInv'
  BY MovesAssumption
  DEF V!EndEnter, V!move, V!path, V!node, V!Call, V!NoCall, V!Idle, MoveInv,
      MoveTypes, MoveCalls, V!NoDangling, V!Obeys

LEMMA MovesArriveAtVehicle ==
  ASSUME MoveInv, Careful, V!ArriveAtVehicle
  PROVE  MoveInv'
<1>1. MoveTypes'
  BY MovesAssumption, ArrivedThere
  DEF V!ArriveAtVehicle, V!Arriving, V!move, V!path, V!node, V!Call, V!NoCall,
      V!Idle, MoveInv, MoveTypes, V!NoDangling
<1>2. MoveCalls'
  BY MovesAssumption, ArrivedThere
  DEF V!ArriveAtVehicle, V!Arriving, V!move, V!path, V!node, V!Call, V!NoCall,
      V!Idle, MoveInv, MoveCalls, MoveTypes
<1>3. V!NoDangling'
  BY MovesAssumption, ArrivedThere
  DEF V!ArriveAtVehicle, V!Arriving, V!move, V!path, V!node, V!Call, V!NoCall,
      V!Idle, MoveInv, MoveTypes, V!NoDangling
<1>4. V!Obeys'
  BY MovesAssumption, ArrivedThere
  DEF V!ArriveAtVehicle, V!Arriving, V!move, V!path, V!node, V!Call, V!NoCall,
      V!Idle, MoveInv, MoveTypes, V!Obeys, V!NoDangling
<1> QED BY <1>1, <1>2, <1>3, <1>4 DEF MoveInv

LEMMA MovesPausePlayingNode ==
  ASSUME MoveInv, Careful, V!PausePlayingNode
  PROVE  MoveInv'
<1>1. MoveTypes'
  BY MovesAssumption, StopMoved
  DEF V!PausePlayingNode, V!MayStop, V!move, V!path, V!node, V!Call, V!NoCall,
      V!Idle, MoveInv, MoveTypes, V!NoDangling
<1>2. MoveCalls'
  BY MovesAssumption, StopMoved
  DEF V!PausePlayingNode, V!MayStop, V!move, V!path, V!node, V!Call, V!NoCall,
      V!Idle, MoveInv, MoveCalls, MoveTypes
<1>3. V!NoDangling'
  BY MovesAssumption, StopMoved
  DEF V!PausePlayingNode, V!MayStop, V!move, V!path, V!node, V!Call, V!NoCall,
      V!Idle, MoveInv, MoveTypes, V!NoDangling
<1>4. V!Obeys'
  BY MovesAssumption, StopMoved
  DEF V!PausePlayingNode, V!MayStop, V!move, V!path, V!node, V!Call, V!NoCall,
      V!Idle, MoveInv, MoveTypes, V!Obeys, V!NoDangling
<1> QED BY <1>1, <1>2, <1>3, <1>4 DEF MoveInv

LEMMA MovesResumePlayingNode ==
  ASSUME MoveInv, Careful, V!ResumePlayingNode
  PROVE  MoveInv'
  BY MovesAssumption
  DEF V!ResumePlayingNode, V!move, V!path, V!node, V!Call, V!NoCall, V!Idle,
      MoveInv, MoveTypes, MoveCalls, V!NoDangling, V!Obeys

LEMMA MovesFollowTick == ASSUME MoveInv, Careful, V!FollowTick PROVE MoveInv'
  BY MovesAssumption
  DEF V!FollowTick, V!move, V!path, V!node, V!Call, V!NoCall, V!Idle, MoveInv,
      MoveTypes, MoveCalls, V!NoDangling, V!Obeys

LEMMA MovesArriveAtPoint ==
  ASSUME MoveInv, Careful, V!ArriveAtPoint
  PROVE  MoveInv'
<1>1. /\ V!NextIndex \in 0 .. points[currentPath] - 1 /\ movingByPath
      /\ moving' = FALSE /\ index' = V!NextIndex /\ order = "move"
      /\ pointCalling' = [at |-> "point", next |-> V!NextIndex]
      /\ UNCHANGED <<points, opened, following, followAgain, toEnter, movingByPath, currentPath,
                     pathReverse, playing, nodePaused, currentNode, order>>
  BY DEF V!ArriveAtPoint, V!Arriving, V!StaysOnPath, V!HasNext, V!Call, V!node,
         MoveInv, V!Obeys
<1>2. V!NextIndex \in 0 .. MaxPoints /\ V!NextIndex < MaxPoints
  <2>1. points[currentPath] \in -1 .. MaxPoints
    BY <1>1 DEF MoveInv, MoveTypes, V!NoDangling
  <2> QED BY <1>1, <2>1, MovesAssumption
<1>3. MoveTypes'
  BY <1>1, <1>2 DEF MoveInv, MoveTypes
<1>4. MoveCalls'
  BY <1>1, <1>2 DEF MoveCalls
<1>5. V!NoDangling' /\ V!Obeys'
  BY <1>1 DEF MoveInv, V!NoDangling, V!Obeys
<1> QED BY <1>3, <1>4, <1>5 DEF MoveInv

LEMMA MovesFinishPath == ASSUME MoveInv, Careful, V!FinishPath PROVE MoveInv'
<1>1. /\ movingByPath /\ moving' = FALSE /\ movingByPath' = FALSE /\ currentPath' = None
      /\ index' = IF pathReverse /\ index = 0 THEN 0 ELSE V!NextIndex
      /\ pointCalling' = [at |-> "finish", next |-> None]
      /\ order' = (IF following THEN order ELSE "stop") /\ (following => followAgain)
      /\ UNCHANGED <<points, opened, following, followAgain, toEnter, pathReverse, playing,
                     nodePaused, currentNode>>
  BY DEF V!FinishPath, V!StaysOnPath, V!Call, V!node, MoveInv, MoveTypes
<1>2. index \in 0 .. MaxPoints /\ index < MaxPoints
  BY <1>1 DEF MoveInv, MoveTypes
<1>3. index' \in 0 .. MaxPoints
  <2>1. CASE pathReverse
    BY <1>1, <1>2, <2>1, MovesAssumption DEF V!NextIndex
  <2>2. CASE ~pathReverse
    BY <1>1, <1>2, <2>2, MovesAssumption DEF V!NextIndex
  <2> QED BY <2>1, <2>2
<1>4. MoveTypes'
  BY <1>1, <1>3 DEF MoveInv, MoveTypes
<1>5. MoveCalls'
  BY <1>1 DEF MoveCalls
<1>6. V!NoDangling'
  BY <1>1 DEF MoveInv, V!NoDangling
<1>7. V!Obeys'
  BY <1>1 DEF MoveInv, V!Obeys
<1> QED BY <1>4, <1>5, <1>6, <1>7 DEF MoveInv

LEMMA MovesArriveAtNodePoint ==
  ASSUME MoveInv, Careful, V!ArriveAtNodePoint
  PROVE  MoveInv'
<1>1. MoveTypes'
  BY MovesAssumption, ArrivedThere
  DEF V!ArriveAtNodePoint, V!Arriving, V!StaysOnPath, V!PlaysNode, V!move,
      V!path, V!node, V!Call, V!NoCall, V!Idle, MoveInv, MoveTypes,
      V!NoDangling
<1>2. MoveCalls'
  BY MovesAssumption, ArrivedThere
  DEF V!ArriveAtNodePoint, V!Arriving, V!StaysOnPath, V!PlaysNode, V!move,
      V!path, V!node, V!Call, V!NoCall, V!Idle, MoveInv, MoveCalls, MoveTypes
<1>3. V!NoDangling'
  BY MovesAssumption, ArrivedThere
  DEF V!ArriveAtNodePoint, V!Arriving, V!StaysOnPath, V!PlaysNode, V!move,
      V!path, V!node, V!Call, V!NoCall, V!Idle, MoveInv, MoveTypes,
      V!NoDangling
<1>4. V!Obeys'
  BY MovesAssumption, ArrivedThere
  DEF V!ArriveAtNodePoint, V!Arriving, V!StaysOnPath, V!PlaysNode, V!move,
      V!path, V!node, V!Call, V!NoCall, V!Idle, MoveInv, MoveTypes, V!Obeys,
      V!NoDangling
<1> QED BY <1>1, <1>2, <1>3, <1>4 DEF MoveInv

LEMMA MovesFinishMove == ASSUME MoveInv, Careful, V!FinishMove PROVE MoveInv'
<1>1. MoveTypes'
  BY MovesAssumption, ArrivedThere
  DEF V!FinishMove, V!Arriving, V!StaysOnPath, V!PlaysNode, V!move, V!path,
      V!node, V!Call, V!NoCall, V!Idle, MoveInv, MoveTypes, V!NoDangling
<1>2. MoveCalls'
  BY MovesAssumption, ArrivedThere
  DEF V!FinishMove, V!Arriving, V!StaysOnPath, V!PlaysNode, V!move, V!path,
      V!node, V!Call, V!NoCall, V!Idle, MoveInv, MoveCalls, MoveTypes
<1>3. V!NoDangling'
  BY MovesAssumption, ArrivedThere
  DEF V!FinishMove, V!Arriving, V!StaysOnPath, V!PlaysNode, V!move, V!path,
      V!node, V!Call, V!NoCall, V!Idle, MoveInv, MoveTypes, V!NoDangling
<1>4. V!Obeys'
  BY MovesAssumption, ArrivedThere
  DEF V!FinishMove, V!Arriving, V!StaysOnPath, V!PlaysNode, V!move, V!path,
      V!node, V!Call, V!NoCall, V!Idle, MoveInv, MoveTypes, V!Obeys,
      V!NoDangling
<1> QED BY <1>1, <1>2, <1>3, <1>4 DEF MoveInv

LEMMA MovesReturnFinish ==
  ASSUME MoveInv, Careful, V!ReturnFinish
  PROVE  MoveInv'
  BY MovesAssumption
  DEF V!ReturnFinish, V!move, V!path, V!node, V!Call, V!NoCall, V!Idle,
      MoveInv, MoveTypes, MoveCalls, V!NoDangling, V!Obeys

LEMMA MovesReturnPoint == ASSUME MoveInv, Careful, V!ReturnPoint PROVE MoveInv'
  BY MovesAssumption
  DEF V!ReturnPoint, V!move, V!path, V!node, V!Call, V!NoCall, V!Idle, MoveInv,
      MoveTypes, MoveCalls, V!NoDangling, V!Obeys

LEMMA MovesReturnNodePoint ==
  ASSUME MoveInv, Careful, V!ReturnNodePoint
  PROVE  MoveInv'
  BY MovesAssumption
  DEF V!ReturnNodePoint, V!move, V!path, V!node, V!Call, V!NoCall, V!Idle,
      MoveInv, MoveTypes, MoveCalls, V!NoDangling, V!Obeys

LEMMA MovesReturnNodeEnd ==
  ASSUME MoveInv, Careful, V!ReturnNodeEnd
  PROVE  MoveInv'
<1>1. MoveTypes'
  BY MovesAssumption, StopMoved
  DEF V!ReturnNodeEnd, V!StopNode, V!move, V!path, V!node, V!Call, V!NoCall,
      V!Idle, MoveInv, MoveTypes, V!NoDangling
<1>2. MoveCalls'
  BY MovesAssumption, StopMoved
  DEF V!ReturnNodeEnd, V!StopNode, V!move, V!path, V!node, V!Call, V!NoCall,
      V!Idle, MoveInv, MoveCalls, MoveTypes
<1>3. V!NoDangling'
  BY MovesAssumption, StopMoved
  DEF V!ReturnNodeEnd, V!StopNode, V!move, V!path, V!node, V!Call, V!NoCall,
      V!Idle, MoveInv, MoveTypes, V!NoDangling
<1>4. V!Obeys'
  BY MovesAssumption, StopMoved
  DEF V!ReturnNodeEnd, V!StopNode, V!move, V!path, V!node, V!Call, V!NoCall,
      V!Idle, MoveInv, MoveTypes, V!Obeys, V!NoDangling
<1> QED BY <1>1, <1>2, <1>3, <1>4 DEF MoveInv

LEMMA MovesReturnNodeChange ==
  ASSUME MoveInv, NEW n \in Nodes, Careful, V!ReturnNodeChange(n)
  PROVE  MoveInv'
  BY MovesAssumption
  DEF V!ReturnNodeChange, V!move, V!path, V!node, V!Call, V!NoCall, V!Idle,
      MoveInv, MoveTypes, MoveCalls, V!NoDangling, V!Obeys

LEMMA MovesReturnChange ==
  ASSUME MoveInv, Careful, V!ReturnChange
  PROVE  MoveInv'
  BY MovesAssumption
  DEF V!ReturnChange, V!move, V!path, V!node, V!Call, V!NoCall, V!Idle,
      MoveInv, MoveTypes, MoveCalls, V!NoDangling, V!Obeys

LEMMA MovesReturnChangeFails ==
  ASSUME MoveInv, Careful, V!ReturnChangeFails
  PROVE  MoveInv'
<1>1. MoveTypes'
  BY MovesAssumption, StopMoved
  DEF V!ReturnChangeFails, V!StopNode, V!move, V!path, V!node, V!Call,
      V!NoCall, V!Idle, MoveInv, MoveTypes, V!NoDangling
<1>2. MoveCalls'
  BY MovesAssumption, StopMoved
  DEF V!ReturnChangeFails, V!StopNode, V!move, V!path, V!node, V!Call,
      V!NoCall, V!Idle, MoveInv, MoveCalls, MoveTypes
<1>3. V!NoDangling'
  BY MovesAssumption, StopMoved
  DEF V!ReturnChangeFails, V!StopNode, V!move, V!path, V!node, V!Call,
      V!NoCall, V!Idle, MoveInv, MoveTypes, V!NoDangling
<1>4. V!Obeys'
  BY MovesAssumption, StopMoved
  DEF V!ReturnChangeFails, V!StopNode, V!move, V!path, V!node, V!Call,
      V!NoCall, V!Idle, MoveInv, MoveTypes, V!Obeys, V!NoDangling
<1> QED BY <1>1, <1>2, <1>3, <1>4 DEF MoveInv

LEMMA MovesReturnNode == ASSUME MoveInv, Careful, V!ReturnNode PROVE MoveInv'
  BY MovesAssumption
  DEF V!ReturnNode, V!move, V!path, V!node, V!Call, V!NoCall, V!Idle,
      V!StartNode, MoveInv, MoveTypes, MoveCalls, V!NoDangling, V!Obeys

LEMMA MovesImply ==
  ASSUME MoveInv
  PROVE  V!TypeOK /\ V!NoDangling /\ V!Obeys
  BY DEF MoveInv, MoveTypes, MoveCalls, V!TypeOK

LEMMA MovesStep == ASSUME MoveInv, Careful, V!Next PROVE MoveInv'
  BY MovesCreatePath, MovesDestroyPath, MovesChangePath, MovesOpenNode,
     MovesCloseNode, MovesPlayNode, MovesStopPlayingNode, MovesMoveByPath,
     MovesMove, MovesStop, MovesPausePath, MovesMoveToPlayer,
     MovesGoToVehicle, MovesEndEnter, MovesArriveAtVehicle,
     MovesPausePlayingNode, MovesResumePlayingNode, MovesFollowTick,
     MovesArriveAtPoint, MovesFinishPath, MovesArriveAtNodePoint,
     MovesFinishMove, MovesReturnFinish, MovesReturnPoint,
     MovesReturnNodePoint, MovesReturnNodeEnd, MovesReturnNodeChange,
     MovesReturnChange, MovesReturnChangeFails, MovesReturnNode
  DEF V!Next

-----------------------------------------------------------------------------
(* NPCs: the pool                                                           *)

NpcFields == {"kickMark", "lastDamager", "followingPlayer", "aimingAt", "aiming",
              "vehicle", "vehicleToEnter"}
NpcValues == BOOLEAN \union Ids \union Cars \union {None}

NpcTypes ==
    /\ npcPool \in [Ids -> {"free", "player", "npc"}]
    /\ npcCars \subseteq Cars
    /\ markedToBeKicked \in Seq(Ids) /\ Len(markedToBeKicked) <= MaxMarks
    /\ rest \in Seq(Ids) /\ Len(rest) <= MaxMarks
    /\ releasing \in Ids \union {None}
    /\ releasing # None => npcPool[releasing] = "npc"
    /\ mistaken = FALSE

NpcRecords ==
    /\ npc \in [Ids -> [NpcFields -> NpcValues]]
    /\ \A n \in Ids : npc[n]["kickMark"] \in BOOLEAN /\ npc[n]["aiming"] \in BOOLEAN
    /\ \A n \in Ids : npc[n]["aimingAt"] # None => npc[n]["aiming"]

\* Both queues name an NPC once, and not the one that is being released.
QueueOnce ==
    /\ \A i, j \in 1 .. Len(markedToBeKicked) :
         markedToBeKicked[i] = markedToBeKicked[j] => i = j
    /\ \A i, j \in 1 .. Len(rest) : rest[i] = rest[j] => i = j
    /\ \A i \in 1 .. Len(rest) : rest[i] # releasing

\* The NPCs that are marked are those of the queue, or, while a tick goes
\* through it, those that are left of it and the one that is being released.
Marked(n) == npcPool[n] = "npc" /\ npc[n]["kickMark"]
In(n, q)  == \E i \in 1 .. Len(q) : q[i] = n

MarksQueued == \A n \in Ids :
    Marked(n) <=> IF N!Ticking THEN n = releasing \/ In(n, rest)
                               ELSE In(n, markedToBeKicked)

PointersMeet == \A n \in Ids :
    /\ \A f \in N!Pointers : npc[n][f] # None =>
         npc[n][f] \in Ids /\ npcPool[npc[n][f]] # "free"
    /\ \A f \in {"vehicle", "vehicleToEnter"} : npc[n][f] # None => npc[n][f] \in npcCars

NpcInv == NpcTypes /\ NpcRecords /\ QueueOnce /\ MarksQueued /\ PointersMeet

LEMMA NoNpcIs ==
  /\ N!NoNpc \in [NpcFields -> NpcValues]
  /\ N!NoNpc["kickMark"] = FALSE /\ N!NoNpc["aiming"] = FALSE
  /\ DOMAIN N!NoNpc = NpcFields
  /\ \A f \in NpcFields \ {"kickMark", "aiming"} : N!NoNpc[f] = None
<1>1. /\ DOMAIN N!NoNpc = NpcFields
      /\ N!NoNpc["kickMark"] = FALSE /\ N!NoNpc["aiming"] = FALSE
      /\ \A f \in NpcFields \ {"kickMark", "aiming"} : N!NoNpc[f] = None
  BY DEF N!NoNpc, NpcFields
<1>2. N!NoNpc = [f \in NpcFields |-> N!NoNpc[f]]
  BY DEF N!NoNpc, NpcFields
<1>3. \A f \in NpcFields : N!NoNpc[f] \in NpcValues
  BY <1>1 DEF NpcValues
<1> HIDE DEF N!NoNpc
<1> QED BY <1>1, <1>2, <1>3

\* The lowest free id.
LEMMA LowestFree ==
  ASSUME Ids # N!Present
  PROVE  N!Min(Ids \ N!Present) \in Ids /\ npcPool[N!Min(Ids \ N!Present)] = "free"
<1>1. Ids \ N!Present # {} /\ Ids \ N!Present \subseteq Nat
  BY NpcsAssumption DEF N!Present
<1>2. N!Min(Ids \ N!Present) \in Ids \ N!Present
  BY <1>1, LowestOf DEF N!Min
<1> QED BY <1>2 DEF N!Present

\* When a player or an NPC has left, nobody points at it.
LEMMA NobodyPointsAt ==
  ASSUME NpcRecords, NEW i \in Ids
  PROVE  /\ N!WithoutPlayer(i) \in [Ids -> [NpcFields -> NpcValues]]
         /\ \A n \in Ids : \A f \in NpcFields \ {"aiming"} : N!WithoutPlayer(i)[n][f] =
              IF f \in N!Pointers /\ npc[n][f] = i THEN None ELSE npc[n][f]
         /\ \A n \in Ids : N!WithoutPlayer(i)[n]["aiming"] \in BOOLEAN
         /\ \A n \in Ids : N!WithoutPlayer(i)[n]["aimingAt"] # None =>
              N!WithoutPlayer(i)[n]["aiming"]
<1> DEFINE w == N!WithoutPlayer(i)
<1>1. w = [n \in Ids |-> [f \in NpcFields |->
             IF f \in N!Pointers /\ npc[n][f] = i /\ (f = "aimingAt" => npc[n]["aiming"])
             THEN None
             ELSE IF f = "aiming" THEN npc[n]["aiming"] /\ npc[n]["aimingAt"] # i
             ELSE npc[n][f]]]
  BY NoNpcIs DEF N!WithoutPlayer
<1> HIDE DEF w
<1>2. ASSUME NEW n \in Ids
      PROVE  /\ w[n]["aiming"] = (npc[n]["aiming"] /\ npc[n]["aimingAt"] # i)
             /\ \A f \in NpcFields \ {"aiming"} : w[n][f] =
                  IF f \in N!Pointers /\ npc[n][f] = i THEN None ELSE npc[n][f]
  <2>1. w[n]["aiming"] = (npc[n]["aiming"] /\ npc[n]["aimingAt"] # i)
    BY <1>1 DEF NpcFields, N!Pointers
  <2>2. npc[n]["aimingAt"] = i => npc[n]["aiming"]
    BY NpcsAssumption DEF NpcRecords
  <2>3. \A f \in NpcFields \ {"aiming"} : w[n][f] =
          IF f \in N!Pointers /\ npc[n][f] = i THEN None ELSE npc[n][f]
    BY <1>1, <2>2
  <2> QED BY <2>1, <2>3
<1>3. \A n \in Ids : w[n]["aiming"] \in BOOLEAN
  BY <1>2
<1>4. \A n \in Ids : w[n]["aimingAt"] # None => w[n]["aiming"]
  BY <1>2 DEF NpcRecords, NpcFields, N!Pointers
<1>5. w \in [Ids -> [NpcFields -> NpcValues]]
  <2>1. \A n \in Ids : \A f \in NpcFields : w[n][f] \in NpcValues
    <3>1. \A n \in Ids : \A f \in NpcFields \ {"aiming"} : w[n][f] \in NpcValues
      BY <1>2 DEF NpcRecords, NpcValues
    <3> QED BY <1>3, <3>1 DEF NpcValues
  <2>2. \A n \in Ids : w[n] = [f \in NpcFields |-> w[n][f]]
    BY <1>1
  <2>3. w = [n \in Ids |-> w[n]]
    BY <1>1
  <2> QED BY <2>1, <2>2, <2>3
<1> QED BY <1>2, <1>3, <1>4, <1>5 DEF w

LEMMA NobodySitsIn ==
  ASSUME NpcRecords, NEW x
  PROVE  /\ N!WithoutCar(x) \in [Ids -> [NpcFields -> NpcValues]]
         /\ \A n \in Ids : \A f \in NpcFields : N!WithoutCar(x)[n][f] =
              IF f \in {"vehicle", "vehicleToEnter"} /\ npc[n][f] = x THEN None
              ELSE npc[n][f]
  BY NoNpcIs DEF NpcRecords, N!WithoutCar, NpcValues

\* What does not touch the marks, the queues and who is an NPC.
LEMMA MarksStay ==
  ASSUME NpcInv, NpcTypes', NpcRecords', PointersMeet',
         UNCHANGED <<markedToBeKicked, releasing, rest>>,
         \A n \in Ids : Marked(n)' <=> Marked(n)
  PROVE  NpcInv'
<1>1. QueueOnce'
  BY DEF NpcInv, QueueOnce
<1>2. MarksQueued'
  BY DEF NpcInv, MarksQueued, N!Ticking, In
<1> QED BY <1>1, <1>2 DEF NpcInv

LEMMA NpcsInit == ASSUME N!Init PROVE NpcInv
<1>1. NpcTypes
  BY NpcsAssumption, EmptySeq DEF N!Init, NpcTypes
<1>2. NpcRecords
  <2>1. npc = [n \in Ids |-> N!NoNpc]
    BY DEF N!Init
  <2>2. N!NoNpc["aimingAt"] = None
    BY NoNpcIs DEF NpcFields
  <2> QED BY <2>1, <2>2, NoNpcIs DEF NpcRecords
<1>3. QueueOnce
  BY EmptySeq DEF N!Init, QueueOnce
<1>4. MarksQueued
  BY NoNpcIs, EmptySeq DEF N!Init, MarksQueued, Marked, In, N!Ticking
<1>5. PointersMeet
  BY NoNpcIs DEF N!Init, PointersMeet, NpcFields, N!Pointers
<1> QED BY <1>1, <1>2, <1>3, <1>4, <1>5 DEF NpcInv

LEMMA NpcsStutter ==
  ASSUME NpcInv, UNCHANGED <<players, npcsVars>>
  PROVE  NpcInv'
  BY MarksStay DEF npcsVars, NpcInv, NpcTypes, NpcRecords, PointersMeet, Marked

LEMMA NpcsCreate == ASSUME NpcInv, Careful, N!Create PROVE NpcInv'
<1>1. PICK i \in Ids :
        /\ npcPool[i] = "free" /\ npcPool' = [npcPool EXCEPT ![i] = "npc"]
        /\ npc' = [npc EXCEPT ![i] = N!NoNpc]
        /\ N!NoNpc \in [NpcFields -> NpcValues]
        /\ N!NoNpc["kickMark"] = FALSE /\ N!NoNpc["aiming"] = FALSE
        /\ \A f \in NpcFields \ {"kickMark", "aiming"} : N!NoNpc[f] = None
        /\ UNCHANGED <<npcCars, markedToBeKicked, releasing, rest, mistaken>>
  BY LowestFree, NoNpcIs DEF N!Create
<1>2. NpcTypes'
  BY <1>1 DEF NpcInv, NpcTypes
<1>3. NpcRecords'
  BY <1>1 DEF NpcInv, NpcRecords, NpcFields, N!Pointers
<1>4. PointersMeet'
  BY <1>1 DEF NpcInv, NpcTypes, NpcRecords, PointersMeet, NpcFields, N!Pointers
<1>5. \A j \in Ids : Marked(j)' <=> Marked(j)
  BY <1>1 DEF NpcInv, NpcTypes, NpcRecords, Marked, NpcFields, N!Pointers
<1> QED BY <1>1, <1>2, <1>3, <1>4, <1>5, MarksStay

LEMMA NpcsDisconnect ==
  ASSUME NpcInv, NEW i \in Ids, Careful, N!Disconnect(i)
  PROVE  NpcInv'
<1>1. /\ npcPool[i] = "npc" /\ ~npc[i]["kickMark"] /\ ~N!Ticking
      /\ Len(markedToBeKicked) < MaxMarks
      /\ npc' = [npc EXCEPT ![i]["kickMark"] = TRUE]
      /\ markedToBeKicked' = Append(markedToBeKicked, i)
      /\ UNCHANGED <<npcPool, npcCars, releasing, rest, mistaken>>
  BY DEF N!Disconnect
<1>2. /\ markedToBeKicked' \in Seq(Ids) /\ Len(markedToBeKicked) \in Nat
      /\ Len(markedToBeKicked') = Len(markedToBeKicked) + 1
      /\ markedToBeKicked'[Len(markedToBeKicked) + 1] = i
      /\ \A j \in 1 .. Len(markedToBeKicked) : markedToBeKicked'[j] = markedToBeKicked[j]
  BY <1>1, AppendIs DEF NpcInv, NpcTypes
<1>3. /\ npc' \in [Ids -> [NpcFields -> NpcValues]]
      /\ \A n \in Ids : \A f \in NpcFields :
           npc'[n][f] = IF n = i /\ f = "kickMark" THEN TRUE ELSE npc[n][f]
  BY <1>1 DEF NpcInv, NpcRecords, NpcFields, NpcValues
<1>4. NpcTypes'
  BY <1>1, <1>2, NpcsAssumption DEF NpcInv, NpcTypes
<1>5. NpcRecords' /\ PointersMeet'
  <2>1. NpcRecords'
    BY <1>3 DEF NpcInv, NpcRecords, NpcFields
  <2>2. PointersMeet'
    <3>1. \A n \in Ids : \A f \in NpcFields \ {"kickMark"} : npc'[n][f] = npc[n][f]
      BY <1>3
    <3> QED BY <1>1, <3>1 DEF NpcInv, PointersMeet, NpcFields, N!Pointers
  <2> QED BY <2>1, <2>2
<1>6. ~In(i, markedToBeKicked)
  BY <1>1 DEF NpcInv, MarksQueued, Marked
<1>7. QueueOnce'
  BY <1>1, <1>2, <1>6 DEF NpcInv, QueueOnce, In
<1>8. MarksQueued'
  <2>1. ~N!Ticking'
    BY <1>1 DEF N!Ticking
  <2>2. \A n \in Ids : In(n, markedToBeKicked') <=> n = i \/ In(n, markedToBeKicked)
    BY <1>2 DEF In
  <2>3. \A n \in Ids : Marked(n)' <=> n = i \/ Marked(n)
    BY <1>1, <1>3 DEF Marked, NpcFields
  <2> QED BY <1>1, <2>1, <2>2, <2>3 DEF NpcInv, MarksQueued
<1> QED BY <1>4, <1>5, <1>7, <1>8 DEF NpcInv

LEMMA NpcsTick == ASSUME NpcInv, Careful, N!Tick PROVE NpcInv'
<1>1. /\ ~N!Ticking /\ markedToBeKicked # <<>> /\ rest' = markedToBeKicked
      /\ UNCHANGED <<npcPool, npcCars, npc, markedToBeKicked, releasing, mistaken>>
      /\ releasing = None
  BY DEF N!Tick, N!Ticking
<1>2. NpcTypes' /\ NpcRecords' /\ PointersMeet'
  BY <1>1 DEF NpcInv, NpcTypes, NpcRecords, PointersMeet
<1>3. QueueOnce'
  <2>1. \A i \in 1 .. Len(markedToBeKicked) : markedToBeKicked[i] \in Ids
    BY ElementOfSeq DEF NpcInv, NpcTypes
  <2> QED BY <1>1, <2>1, NpcsAssumption DEF NpcInv, QueueOnce
<1>4. MarksQueued'
  <2>1. N!Ticking'
    BY <1>1 DEF N!Ticking
  <2>2. \A n \in Ids : Marked(n)' <=> Marked(n)
    BY <1>1 DEF Marked
  <2> QED BY <1>1, <2>1, <2>2, NpcsAssumption DEF NpcInv, MarksQueued
<1> QED BY <1>2, <1>3, <1>4 DEF NpcInv

LEMMA NpcsReleaseNext == ASSUME NpcInv, Careful, N!ReleaseNext PROVE NpcInv'
<1>1. /\ releasing = None /\ rest # <<>> /\ rest' = Tail(rest)
      /\ UNCHANGED <<npcPool, npcCars, npc>>
      /\ N!Ticking
  BY DEF N!ReleaseNext, N!Ticking
<1>2. /\ Tail(rest) \in Seq(Ids) /\ Len(Tail(rest)) = Len(rest) - 1 /\ Len(rest) \in Nat \ {0}
      /\ Head(rest) = rest[1] /\ rest[1] \in Ids
      /\ \A i \in 1 .. Len(Tail(rest)) : Tail(rest)[i] = rest[i + 1] /\ i + 1 \in 1 .. Len(rest)
  BY <1>1, TailIs DEF NpcInv, NpcTypes
<1>3. npcPool[rest[1]] = "npc" /\ npc[rest[1]]["kickMark"]
  BY <1>1, <1>2 DEF NpcInv, MarksQueued, Marked, In
<1>4. /\ releasing' = rest[1] /\ mistaken' = FALSE /\ releasing' # None
      /\ markedToBeKicked' = markedToBeKicked
  <2>1. npcPool[Head(rest)] = "npc" /\ npc[Head(rest)].kickMark /\ Head(rest) # None
    BY <1>2, <1>3, NpcsAssumption
  <2>2. releasing' = Head(rest)
    BY <2>1 DEF N!ReleaseNext
  <2>3. mistaken' = FALSE
    BY <2>1 DEF N!ReleaseNext, NpcInv, NpcTypes
  <2>4. markedToBeKicked' = markedToBeKicked
    BY <2>1, <2>2 DEF N!ReleaseNext
  <2> QED BY <1>2, <2>1, <2>2, <2>3, <2>4
<1>5. NpcTypes'
  BY <1>1, <1>2, <1>3, <1>4, NpcsAssumption DEF NpcInv, NpcTypes
<1>6. NpcRecords' /\ PointersMeet'
  BY <1>1 DEF NpcInv, NpcRecords, PointersMeet
<1>7. QueueOnce'
  <2>1. \A i, j \in 1 .. Len(rest') : rest'[i] = rest'[j] => i = j
    <3> SUFFICES ASSUME NEW i \in 1 .. Len(rest'), NEW j \in 1 .. Len(rest'),
                        rest'[i] = rest'[j]
                 PROVE  i = j
      OBVIOUS
    <3>1. rest[i + 1] = rest[j + 1] /\ i + 1 \in 1 .. Len(rest) /\ j + 1 \in 1 .. Len(rest)
      BY <1>1, <1>2
    <3>2. i + 1 = j + 1
      BY <3>1 DEF NpcInv, QueueOnce
    <3> QED BY <3>2, <1>1, <1>2
  <2>2. \A i \in 1 .. Len(rest') : rest'[i] # releasing'
    <3> SUFFICES ASSUME NEW i \in 1 .. Len(rest'), rest'[i] = releasing'
                 PROVE  FALSE
      OBVIOUS
    <3>1. rest[i + 1] = rest[1] /\ i + 1 \in 1 .. Len(rest) /\ 1 \in 1 .. Len(rest)
      BY <1>1, <1>2, <1>4
    <3>2. i + 1 = 1
      BY <3>1 DEF NpcInv, QueueOnce
    <3> QED BY <3>2, <1>1, <1>2
  <2> QED BY <1>4, <2>1, <2>2 DEF NpcInv, QueueOnce
<1>8. MarksQueued'
  <2>1. N!Ticking'
    BY <1>4 DEF N!Ticking
  <2>2. \A n \in Ids : In(n, rest) <=> n = rest[1] \/ In(n, rest')
    <3>1. ASSUME NEW n \in Ids, NEW i \in 1 .. Len(rest), rest[i] = n, n # rest[1]
          PROVE  In(n, rest')
      <4>1. i # 1 /\ i - 1 \in 1 .. Len(rest') /\ (i - 1) + 1 = i
        BY <1>1, <1>2, <3>1
      <4>2. rest'[i - 1] = rest[i]
        BY <1>1, <1>2, <4>1
      <4> QED BY <3>1, <4>1, <4>2 DEF In
    <3>2. ASSUME NEW n \in Ids, NEW i \in 1 .. Len(rest'), rest'[i] = n
          PROVE  In(n, rest)
      BY <1>1, <1>2, <3>2 DEF In
    <3>3. 1 \in 1 .. Len(rest)
      BY <1>2
    <3> QED BY <3>1, <3>2, <3>3 DEF In
  <2>3. \A n \in Ids : Marked(n)' <=> Marked(n)
    BY <1>1 DEF Marked
  <2> QED BY <1>1, <1>2, <1>4, <2>1, <2>2, <2>3, NpcsAssumption DEF NpcInv, MarksQueued
<1> QED BY <1>5, <1>6, <1>7, <1>8 DEF NpcInv

LEMMA NpcsEndRelease == ASSUME NpcInv, Careful, N!EndRelease PROVE NpcInv'
<1> DEFINE i == releasing
           w == N!WithoutPlayer(i)
<1>1. /\ i \in Ids /\ i # None /\ N!Ticking
      /\ npcPool' = [npcPool EXCEPT ![i] = "free"]
      /\ npc' = [w EXCEPT ![i] = N!NoNpc]
      /\ releasing' = None
      /\ markedToBeKicked' = IF rest = <<>> THEN <<>> ELSE markedToBeKicked
      /\ UNCHANGED <<npcCars, rest, mistaken>>
  BY DEF N!EndRelease, N!OnPlayerDestroyed, NpcInv, NpcTypes, N!Ticking
<1>2. /\ w \in [Ids -> [NpcFields -> NpcValues]]
      /\ \A n \in Ids : \A f \in NpcFields \ {"aiming"} :
           w[n][f] = IF f \in N!Pointers /\ npc[n][f] = i THEN None ELSE npc[n][f]
      /\ \A n \in Ids : /\ w[n]["aiming"] \in BOOLEAN
                        /\ w[n]["aimingAt"] # None => w[n]["aiming"]
  BY <1>1, NobodyPointsAt DEF NpcInv
<1> HIDE DEF w, i
<1>3. /\ npc' \in [Ids -> [NpcFields -> NpcValues]]
      /\ \A n \in Ids : \A f \in NpcFields \ {"aiming"} : npc'[n][f] =
           IF n = i THEN N!NoNpc[f]
           ELSE IF f \in N!Pointers /\ npc[n][f] = i THEN None ELSE npc[n][f]
      /\ \A n \in Ids : /\ npc'[n]["aiming"] \in BOOLEAN
                        /\ npc'[n]["aimingAt"] # None => npc'[n]["aiming"]
  <2>1. \A n \in Ids : npc'[n] = IF n = i THEN N!NoNpc ELSE w[n]
    BY <1>1, <1>2
  <2>2. N!NoNpc["aiming"] \in BOOLEAN /\ N!NoNpc["aimingAt"] = None
    BY NoNpcIs DEF NpcFields
  <2> QED BY <1>1, <1>2, <2>1, <2>2, NoNpcIs
<1>4. NpcTypes'
  BY <1>1, NpcsAssumption, EmptySeq DEF NpcInv, NpcTypes, i
<1>5. NpcRecords'
  <2>1. ASSUME NEW n \in Ids PROVE npc'[n]["kickMark"] \in BOOLEAN
    <3>1. npc'[n]["kickMark"] = IF n = i THEN N!NoNpc["kickMark"] ELSE npc[n]["kickMark"]
      BY <1>3 DEF NpcFields, N!Pointers
    <3> QED BY <3>1, NoNpcIs DEF NpcInv, NpcRecords
  <2> QED BY <1>3, <2>1 DEF NpcRecords
<1>6. PointersMeet'
  BY <1>1, <1>3, NoNpcIs DEF NpcInv, NpcTypes, NpcRecords, PointersMeet, NpcFields,
     N!Pointers
<1>7. QueueOnce'
  <2>1. \A j \in 1 .. Len(rest) : rest[j] \in Ids
    BY ElementOfSeq DEF NpcInv, NpcTypes
  <2> QED BY <1>1, <2>1, EmptySeq, NpcsAssumption DEF NpcInv, QueueOnce
<1>8. MarksQueued'
  <2>1. \A n \in Ids : Marked(n)' <=> Marked(n) /\ n # i
    BY <1>1, <1>3, NoNpcIs DEF Marked, NpcInv, NpcTypes, NpcFields, N!Pointers
  <2>2. ~In(i, rest)
    BY DEF NpcInv, QueueOnce, In, i
  <2>3. \A n \in Ids : Marked(n)' <=> In(n, rest)
    BY <1>1, <2>1, <2>2 DEF NpcInv, MarksQueued, i
  <2>4. CASE rest = <<>>
    <3>1. ~N!Ticking' /\ \A n \in Ids : ~In(n, <<>>)
      BY <1>1, <2>4, EmptySeq DEF N!Ticking, In
    <3> QED BY <1>1, <2>3, <2>4, <3>1 DEF MarksQueued
  <2>5. CASE rest # <<>>
    <3>1. N!Ticking'
      BY <1>1, <2>5 DEF N!Ticking
    <3> QED BY <1>1, <2>3, <3>1, NpcsAssumption DEF MarksQueued
  <2> QED BY <2>4, <2>5
<1> QED BY <1>4, <1>5, <1>6, <1>7, <1>8 DEF NpcInv

LEMMA NpcsReset == ASSUME NpcInv, Careful, N!Reset PROVE NpcInv'
<1>1. /\ ~N!Ticking /\ markedToBeKicked = <<>>
      /\ npcPool' = [n \in Ids |-> IF npcPool[n] = "npc" THEN "free" ELSE npcPool[n]]
      /\ npc' = [n \in Ids |-> N!NoNpc]
      /\ UNCHANGED <<npcCars, markedToBeKicked, releasing, rest, mistaken>>
  BY DEF N!Reset
<1>2. NpcTypes'
  BY <1>1 DEF NpcInv, NpcTypes, N!Ticking
<1>3. NpcRecords' /\ PointersMeet'
  BY <1>1, NoNpcIs DEF NpcRecords, PointersMeet, NpcFields, N!Pointers
<1>4. \A n \in Ids : Marked(n)' <=> Marked(n)
  <2>1. \A n \in Ids : ~Marked(n)
    BY <1>1, EmptySeq DEF NpcInv, MarksQueued, In
  <2>2. \A n \in Ids : ~Marked(n)'
    BY <1>1, NoNpcIs DEF Marked
  <2> QED BY <2>1, <2>2
<1> QED BY <1>1, <1>2, <1>3, <1>4, MarksStay

LEMMA NpcsConnect == ASSUME NpcInv, Careful, N!Connect PROVE NpcInv'
<1>1. PICK i \in Ids :
        /\ npcPool[i] = "free" /\ npcPool' = [npcPool EXCEPT ![i] = "player"]
        /\ UNCHANGED <<npcCars, npc, markedToBeKicked, releasing, rest, mistaken>>
  BY LowestFree DEF N!Connect
<1>2. NpcTypes'
  BY <1>1 DEF NpcInv, NpcTypes
<1>3. NpcRecords'
  BY <1>1 DEF NpcInv, NpcRecords, NpcFields, N!Pointers
<1>4. PointersMeet'
  BY <1>1 DEF NpcInv, NpcTypes, NpcRecords, PointersMeet, NpcFields, N!Pointers
<1>5. \A j \in Ids : Marked(j)' <=> Marked(j)
  BY <1>1 DEF NpcInv, NpcTypes, NpcRecords, Marked, NpcFields, N!Pointers
<1> QED BY <1>1, <1>2, <1>3, <1>4, <1>5, MarksStay

LEMMA NpcsLeave ==
  ASSUME NpcInv, NEW i \in Ids, Careful, N!Leave(i)
  PROVE  NpcInv'
<1>1. /\ npcPool[i] = "player" /\ npcPool' = [npcPool EXCEPT ![i] = "free"]
      /\ npc' \in [Ids -> [NpcFields -> NpcValues]]
      /\ \A n \in Ids : \A f \in NpcFields \ {"aiming"} : npc'[n][f] =
           IF f \in N!Pointers /\ npc[n][f] = i THEN None ELSE npc[n][f]
      /\ \A n \in Ids : /\ npc'[n]["aiming"] \in BOOLEAN
                        /\ npc'[n]["aimingAt"] # None => npc'[n]["aiming"]
      /\ UNCHANGED <<npcCars, markedToBeKicked, releasing, rest, mistaken>>
  BY NobodyPointsAt DEF N!Leave, N!OnPlayerDestroyed, NpcInv
<1>2. NpcTypes'
  BY <1>1 DEF NpcInv, NpcTypes
<1>3. NpcRecords'
  BY <1>1 DEF NpcInv, NpcRecords, NpcFields, N!Pointers
<1>4. PointersMeet'
  BY <1>1 DEF NpcInv, NpcTypes, NpcRecords, PointersMeet, NpcFields, N!Pointers
<1>5. \A j \in Ids : Marked(j)' <=> Marked(j)
  BY <1>1 DEF NpcInv, NpcTypes, NpcRecords, Marked, NpcFields, N!Pointers
<1> QED BY <1>1, <1>2, <1>3, <1>4, <1>5, MarksStay

LEMMA NpcsPointAt ==
  ASSUME NpcInv, NEW n \in Ids, NEW f \in {"lastDamager", "followingPlayer"},
         NEW i \in Ids, Careful, N!PointAt(n, f, i)
  PROVE  NpcInv'
<1>1. /\ npcPool[i] # "free"
      /\ npc' \in [Ids -> [NpcFields -> NpcValues]]
      /\ \A m \in Ids : \A g \in NpcFields :
           npc'[m][g] = IF m = n /\ g = f THEN i ELSE npc[m][g]
      /\ UNCHANGED <<npcPool, npcCars, markedToBeKicked, releasing, rest, mistaken>>
  BY DEF N!PointAt, N!Present, NpcInv, NpcRecords, NpcFields, NpcValues, N!Pointers
<1>2. NpcTypes'
  BY <1>1 DEF NpcInv, NpcTypes
<1>3. NpcRecords'
  BY <1>1 DEF NpcInv, NpcRecords, NpcFields, N!Pointers
<1>4. PointersMeet'
  BY <1>1 DEF NpcInv, NpcTypes, NpcRecords, PointersMeet, NpcFields, N!Pointers
<1>5. \A j \in Ids : Marked(j)' <=> Marked(j)
  BY <1>1 DEF NpcInv, NpcTypes, NpcRecords, Marked, NpcFields, N!Pointers
<1> QED BY <1>1, <1>2, <1>3, <1>4, <1>5, MarksStay

\* An aim that begins or ends leaves everything else of the NPC.
LEMMA AimChanges ==
  ASSUME NpcInv, NEW n \in Ids, NEW at \in Ids \union {None}, NEW aims \in BOOLEAN,
         at # None => npcPool[at] # "free" /\ aims,
         npc' = [npc EXCEPT ![n]["aimingAt"] = at, ![n]["aiming"] = aims],
         UNCHANGED <<npcPool, npcCars, markedToBeKicked, releasing, rest, mistaken>>
  PROVE  NpcInv'
<1>1. /\ npc' \in [Ids -> [NpcFields -> NpcValues]]
      /\ \A m \in Ids : \A g \in NpcFields :
           npc'[m][g] = IF m = n /\ g = "aimingAt" THEN at
                        ELSE IF m = n /\ g = "aiming" THEN aims ELSE npc[m][g]
  BY DEF NpcInv, NpcRecords, NpcFields, NpcValues
<1>2. NpcTypes'
  BY DEF NpcInv, NpcTypes
<1>3. NpcRecords'
  BY <1>1 DEF NpcInv, NpcRecords, NpcFields
<1>4. PointersMeet'
  BY <1>1 DEF NpcInv, PointersMeet, NpcFields, N!Pointers
<1>5. \A j \in Ids : Marked(j)' <=> Marked(j)
  BY <1>1 DEF Marked, NpcFields
<1> QED BY <1>2, <1>3, <1>4, <1>5, MarksStay

LEMMA NpcsAimAtPlayer ==
  ASSUME NpcInv, NEW n \in Ids, NEW i \in Ids, NEW sprinting \in BOOLEAN, Careful,
         N!AimAtPlayer(n, i, sprinting)
  PROVE  NpcInv'
<1>1. /\ npcPool[i] # "free"
      /\ npc' = [npc EXCEPT ![n]["aimingAt"] = i, ![n]["aiming"] = TRUE]
      /\ UNCHANGED <<npcPool, npcCars, markedToBeKicked, releasing, rest, mistaken>>
  BY DEF N!AimAtPlayer, N!Present
<1> QED BY <1>1, AimChanges

LEMMA NpcsAimAt ==
  ASSUME NpcInv, NEW n \in Ids, Careful, N!AimAt(n)
  PROVE  NpcInv'
<1>1. npc[n]["aimingAt"] # None => npc[n]["aiming"]
  BY DEF NpcInv, NpcRecords
<1>2. npc' = [npc EXCEPT ![n]["aimingAt"] = IF npc[n]["aiming"] THEN None ELSE @,
                         ![n]["aiming"] = TRUE]
  BY DEF N!AimAt
<1>3. npc' = [npc EXCEPT ![n]["aimingAt"] = None, ![n]["aiming"] = TRUE]
  BY <1>1, <1>2 DEF NpcInv, NpcRecords, NpcFields
<1> QED BY <1>3, AimChanges DEF N!AimAt

LEMMA NpcsStopAim ==
  ASSUME NpcInv, NEW n \in Ids, Careful, N!StopAim(n)
  PROVE  NpcInv'
<1>1. npc' = [npc EXCEPT ![n]["aimingAt"] = None, ![n]["aiming"] = FALSE]
  BY DEF N!StopAim
<1> QED BY <1>1, AimChanges DEF N!StopAim

LEMMA NpcsBoardCar ==
  ASSUME NpcInv, NEW n \in Ids, NEW f \in {"vehicle", "vehicleToEnter"},
         NEW x \in Cars, Careful, N!BoardCar(n, f, x)
  PROVE  NpcInv'
<1>1. /\ x \in npcCars
      /\ npc' \in [Ids -> [NpcFields -> NpcValues]]
      /\ \A m \in Ids : \A g \in NpcFields :
           npc'[m][g] = IF m = n /\ g = f THEN x ELSE npc[m][g]
      /\ UNCHANGED <<npcPool, npcCars, markedToBeKicked, releasing, rest, mistaken>>
  BY DEF N!BoardCar, NpcInv, NpcRecords, NpcFields, NpcValues
<1>2. NpcTypes'
  BY <1>1 DEF NpcInv, NpcTypes
<1>3. NpcRecords'
  BY <1>1 DEF NpcInv, NpcRecords, NpcFields, N!Pointers
<1>4. PointersMeet'
  <2>1. \A m \in Ids : \A g \in N!Pointers : npc'[m][g] = npc[m][g]
    BY <1>1 DEF NpcFields, N!Pointers
  <2>2. \A m \in Ids : \A g \in {"vehicle", "vehicleToEnter"} :
          npc'[m][g] = npc[m][g] \/ npc'[m][g] = x
    BY <1>1 DEF NpcFields
  <2> QED BY <1>1, <2>1, <2>2 DEF NpcInv, PointersMeet
<1>5. \A j \in Ids : Marked(j)' <=> Marked(j)
  BY <1>1 DEF NpcInv, NpcTypes, NpcRecords, Marked, NpcFields, N!Pointers
<1> QED BY <1>1, <1>2, <1>3, <1>4, <1>5, MarksStay

LEMMA NpcsCreateCar ==
  ASSUME NpcInv, NEW x \in Cars, Careful, N!CreateCar(x)
  PROVE  NpcInv'
<1>1. /\ npcCars' = npcCars \union {x}
      /\ UNCHANGED <<npcPool, npc, markedToBeKicked, releasing, rest, mistaken>>
  BY DEF N!CreateCar
<1>2. NpcTypes'
  BY <1>1 DEF NpcInv, NpcTypes
<1>3. NpcRecords'
  BY <1>1 DEF NpcInv, NpcRecords, NpcFields, N!Pointers
<1>4. PointersMeet'
  BY <1>1 DEF NpcInv, NpcTypes, NpcRecords, PointersMeet, NpcFields, N!Pointers
<1>5. \A j \in Ids : Marked(j)' <=> Marked(j)
  BY <1>1 DEF NpcInv, NpcTypes, NpcRecords, Marked, NpcFields, N!Pointers
<1> QED BY <1>1, <1>2, <1>3, <1>4, <1>5, MarksStay

LEMMA NpcsDestroyCar ==
  ASSUME NpcInv, NEW x \in Cars, Careful, N!DestroyCar(x)
  PROVE  NpcInv'
<1>1. /\ npcCars' = npcCars \ {x}
      /\ npc' \in [Ids -> [NpcFields -> NpcValues]]
      /\ \A n \in Ids : \A f \in NpcFields : npc'[n][f] =
           IF f \in {"vehicle", "vehicleToEnter"} /\ npc[n][f] = x THEN None ELSE npc[n][f]
      /\ UNCHANGED <<npcPool, markedToBeKicked, releasing, rest, mistaken>>
  BY NobodySitsIn DEF N!DestroyCar, NpcInv
<1>2. NpcTypes'
  BY <1>1 DEF NpcInv, NpcTypes
<1>3. NpcRecords'
  BY <1>1 DEF NpcInv, NpcRecords, NpcFields, N!Pointers
<1>4. PointersMeet'
  BY <1>1 DEF NpcInv, NpcTypes, NpcRecords, PointersMeet, NpcFields, N!Pointers
<1>5. \A j \in Ids : Marked(j)' <=> Marked(j)
  BY <1>1 DEF NpcInv, NpcTypes, NpcRecords, Marked, NpcFields, N!Pointers
<1> QED BY <1>1, <1>2, <1>3, <1>4, <1>5, MarksStay

LEMMA NpcsCarDies ==
  ASSUME NpcInv, NEW x \in Cars, NEW alive \in SUBSET N!Npcs, Careful,
         N!CarDies(x, alive)
  PROVE  NpcInv'
<1>1. /\ npc' \in [Ids -> [NpcFields -> NpcValues]]
      /\ \A n \in Ids : \A f \in NpcFields : npc'[n][f] \in {npc[n][f], None}
      /\ \A n \in Ids : \A f \in {"kickMark", "aiming", "aimingAt"} : npc'[n][f] = npc[n][f]
      /\ UNCHANGED <<npcPool, npcCars, markedToBeKicked, releasing, rest, mistaken>>
  <2> DEFINE out(n)   == [npc[n] EXCEPT !["vehicle"] = None,
                                        !["followingPlayer"] = npc[n]["followingPlayer"]]
             still(n) == [npc[n] EXCEPT !["vehicle"] = None, !["followingPlayer"] = None]
             Like(n, r) == /\ r \in [NpcFields -> NpcValues]
                           /\ \A f \in {"kickMark", "aiming", "aimingAt"} : r[f] = npc[n][f]
                           /\ \A f \in NpcFields : r[f] \in {npc[n][f], None}
  <2>1. ASSUME NEW n \in Ids PROVE Like(n, npc[n]) /\ Like(n, out(n)) /\ Like(n, still(n))
    <3>1. npc[n] \in [NpcFields -> NpcValues] /\ None \in NpcValues
      BY DEF NpcInv, NpcRecords, NpcValues
    <3>2. Like(n, npc[n])
      BY <3>1 DEF NpcFields
    <3>3. Like(n, out(n))
      BY <3>1 DEF NpcFields
    <3>4. Like(n, still(n))
      BY <3>1 DEF NpcFields
    <3> QED BY <3>2, <3>3, <3>4
  <2>2. npc' = [n \in Ids |->
                  IF npc[n]["vehicle"] # x THEN npc[n]
                  ELSE [npc[n] EXCEPT !["vehicle"] = None,
                          !["followingPlayer"] =
                             IF n \in alive THEN None ELSE npc[n]["followingPlayer"]]]
    BY Zenon DEF N!CarDies
  <2>3. npc' = [n \in Ids |-> npc'[n]]
    BY <2>2, Zenon
  <2>4. ASSUME NEW n \in Ids PROVE Like(n, npc'[n])
    <3>1. npc'[n] = IF npc[n]["vehicle"] # x THEN npc[n]
                    ELSE [npc[n] EXCEPT !["vehicle"] = None,
                            !["followingPlayer"] =
                               IF n \in alive THEN None ELSE npc[n]["followingPlayer"]]
      BY <2>2, Zenon
    <3>2. npc'[n] = npc[n] \/ npc'[n] = out(n) \/ npc'[n] = still(n)
      BY <3>1, Zenon
    <3> HIDE DEF Like, out, still
    <3> QED BY <2>1, <3>2, Zenon
  <2>5. UNCHANGED <<npcPool, npcCars, markedToBeKicked, releasing, rest, mistaken>>
    BY DEF N!CarDies
  <2> HIDE DEF out, still
  <2> QED BY <2>3, <2>4, <2>5
<1>2. NpcTypes'
  BY <1>1 DEF NpcInv, NpcTypes
<1>3. NpcRecords'
  BY <1>1 DEF NpcInv, NpcRecords, NpcFields, N!Pointers
<1>4. PointersMeet'
  BY <1>1 DEF NpcInv, NpcTypes, NpcRecords, PointersMeet, NpcFields, N!Pointers
<1>5. \A j \in Ids : Marked(j)' <=> Marked(j)
  BY <1>1 DEF NpcInv, NpcTypes, NpcRecords, Marked, NpcFields, N!Pointers
<1> QED BY <1>1, <1>2, <1>3, <1>4, <1>5, MarksStay

LEMMA NpcsImply ==
  ASSUME NpcInv
  PROVE  N!TypeOK /\ N!NoDangling /\ N!KicksExact
<1>1. /\ markedToBeKicked \in Seq(Ids) /\ Len(markedToBeKicked) <= MaxMarks
      /\ rest \in Seq(Ids) /\ Len(rest) <= MaxMarks
  BY NpcsAssumption, LenProperties DEF NpcInv, NpcTypes
<1>2. N!NoDangling
  BY DEF NpcInv, PointersMeet, N!NoDangling, N!Present
<1>3. N!TypeOK
  <2>1. ASSUME NEW n \in Ids
        PROVE  /\ npc[n].kickMark \in BOOLEAN /\ npc[n].aiming \in BOOLEAN
               /\ \A f \in N!Pointers : npc[n][f] \in Ids \union {None}
               /\ npc[n].vehicle \in Cars \union {None}
               /\ npc[n].vehicleToEnter \in Cars \union {None}
    BY <1>2 DEF NpcInv, NpcTypes, NpcRecords, N!NoDangling, N!Present
  <2>2. releasing \in N!Npcs \union {None} /\ mistaken \in BOOLEAN
    BY DEF NpcInv, NpcTypes, N!Npcs
  <2> QED BY <1>1, <2>1, <2>2 DEF NpcInv, NpcTypes, N!TypeOK
<1>4. N!KicksExact
  <2>1. DOMAIN markedToBeKicked = 1 .. Len(markedToBeKicked)
    BY LenProperties DEF NpcInv, NpcTypes
  <2>2. \A i \in 1 .. Len(markedToBeKicked) : markedToBeKicked[i] \in Ids
    BY ElementOfSeq DEF NpcInv, NpcTypes
  <2>3. N!IsInjective(markedToBeKicked)
    BY <2>1 DEF NpcInv, QueueOnce, N!IsInjective
  <2>4. ~N!Ticking => N!Range(markedToBeKicked) = {n \in N!Npcs : npc[n].kickMark}
    BY <2>1, <2>2 DEF NpcInv, MarksQueued, Marked, In, N!Range, N!Npcs
  <2> QED BY <2>3, <2>4 DEF N!KicksExact, NpcInv, NpcTypes
<1> QED BY <1>2, <1>3, <1>4

LEMMA NpcsStep == ASSUME NpcInv, Careful, N!Next PROVE NpcInv'
  BY NpcsCreate, NpcsDisconnect, NpcsTick, NpcsReleaseNext, NpcsEndRelease,
     NpcsReset, NpcsConnect, NpcsLeave, NpcsPointAt, NpcsAimAtPlayer, NpcsAimAt,
     NpcsStopAim, NpcsBoardCar,
     NpcsCreateCar, NpcsDestroyCar, NpcsCarDies
  DEF N!Next

-----------------------------------------------------------------------------
(* Custom models                                                            *)

ModelTypes ==
    /\ players \subseteq Players
    /\ ip \in [Players -> IPs]
    /\ models \in Seq(Models)
    /\ webServer \in BOOLEAN
    /\ allowed \in [IPs -> Nat]
    /\ urlShown \in [Players -> [M!Places -> Models \union {None}]]
    /\ asked \in [player : players, model : Models] \union {None}
    /\ early \subseteq Players
    /\ presentModels \subseteq Players

ModelsOnce == \A i, j \in 1 .. Len(models) : models[i] = models[j] => i = j

ModelsShown == \A p \in players \ presentModels : \A i \in M!Places :
    urlShown[p][i] = IF i + 1 \in 1 .. Len(models) THEN models[i + 1] ELSE None

\* An address is counted at most as often as players have it, and just so often
\* when none of them was there before the server.
Here(a) == {p \in players : ip[p] = a}

AddressesCounted ==
    /\ \A a \in IPs : /\ allowed[a] <= Cardinality(Here(a))
                      /\ Here(a) \intersect early = {} /\ (\A q \in early : ip[q] # a) =>
                           allowed[a] = Cardinality(Here(a))
    /\ ~webServer => players \subseteq early /\ \A a \in IPs : allowed[a] = 0

ModelInv == ModelTypes /\ ModelsOnce /\ ModelsShown /\ AddressesCounted

\* The players of an address are finitely many, no more than all.
LEMMA HereCounted ==
  ASSUME ModelTypes
  PROVE  \A a \in IPs : /\ IsFiniteSet(Here(a)) /\ Cardinality(Here(a)) \in Nat
                        /\ Cardinality(Here(a)) <= Cardinality(Players)
<1>1. \A a \in IPs : Here(a) \subseteq Players
  BY DEF ModelTypes, Here
<1> QED BY <1>1, ModelsAssumption, FS_Subset, FS_CardinalityType

\* A player more of its address, and of no other.
LEMMA HereConnected ==
  ASSUME ModelTypes, NEW p \in Players, p \notin players, players' = players \union {p}, ip' = ip
  PROVE  \A a \in IPs : Cardinality(Here(a)') =
           IF a = ip[p] THEN Cardinality(Here(a)) + 1 ELSE Cardinality(Here(a))
<1> SUFFICES ASSUME NEW a \in IPs
             PROVE  Cardinality(Here(a)') =
                      IF a = ip[p] THEN Cardinality(Here(a)) + 1 ELSE Cardinality(Here(a))
  OBVIOUS
<1>1. Here(a)' = IF a = ip[p] THEN Here(a) \union {p} ELSE Here(a)
  BY DEF Here
<1>2. p \notin Here(a)
  BY DEF Here
<1> QED BY <1>1, <1>2, HereCounted, FS_AddElement

LEMMA HereDisconnected ==
  ASSUME ModelTypes, NEW p \in Players, p \in players, players' = players \ {p}, ip' = ip
  PROVE  \A a \in IPs : Cardinality(Here(a)') =
           IF a = ip[p] THEN Cardinality(Here(a)) - 1 ELSE Cardinality(Here(a))
<1> SUFFICES ASSUME NEW a \in IPs
             PROVE  Cardinality(Here(a)') =
                      IF a = ip[p] THEN Cardinality(Here(a)) - 1 ELSE Cardinality(Here(a))
  OBVIOUS
<1>1. Here(a)' = IF a = ip[p] THEN Here(a) \ {p} ELSE Here(a)
  BY DEF Here
<1>2. a = ip[p] => p \in Here(a)
  BY DEF Here
<1> QED BY <1>1, <1>2, HereCounted, FS_RemoveElement

LEMMA ModelsInit == ASSUME M!Init PROVE ModelInv
<1>1. ModelTypes
  BY EmptySeq DEF M!Init, ModelTypes, M!Empty
<1>2. ModelsOnce /\ ModelsShown
  BY EmptySeq DEF M!Init, ModelsOnce, ModelsShown
<1>3. \A a \in IPs : Cardinality(Here(a)) = 0
  <2>1. \A a \in IPs : Here(a) = {}
    BY DEF M!Init, Here
  <2> QED BY <2>1, FS_EmptySet
<1>4. AddressesCounted
  BY <1>3 DEF M!Init, AddressesCounted
<1> QED BY <1>1, <1>2, <1>4 DEF ModelInv

LEMMA ModelsStutter ==
  ASSUME ModelInv, UNCHANGED <<players, modelsVars>>
  PROVE  ModelInv'
  BY DEF modelsVars, ModelInv, ModelTypes, ModelsOnce, ModelsShown,
         AddressesCounted, Here

LEMMA ModelsConnect ==
  ASSUME ModelInv, NEW p \in Players, M!Connect(p)
  PROVE  ModelInv'
<1> DEFINE list == [i \in M!Places |-> IF i + 1 \in DOMAIN models THEN models[i + 1] ELSE None]
<1>1. /\ asked = None /\ p \notin players /\ players' = players \union {p}
      /\ allowed' = IF webServer THEN [allowed EXCEPT ![ip[p]] = @ + 1] ELSE allowed
      /\ early' = IF ~webServer \/ \E q \in early : ip[q] = ip[p]
                  THEN early \union {p} ELSE early \ {p}
      /\ urlShown' = [urlShown EXCEPT ![p] = list]
      /\ presentModels' = presentModels \ {p}
      /\ UNCHANGED <<ip, models, webServer, asked>>
  BY DEF M!Connect
<1>2. DOMAIN models = 1 .. Len(models) /\ \A i \in 1 .. Len(models) : models[i] \in Models
  BY LenProperties, ElementOfSeq DEF ModelInv, ModelTypes
<1>3. /\ list \in [M!Places -> Models \union {None}]
      /\ \A i \in M!Places : list[i] = IF i + 1 \in 1 .. Len(models) THEN models[i + 1] ELSE None
  BY <1>2
<1> HIDE DEF list
<1>4. /\ urlShown' \in [Players -> [M!Places -> Models \union {None}]]
      /\ \A q \in Players : urlShown'[q] = IF q = p THEN list ELSE urlShown[q]
  BY <1>1, <1>3 DEF ModelInv, ModelTypes
<1>5. ip[p] \in IPs
  BY DEF ModelInv, ModelTypes
<1>6. /\ allowed' \in [IPs -> Nat]
      /\ \A a \in IPs : allowed'[a] = IF webServer /\ a = ip[p] THEN allowed[a] + 1 ELSE allowed[a]
  BY <1>1, <1>5 DEF ModelInv, ModelTypes
<1>7. ModelTypes'
  BY <1>1, <1>4, <1>6 DEF ModelInv, ModelTypes
<1>8. ModelsOnce' /\ ModelsShown'
  BY <1>1, <1>3, <1>4 DEF ModelInv, ModelTypes, ModelsOnce, ModelsShown
<1>9. AddressesCounted'
  <2>1. \A a \in IPs : /\ Cardinality(Here(a)) \in Nat /\ allowed[a] \in Nat
                       /\ Cardinality(Here(a)') =
                            IF a = ip[p] THEN Cardinality(Here(a)) + 1 ELSE Cardinality(Here(a))
    BY <1>1, HereCounted, HereConnected DEF ModelInv, ModelTypes
  <2>2. \A a \in IPs : allowed'[a] <= Cardinality(Here(a)')
    BY <1>6, <2>1 DEF ModelInv, AddressesCounted
  <2>3. ASSUME NEW a \in IPs, \A q \in early' : ip[q] # a
        PROVE  allowed'[a] = Cardinality(Here(a)')
    <3>1. \A q \in early : ip[q] # a
      BY <1>1, <2>3
    <3>2. allowed[a] = Cardinality(Here(a))
      BY <3>1 DEF ModelInv, AddressesCounted, Here
    <3>3. a = ip[p] => webServer
      BY <1>1, <2>3
    <3> QED BY <1>6, <2>1, <3>2, <3>3
  <2>4. ~webServer' => players' \subseteq early' /\ \A a \in IPs : allowed'[a] = 0
    BY <1>1, <1>6 DEF ModelInv, AddressesCounted
  <2> QED BY <1>1, <2>2, <2>3, <2>4 DEF AddressesCounted
<1> QED BY <1>7, <1>8, <1>9 DEF ModelInv

LEMMA ModelsDisconnect ==
  ASSUME ModelInv, NEW p \in Players, M!Disconnect(p)
  PROVE  ModelInv'
<1>1. /\ asked = None /\ p \in players /\ players' = players \ {p}
      /\ allowed' = IF webServer THEN M!Removed(ip[p]) ELSE allowed
      /\ urlShown' = [urlShown EXCEPT ![p] = M!Empty]
      /\ UNCHANGED <<ip, models, webServer, asked, early, presentModels>>
  BY DEF M!Disconnect
<1>2. /\ urlShown' \in [Players -> [M!Places -> Models \union {None}]]
      /\ \A q \in Players \ {p} : urlShown'[q] = urlShown[q]
  BY <1>1 DEF ModelInv, ModelTypes, M!Empty
<1>3. ip[p] \in IPs
  BY DEF ModelInv, ModelTypes
<1>4. /\ allowed' \in [IPs -> Nat]
      /\ \A a \in IPs : allowed'[a] =
           IF webServer /\ a = ip[p] THEN IF allowed[a] > 0 THEN allowed[a] - 1 ELSE 0
           ELSE allowed[a]
  BY <1>1, <1>3 DEF ModelInv, ModelTypes, M!Removed
<1>5. ModelTypes'
  BY <1>1, <1>2, <1>4 DEF ModelInv, ModelTypes
<1>6. ModelsOnce' /\ ModelsShown'
  BY <1>1, <1>2 DEF ModelInv, ModelTypes, ModelsOnce, ModelsShown
<1>7. AddressesCounted'
  <2>1. \A a \in IPs : /\ Cardinality(Here(a)) \in Nat /\ allowed[a] \in Nat
                       /\ Cardinality(Here(a)') \in Nat
                       /\ Cardinality(Here(a)') =
                            IF a = ip[p] THEN Cardinality(Here(a)) - 1 ELSE Cardinality(Here(a))
    <3>1. ModelTypes /\ ModelTypes'
      BY <1>5 DEF ModelInv
    <3>2. \A a \in IPs : Cardinality(Here(a)') \in Nat
      <4>1. \A a \in IPs : Here(a)' \subseteq Players
        BY <3>1 DEF ModelTypes, Here
      <4> QED BY <4>1, ModelsAssumption, FS_Subset, FS_CardinalityType
    <3> QED BY <1>1, <3>1, <3>2, HereCounted, HereDisconnected DEF ModelTypes
  <2>2. ASSUME NEW a \in IPs
        PROVE  /\ allowed'[a] <= Cardinality(Here(a)')
               /\ allowed[a] = Cardinality(Here(a)) /\ (a = ip[p] => webServer) =>
                    allowed'[a] = Cardinality(Here(a)')
    <3>1. allowed[a] <= Cardinality(Here(a)) /\ (~webServer => allowed[a] = 0)
      BY DEF ModelInv, AddressesCounted
    <3> QED BY <1>4, <2>1, <3>1
  <2>3. \A a \in IPs : (\A q \in early : ip[q] # a) =>
          allowed[a] = Cardinality(Here(a)) /\ (a = ip[p] => webServer)
    BY <1>1 DEF ModelInv, AddressesCounted, Here
  <2>4. ~webServer' => players' \subseteq early' /\ \A a \in IPs : allowed'[a] = 0
    BY <1>1 DEF ModelInv, AddressesCounted
  <2> QED BY <1>1, <2>2, <2>3, <2>4 DEF AddressesCounted
<1> QED BY <1>5, <1>6, <1>7 DEF ModelInv

LEMMA ModelsAddCustomModel ==
  ASSUME ModelInv, NEW x \in Models, M!AddCustomModel(x)
  PROVE  ModelInv'
<1>1. /\ asked = None /\ x \notin M!Range(models) /\ models' = Append(models, x)
      /\ presentModels' = players /\ webServer' = TRUE
      /\ urlShown' = [p \in Players |-> IF p \in players
                        THEN [urlShown[p] EXCEPT ![Len(models) - 1] = x] ELSE urlShown[p]]
      /\ UNCHANGED <<players, ip, allowed, asked, early>>
  BY DEF M!AddCustomModel
<1>2. /\ models' \in Seq(Models) /\ Len(models) \in Nat /\ Len(models') = Len(models) + 1
      /\ models'[Len(models) + 1] = x
      /\ \A i \in 1 .. Len(models) : models'[i] = models[i] /\ models[i] # x
  <2>1. DOMAIN models = 1 .. Len(models) /\ models \in Seq(Models)
    BY LenProperties DEF ModelInv, ModelTypes
  <2>2. \A i \in 1 .. Len(models) : models[i] # x
    BY <1>1, <2>1 DEF M!Range
  <2> QED BY <1>1, <2>1, <2>2, AppendIs
<1>3. urlShown' \in [Players -> [M!Places -> Models \union {None}]]
  BY <1>1 DEF ModelInv, ModelTypes
<1>4. ModelTypes'
  BY <1>1, <1>2, <1>3 DEF ModelInv, ModelTypes
<1>5. ModelsOnce'
  BY <1>2 DEF ModelInv, ModelsOnce
<1>6. ModelsShown'
  BY <1>1 DEF ModelsShown
<1>7. AddressesCounted'
  <2>1. \A a \in IPs : Here(a)' = Here(a)
    BY <1>1 DEF Here
  <2> QED BY <1>1, <2>1 DEF ModelInv, AddressesCounted
<1> QED BY <1>4, <1>5, <1>6, <1>7 DEF ModelInv

LEMMA ModelsRequestFile ==
  ASSUME ModelInv, NEW p \in Players, NEW x \in Models, M!RequestFile(p, x)
  PROVE  ModelInv'
  BY ModelsAssumption
  DEF M!RequestFile, Here, ModelInv, ModelTypes, ModelsOnce, ModelsShown,
      AddressesCounted

LEMMA ModelsSendUrl == ASSUME ModelInv, M!SendUrl PROVE ModelInv'
  BY ModelsAssumption
  DEF M!SendUrl, Here, ModelInv, ModelTypes, ModelsOnce, ModelsShown,
      AddressesCounted

LEMMA ModelsCardinality == \A set : M!Cardinality(set) = Cardinality(set)
  BY DEF M!Cardinality, Cardinality

LEMMA ModelsImply ==
  ASSUME ModelInv
  PROVE  M!TypeOK /\ M!CountExact /\ M!ViewExact
<1>1. DOMAIN models = 1 .. Len(models)
  BY LenProperties DEF ModelInv, ModelTypes
<1>2. M!TypeOK
  <2>1. M!IsInjective(models)
    BY <1>1 DEF ModelInv, ModelsOnce, M!IsInjective
  <2>2. allowed \in [IPs -> 0 .. Cardinality(Players)]
    <3>1. \A a \in IPs : allowed[a] \in 0 .. Cardinality(Players)
      <4>1. ASSUME NEW a \in IPs
            PROVE  allowed[a] \in 0 .. Cardinality(Players)
        <5>1. /\ allowed[a] \in Nat /\ allowed[a] <= Cardinality(Here(a))
              /\ Cardinality(Here(a)) \in Nat
              /\ Cardinality(Here(a)) <= Cardinality(Players)
              /\ Cardinality(Players) \in Nat
          BY HereCounted, ModelsAssumption, FS_CardinalityType
          DEF ModelInv, ModelTypes, AddressesCounted
        <5> QED BY <5>1
      <4> QED BY <4>1
    <3> QED BY <3>1 DEF ModelInv, ModelTypes
  <2>3. ModelTypes
    BY DEF ModelInv
  <2> QED BY <2>1, <2>2, <2>3, ModelsCardinality DEF ModelTypes, M!TypeOK
<1>3. M!CountExact
  <2>1. ASSUME NEW a \in IPs, {q \in early : ip[q] = a} = {}
        PROVE  allowed[a] = Cardinality({p \in players : ip[p] = a})
    <3>1. \A q \in early : ip[q] # a
      BY <2>1
    <3> QED BY <3>1 DEF ModelInv, AddressesCounted, Here
  <2> QED BY <2>1, ModelsCardinality DEF M!CountExact
<1>4. M!ViewExact
  BY <1>1 DEF ModelInv, ModelsShown, M!ViewExact
<1> QED BY <1>2, <1>3, <1>4

LEMMA ModelsStep == ASSUME ModelInv, M!Next PROVE ModelInv'
  BY ModelsConnect, ModelsDisconnect, ModelsAddCustomModel,
     ModelsRequestFile, ModelsSendUrl
  DEF M!Next

-----------------------------------------------------------------------------
(* Console                                                                  *)

ConsoleTypes ==
    /\ players \subseteq Alone
    /\ access \subseteq players
    /\ typed \in 0 .. MaxLines
    /\ cmd \in 0 .. typed
    /\ newCmd \in BOOLEAN
    /\ reader \in {"reads", "locks", "stores"}
    /\ taker \in {"idle", "took"}
    /\ mutex \in {None, "reader"}
    /\ sent \in Seq(1 .. MaxLines)
    /\ overrun \subseteq 1 .. typed

Untaken == newCmd \/ reader = "stores" \/ taker = "took"

\* The line in the variable is the last one typed, but for one that waits for
\* the mutex; when it is about to be given a second time, or while two lines are
\* on their way, it has overrun the line before it.
LinesTaken ==
    /\ reader = "locks" => cmd = typed - 1
    /\ reader # "locks" => cmd = typed
    /\ mutex = "reader" <=> reader = "stores"
    /\ Untaken => cmd > 0
    /\ newCmd /\ reader = "stores" => cmd \in overrun
    /\ taker = "took" /\ (newCmd \/ reader = "stores") => cmd \in overrun
    /\ \A i \in 1 .. Len(sent) :
         sent[i] \in 1 .. cmd /\ (sent[i] = cmd /\ Untaken => cmd \in overrun)

LinesSent == \A i, j \in 1 .. Len(sent) : i < j =>
    sent[i] < sent[j] \/ (sent[i] = sent[j] /\ sent[i] \in overrun)

LinesKept == \A n \in 1 .. cmd :
    \/ \E i \in 1 .. Len(sent) : sent[i] = n
    \/ n + 1 \in overrun
    \/ n = cmd /\ Untaken

ConsoleInv == ConsoleTypes /\ LinesTaken /\ LinesSent /\ LinesKept

LEMMA ConsoleInit == ASSUME C!Init PROVE ConsoleInv
<1>1. Len(sent) = 0 /\ sent \in Seq(1 .. MaxLines)
  BY EmptySeq DEF C!Init
<1>2. ConsoleTypes
  <2>1. typed \in 0 .. MaxLines /\ cmd \in 0 .. typed /\ overrun \subseteq 1 .. typed
    BY ConsoleAssumption DEF C!Init
  <2>2. /\ players \subseteq Alone /\ access \subseteq players /\ newCmd \in BOOLEAN
        /\ reader \in {"reads", "locks", "stores"} /\ taker \in {"idle", "took"}
        /\ mutex \in {None, "reader"}
    BY DEF C!Init
  <2> QED BY <1>1, <2>1, <2>2 DEF ConsoleTypes
<1>3. LinesTaken /\ LinesSent /\ LinesKept
  BY <1>1, ConsoleAssumption DEF C!Init, LinesTaken, LinesSent, LinesKept, Untaken
<1> QED BY <1>2, <1>3 DEF ConsoleInv

LEMMA ConsoleStutter ==
  ASSUME ConsoleInv, UNCHANGED <<players, consoleVars>>
  PROVE  ConsoleInv'
  BY DEF consoleVars, ConsoleInv, ConsoleTypes, LinesTaken, LinesSent,
         LinesKept, Untaken

LEMMA ConsoleReadLine == ASSUME ConsoleInv, C!ReadLine PROVE ConsoleInv'
  BY ConsoleAssumption
  DEF C!ReadLine, Untaken, ConsoleInv, ConsoleTypes, LinesTaken, LinesSent,
      LinesKept

LEMMA ConsoleStoreLine == ASSUME ConsoleInv, C!StoreLine PROVE ConsoleInv'
  BY ConsoleAssumption
  DEF C!StoreLine, Untaken, ConsoleInv, ConsoleTypes, LinesTaken, LinesSent,
      LinesKept

LEMMA ConsoleRaiseFlag == ASSUME ConsoleInv, C!RaiseFlag PROVE ConsoleInv'
  BY ConsoleAssumption
  DEF C!RaiseFlag, Untaken, ConsoleInv, ConsoleTypes, LinesTaken, LinesSent,
      LinesKept

LEMMA ConsoleTakeFlag == ASSUME ConsoleInv, C!TakeFlag PROVE ConsoleInv'
  BY ConsoleAssumption
  DEF C!TakeFlag, Untaken, ConsoleInv, ConsoleTypes, LinesTaken, LinesSent,
      LinesKept

LEMMA ConsoleSend == ASSUME ConsoleInv, C!Send PROVE ConsoleInv'
<1>1. /\ taker = "took" /\ mutex = None /\ sent' = Append(sent, cmd) /\ taker' = "idle"
      /\ UNCHANGED <<players, access, typed, cmd, newCmd, reader, mutex, overrun>>
  BY DEF C!Send
<1>2. /\ cmd \in 1 .. MaxLines /\ sent \in Seq(1 .. MaxLines) /\ reader # "stores"
  BY <1>1, ConsoleAssumption DEF ConsoleInv, ConsoleTypes, LinesTaken, Untaken
<1>3. /\ sent' \in Seq(1 .. MaxLines) /\ Len(sent') = Len(sent) + 1 /\ Len(sent) \in Nat
      /\ sent'[Len(sent) + 1] = cmd
      /\ \A i \in 1 .. Len(sent) : sent'[i] = sent[i]
  BY <1>1, <1>2, AppendIs
<1>4. ConsoleTypes'
  BY <1>1, <1>3 DEF ConsoleInv, ConsoleTypes
<1>5. \A i \in 1 .. Len(sent') : i \in 1 .. Len(sent) \/ i = Len(sent) + 1
  BY <1>3
<1>6. LinesTaken'
  BY <1>1, <1>2, <1>3, <1>5 DEF ConsoleInv, LinesTaken, Untaken
<1>7. LinesSent'
  <2> SUFFICES ASSUME NEW i \in 1 .. Len(sent'), NEW j \in 1 .. Len(sent'), i < j
               PROVE  sent'[i] < sent'[j] \/ (sent'[i] = sent'[j] /\ sent'[i] \in overrun)
    BY <1>1 DEF LinesSent
  <2>1. i \in 1 .. Len(sent) /\ sent'[i] = sent[i]
    BY <1>3, <1>5
  <2>2. CASE j \in 1 .. Len(sent)
    BY <1>3, <2>1, <2>2 DEF ConsoleInv, LinesSent
  <2>3. CASE j = Len(sent) + 1
    BY <1>1, <1>3, <2>1, <2>3 DEF ConsoleInv, LinesTaken, Untaken
  <2> QED BY <1>5, <2>2, <2>3
<1>8. LinesKept'
  <2> SUFFICES ASSUME NEW n \in 1 .. cmd
               PROVE  \/ \E i \in 1 .. Len(sent') : sent'[i] = n
                      \/ n + 1 \in overrun
                      \/ n = cmd /\ Untaken'
    BY <1>1 DEF LinesKept
  <2>1. CASE n = cmd
    BY <1>3, <2>1
  <2>2. CASE n # cmd
    BY <1>3, <2>2 DEF ConsoleInv, LinesKept
  <2> QED BY <2>1, <2>2
<1> QED BY <1>4, <1>6, <1>7, <1>8 DEF ConsoleInv

LEMMA ConsoleConnect ==
  ASSUME ConsoleInv, NEW p \in Alone, C!Connect(p)
  PROVE  ConsoleInv'
  BY ConsoleAssumption
  DEF C!Connect, Untaken, ConsoleInv, ConsoleTypes, LinesTaken, LinesSent,
      LinesKept

LEMMA ConsoleLogin ==
  ASSUME ConsoleInv, NEW p \in Alone, C!Login(p)
  PROVE  ConsoleInv'
  BY ConsoleAssumption
  DEF C!Login, Untaken, ConsoleInv, ConsoleTypes, LinesTaken, LinesSent,
      LinesKept

LEMMA ConsoleDisconnect ==
  ASSUME ConsoleInv, NEW p \in Alone, C!Disconnect(p)
  PROVE  ConsoleInv'
  BY ConsoleAssumption
  DEF C!Disconnect, Untaken, ConsoleInv, ConsoleTypes, LinesTaken, LinesSent,
      LinesKept

LEMMA ConsoleImply ==
  ASSUME ConsoleInv
  PROVE  C!TypeOK /\ C!LinesExact
<1>1. DOMAIN sent = 1 .. Len(sent)
  BY LenProperties DEF ConsoleInv, ConsoleTypes
<1>2. C!TypeOK
  BY DEF ConsoleInv, ConsoleTypes, C!TypeOK
<1>3. C!LinesExact
  BY <1>1 DEF ConsoleInv, LinesSent, LinesKept, Untaken, C!LinesExact, C!Range
<1> QED BY <1>2, <1>3

LEMMA ConsoleStep == ASSUME ConsoleInv, C!Next PROVE ConsoleInv'
  BY ConsoleReadLine, ConsoleStoreLine, ConsoleRaiseFlag, ConsoleTakeFlag,
     ConsoleSend, ConsoleConnect, ConsoleLogin, ConsoleDisconnect
  DEF C!Next

-----------------------------------------------------------------------------
(* Timers                                                                   *)

TimerRecord == [running : BOOLEAN, left : 0 .. 1, script : Scripts \union {None},
                id : TimerIds \union {0}]

Listed(t) == \E i \in 1 .. Len(timerList) : timerList[i] = t

TimerTypes ==
    /\ timerScripts \subseteq Scripts
    /\ timerList \in Seq(Timer)
    /\ timer \in [Timer -> TimerRecord]
    /\ timerPool \in [TimerIds -> Timer \union {None}]
    /\ idx \in TimerIds
    /\ cursor \in 0 .. Len(timerList) + 1
    /\ fired \in [Timer -> 0 .. 2]
    /\ callback \in Timer \union {None}
    /\ \A t \in orphans : Listed(t)

TimersOnce == \A i, j \in 1 .. Len(timerList) : timerList[i] = timerList[j] => i = j

\* A callback runs at the place that the tick has come to.
TimerCalls == callback # None => cursor \in 1 .. Len(timerList) /\ timerList[cursor] = callback

TimerIdsLead ==
    /\ \A i \in TimerIds : timerPool[i] # None =>
         Listed(timerPool[i]) /\ timer[timerPool[i]].id = i
    /\ \A t \in Timer : Listed(t) /\ timer[t].id # 0 => timerPool[timer[t].id] = t

TimersFired == \A t \in Timer : Listed(t) =>
    (timer[t].left = 1 => fired[t] = IF callback = t THEN 1 ELSE 0)

TimersOwned == \A t \in Timer : Listed(t) =>
    (timer[t].running /\ timer[t].id # 0 => timer[t].script \in timerScripts)

\* What only holds while no timer goes on with a handler that was deleted.
TimersSound == Careful => TimerIdsLead /\ TimersOwned /\ orphans = {}

TimerInv == TimerTypes /\ TimersOnce /\ TimerCalls /\ TimersFired /\ TimersSound

\* A sequence without the element at one place.
Cut(s, n) == SubSeq(s, 1, n - 1) \o SubSeq(s, n + 1, Len(s))

LEMMA RemoveIs ==
  ASSUME NEW U, NEW s \in Seq(U), NEW n \in 1 .. Len(s)
  PROVE  /\ Cut(s, n) \in Seq(U) /\ Len(Cut(s, n)) = Len(s) - 1 /\ Len(s) \in Nat
         /\ \A i \in 1 .. Len(s) - 1 :
              Cut(s, n)[i] = IF i < n THEN s[i] ELSE s[i + 1]
<1> DEFINE l == SubSeq(s, 1, n - 1)
           r == SubSeq(s, n + 1, Len(s))
<1>1. Len(s) \in Nat /\ n \in Nat /\ \A i \in 1 .. Len(s) : s[i] \in U
  BY LenProperties, ElementOfSeq
<1>2. /\ l \in Seq(U) /\ Len(l) = n - 1
      /\ \A i \in 1 .. n - 1 : l[i] = s[1 + i - 1]
  BY <1>1, SubSeqProperties
<1>3. /\ r \in Seq(U) /\ Len(r) = Len(s) - n
      /\ \A i \in 1 .. Len(s) - n : r[i] = s[n + 1 + i - 1]
  BY <1>1, SubSeqProperties
<1> HIDE DEF l, r
<1>4. /\ l \o r \in Seq(U) /\ Len(l \o r) = Len(l) + Len(r)
      /\ \A i \in 1 .. Len(l) + Len(r) : (l \o r)[i] = IF i <= Len(l) THEN l[i] ELSE r[i - Len(l)]
  BY <1>2, <1>3, ConcatProperties
<1>5. Cut(s, n) = l \o r
  BY DEF Cut, l, r
<1>6. \A i \in 1 .. Len(s) - 1 : (l \o r)[i] = IF i < n THEN s[i] ELSE s[i + 1]
  <2> SUFFICES ASSUME NEW i \in 1 .. Len(s) - 1
               PROVE  (l \o r)[i] = IF i < n THEN s[i] ELSE s[i + 1]
    OBVIOUS
  <2>1. (l \o r)[i] = IF i <= n - 1 THEN l[i] ELSE r[i - (n - 1)]
    BY <1>1, <1>2, <1>3, <1>4
  <2>2. CASE i < n
    BY <1>1, <1>2, <2>1, <2>2
  <2>3. CASE ~(i < n)
    <3>1. i - (n - 1) \in 1 .. Len(s) - n /\ n + 1 + (i - (n - 1)) - 1 = i + 1
      BY <1>1, <2>3
    <3> QED BY <1>1, <1>3, <2>1, <2>3, <3>1
  <2> QED BY <2>2, <2>3
<1>7. (n - 1) + (Len(s) - n) = Len(s) - 1
  BY <1>1
<1>8. l \o r \in Seq(U) /\ Len(l \o r) = Len(s) - 1
  BY <1>2, <1>3, <1>4, <1>7
<1> QED BY <1>1, <1>5, <1>6, <1>8

\* The timer at the cursor is deleted, when no callback runs any more.
LEMMA TimerDeleted ==
  ASSUME TimerInv, cursor \in 1 .. Len(timerList), T!Deleted(timerList[cursor]),
         callback \in {None, timerList[cursor]}, callback' = None,
         UNCHANGED <<timerScripts, idx, fired>>
  PROVE  TimerInv'
<1> DEFINE t == timerList[cursor]
<1>1. t \in Timer
  BY ElementOfSeq DEF TimerInv, TimerTypes
<1>2. /\ timerList' \in Seq(Timer) /\ Len(timerList') = Len(timerList) - 1
      /\ Len(timerList) \in Nat
      /\ \A i \in 1 .. Len(timerList') :
           timerList'[i] = IF i < cursor THEN timerList[i] ELSE timerList[i + 1]
  BY RemoveIs DEF Cut, T!Deleted, TimerInv, TimerTypes
<1>3. T!NoTimer \in TimerRecord /\ T!NoTimer.id = 0 /\ ~T!NoTimer.running
  BY DEF T!NoTimer, TimerRecord
<1>4. /\ timer' = [timer EXCEPT ![t] = T!NoTimer] /\ cursor' = cursor
      /\ timerPool' = [i \in TimerIds |-> IF i = timer[t].id THEN None ELSE timerPool[i]]
      /\ orphans' = orphans \ {t}
  BY DEF T!Deleted
<1>5. /\ timer' \in [Timer -> TimerRecord] /\ \A u \in Timer \ {t} : timer'[u] = timer[u]
      /\ timerPool' \in [TimerIds -> Timer \union {None}]
  BY <1>1, <1>3, <1>4 DEF TimerInv, TimerTypes
<1> HIDE DEF t
<1>6. \A u \in Timer : Listed(u)' <=> Listed(u) /\ u # t
  <2>1. ASSUME NEW i \in 1 .. Len(timerList')
        PROVE  \E j \in 1 .. Len(timerList) : timerList'[i] = timerList[j] /\ j # cursor
    <3>1. CASE i < cursor
      BY <1>2, <3>1
    <3>2. CASE ~(i < cursor)
      <4>1. i + 1 \in 1 .. Len(timerList) /\ i + 1 # cursor
        BY <1>2, <3>2
      <4> QED BY <1>2, <3>2, <4>1
    <3> QED BY <3>1, <3>2
  <2>2. ASSUME NEW j \in 1 .. Len(timerList), j # cursor
        PROVE  \E i \in 1 .. Len(timerList') : timerList'[i] = timerList[j]
    <3>1. CASE j < cursor
      <4>1. j \in 1 .. Len(timerList')
        BY <1>2, <3>1
      <4> QED BY <1>2, <3>1, <4>1
    <3>2. CASE ~(j < cursor)
      <4>1. j - 1 \in 1 .. Len(timerList') /\ ~(j - 1 < cursor) /\ (j - 1) + 1 = j
        BY <1>2, <2>2, <3>2
      <4> QED BY <1>2, <4>1
    <3> QED BY <3>1, <3>2
  <2>3. \A j \in 1 .. Len(timerList) : timerList[j] = t <=> j = cursor
    BY DEF TimerInv, TimersOnce, t
  <2> QED BY <2>1, <2>2, <2>3 DEF Listed
<1>7. TimerTypes'
  <2>1. \A u \in orphans' : Listed(u)'
    <3>1. \A u \in orphans : u \in Timer /\ Listed(u)
      BY ElementOfSeq DEF TimerInv, TimerTypes, Listed
    <3> QED BY <1>4, <1>6, <3>1
  <2> QED BY <1>2, <1>4, <1>5, <2>1 DEF TimerInv, TimerTypes
<1>8. TimersOnce'
  <2> SUFFICES ASSUME NEW i \in 1 .. Len(timerList'), NEW j \in 1 .. Len(timerList'),
                      timerList'[i] = timerList'[j]
               PROVE  i = j
    BY DEF TimersOnce
  <2> DEFINE p(n) == IF n < cursor THEN n ELSE n + 1
  <2>1. /\ p(i) \in 1 .. Len(timerList) /\ p(j) \in 1 .. Len(timerList)
        /\ timerList'[i] = timerList[p(i)] /\ timerList'[j] = timerList[p(j)]
    BY <1>2
  <2>2. p(i) = p(j)
    BY <2>1 DEF TimerInv, TimersOnce
  <2> QED BY <1>2, <2>2
<1>9. TimerCalls'
  BY DEF TimerCalls
<1>10. TimersFired'
  <2> SUFFICES ASSUME NEW u \in Timer, Listed(u)', timer'[u].left = 1
               PROVE  fired[u] = IF callback' = u THEN 1 ELSE 0
    BY DEF TimersFired
  <2>1. Listed(u) /\ u # t /\ timer'[u] = timer[u] /\ callback # u
    BY <1>5, <1>6, TimersAssumption DEF t
  <2> QED BY <2>1, TimersAssumption DEF TimerInv, TimersFired
<1>11. TimersSound'
  <2> SUFFICES ASSUME Careful
               PROVE  TimerIdsLead' /\ TimersOwned' /\ orphans' = {}
    BY DEF TimersSound
  <2>0. TimerIdsLead /\ TimersOwned /\ orphans = {}
    BY DEF TimerInv, TimersSound
  <2>1. \A i \in TimerIds, u \in Timer : timerPool'[i] = u =>
          Listed(u)' /\ timer'[u].id = i
    <3> SUFFICES ASSUME NEW i \in TimerIds, NEW u \in Timer, timerPool'[i] = u
                 PROVE  Listed(u)' /\ timer'[u].id = i
      OBVIOUS
    <3>0. u # None
      BY TimersAssumption
    <3>1. i # timer[t].id /\ timerPool[i] = u
      BY <1>4, <3>0 DEF TimerInv, TimerTypes
    <3>2. Listed(u) /\ timer[u].id = i
      BY <2>0, <3>0, <3>1 DEF TimerIdsLead
    <3>3. u # t
      BY <3>1, <3>2
    <3> QED BY <1>5, <1>6, <3>1, <3>2, <3>3
  <2>2. \A u \in Timer : Listed(u)' /\ timer'[u].id # 0 => timerPool'[timer'[u].id] = u
    <3> SUFFICES ASSUME NEW u \in Timer, Listed(u)', timer'[u].id # 0
                 PROVE  timerPool'[timer'[u].id] = u
      OBVIOUS
    <3>1. Listed(u) /\ u # t /\ timer'[u] = timer[u]
      BY <1>5, <1>6
    <3>2. timer[u].id \in TimerIds /\ timerPool[timer[u].id] = u
      BY <2>0, <3>1 DEF TimerInv, TimerTypes, TimerRecord, TimerIdsLead
    <3>3. timer[t].id # timer[u].id
      BY <1>1, <2>0, <3>1, <3>2, TimersAssumption DEF TimerInv, TimerIdsLead,
         TimerTypes, TimerRecord, Listed, t
    <3> QED BY <1>4, <3>1, <3>2, <3>3
  <2>3. TimersOwned'
    <3> SUFFICES ASSUME NEW u \in Timer, Listed(u)', timer'[u].running, timer'[u].id # 0
                 PROVE  timer'[u].script \in timerScripts
      BY DEF TimersOwned
    <3>1. Listed(u) /\ timer'[u] = timer[u]
      BY <1>5, <1>6
    <3> QED BY <2>0, <3>1 DEF TimersOwned
  <2> QED BY <1>4, <1>5, <2>0, <2>1, <2>2, <2>3 DEF TimerIdsLead, Listed
<1> QED BY <1>7, <1>8, <1>9, <1>10, <1>11 DEF TimerInv

\* The records of the timers change, none of those in the list how often it is
\* still to be called, nor, unless handlers are deleted, its id.
LEMMA TimersGoOn ==
  ASSUME TimerInv, timer' \in [Timer -> TimerRecord], fired' \in [Timer -> 0 .. 2],
         timerScripts' \subseteq Scripts, cursor' \in 0 .. Len(timerList) + 1,
         callback' \in Timer \union {None},
         UNCHANGED <<timerList, timerPool, idx, orphans>>, TimerCalls',
         \A t \in Timer : timer'[t].left = timer[t].left,
         TimersFired',
         Careful => TimersOwned' /\ \A t \in Timer : timer'[t].id = timer[t].id
  PROVE  TimerInv'
<1>1. \A t : Listed(t)' <=> Listed(t)
  BY DEF Listed
<1>2. TimerTypes' /\ TimersOnce'
  BY <1>1 DEF TimerInv, TimerTypes, TimersOnce
<1>3. TimersSound'
  <2> SUFFICES ASSUME Careful
               PROVE  TimerIdsLead' /\ TimersOwned' /\ orphans' = {}
    BY DEF TimersSound
  <2>1. TimerIdsLead /\ orphans = {}
    BY DEF TimerInv, TimersSound
  <2>2. TimerIdsLead'
    BY <1>1, <2>1 DEF TimerInv, TimerIdsLead, TimerTypes
  <2> QED BY <2>1, <2>2
<1> QED BY <1>2, <1>3 DEF TimerInv

LEMMA FreeIdIs ==
  ASSUME TimerInv
  PROVE  T!FreeId \in TimerIds \union {0} /\ (T!FreeId # 0 => timerPool[T!FreeId] = None)
<1> DEFINE free == {i \in TimerIds : timerPool[i] = None}
           ahead == {i \in free : i >= idx}
           least(set) == CHOOSE i \in set : \A j \in set : i <= j
<1>1. free \subseteq Nat /\ ahead \subseteq Nat
  BY TimersAssumption
<1>2. free # {} => least(free) \in free
  BY <1>1, LowestOf
<1>3. ahead # {} => least(ahead) \in ahead
  BY <1>1, LowestOf
<1>4. T!FreeId = IF ahead # {} THEN least(ahead) ELSE IF free # {} THEN least(free) ELSE 0
  BY DEF T!FreeId
<1> HIDE DEF least
<1> QED BY <1>2, <1>3, <1>4

LEMMA TimersInit == ASSUME T!Init PROVE TimerInv
<1>1. Len(timerList) = 0 /\ timerList \in Seq(Timer)
  BY EmptySeq DEF T!Init
<1>2. T!NoTimer \in TimerRecord
  BY DEF T!NoTimer, TimerRecord
<1>3. TimerTypes
  BY <1>1, <1>2, TimersAssumption DEF T!Init, TimerTypes
<1>4. TimersOnce /\ TimerCalls /\ TimersFired /\ TimersOwned /\ \A t : ~Listed(t)
  BY <1>1 DEF T!Init, TimersOnce, TimerCalls, TimersFired, TimersOwned, Listed
<1>5. TimerIdsLead /\ orphans = {}
  BY <1>4 DEF T!Init, TimerIdsLead
<1> QED BY <1>3, <1>4, <1>5 DEF TimerInv, TimersSound

LEMMA TimersStutter ==
  ASSUME TimerInv, UNCHANGED <<players, timersVars>>
  PROVE  TimerInv'
<1>1. TimersFired' /\ TimerCalls' /\ (Careful => TimersOwned')
  BY DEF timersVars, TimerInv, TimersSound, TimersFired, TimersOwned, TimerCalls, Listed
<1> QED BY <1>1, TimersGoOn DEF timersVars, TimerInv, TimerTypes

\* A timer is made, and its handler is kept, or deleted.
LEMMA TimersNewTimer ==
  ASSUME TimerInv, NEW t \in Timer, NEW s \in Scripts,
         NEW repeating \in BOOLEAN, T!NewTimer(t, s, repeating),
         orphans' = orphans \/ (~Careful /\ orphans' = orphans \union {t})
  PROVE  TimerInv'
<1> DEFINE f == T!FreeId
           r == [running |-> TRUE, left |-> IF repeating THEN 0 ELSE 1, script |-> s, id |-> f]
<1>1. f \in TimerIds \union {0} /\ (f # 0 => timerPool[f] = None)
  BY FreeIdIs
<1>2. /\ s \in timerScripts /\ t \notin T!Range(timerList)
      /\ timerList' = Append(timerList, t)
      /\ timer' = [timer EXCEPT ![t] = r]
      /\ IF f # 0 THEN timerPool' = [timerPool EXCEPT ![f] = t] /\ idx' = T!NextId(f)
         ELSE UNCHANGED <<timerPool, idx>>
      /\ fired' = [fired EXCEPT ![t] = 0]
      /\ UNCHANGED <<timerScripts, cursor, callback>>
  BY DEF T!NewTimer
<1>3. r \in TimerRecord /\ r.id = f /\ r.script = s
  BY <1>1 DEF TimerRecord
<1> HIDE DEF f, r
<1>4. /\ timerList' \in Seq(Timer) /\ Len(timerList') = Len(timerList) + 1 /\ Len(timerList) \in Nat
      /\ timerList'[Len(timerList) + 1] = t
      /\ \A i \in 1 .. Len(timerList) : timerList'[i] = timerList[i]
  BY <1>2, AppendIs DEF TimerInv, TimerTypes
<1>5. \A i \in 1 .. Len(timerList') : i \in 1 .. Len(timerList) \/ i = Len(timerList) + 1
  BY <1>4
<1>6. ~Listed(t)
  <2>1. DOMAIN timerList = 1 .. Len(timerList)
    BY LenProperties DEF TimerInv, TimerTypes
  <2> QED BY <1>2, <2>1 DEF Listed, T!Range
<1>7. \A u : Listed(u)' <=> Listed(u) \/ u = t
  <2>1. \A i \in 1 .. Len(timerList) : i \in 1 .. Len(timerList')
    BY <1>4
  <2>2. Len(timerList) + 1 \in 1 .. Len(timerList')
    BY <1>4
  <2> QED BY <1>4, <1>5, <2>1, <2>2 DEF Listed
<1>8. /\ timer' \in [Timer -> TimerRecord] /\ timer'[t] = r
      /\ \A u \in Timer \ {t} : timer'[u] = timer[u] /\ fired'[u] = fired[u]
      /\ fired' \in [Timer -> 0 .. 2] /\ fired'[t] = 0
  BY <1>2, <1>3 DEF TimerInv, TimerTypes
<1>9. /\ timerPool' \in [TimerIds -> Timer \union {None}] /\ idx' \in TimerIds
      /\ \A i \in TimerIds : timerPool'[i] = IF i = f THEN t ELSE timerPool[i]
  BY <1>1, <1>2, TimersAssumption DEF TimerInv, TimerTypes, T!NextId
<1>10. callback # t
  BY <1>6, TimersAssumption DEF TimerInv, TimerCalls, Listed
<1>11. TimerTypes'
  <2>1. \A u \in orphans' : Listed(u)'
    BY <1>7 DEF TimerInv, TimerTypes
  <2> QED BY <1>2, <1>4, <1>8, <1>9, <2>1 DEF TimerInv, TimerTypes
<1>12. TimersOnce'
  BY <1>4, <1>5, <1>6 DEF TimerInv, TimersOnce, Listed
<1>13. TimerCalls'
  BY <1>2, <1>4 DEF TimerInv, TimerCalls
<1>14. TimersFired'
  <2> SUFFICES ASSUME NEW u \in Timer, Listed(u)', timer'[u].left = 1
               PROVE  fired'[u] = IF callback = u THEN 1 ELSE 0
    BY <1>2 DEF TimersFired
  <2>1. CASE u = t
    BY <1>8, <1>10, <2>1
  <2>2. CASE u # t
    BY <1>7, <1>8, <2>2 DEF TimerInv, TimersFired
  <2> QED BY <2>1, <2>2
<1>15. TimersSound'
  <2> SUFFICES ASSUME Careful
               PROVE  TimerIdsLead' /\ TimersOwned' /\ orphans' = {}
    BY DEF TimersSound
  <2>0. TimerIdsLead /\ TimersOwned /\ orphans = {}
    BY DEF TimerInv, TimersSound
  <2>1. \A i \in TimerIds, u \in Timer : timerPool'[i] = u =>
          Listed(u)' /\ timer'[u].id = i
    <3> SUFFICES ASSUME NEW i \in TimerIds, NEW u \in Timer, timerPool'[i] = u
                 PROVE  Listed(u)' /\ timer'[u].id = i
      OBVIOUS
    <3>0. u # None
      BY TimersAssumption
    <3>1. CASE i = f
      BY <1>3, <1>7, <1>8, <1>9, <3>1
    <3>2. CASE i # f
      <4>1. timerPool[i] = u /\ Listed(u) /\ timer[u].id = i
        BY <1>9, <2>0, <3>0, <3>2 DEF TimerIdsLead
      <4>2. u # t
        BY <1>6, <4>1
      <4> QED BY <1>7, <1>8, <4>1, <4>2
    <3> QED BY <3>1, <3>2
  <2>2. \A u \in Timer : Listed(u)' /\ timer'[u].id # 0 => timerPool'[timer'[u].id] = u
    <3> SUFFICES ASSUME NEW u \in Timer, Listed(u)', timer'[u].id # 0
                 PROVE  timerPool'[timer'[u].id] = u
      OBVIOUS
    <3>1. CASE u = t
      BY <1>1, <1>3, <1>8, <1>9, <3>1
    <3>2. CASE u # t
      <4>1. Listed(u) /\ timer'[u] = timer[u] /\ timer[u].id \in TimerIds
            /\ timerPool[timer[u].id] = u
        BY <1>7, <1>8, <2>0, <3>2 DEF TimerInv, TimerTypes, TimerRecord, TimerIdsLead
      <4>2. timer[u].id # f
        BY <1>1, <4>1, TimersAssumption
      <4> QED BY <1>9, <4>1, <4>2
    <3> QED BY <3>1, <3>2
  <2>3. TimersOwned'
    <3> SUFFICES ASSUME NEW u \in Timer, Listed(u)', timer'[u].running, timer'[u].id # 0
                 PROVE  timer'[u].script \in timerScripts
      BY <1>2 DEF TimersOwned
    <3>1. CASE u = t
      BY <1>2, <1>3, <1>8, <3>1
    <3>2. CASE u # t
      BY <1>7, <1>8, <2>0, <3>2 DEF TimersOwned
    <3> QED BY <3>1, <3>2
  <2> QED BY <1>9, <2>0, <2>1, <2>2, <2>3 DEF TimerIdsLead, Listed
<1> QED BY <1>11, <1>12, <1>13, <1>14, <1>15 DEF TimerInv

\* The handler of a timer that scripts made without mistake stays.
LEMMA TimersSetTimer ==
  ASSUME TimerInv, NEW t \in Timer, NEW s \in Scripts, NEW repeating \in BOOLEAN,
         T!SetTimer(t, s, repeating) \/ T!SetTimerExFails(t, s, repeating)
  PROVE  TimerInv'
  BY TimersNewTimer DEF T!SetTimer, T!SetTimerExFails

\* What a deleted handler turns into is still a script and an id, of a timer that
\* is called as often as before.
LEMMA TimersOverwritten ==
  ASSUME TimerInv, NEW t \in Timer, NEW s \in Scripts, NEW i \in TimerIds \union {0},
         T!Overwritten(t, s, i)
  PROVE  TimerInv'
<1>1. /\ ~Careful /\ timer' = [timer EXCEPT ![t].script = s, ![t].id = i]
      /\ UNCHANGED <<timerScripts, timerList, orphans, timerPool, idx, cursor, fired,
                     callback>>
  BY DEF T!Overwritten, TimerInv, TimersSound
<1>2. /\ timer' \in [Timer -> TimerRecord]
      /\ \A u \in Timer : timer'[u].left = timer[u].left
  BY <1>1 DEF TimerInv, TimerTypes, TimerRecord
<1>3. TimersFired' /\ TimerCalls'
  BY <1>1, <1>2 DEF TimerInv, TimersFired, TimerCalls, Listed
<1> QED BY <1>1, <1>2, <1>3, TimersGoOn DEF TimerInv, TimerTypes

LEMMA TimersKillTimer ==
  ASSUME TimerInv, NEW i \in TimerIds, T!KillTimer(i)
  PROVE  TimerInv'
<1> DEFINE t == timerPool[i]
<1>1. /\ t \in Timer /\ timer' = [timer EXCEPT ![t].running = FALSE]
      /\ UNCHANGED <<timerScripts, timerList, orphans, timerPool, idx, cursor, fired,
                     callback>>
  BY DEF T!KillTimer, TimerInv, TimerTypes
<1> HIDE DEF t
<1>2. /\ timer' \in [Timer -> TimerRecord]
      /\ \A u \in Timer : /\ timer'[u].id = timer[u].id /\ timer'[u].left = timer[u].left
                          /\ timer'[u].script = timer[u].script
                          /\ timer'[u].running => timer[u].running
  BY <1>1 DEF TimerInv, TimerTypes, TimerRecord
<1>3. TimersFired' /\ TimerCalls' /\ (Careful => TimersOwned')
  BY <1>1, <1>2 DEF TimerInv, TimersSound, TimersFired, TimersOwned, TimerCalls, Listed
<1> QED BY <1>1, <1>2, <1>3, TimersGoOn DEF TimerInv, TimerTypes

LEMMA TimersLoadScript ==
  ASSUME TimerInv, NEW s \in Scripts, T!LoadScript(s)
  PROVE  TimerInv'
<1>1. /\ timerScripts' = timerScripts \union {s}
      /\ UNCHANGED <<timerList, timer, orphans, timerPool, idx, cursor, fired, callback>>
  BY DEF T!LoadScript
<1>2. TimersFired' /\ TimerCalls' /\ (Careful => TimersOwned')
  BY <1>1 DEF TimerInv, TimersSound, TimersFired, TimersOwned, TimerCalls, Listed
<1> QED BY <1>1, <1>2, TimersGoOn DEF TimerInv, TimerTypes

LEMMA TimersUnloadScript ==
  ASSUME TimerInv, NEW s \in Scripts, T!UnloadScript(s)
  PROVE  TimerInv'
<1>1. /\ timerScripts' = timerScripts \ {s}
      /\ timer' = [t \in Timer |->
                     IF timer[t].script = s /\ \E i \in TimerIds : timerPool[i] = t
                     THEN [timer[t] EXCEPT !.running = FALSE] ELSE timer[t]]
      /\ UNCHANGED <<timerList, orphans, timerPool, idx, cursor, fired, callback>>
  BY DEF T!UnloadScript
<1>2. /\ timer' \in [Timer -> TimerRecord]
      /\ \A u \in Timer :
           /\ timer'[u].id = timer[u].id /\ timer'[u].left = timer[u].left
           /\ timer'[u].script = timer[u].script
           /\ timer'[u].running =>
                /\ timer[u].running
                /\ timer[u].script # s \/ \A i \in TimerIds : timerPool[i] # u
  <2>1. timer \in [Timer -> TimerRecord]
    BY DEF TimerInv, TimerTypes
  <2>2. ASSUME NEW u \in Timer,
               timer[u].script = s /\ \E i \in TimerIds : timerPool[i] = u
        PROVE  /\ timer'[u] = [timer[u] EXCEPT !.running = FALSE]
               /\ timer'[u] \in TimerRecord /\ ~timer'[u].running
               /\ timer'[u].id = timer[u].id /\ timer'[u].left = timer[u].left
               /\ timer'[u].script = timer[u].script
    BY <1>1, <2>1, <2>2 DEF TimerRecord
  <2>3. ASSUME NEW u \in Timer,
               ~(timer[u].script = s /\ \E i \in TimerIds : timerPool[i] = u)
        PROVE  timer'[u] = timer[u]
    BY <1>1, <2>3
  <2>4. timer' = [u \in Timer |-> timer'[u]]
    BY <1>1
  <2> QED BY <2>1, <2>2, <2>3, <2>4
<1>3. TimersFired' /\ TimerCalls'
  BY <1>1, <1>2 DEF TimerInv, TimersFired, TimerCalls, Listed
<1>4. ASSUME Careful PROVE TimersOwned'
  <2> SUFFICES ASSUME NEW u \in Timer, Listed(u), timer'[u].running, timer'[u].id # 0
               PROVE  timer'[u].script \in timerScripts \ {s}
    BY <1>1 DEF TimersOwned, Listed
  <2>1. timer[u].id \in TimerIds /\ timerPool[timer[u].id] = u
        /\ (timer[u].running => timer[u].script \in timerScripts)
    BY <1>2, <1>4 DEF TimerInv, TimersSound, TimerIdsLead, TimersOwned, TimerTypes,
                      TimerRecord
  <2> QED BY <1>2, <2>1
<1> QED BY <1>1, <1>2, <1>3, <1>4, TimersGoOn DEF TimerInv, TimerTypes

LEMMA TimersTick == ASSUME TimerInv, T!Tick PROVE TimerInv'
<1>1. /\ cursor' = 1 /\ cursor = 0 /\ Len(timerList) \in Nat
      /\ UNCHANGED <<timerScripts, timerList, timer, orphans, timerPool, idx, fired, callback>>
  BY LenProperties DEF T!Tick, TimerInv, TimerTypes
<1>2. TimersFired' /\ TimerCalls' /\ (Careful => TimersOwned')
  BY <1>1 DEF TimerInv, TimersSound, TimersFired, TimersOwned, TimerCalls, Listed
<1> QED BY <1>1, <1>2, TimersGoOn DEF TimerInv, TimerTypes

LEMMA TimersVisit ==
  ASSUME TimerInv, NEW due \in BOOLEAN, T!Visit(due)
  PROVE  TimerInv'
<1> DEFINE t == timerList[cursor]
<1>1. /\ cursor \in 1 .. Len(timerList) /\ Len(timerList) \in Nat /\ t \in Timer
      /\ callback = None
      /\ UNCHANGED <<timerScripts, timerList, timer, orphans, timerPool, idx>>
  BY LenProperties, ElementOfSeq DEF T!Visit, TimerInv, TimerTypes
<1>2. CASE due
  <2>1. /\ callback' = t /\ cursor' = cursor
        /\ fired' = [fired EXCEPT ![t] = IF @ = 2 THEN 2 ELSE @ + 1]
    BY <1>2 DEF T!Visit
  <2> HIDE DEF t
  <2>2. fired' \in [Timer -> 0 .. 2] /\ \A u \in Timer \ {t} : fired'[u] = fired[u]
    BY <1>1, <2>1 DEF TimerInv, TimerTypes
  <2>3. fired[t] = 0 => fired'[t] = 1
    BY <1>1, <2>1 DEF TimerInv, TimerTypes
  <2>4. TimersFired' /\ TimerCalls' /\ (Careful => TimersOwned')
    BY <1>1, <2>1, <2>2, <2>3, TimersAssumption DEF TimerInv, TimersSound, TimersFired, TimersOwned, TimerCalls,
       Listed, t
  <2> QED BY <1>1, <2>1, <2>2, <2>4, TimersGoOn DEF TimerInv, TimerTypes
<1>3. CASE ~due
  <2>1. cursor' = cursor + 1 /\ callback' = callback /\ fired' = fired
    BY <1>3 DEF T!Visit
  <2>2. TimersFired' /\ TimerCalls' /\ (Careful => TimersOwned')
    BY <1>1, <2>1 DEF TimerInv, TimersSound, TimersFired, TimersOwned, TimerCalls, Listed
  <2> QED BY <1>1, <2>1, <2>2, TimersGoOn DEF TimerInv, TimerTypes
<1> QED BY <1>2, <1>3

LEMMA TimersVisitKilled == ASSUME TimerInv, T!VisitKilled PROVE TimerInv'
<1>1. cursor \in 1 .. Len(timerList)
  BY LenProperties DEF T!VisitKilled, TimerInv, TimerTypes
<1> QED BY <1>1, TimerDeleted DEF T!VisitKilled

LEMMA TimersTrigger == ASSUME TimerInv, T!Trigger PROVE TimerInv'
<1>1. /\ callback # None /\ callback' = None /\ UNCHANGED <<timerScripts, idx, fired>>
      /\ cursor \in 1 .. Len(timerList) /\ callback = timerList[cursor] /\ callback \in Timer
      /\ Len(timerList) \in Nat
  BY LenProperties DEF T!Trigger, TimerInv, TimerTypes, TimerCalls
<1>2. CASE timer[callback].running /\ timer[callback].left = 0
  <2>1. cursor' = cursor + 1 /\ UNCHANGED <<timerList, timer, orphans, timerPool>>
    BY <1>2 DEF T!Trigger
  <2>2. TimersFired' /\ TimerCalls' /\ (Careful => TimersOwned')
    BY <1>1, <1>2, <2>1, TimersAssumption DEF TimerInv, TimersSound, TimersFired, TimersOwned, TimerCalls, Listed
  <2> QED BY <1>1, <2>1, <2>2, TimersGoOn DEF TimerInv, TimerTypes
<1>3. CASE ~(timer[callback].running /\ timer[callback].left = 0)
  <2>1. T!Deleted(timerList[cursor])
    BY <1>1, <1>3 DEF T!Trigger
  <2> QED BY <1>1, <2>1, TimerDeleted
<1> QED BY <1>2, <1>3

LEMMA TimersTickEnds == ASSUME TimerInv, T!TickEnds PROVE TimerInv'
<1>1. /\ cursor > Len(timerList) /\ cursor' = 0 /\ Len(timerList) \in Nat
      /\ UNCHANGED <<timerScripts, timerList, timer, orphans, timerPool, idx, fired, callback>>
  BY LenProperties DEF T!TickEnds, TimerInv, TimerTypes
<1>2. TimersFired' /\ TimerCalls' /\ (Careful => TimersOwned')
  BY <1>1 DEF TimerInv, TimerTypes, TimersSound, TimersFired, TimersOwned, TimerCalls, Listed
<1> QED BY <1>1, <1>2, TimersGoOn DEF TimerInv, TimerTypes

LEMMA TimersImply ==
  ASSUME TimerInv
  PROVE  T!TypeOK /\ T!CalledOnce /\ (Careful => T!NoDangling /\ T!IdsExact)
<1>1. DOMAIN timerList = 1 .. Len(timerList)
  BY LenProperties DEF TimerInv, TimerTypes
<1>2. \A t : t \in T!Range(timerList) <=> Listed(t)
  BY <1>1 DEF T!Range, Listed
<1>3. \A t : Listed(t) => t \in Timer
  BY ElementOfSeq DEF TimerInv, TimerTypes, Listed
<1>4. T!TypeOK
  <2>1. T!IsInjective(timerList)
    BY <1>1 DEF TimerInv, TimersOnce, T!IsInjective
  <2>2. callback \in T!Range(timerList) \union {None}
    BY <1>2 DEF TimerInv, TimerCalls, Listed
  <2>3. TimerTypes
    BY DEF TimerInv
  <2>4. orphans \subseteq T!Range(timerList)
    BY <1>2, <2>3 DEF TimerTypes
  <2> QED BY <2>1, <2>2, <2>3, <2>4 DEF TimerTypes, TimerRecord, T!TypeOK
<1>5. T!CalledOnce
  BY <1>2, <1>3 DEF TimerInv, TimersFired, T!CalledOnce
<1>6. ASSUME Careful PROVE T!NoDangling /\ T!IdsExact
  <2>1. TimerIdsLead /\ TimersOwned /\ orphans = {}
    BY <1>6 DEF TimerInv, TimersSound
  <2>2. T!NoDangling
    BY <1>2, <1>3, <2>1 DEF TimersOwned, T!NoDangling
  <2>3. T!IdsExact
    BY <1>2, <1>3, <2>1 DEF TimerIdsLead, T!IdsExact
  <2> QED BY <2>2, <2>3
<1> QED BY <1>4, <1>5, <1>6

LEMMA TimersStep == ASSUME TimerInv, T!Next PROVE TimerInv'
  BY TimersSetTimer, TimersOverwritten, TimersKillTimer, TimersLoadScript, TimersUnloadScript,
     TimersTick, TimersVisit, TimersVisitKilled, TimersTrigger,
     TimersTickEnds
  DEF T!Next

-----------------------------------------------------------------------------
(* Gamemodes                                                                *)

GameTypes ==
    /\ presentModes \subseteq {"a", "b"}
    /\ mainName \in {"a", "b", None}
    /\ main \in BOOLEAN /\ reloading \in BOOLEAN /\ restartAt \in BOOLEAN
    /\ without \in BOOLEAN /\ regular \in BOOLEAN
    /\ sides \subseteq Sides
    /\ rotation \in [index : 1 .. 2, repeat : 0 .. 3]
    /\ pending \in {"a", "b", None}
    /\ phase \in {"start", "idle", "closing", "unloading", "opening"}
    /\ players \subseteq Players
    /\ runs \in 0 .. 3

\* A mode that is to come is asked for while one runs or after one was taken
\* away, and a restart waits only where none runs.
ModesFollow ==
    /\ phase = "start" => ~main /\ ~reloading /\ runs = 0
    /\ phase \in {"closing", "unloading", "opening"} => main
    /\ pending # None => ~reloading /\ phase # "start"
    /\ phase = "closing" => pending # None
    /\ restartAt => phase = "idle" /\ reloading /\ ~main /\ mainName # None
    /\ phase = "idle" /\ ~reloading => main \/ without
    /\ phase \in {"idle", "unloading"} /\ main => ~reloading
    /\ without => ~main

\* No load is asked for or on its way.
NoneIsDue == (main \/ (without /\ ~reloading)) /\ pending = None

\* The loads done and those left make up what the configuration asks for.
RunsCounted ==
    phase # "start" =>
      /\ rotation.repeat >= 1
      /\ regular => rotation.repeat + runs =
           Repeats[rotation.index] + (IF NoneIsDue THEN 1 ELSE 0)

ScriptTold ==
    /\ toldOf \subseteq players
    /\ phase \in {"start", "closing", "unloading"} => toldOf = {}
    /\ phase = "idle" => toldOf = IF main THEN players ELSE {}

GameInv == GameTypes /\ ModesFollow /\ RunsCounted /\ ScriptTold

\* The two modes and how often each is to run.
LEMMA TheModes ==
  /\ DOMAIN GameModes = 1 .. 2 /\ Len(GameModes) = 2
  /\ GameModes[1] = "a" /\ GameModes[2] = "b"
  /\ Repeats[1] = 2 /\ Repeats[2] = 1
  /\ G!Modes = {"a", "b"}
<1>1. /\ DOMAIN GameModes = 1 .. 2 /\ Len(GameModes) = 2
      /\ GameModes[1] = "a" /\ GameModes[2] = "b"
      /\ Repeats[1] = 2 /\ Repeats[2] = 1
  BY DEF GameModes, Repeats
<1>2. 1 .. 2 = {1, 2}
  OBVIOUS
<1>3. G!Modes = {GameModes[i] : i \in {1, 2}}
  BY <1>1, <1>2 DEF G!Modes
<1> QED BY <1>1, <1>3

\* The search for a mode with a file ends at one of the modes.
LEMMA AModeIsFound ==
  ASSUME NEW i \in 1 .. 2
  PROVE  G!FirstPresentAfter(i) \in 1 .. 2
<1> DEFINE Stops(j) == GameModes[j] \in presentModes \/ G!Following(j) = i
           Step(f) == [j \in DOMAIN GameModes |->
                         IF Stops(j) THEN j ELSE f[G!Following(j)]]
           g == [j \in DOMAIN GameModes |->
                   IF Stops(j) THEN j ELSE G!Following(j)]
           s == CHOOSE f : f = Step(f)
<1>1. /\ \A j \in 1 .. 2 : G!Following(j) \in 1 .. 2
      /\ \A j \in 1 .. 2 : G!Following(j) # i => G!Following(G!Following(j)) = i
  BY TheModes DEF G!Following
<1>2. g = Step(g)
  <2>1. \A j \in 1 .. 2 : ~Stops(j) => g[G!Following(j)] = G!Following(j)
    BY <1>1, TheModes
  <2> QED BY <2>1, TheModes
<1>3. s = Step(s)
  <2> HIDE DEF Step, g
  <2> QED BY <1>2
<1>4. G!FirstPresentAfter(i) = s[G!Following(i)]
  BY DEF G!FirstPresentAfter
<1> HIDE DEF s
<1>5. \A j \in 1 .. 2 : s[j] = IF Stops(j) THEN j ELSE s[G!Following(j)]
  BY <1>3, TheModes
<1>6. \A j \in 1 .. 2 : s[j] \in 1 .. 2
  BY <1>1, <1>5
<1> QED BY <1>1, <1>4, <1>6

LEMMA GameInit == ASSUME G!Init PROVE GameInv
<1>1. rotation \in [index : 1 .. 2, repeat : 0 .. 3]
  BY DEF G!Init
<1>2. GameTypes
  BY <1>1, TheModes DEF G!Init, GameTypes
<1>3. ModesFollow
  BY GamemodesAssumption DEF G!Init, ModesFollow
<1>4. RunsCounted /\ ScriptTold
  BY DEF G!Init, RunsCounted, NoneIsDue, ScriptTold
<1> QED BY <1>2, <1>3, <1>4 DEF GameInv

LEMMA GameStutter ==
  ASSUME GameInv, UNCHANGED <<players, gamemodesVars>>
  PROVE  GameInv'
  BY DEF gamemodesVars, GameInv, GameTypes, ModesFollow, RunsCounted, NoneIsDue,
         ScriptTold

LEMMA GameEndMainScript == ASSUME GameInv, G!EndMainScript PROVE GameInv'
<1> DEFINE here == rotation.index
           stays == /\ rotation.repeat > 1
                    /\ GameModes[here] \in presentModes \/ Len(GameModes) = 1
           there == IF stays THEN here ELSE G!FirstPresentAfter(here)
           found == GameModes[there] \in presentModes
<1>1. here \in 1 .. 2 /\ there \in 1 .. 2
  BY AModeIsFound DEF GameInv, GameTypes
<1>2. /\ ~reloading /\ phase # "start"
      /\ rotation' = IF stays THEN [rotation EXCEPT !.repeat = @ - 1]
                     ELSE [index |-> there, repeat |-> Repeats[there]]
      /\ pending' = IF found THEN GameModes[there] ELSE pending
      /\ runs' = IF stays THEN runs ELSE 0
      /\ regular' = IF pending # None \/ ~found THEN FALSE
                    ELSE IF stays THEN regular ELSE TRUE
      /\ UNCHANGED <<players, presentModes, mainName, main, sides, reloading,
                     restartAt, phase, toldOf, without>>
  BY DEF G!EndMainScript
<1>3. GameModes[there] \in {"a", "b"} /\ Repeats[there] \in 1 .. 2
  BY <1>1, TheModes
<1>4. stays => /\ rotation' \in [index : 1 .. 2, repeat : 0 .. 3]
               /\ rotation'.index = rotation.index
               /\ rotation'.repeat = rotation.repeat - 1 /\ rotation.repeat > 1
  BY <1>2 DEF GameInv, GameTypes
<1>5. ~stays => /\ rotation' \in [index : 1 .. 2, repeat : 0 .. 3]
                /\ rotation'.index = there
                /\ rotation'.repeat = Repeats[there]
  BY <1>1, <1>2, <1>3
<1> HIDE DEF here, there, stays, found
<1>6. (main \/ without) /\ ~reloading
  BY <1>2 DEF GameInv, GameTypes, ModesFollow
<1>7. GameTypes'
  <2>1. rotation' \in [index : 1 .. 2, repeat : 0 .. 3]
    BY <1>4, <1>5
  <2>2. runs' \in 0 .. 3 /\ pending' \in {"a", "b", None}
    BY <1>2, <1>3 DEF GameInv, GameTypes
  <2>3. regular' \in BOOLEAN
    <3>1. regular \in BOOLEAN
      BY DEF GameInv, GameTypes
    <3> QED BY <1>2, <3>1
  <2> QED BY <1>2, <2>1, <2>2, <2>3 DEF GameInv, GameTypes
<1>8. ModesFollow'
  BY <1>2, <1>3, <1>6, GamemodesAssumption DEF GameInv, GameTypes, ModesFollow
<1>9. RunsCounted'
  <2>1. rotation'.repeat >= 1
    BY <1>2, <1>3, <1>4, <1>5 DEF GameInv, GameTypes, RunsCounted, NoneIsDue
  <2>2. ASSUME regular'
        PROVE  rotation'.repeat + runs' = Repeats[rotation'.index]
    <3>1. pending = None
      BY <1>2, <2>2
    <3>2. CASE stays
      <4>1. /\ regular /\ runs' = runs
            /\ rotation.repeat + runs = Repeats[rotation.index] + 1
        BY <1>2, <1>6, <2>2, <3>1, <3>2 DEF GameInv, RunsCounted, NoneIsDue
      <4>2. Repeats[rotation.index] \in Nat /\ rotation.repeat \in Nat /\ runs \in Nat
        BY TheModes DEF GameInv, GameTypes
      <4> QED BY <1>4, <3>2, <4>1, <4>2
    <3>3. CASE ~stays
      BY <1>2, <1>3, <1>5, <3>3
    <3> QED BY <3>2, <3>3
  <2>3. regular' => pending' # None
    BY <1>2, <1>3, GamemodesAssumption
  <2>4. Repeats[rotation'.index] \in Nat
    BY <1>7, TheModes DEF GameTypes
  <2> QED BY <2>1, <2>2, <2>3, <2>4 DEF RunsCounted, NoneIsDue
<1>10. ScriptTold'
  BY <1>2 DEF GameInv, ScriptTold
<1> QED BY <1>7, <1>8, <1>9, <1>10 DEF GameInv

LEMMA GameChangemode ==
  ASSUME GameInv, NEW m \in G!Modes, G!Changemode(m)
  PROVE  GameInv'
<1>1. /\ ~reloading /\ phase # "start" /\ pending' = m /\ m \in {"a", "b"}
      /\ rotation' = [rotation EXCEPT !.repeat = 1] /\ regular' = FALSE
      /\ UNCHANGED <<players, presentModes, mainName, main, sides, reloading,
                     restartAt, phase, toldOf, runs, without>>
  BY TheModes DEF G!Changemode
<1>2. rotation' \in [index : 1 .. 2, repeat : 0 .. 3] /\ rotation'.repeat = 1
  BY <1>1 DEF GameInv, GameTypes
<1>3. RunsCounted' /\ ScriptTold'
  BY <1>1, <1>2 DEF GameInv, RunsCounted, NoneIsDue, ScriptTold
<1>5. GameTypes'
  BY <1>1, <1>2 DEF GameInv, GameTypes
<1>4. ModesFollow'
  BY <1>1, GamemodesAssumption DEF GameInv, GameTypes, ModesFollow
<1> QED BY <1>3, <1>4, <1>5 DEF GameInv

LEMMA GameFileChanges ==
  ASSUME GameInv, NEW m \in G!Modes, G!FileChanges(m)
  PROVE  GameInv'
  BY TheModes, GamemodesAssumption
  DEF G!FileChanges, GameInv, GameTypes, ModesFollow, RunsCounted, NoneIsDue, ScriptTold

\* A load that succeeds is one run more, and one that fails leaves all as it is.
LEMMA MainLoaded ==
  ASSUME GameInv, NEW m \in {"a", "b"}, G!LoadMain(m), ~main, pending = None,
         phase \in {"start", "idle"}, phase = "idle" => restartAt,
         UNCHANGED <<players, presentModes, sides, reloading, toldOf, regular>>,
         rotation' = IF phase = "start"
                     THEN [index |-> 1, repeat |-> Repeats[1]] ELSE rotation,
         phase = "start" => m \in presentModes, restartAt' = FALSE
  PROVE  GameInv'
<1>0. rotation' \in [index : 1 .. 2, repeat : 0 .. 3]
  BY TheModes DEF GameInv, GameTypes
<1>1. CASE m \in presentModes
  <2>1. /\ mainName' = m /\ main' = TRUE /\ pending' = None /\ phase' = "opening"
        /\ runs' = IF runs = 3 THEN runs ELSE runs + 1
        /\ without' = FALSE /\ NoneIsDue'
    BY <1>1 DEF G!LoadMain, MaxRuns, NoneIsDue
  <2>0. GameTypes'
    <3>1. runs' \in 0 .. 3
      BY <2>1 DEF GameInv, GameTypes
    <3> QED BY <1>0, <2>1, <3>1 DEF GameInv, GameTypes
  <2>2. ModesFollow' /\ ScriptTold'
    BY <2>1 DEF GameInv, ModesFollow, ScriptTold
  <2>3. RunsCounted'
    <3>1. CASE phase = "start"
      <4>1. runs' = 1 /\ rotation'.repeat = 2 /\ rotation'.index = 1
        BY <2>1, <3>1, TheModes DEF GameInv, ModesFollow
      <4> QED BY <2>1, <4>1, TheModes DEF RunsCounted, NoneIsDue
    <3>2. CASE phase = "idle"
      <4>1. rotation' = rotation /\ rotation.repeat >= 1
        BY <3>2 DEF GameInv, RunsCounted, NoneIsDue
      <4>2. ASSUME regular
            PROVE  rotation.repeat + runs' = Repeats[rotation.index] + 1
        <5>0. ~NoneIsDue
          BY <3>2 DEF GameInv, ModesFollow, NoneIsDue
        <5>1. rotation.repeat + runs = Repeats[rotation.index]
          BY <3>2, <4>2, <5>0, TheModes DEF GameInv, GameTypes, RunsCounted, NoneIsDue
        <5>2. /\ Repeats[rotation.index] \in 1 .. 2 /\ rotation.repeat \in 1 .. 3
              /\ runs \in 0 .. 3
          BY <4>1, TheModes DEF GameInv, GameTypes
        <5> QED BY <2>1, <5>1, <5>2
      <4> QED BY <2>1, <4>1, <4>2 DEF RunsCounted, NoneIsDue
    <3> QED BY <3>1, <3>2
  <2> QED BY <2>0, <2>2, <2>3 DEF GameInv
<1>2. CASE m \notin presentModes
  <2>1. phase = "idle" /\ UNCHANGED <<mainName, main, pending, phase, runs, rotation, without>>
    BY <1>2 DEF G!LoadMain
  <2>2. GameTypes' /\ ScriptTold' /\ RunsCounted'
    BY <2>1 DEF GameInv, GameTypes, RunsCounted, NoneIsDue, ScriptTold
  <2>3. ModesFollow'
    BY <2>1 DEF GameInv, GameTypes, ModesFollow
  <2> QED BY <2>2, <2>3 DEF GameInv
<1> QED BY <1>1, <1>2

LEMMA GameStart == ASSUME GameInv, G!Start PROVE GameInv'
<1>1. ~main /\ pending = None /\ restartAt = FALSE /\ restartAt' = FALSE
  BY DEF G!Start, GameInv, GameTypes, ModesFollow
<1> QED BY <1>1, TheModes, MainLoaded DEF G!Start

LEMMA GameTickUnload == ASSUME GameInv, G!TickUnload PROVE GameInv'
  BY TheModes, GamemodesAssumption
  DEF G!TickUnload, GameInv, GameTypes, ModesFollow, RunsCounted, NoneIsDue, ScriptTold

LEMMA GameStartFails == ASSUME GameInv, G!StartFails PROVE GameInv'
<1>1. /\ phase = "start" /\ phase' = "idle" /\ without' = TRUE /\ regular' = FALSE
      /\ rotation' = [index |-> 1, repeat |-> 2]
      /\ UNCHANGED <<players, presentModes, mainName, main, sides, pending, reloading,
                     restartAt, toldOf, runs>>
  BY TheModes DEF G!StartFails
<1>2. GameTypes'
  <2>1. rotation' \in [index : 1 .. 2, repeat : 0 .. 3]
    BY <1>1
  <2> QED BY <1>1, <2>1 DEF GameInv, GameTypes
<1>4. ModesFollow'
  BY <1>1 DEF GameInv, ModesFollow
<1>5. RunsCounted'
  BY <1>1 DEF RunsCounted, NoneIsDue
<1>3. ScriptTold'
  BY <1>1 DEF GameInv, ModesFollow, ScriptTold
<1> QED BY <1>2, <1>3, <1>4, <1>5 DEF GameInv

\* In the pause there is no mode, and the script that went was told of nobody
\* any more.
LEMMA GamePause ==
  ASSUME GameInv, G!Pause, pending # None, toldOf = {}
  PROVE  GameInv'
<1>1. /\ main' = FALSE /\ mainName' = pending /\ pending' = None
      /\ restartAt' = TRUE /\ reloading' = TRUE /\ phase' = "idle"
      /\ UNCHANGED <<players, presentModes, sides, rotation, toldOf, runs, without, regular>>
  BY DEF G!Pause
<1>2. GameTypes' /\ ModesFollow' /\ ScriptTold'
  BY <1>1 DEF GameInv, GameTypes, ModesFollow, ScriptTold
<1>3. RunsCounted'
  BY <1>1 DEF GameInv, ModesFollow, RunsCounted, NoneIsDue
<1> QED BY <1>2, <1>3 DEF GameInv

LEMMA GameUnloaded == ASSUME GameInv, G!Unloaded PROVE GameInv'
<1>1. pending # None /\ toldOf = {}
  BY DEF G!Unloaded, GameInv, ModesFollow, ScriptTold
<1> QED BY <1>1, GamePause DEF G!Unloaded

LEMMA GameTickWithout == ASSUME GameInv, G!TickWithout PROVE GameInv'
<1>1. pending # None /\ toldOf = {}
  BY DEF G!TickWithout, GameInv, ScriptTold
<1> QED BY <1>1, GamePause DEF G!TickWithout

LEMMA GameUnloadMain == ASSUME GameInv, G!UnloadMain PROVE GameInv'
  BY TheModes, GamemodesAssumption
  DEF G!UnloadMain, GameInv, GameTypes, ModesFollow, RunsCounted, NoneIsDue, ScriptTold

LEMMA GameMainUnloaded == ASSUME GameInv, G!MainUnloaded PROVE GameInv'
<1>1. /\ phase = "unloading" /\ main' = FALSE /\ mainName' = None /\ without' = TRUE
      /\ phase' = "idle"
      /\ UNCHANGED <<players, presentModes, sides, rotation, pending, reloading,
                     restartAt, toldOf, runs, regular>>
  BY DEF G!MainUnloaded
<1>2. main /\ ~reloading
  BY <1>1 DEF GameInv, ModesFollow
<1>3. GameTypes' /\ ModesFollow' /\ ScriptTold'
  BY <1>1, <1>2 DEF GameInv, GameTypes, ModesFollow, ScriptTold
<1>4. RunsCounted'
  BY <1>1, <1>2 DEF GameInv, RunsCounted, NoneIsDue
<1> QED BY <1>3, <1>4 DEF GameInv

LEMMA GameTickLoad == ASSUME GameInv, G!TickLoad PROVE GameInv'
<1>1. ~main /\ pending = None /\ mainName \in {"a", "b"}
  BY DEF G!TickLoad, GameInv, GameTypes, ModesFollow
<1>2. /\ phase = "idle" /\ restartAt /\ G!LoadMain(mainName) /\ restartAt' = FALSE
      /\ UNCHANGED <<players, presentModes, sides, rotation, reloading, toldOf, regular>>
  BY DEF G!TickLoad
<1>3. rotation' = IF phase = "start" THEN [index |-> 1, repeat |-> Repeats[1]] ELSE rotation
  BY <1>2
<1>4. phase \in {"start", "idle"} /\ (phase = "idle" => restartAt) /\ phase # "start"
  BY <1>2
<1> QED BY <1>1, <1>2, <1>3, <1>4, MainLoaded

LEMMA GameLoaded == ASSUME GameInv, G!Loaded PROVE GameInv'
  BY TheModes, GamemodesAssumption
  DEF G!Loaded, GameInv, GameTypes, ModesFollow, RunsCounted, NoneIsDue, ScriptTold

LEMMA GameLoadSide ==
  ASSUME GameInv, NEW s \in Sides, G!LoadSide(s)
  PROVE  GameInv'
  BY TheModes, GamemodesAssumption
  DEF G!LoadSide, GameInv, GameTypes, ModesFollow, RunsCounted, NoneIsDue, ScriptTold

LEMMA GameUnloadSide ==
  ASSUME GameInv, NEW s \in Sides, G!UnloadSide(s)
  PROVE  GameInv'
  BY TheModes, GamemodesAssumption
  DEF G!UnloadSide, GameInv, GameTypes, ModesFollow, RunsCounted, NoneIsDue, ScriptTold

LEMMA GameConnect ==
  ASSUME GameInv, NEW p \in Players, G!Connect(p)
  PROVE  GameInv'
  BY TheModes, GamemodesAssumption
  DEF G!Connect, GameInv, GameTypes, ModesFollow, RunsCounted, NoneIsDue, ScriptTold

LEMMA GameDisconnect ==
  ASSUME GameInv, NEW p \in Players, G!Disconnect(p)
  PROVE  GameInv'
  BY TheModes, GamemodesAssumption
  DEF G!Disconnect, GameInv, GameTypes, ModesFollow, RunsCounted, NoneIsDue, ScriptTold

LEMMA GamesImply ==
  ASSUME GameInv
  PROVE  G!TypeOK /\ G!ToldExact /\ G!ModeComes /\ G!RunsExact
<1>1. G!TypeOK
  BY TheModes DEF GameInv, GameTypes, ScriptTold, G!TypeOK, MaxRuns
<1>2. G!ToldExact /\ G!ModeComes
  BY DEF GameInv, ScriptTold, ModesFollow, G!ToldExact, G!ModeComes
<1>3. G!RunsExact
  BY TheModes DEF GameInv, GameTypes, ModesFollow, RunsCounted, NoneIsDue, G!RunsExact
<1> QED BY <1>1, <1>2, <1>3

LEMMA GameStep == ASSUME GameInv, G!Next PROVE GameInv'
  BY GameEndMainScript, GameChangemode, GameFileChanges, GameStart, GameStartFails,
     GameTickUnload, GameUnloaded, GameTickWithout, GameUnloadMain, GameMainUnloaded,
     GameTickLoad, GameLoaded, GameLoadSide,
     GameUnloadSide, GameConnect, GameDisconnect
  DEF G!Next

-----------------------------------------------------------------------------
(* Options                                                                  *)

\* An option as it is kept.
OptionTypes == O!Types \union {"none"}
OptionSetters == {"nobody", "default", "json", "command", "legacy", "console", "script"}
AnOption == [type : OptionTypes, by : OptionSetters, value : O!Values]

OptionStages == {"file", "commandLine", "components", "configure", "commandLine2",
                 "configured", "running", "stopped"}

OptionShape ==
    /\ optionKey \in Options
    /\ started \in OptionStages
    /\ option \in AnOption /\ networkCopy \in AnOption
    /\ commanded \in O!Texts \union {O!NoText}
    /\ pointerHeld \in BOOLEAN

\* The bounds that the number of players is brought within are all that the
\* command line is read over.
OptionClamped ==
    started = "commandLine2" /\ optionKey = "max_players" => option.value = "on"

\* No pointer is taken before the options are read.
OptionUnheld == started = "file" => ~pointerHeld

OptionInv ==
    /\ OptionShape
    /\ OptionClamped
    /\ OptionUnheld
    /\ O!Precedence
    /\ O!NetworkCurrent
    /\ pointerHeld => option.type # "none"
    /\ Careful => O!Typed

\* An option is of one of the four types, if it has a default.
LEMMA OptionsApart ==
  /\ O!IntOptions \intersect (O!FloatOptions \union O!TextOptions \union O!Switches) = {}
  /\ O!FloatOptions \intersect (O!TextOptions \union O!Switches) = {}
  /\ O!TextOptions \intersect O!Switches = {}
<1>1. O!IntOptions \intersect O!FloatOptions = {}
  BY DEF O!IntOptions, O!FloatOptions
<1>2. O!IntOptions \intersect O!TextOptions = {}
  BY DEF O!IntOptions, O!TextOptions
<1>3. O!IntOptions \intersect O!Switches = {}
  BY DEF O!IntOptions, O!Switches
<1>4. O!FloatOptions \intersect O!TextOptions = {}
  BY DEF O!FloatOptions, O!TextOptions
<1>5. O!FloatOptions \intersect O!Switches = {}
  BY DEF O!FloatOptions, O!Switches
<1>6. O!TextOptions \intersect O!Switches = {}
  BY DEF O!TextOptions, O!Switches
<1> QED BY <1>1, <1>2, <1>3, <1>4, <1>5, <1>6

LEMMA DefaultTypes ==
  ASSUME NEW k
  PROVE  /\ k \in O!IntOptions   => O!DefaultType(k) = "int"
         /\ k \in O!FloatOptions => O!DefaultType(k) = "float"
         /\ k \in O!Switches     => O!DefaultType(k) = "bool"
         /\ k \in O!TextOptions  => O!DefaultType(k) = "string"
         /\ k \notin UNION {O!IntOptions, O!FloatOptions, O!TextOptions, O!Switches}
              => O!DefaultType(k) = "none"
         /\ O!DefaultType(k) \in OptionTypes
  BY OptionsApart DEF O!DefaultType, OptionTypes, O!Types

\* What a line of a legacy file sets is of the type that the option has, and the
\* options that have no default are not among those that have.
LEMMA LegacyAgrees ==
  ASSUME NEW k
  PROVE  /\ O!LegacyType(k) \in OptionTypes
         /\ O!DefaultType(k) # "none" => O!LegacyType(k) \in {"none", O!DefaultType(k)}
<1> DEFINE I == \E l \in DOMAIN O!LegacyInts   : O!LegacyInts[l] = k
           F2 == \E l \in DOMAIN O!LegacyFloats : O!LegacyFloats[l] = k
           B2 == \E l \in DOMAIN O!LegacyBools  : O!LegacyBools[l] = k
           T2 == \E l \in DOMAIN O!LegacyTexts  : O!LegacyTexts[l] = k
           C2 == \E c \in O!LegacyCustom : c[2] = k
<1>1. I => k \in O!IntOptions
  <2>1. \A l \in DOMAIN O!LegacyInts : O!LegacyInts[l] \in O!IntOptions
    BY DEF O!LegacyInts, O!IntOptions
  <2> QED BY <2>1
<1>2. F2 => k \in O!FloatOptions
  <2>1. \A l \in DOMAIN O!LegacyFloats : O!LegacyFloats[l] \in O!FloatOptions
    BY DEF O!LegacyFloats, O!FloatOptions
  <2> QED BY <2>1
<1>3. B2 => k \in O!Switches \union {"artwork.enable"}
  <2>1. \A l \in DOMAIN O!LegacyBools : O!LegacyBools[l] \in O!Switches \union {"artwork.enable"}
    BY DEF O!LegacyBools, O!Switches
  <2> QED BY <2>1
<1>4. T2 => k \in O!TextOptions \union {"artwork.models_path"}
  <2>1. \A l \in DOMAIN O!LegacyTexts :
            O!LegacyTexts[l] \in O!TextOptions \union {"artwork.models_path"}
    BY DEF O!LegacyTexts, O!TextOptions
  <2> QED BY <2>1
<1>5. C2 => /\ k \in {"pawn.main_scripts", "pawn.side_scripts", "password",
                      "logging.log_chat", "logging.log_deaths"}
            /\ (CHOOSE c \in O!LegacyCustom : c[2] = k)[3] =
                 CASE k \in {"pawn.main_scripts", "pawn.side_scripts"} -> "strings"
                   [] k = "password" -> "string"
                   [] k \in {"logging.log_chat", "logging.log_deaths"} -> "bool"
  <2>1. /\ \A c \in O!LegacyCustom :
             c[2] \in {"pawn.main_scripts", "pawn.side_scripts", "password",
                       "logging.log_chat", "logging.log_deaths"}
        /\ \A c \in O!LegacyCustom :
             /\ c[2] \in {"pawn.main_scripts", "pawn.side_scripts"} => c[3] = "strings"
             /\ c[2] = "password" => c[3] = "string"
             /\ c[2] \in {"logging.log_chat", "logging.log_deaths"} => c[3] = "bool"
    BY DEF O!LegacyCustom
  <2>2. C2 => /\ (CHOOSE c \in O!LegacyCustom : c[2] = k) \in O!LegacyCustom
              /\ (CHOOSE c \in O!LegacyCustom : c[2] = k)[2] = k
    OBVIOUS
  <2> QED BY <2>1, <2>2
<1>6. /\ "password" \in O!TextOptions
      /\ {"logging.log_chat", "logging.log_deaths"} \subseteq O!Switches
  BY DEF O!TextOptions, O!Switches
<1>7. \A x \in {"artwork.enable", "artwork.models_path", "pawn.main_scripts", "pawn.side_scripts"} :
        x \notin UNION {O!IntOptions, O!FloatOptions, O!TextOptions, O!Switches}
  <2>1. \A x \in {"artwork.enable", "artwork.models_path", "pawn.main_scripts", "pawn.side_scripts"} :
          x \notin O!IntOptions /\ x \notin O!FloatOptions
    BY DEF O!IntOptions, O!FloatOptions
  <2>2. \A x \in {"artwork.enable", "artwork.models_path", "pawn.main_scripts", "pawn.side_scripts"} :
          x \notin O!TextOptions /\ x \notin O!Switches
    BY DEF O!TextOptions, O!Switches
  <2> QED BY <2>1, <2>2
<1>8. O!LegacyType(k) =
        CASE I -> "int" [] F2 -> "float" [] B2 -> "bool" [] T2 -> "string"
          [] C2 -> (CHOOSE c \in O!LegacyCustom : c[2] = k)[3]
          [] OTHER -> "none"
  BY DEF O!LegacyType
<1> HIDE DEF I, F2, B2, T2, C2
<1>9. /\ I => O!DefaultType(k) = "int"
      /\ F2 => O!DefaultType(k) = "float"
      /\ B2 => O!DefaultType(k) \in {"none", "bool"}
      /\ T2 => O!DefaultType(k) \in {"none", "string"}
      /\ C2 => O!DefaultType(k) \in {"none", (CHOOSE c \in O!LegacyCustom : c[2] = k)[3]}
      /\ C2 => (CHOOSE c \in O!LegacyCustom : c[2] = k)[3] \in {"strings", "string", "bool"}
  BY <1>1, <1>2, <1>3, <1>4, <1>5, <1>6, <1>7, DefaultTypes
<1> QED BY <1>8, <1>9 DEF OptionTypes, O!Types

\* The tables of legacy names agree with those of the defaults.
LEMMA TablesDoAgree == O!TablesAgree
<1>1. ASSUME NEW k \in UNION {O!IntOptions, O!FloatOptions, O!TextOptions, O!Switches}
      PROVE  O!LegacyType(k) \in {"none", O!DefaultType(k)}
  BY LegacyAgrees, DefaultTypes
<1> QED BY <1>1 DEF O!TablesAgree

\* What an option is after something was written for it.
LEMMA OptionGiven ==
  ASSUME NEW type \in OptionTypes, NEW by \in OptionSetters, NEW text \in O!Texts \union {O!NoText}
  PROVE  /\ O!Given(type, by, text) \in AnOption
         /\ O!Given(type, by, text).type = type
         /\ O!Given(type, by, text).by = by
         /\ O!Given(type, by, text).value = text.value
  BY DEF O!Given, AnOption, O!Texts, O!NoText, O!Values

LEMMA OptionDefault ==
  O!Default \in AnOption /\ O!Default.type = O!DefaultType(optionKey)
<1>1. O!DefaultType(optionKey) \in OptionTypes
  BY DefaultTypes
<1>2. CASE O!DefaultType(optionKey) = "none"
  BY <1>2 DEF O!Default, O!NoOption, AnOption, OptionTypes, OptionSetters, O!Values
<1>3. CASE O!DefaultType(optionKey) # "none"
  <2> DEFINE v == IF optionKey \in O!OffByDefault THEN "off" ELSE "on"
  <2>1. O!Default = [type |-> O!DefaultType(optionKey), by |-> "default", value |-> v]
    BY <1>3 DEF O!Default
  <2>2. v \in O!Values /\ "default" \in OptionSetters
    BY DEF O!Values, OptionSetters
  <2> HIDE DEF v
  <2> QED BY <1>1, <2>1, <2>2 DEF AnOption
<1> QED BY <1>2, <1>3

\* What is set from a text keeps its type; if the text reads as one, who set it
\* is kept as well.
LEMMA OptionFromString ==
  ASSUME option \in AnOption, NEW text \in O!Texts, NEW by \in OptionSetters
  PROVE  /\ O!FromString(text, by) \in AnOption
         /\ O!FromString(text, by).type = option.type
         /\ O!FromString(text, by) = option \/ O!FromString(text, by).by = by
         /\ option.type # "none" /\ text.form \in O!Reads[option.type]
              => O!FromString(text, by).by = by
<1>1. "strings" \in OptionTypes /\ option.type \in OptionTypes
  BY DEF OptionTypes, O!Types, AnOption
<1>2. /\ O!Given(option.type, by, text) \in AnOption
      /\ O!Given(option.type, by, text).type = option.type
      /\ O!Given(option.type, by, text).by = by
  BY <1>1, OptionGiven
<1>3. /\ O!Given("strings", by, O!NoText) \in AnOption
      /\ O!Given("strings", by, O!NoText).type = "strings"
      /\ O!Given("strings", by, O!NoText).by = by
  BY <1>1, OptionGiven
<1> QED BY <1>2, <1>3 DEF O!FromString

LEMMA OptionsInit == ASSUME O!Init PROVE OptionInv
<1>1. O!NoOption \in AnOption /\ O!NoText \in O!Texts \union {O!NoText}
  BY DEF O!NoOption, AnOption, OptionTypes, OptionSetters, O!Values
<1> QED BY <1>1
  DEF O!Init, OptionInv, OptionShape, OptionStages, OptionClamped, OptionUnheld,
      O!Precedence, O!NetworkCurrent, O!Typed

LEMMA OptionsStutter ==
  ASSUME OptionInv, UNCHANGED <<players, optionsVars>>
  PROVE  OptionInv'
<1>1. OptionShape' /\ OptionClamped' /\ OptionUnheld' /\ (pointerHeld' => option'.type # "none")
  BY DEF optionsVars, OptionInv, OptionShape, OptionClamped, OptionUnheld
<1>2. O!Precedence' /\ O!NetworkCurrent' /\ (Careful => O!Typed')
  BY DEF optionsVars, OptionInv, O!Precedence, O!NetworkCurrent, O!Typed
<1> QED BY <1>1, <1>2 DEF OptionInv

\* A new value keeps what is said of the type of the option.
LEMMA OptionKeeps ==
  ASSUME OptionInv, UNCHANGED <<optionKey, pointerHeld>>,
         option'.type = option.type, started # "file"
  PROVE  /\ pointerHeld' => option'.type # "none"
         /\ Careful => O!Typed'
  BY DEF OptionInv, O!Typed

LEMMA OptionsRead == ASSUME OptionInv, O!ReadConfig PROVE OptionInv'
<1>1. /\ started = "file" /\ started' = "commandLine" /\ optionKey' = optionKey
      /\ commanded' = commanded /\ pointerHeld' = pointerHeld /\ networkCopy' = networkCopy
  BY DEF O!ReadConfig
<1>2. /\ option' \in AnOption
      /\ O!DefaultType(optionKey) # "none" => option'.type = O!DefaultType(optionKey)
  <2>1. CASE option' = O!Default
    BY <2>1, OptionDefault
  <2>2. "json" \in OptionSetters
    BY DEF OptionSetters
  <2>3. ASSUME NEW text \in O!Texts, NEW type \in OptionTypes,
               O!DefaultType(optionKey) \in {"none", type},
               option' = O!Given(type, "json", text)
        PROVE  /\ option' \in AnOption
               /\ O!DefaultType(optionKey) # "none" => option'.type = O!DefaultType(optionKey)
    BY <2>2, <2>3, OptionGiven
  <2>4. ASSUME NEW text \in O!Texts,
               option' = O!Given(O!DefaultType(optionKey), "json", text)
        PROVE  /\ option' \in AnOption
               /\ O!DefaultType(optionKey) # "none" => option'.type = O!DefaultType(optionKey)
    BY <2>2, <2>4, OptionGiven, DefaultTypes
  <2>5. ASSUME NEW text \in O!Texts
        PROVE  O!PlainType[text.form] \in OptionTypes /\ "string" \in OptionTypes
    BY DEF O!PlainType, O!Texts, O!Forms, OptionTypes, O!Types
  <2> QED BY <2>1, <2>3, <2>4, <2>5 DEF O!ReadConfig
<1>3. ~pointerHeld
  BY <1>1 DEF OptionInv, OptionUnheld
<1> QED BY <1>1, <1>2, <1>3
  DEF OptionInv, OptionShape, OptionStages, OptionClamped, OptionUnheld, O!Precedence,
      O!NetworkCurrent, O!Typed

\* Steps of the server's start that leave the option as it is.
LEMMA OptionsGoOn ==
  ASSUME OptionInv, O!WriteDefault \/ O!Configure \/ O!WriteCurrent \/ O!Stop
  PROVE  OptionInv'
<1>1. /\ UNCHANGED <<optionKey, option, commanded, pointerHeld, networkCopy>>
      /\ started \notin {"file", "commandLine2"} /\ started' \in {"stopped", "configure"}
  BY DEF O!WriteDefault, O!Configure, O!WriteCurrent, O!Stop
<1>2. OptionShape' /\ OptionClamped' /\ OptionUnheld' /\ O!Precedence' /\ O!NetworkCurrent'
  BY <1>1
  DEF OptionInv, OptionShape, OptionStages, OptionClamped, OptionUnheld, O!Precedence,
      O!NetworkCurrent
<1>3. (pointerHeld' => option'.type # "none") /\ (Careful => O!Typed')
  BY <1>1, OptionKeeps
<1> QED BY <1>2, <1>3 DEF OptionInv

LEMMA OptionsCommand == ASSUME OptionInv, O!CommandLine PROVE OptionInv'
<1>1. /\ started = "commandLine" /\ started' = "components"
      /\ UNCHANGED <<optionKey, pointerHeld, networkCopy>> /\ option \in AnOption
  BY DEF O!CommandLine, OptionInv, OptionShape
<1>2. /\ option' \in AnOption /\ option'.type = option.type
      /\ commanded' \in O!Texts \union {O!NoText}
  <2>1. "command" \in OptionSetters
    BY DEF OptionSetters
  <2>2. CASE UNCHANGED <<option, commanded>>
    BY <1>1, <2>2 DEF OptionInv, OptionShape
  <2>3. ASSUME NEW text \in O!Texts, commanded' = text,
               option' = O!FromString(text, "command")
        PROVE  /\ option' \in AnOption /\ option'.type = option.type
               /\ commanded' \in O!Texts \union {O!NoText}
    BY <1>1, <2>1, <2>3, OptionFromString
  <2> QED BY <2>2, <2>3 DEF O!CommandLine
<1>3. (pointerHeld' => option'.type # "none") /\ (Careful => O!Typed')
  BY <1>1, <1>2, OptionKeeps
<1>4. OptionShape' /\ OptionClamped' /\ OptionUnheld' /\ O!Precedence' /\ O!NetworkCurrent'
  BY <1>1, <1>2
  DEF OptionInv, OptionShape, OptionStages, OptionClamped, OptionUnheld, O!Precedence,
      O!NetworkCurrent
<1> QED BY <1>3, <1>4 DEF OptionInv

\* What a legacy file makes of an option, and of what type it is then.
LEMMA OptionLegacy ==
  ASSUME OptionInv, started # "file", NEW text \in O!Texts,
         O!LegacyLine(text) \/ O!ForeignLine(text)
  PROVE  /\ option' \in AnOption
         /\ option.type # "none" => option'.type # "none"
         /\ Careful /\ O!DefaultType(optionKey) # "none"
              => option'.type = O!DefaultType(optionKey)
<1>1. "legacy" \in OptionSetters /\ option \in AnOption
  BY DEF OptionSetters, OptionInv, OptionShape
<1>2. CASE O!LegacyLine(text)
  <2>1. /\ O!LegacyType(optionKey) # "none" /\ O!LegacyType(optionKey) \in OptionTypes
        /\ O!DefaultType(optionKey) # "none"
             => O!LegacyType(optionKey) = O!DefaultType(optionKey)
    BY <1>2, LegacyAgrees DEF O!LegacyLine
  <2>2. option' = option \/ option' = O!Given(O!LegacyType(optionKey), "legacy", text)
    BY <1>2 DEF O!LegacyLine
  <2>3. /\ O!Given(O!LegacyType(optionKey), "legacy", text) \in AnOption
        /\ O!Given(O!LegacyType(optionKey), "legacy", text).type = O!LegacyType(optionKey)
    BY <1>1, <2>1, OptionGiven
  <2> QED BY <1>1, <2>1, <2>2, <2>3 DEF OptionInv, O!Typed
<1>3. CASE O!ForeignLine(text)
  <2>1. O!GuessedType[text.form] \in OptionTypes /\ O!GuessedType[text.form] # "none"
    BY DEF O!GuessedType, O!PlainType, O!Texts, O!Forms, OptionTypes, O!Types
  <2>2. ~Careful /\ option' = O!Given(O!GuessedType[text.form], "legacy", text)
    BY <1>3 DEF O!ForeignLine
  <2> QED BY <1>1, <2>1, <2>2, OptionGiven
<1> QED BY <1>2, <1>3

LEMMA OptionsLegacyFile == ASSUME OptionInv, O!LegacyFile PROVE OptionInv'
<1>1. /\ started = "configure"
      /\ UNCHANGED <<optionKey, started, commanded, pointerHeld, networkCopy>>
  BY DEF O!LegacyFile
<1>2. /\ option' \in AnOption
      /\ option.type # "none" => option'.type # "none"
      /\ Careful /\ O!DefaultType(optionKey) # "none"
           => option'.type = O!DefaultType(optionKey)
  BY <1>1, OptionLegacy DEF O!LegacyFile
<1> QED BY <1>1, <1>2
  DEF OptionInv, OptionShape, OptionStages, OptionClamped, OptionUnheld, O!Precedence,
      O!NetworkCurrent, O!Typed

LEMMA OptionsClamp == ASSUME OptionInv, O!Clamp PROVE OptionInv'
<1>1. /\ started = "configure" /\ started' = "commandLine2" /\ option \in AnOption
      /\ UNCHANGED <<optionKey, commanded, pointerHeld, networkCopy>>
  BY DEF O!Clamp, OptionInv, OptionShape
<1>2. /\ option' \in AnOption /\ option'.type = option.type
      /\ optionKey = "max_players" => option'.value = "on"
  BY <1>1 DEF O!Clamp, AnOption, O!Values
<1>3. (pointerHeld' => option'.type # "none") /\ (Careful => O!Typed')
  BY <1>1, <1>2, OptionKeeps
<1>4. OptionShape' /\ OptionClamped' /\ OptionUnheld' /\ O!Precedence' /\ O!NetworkCurrent'
  BY <1>1, <1>2
  DEF OptionInv, OptionShape, OptionStages, OptionClamped, OptionUnheld, O!Precedence,
      O!NetworkCurrent
<1> QED BY <1>3, <1>4 DEF OptionInv

LEMMA OptionsCommandAgain == ASSUME OptionInv, O!CommandLineAgain PROVE OptionInv'
<1>1. /\ started = "commandLine2" /\ started' = "configured" /\ option \in AnOption
      /\ UNCHANGED <<optionKey, commanded, pointerHeld, networkCopy>>
      /\ commanded \in O!Texts \union {O!NoText}
      /\ optionKey = "max_players" => option.value = "on"
  BY DEF O!CommandLineAgain, OptionInv, OptionShape, OptionClamped
<1>2. /\ option' \in AnOption /\ option'.type = option.type
      /\ optionKey = "max_players" /\ option'.value = "off" => option'.by = "command"
      /\ option'.type # "none" /\ commanded.form \in O!Reads[option'.type]
           => option'.by = "command"
  <2>1. "command" \in OptionSetters
    BY DEF OptionSetters
  <2>2. CASE commanded = O!NoText
    <3>1. option' = option
      BY <2>2 DEF O!CommandLineAgain
    <3>2. option.type \in O!Types \union {"none"}
      BY <1>1 DEF AnOption, OptionTypes
    <3>3. option.type # "none" => "none" \notin O!Reads[option.type]
      BY <3>2 DEF O!Types, O!Reads, O!Forms
    <3> QED BY <1>1, <2>2, <3>1, <3>3 DEF O!NoText
  <2>3. CASE commanded # O!NoText
    <3>1. commanded \in O!Texts /\ option' = O!FromString(commanded, "command")
      BY <1>1, <2>3 DEF O!CommandLineAgain
    <3> QED BY <1>1, <2>1, <3>1, OptionFromString
  <2> QED BY <2>2, <2>3
<1>3. (pointerHeld' => option'.type # "none") /\ (Careful => O!Typed')
  BY <1>1, <1>2, OptionKeeps
<1>4. O!Precedence'
  BY <1>1, <1>2 DEF O!Precedence
<1>5. OptionShape' /\ OptionClamped' /\ OptionUnheld' /\ O!NetworkCurrent'
  BY <1>1, <1>2
  DEF OptionInv, OptionShape, OptionStages, OptionClamped, OptionUnheld, O!NetworkCurrent
<1> QED BY <1>3, <1>4, <1>5 DEF OptionInv

LEMMA OptionsScript == ASSUME OptionInv, O!AddScript PROVE OptionInv'
<1>1. /\ started = "configured" /\ optionKey = "pawn.main_scripts"
      /\ UNCHANGED <<optionKey, started, commanded, pointerHeld, networkCopy>>
      /\ option' = O!Given("strings", "command", [form |-> "list", value |-> "on"])
  BY DEF O!AddScript
<1>2. /\ option' \in AnOption /\ option'.type = "strings" /\ option'.by = "command"
  <2>1. /\ "command" \in OptionSetters /\ "strings" \in OptionTypes
        /\ [form |-> "list", value |-> "on"] \in O!Texts
    BY DEF OptionSetters, OptionTypes, O!Types, O!Texts, O!Forms, O!Values
  <2> QED BY <1>1, <2>1, OptionGiven
<1>3. O!DefaultType(optionKey) = "none"
  <2>1. /\ optionKey \notin O!IntOptions /\ optionKey \notin O!FloatOptions
        /\ optionKey \notin O!TextOptions /\ optionKey \notin O!Switches
    BY <1>1 DEF O!IntOptions, O!FloatOptions, O!TextOptions, O!Switches
  <2> QED BY <2>1, DefaultTypes
<1> QED BY <1>1, <1>2, <1>3
  DEF OptionInv, OptionShape, OptionStages, OptionClamped, OptionUnheld, O!Precedence,
      O!NetworkCurrent, O!Typed

\* What the network has of an option that it reads is the option, if it is not
\* one that it leaves as it was.
LEMMA OptionCopied ==
  ASSUME NEW o \in AnOption, networkCopy \in AnOption
  PROVE  /\ O!Copied(o) \in AnOption
         /\ optionKey \in O!Updated /\ ~(optionKey \in O!Blankable /\ o.value = "off")
              => O!Copied(o) = o
  BY DEF O!Copied

LEMMA OptionsHold == ASSUME OptionInv, O!Hold PROVE OptionInv'
<1>1. /\ started = "configured" /\ started' = "running"
      /\ UNCHANGED <<optionKey, option, commanded>> /\ option \in AnOption
      /\ networkCopy' = O!Copied(option) /\ networkCopy \in AnOption
      /\ pointerHeld' = (option.type # "none")
  BY DEF O!Hold, OptionInv, OptionShape
<1>2. /\ networkCopy' \in AnOption
      /\ optionKey \in O!Updated /\ ~(optionKey \in O!Blankable /\ option.value = "off")
           => networkCopy' = option
  BY <1>1, OptionCopied
<1>3. (pointerHeld' \in BOOLEAN) /\ (pointerHeld' => option'.type # "none")
  BY <1>1, Zenon
<1>4. Careful => O!Typed'
  BY <1>1, <1>3 DEF OptionInv, O!Typed
<1>5. OptionShape' /\ OptionClamped' /\ OptionUnheld' /\ O!Precedence' /\ O!NetworkCurrent'
  BY <1>1, <1>2, <1>3
  DEF OptionInv, OptionShape, OptionStages, OptionClamped, OptionUnheld, O!Precedence,
      O!NetworkCurrent
<1> QED BY <1>3, <1>4, <1>5 DEF OptionInv

\* What changes while the server runs, the network gets.
LEMMA OptionsRunning ==
  ASSUME OptionInv, started = "running",
         UNCHANGED <<optionKey, started, commanded, pointerHeld>>,
         networkCopy' = O!Copied(option'), option' \in AnOption,
         option.type # "none" => option'.type # "none",
         Careful /\ O!DefaultType(optionKey) # "none"
           => option'.type = O!DefaultType(optionKey)
  PROVE  OptionInv'
<1>1. networkCopy \in AnOption
  BY DEF OptionInv, OptionShape
<1>2. /\ networkCopy' \in AnOption
      /\ optionKey \in O!Updated /\ ~(optionKey \in O!Blankable /\ option'.value = "off")
           => networkCopy' = option'
  BY <1>1, OptionCopied
<1> QED BY <1>2
  DEF OptionInv, OptionShape, OptionStages, OptionClamped, OptionUnheld, O!Precedence,
      O!NetworkCurrent, O!Typed

LEMMA OptionsConsole == ASSUME OptionInv, O!ConsoleConfig PROVE OptionInv'
<1>1. PICK text \in O!Texts : O!Running(O!FromString(text, "console"))
  BY DEF O!ConsoleConfig
<1>2. /\ started = "running" /\ UNCHANGED <<optionKey, started, commanded, pointerHeld>>
      /\ option' = O!FromString(text, "console") /\ networkCopy' = O!Copied(option')
      /\ option \in AnOption /\ "console" \in OptionSetters
  BY <1>1 DEF O!Running, OptionInv, OptionShape, OptionSetters
<1>3. option' \in AnOption /\ option'.type = option.type
  BY <1>2, OptionFromString
<1>4. Careful /\ O!DefaultType(optionKey) # "none"
        => option'.type = O!DefaultType(optionKey)
  BY <1>2, <1>3 DEF OptionInv, O!Typed
<1> QED BY <1>2, <1>3, <1>4, OptionsRunning

LEMMA OptionsExec == ASSUME OptionInv, O!Exec PROVE OptionInv'
<1>1. PICK text \in O!Texts : O!LegacyLine(text) \/ O!ForeignLine(text)
  BY DEF O!Exec
<1>2. /\ started = "running" /\ UNCHANGED <<optionKey, started, commanded, pointerHeld>>
      /\ networkCopy' = O!Copied(option')
  BY DEF O!Exec
<1> QED BY <1>1, <1>2, OptionLegacy, OptionsRunning

LEMMA OptionsData == ASSUME OptionInv, O!SetData PROVE OptionInv'
<1>1. PICK v \in O!Values :
        O!Running([type |-> "string", by |-> "script", value |-> v])
  BY DEF O!SetData
<1>2. /\ started = "running" /\ UNCHANGED <<optionKey, started, commanded, pointerHeld>>
      /\ option' = [type |-> "string", by |-> "script", value |-> v]
      /\ networkCopy' = O!Copied(option') /\ optionKey \in O!SetByData
  BY <1>1 DEF O!Running, O!SetData
<1>3. option' \in AnOption /\ option'.type = "string"
  BY <1>2 DEF AnOption, OptionTypes, O!Types, OptionSetters
<1>4. O!DefaultType(optionKey) = "string"
  <2>1. optionKey \in O!TextOptions
    BY <1>2 DEF O!SetByData, O!TextOptions
  <2> QED BY <2>1, DefaultTypes
<1> QED BY <1>2, <1>3, <1>4, OptionsRunning

\* Everything that is said of the options follows.
LEMMA OptionsImply ==
  ASSUME OptionInv
  PROVE  /\ O!TypeOK /\ O!TablesAgree /\ O!Precedence /\ O!NetworkCurrent
         /\ Careful => O!Typed
<1>1. O!TypeOK
  BY DEF OptionInv, OptionShape, OptionStages, AnOption, OptionTypes, O!TypeOK
<1> QED BY <1>1, TablesDoAgree DEF OptionInv

LEMMA OptionsStep == ASSUME OptionInv, O!Next PROVE OptionInv'
  BY OptionsRead, OptionsGoOn, OptionsCommand, OptionsLegacyFile, OptionsClamp,
     OptionsCommandAgain, OptionsScript, OptionsHold, OptionsConsole, OptionsExec,
     OptionsData
  DEF O!Next

-----------------------------------------------------------------------------
(* The run: one component at a time                                         *)

\* The inductive invariant: the one of the component that the behaviour is of.
Inv ==
    /\ component = "dialogs" => DialogInv
    /\ component = "checkpoints" => CheckpointInv
    /\ component = "spawning" => SpawnInv
    /\ component = "timers" => TimerInv
    /\ component = "gamemodes" => GameInv
    /\ component = "console" => ConsoleInv
    /\ component = "http" => HttpInv
    /\ component = "models" => ModelInv
    /\ component = "databases" => DatabaseInv
    /\ component = "npcs" /\ Careful => NpcInv
    /\ component = "moves" /\ Careful => MoveInv
    /\ component = "playback" => PlaybackInv
    /\ component = "sync" => SyncInv
    /\ component = "looks" => LookInv
    /\ component = "fixes" => FixInv
    /\ component = "reports" => ReportInv
    /\ component = "bans" => BanInv
    /\ component = "life" => LifeInv
    /\ component = "attributes" => AttributeInv
    /\ component = "weapons" => WeaponInv
    /\ component = "options" => OptionInv

LEMMA InitInv == Init => Inv
  BY DialogsInit, CheckpointsInit, SpawningInit, TimersInit, GameInit,
     ConsoleInit, HttpInit, ModelsInit, DatabasesInit, NpcsInit, MovesInit,
     PlaybackInit, SyncInit, LooksInit, FixesInit, ReportsInit, BansInit,
     LifeInit, AttributesInit, WeaponsInit, OptionsInit
  DEF Init, Inv

LEMMA NextInv == Inv /\ [Next]_vars => Inv'
<1> SUFFICES ASSUME Inv, [Next]_vars PROVE Inv'
  OBVIOUS
<1>1. CASE UNCHANGED vars
  <2>1. component' = component
    BY <1>1 DEF vars
  <2>2. /\ UNCHANGED <<players, dialogsVars>>
        /\ UNCHANGED <<players, checkpointsVars>>
        /\ UNCHANGED <<players, spawningVars>>
        /\ UNCHANGED <<players, timersVars>>
        /\ UNCHANGED <<players, gamemodesVars>>
        /\ UNCHANGED <<players, consoleVars>>
        /\ UNCHANGED <<players, httpVars>>
        /\ UNCHANGED <<players, modelsVars>>
        /\ UNCHANGED <<players, databasesVars>>
        /\ UNCHANGED <<players, npcsVars>>
        /\ UNCHANGED <<players, movesVars>>
        /\ UNCHANGED <<players, playbackVars>>
        /\ UNCHANGED <<players, syncVars>>
        /\ UNCHANGED <<players, looksVars>>
        /\ UNCHANGED <<players, fixesVars>>
        /\ UNCHANGED <<players, reportsVars>>
        /\ UNCHANGED <<players, bansVars>>
        /\ UNCHANGED <<players, lifeVars>>
        /\ UNCHANGED <<players, attributesVars>>
        /\ UNCHANGED <<players, weaponsVars>>
        /\ UNCHANGED <<players, optionsVars>>
    BY <1>1 DEF vars
  <2> QED BY <2>1, <2>2, DialogsStutter, CheckpointsStutter, SpawningStutter,
             TimersStutter, GameStutter, ConsoleStutter, HttpStutter,
             ModelsStutter, DatabasesStutter, NpcsStutter, MovesStutter,
             PlaybackStutter, SyncStutter, LooksStutter, FixesStutter,
             ReportsStutter, BansStutter, LifeStutter, AttributesStutter,
             WeaponsStutter, OptionsStutter
          DEF Inv
<1>2. CASE Only("dialogs") /\ D!Next
  <2>1. component = "dialogs" /\ component' = component
    BY <1>2 DEF Only
  <2> QED BY <1>2, <2>1, DialogsStep DEF Inv
<1>3. CASE Only("checkpoints") /\ K!Next
  <2>1. component = "checkpoints" /\ component' = component
    BY <1>3 DEF Only
  <2> QED BY <1>3, <2>1, CheckpointsStep DEF Inv
<1>4. CASE Only("spawning") /\ S!Next
  <2>1. component = "spawning" /\ component' = component
    BY <1>4 DEF Only
  <2> QED BY <1>4, <2>1, SpawningStep DEF Inv
<1>5. CASE Only("timers") /\ T!Next
  <2>1. component = "timers" /\ component' = component
    BY <1>5 DEF Only
  <2> QED BY <1>5, <2>1, TimersStep DEF Inv
<1>6. CASE Only("gamemodes") /\ G!Next
  <2>1. component = "gamemodes" /\ component' = component
    BY <1>6 DEF Only
  <2> QED BY <1>6, <2>1, GameStep DEF Inv
<1>7. CASE Only("console") /\ C!Next
  <2>1. component = "console" /\ component' = component
    BY <1>7 DEF Only
  <2> QED BY <1>7, <2>1, ConsoleStep DEF Inv
<1>8. CASE Only("http") /\ H!Next
  <2>1. component = "http" /\ component' = component
    BY <1>8 DEF Only
  <2> QED BY <1>8, <2>1, HttpStep DEF Inv
<1>9. CASE Only("models") /\ M!Next
  <2>1. component = "models" /\ component' = component
    BY <1>9 DEF Only
  <2> QED BY <1>9, <2>1, ModelsStep DEF Inv
<1>10. CASE Only("databases") /\ B!Next
  <2>1. component = "databases" /\ component' = component
    BY <1>10 DEF Only
  <2> QED BY <1>10, <2>1, DatabasesStep DEF Inv
<1>11. CASE Only("npcs") /\ N!Next
  <2>1. component = "npcs" /\ component' = component
    BY <1>11 DEF Only
  <2> QED BY <1>11, <2>1, NpcsStep DEF Inv
<1>12. CASE Only("moves") /\ V!Next
  <2>1. component = "moves" /\ component' = component
    BY <1>12 DEF Only
  <2> QED BY <1>12, <2>1, MovesStep DEF Inv
<1>13. CASE Only("playback") /\ R!Next
  <2>1. component = "playback" /\ component' = component
    BY <1>13 DEF Only
  <2> QED BY <1>13, <2>1, PlaybackStep DEF Inv
<1>14. CASE Only("sync") /\ Y!Next
  <2>1. component = "sync" /\ component' = component
    BY <1>14 DEF Only
  <2> QED BY <1>14, <2>1, SyncStep DEF Inv
<1>15. CASE Only("looks") /\ L!Next
  <2>1. component = "looks" /\ component' = component
    BY <1>15 DEF Only
  <2> QED BY <1>15, <2>1, LooksStep DEF Inv
<1>16. CASE Only("fixes") /\ A!Next
  <2>1. component = "fixes" /\ component' = component
    BY <1>16 DEF Only
  <2> QED BY <1>16, <2>1, FixesStep DEF Inv
<1>17. CASE Only("reports") /\ Q!Next
  <2>1. component = "reports" /\ component' = component
    BY <1>17 DEF Only
  <2> QED BY <1>17, <2>1, ReportsStep DEF Inv
<1>18. CASE Only("bans") /\ F!Next
  <2>1. component = "bans" /\ component' = component
    BY <1>18 DEF Only
  <2> QED BY <1>18, <2>1, BansStep DEF Inv
<1>19. CASE Only("life") /\ E!Next
  <2>1. component = "life" /\ component' = component
    BY <1>19 DEF Only
  <2> QED BY <1>19, <2>1, LifeStep DEF Inv
<1>20. CASE Only("attributes") /\ P!Next
  <2>1. component = "attributes" /\ component' = component
    BY <1>20 DEF Only
  <2> QED BY <1>20, <2>1, AttributesStep DEF Inv
<1>21. CASE Only("weapons") /\ W!Next
  <2>1. component = "weapons" /\ component' = component
    BY <1>21 DEF Only
  <2> QED BY <1>21, <2>1, WeaponsStep DEF Inv
<1>22. CASE Only("options") /\ O!Next
  <2>1. component = "options" /\ component' = component
    BY <1>22 DEF Only
  <2> QED BY <1>22, <2>1, OptionsStep DEF Inv
<1>23. CASE component' = component
            /\ component \notin {"dialogs", "checkpoints", "spawning", "timers",
                 "gamemodes", "console", "http", "models", "databases",
                 "npcs", "moves", "playback", "sync", "looks", "fixes",
                 "reports", "bans", "life", "attributes", "weapons",
                 "options"}
  BY <1>23 DEF Inv
<1> QED BY <1>1, <1>2, <1>3, <1>4, <1>5, <1>6, <1>7, <1>8, <1>9, <1>10,
           <1>11, <1>12, <1>13, <1>14, <1>15, <1>16, <1>17, <1>18, <1>19,
           <1>20, <1>21, <1>22, <1>23
        DEF Next, Only

\* The invariant of the component that a behaviour is of holds in all of its
\* states: the one that the theorems below rest on.
THEOREM ServicesInvariant == Spec => []Inv
<1> QED BY InitInv, NextInv, PTL DEF Spec

\* Whatever scripts do, every component is well typed but the pool of NPCs and
\* their moves, and the formats of the net, whose fields are counted by recursion.
THEOREM ServicesTypedAnyhow ==
  Spec => [](component \notin {"npcs", "moves", "netcode"} => TypeOK)
<1>1. Inv => (component \notin {"npcs", "moves", "netcode"} => TypeOK)
  BY DialogImply, CheckpointsImply, SpawningImply, TimersImply, GamesImply,
     ConsoleImply, HttpImply, ModelsImply, DatabasesImply, PlaybackImply,
     SyncImply, LooksImply, FixesImply, ReportsImply, BansImply, LifeImply,
     AttributesImply, WeaponsImply, OptionsImply
  DEF Inv, TypeOK
<1> QED BY <1>1, ServicesInvariant, PTL

\* With scripts that leave an NPC alone while it is being released, those two
\* are as well.
THEOREM ServicesTyped ==
  Careful /\ Spec => [](component # "netcode" => TypeOK)
<1>1. CASE Careful
  <2>1. Inv => (component # "netcode" => TypeOK)
    BY <1>1, DialogImply, CheckpointsImply, SpawningImply, TimersImply,
       GamesImply, ConsoleImply, HttpImply, ModelsImply, DatabasesImply,
       NpcsImply, MovesImply, PlaybackImply, SyncImply, LooksImply,
       FixesImply, ReportsImply, BansImply, LifeImply, AttributesImply,
       WeaponsImply, OptionsImply
    DEF Inv, TypeOK
  <2> QED BY <2>1, ServicesInvariant, PTL
<1>2. CASE ~Careful
  BY <1>2
<1> QED BY <1>1, <1>2

\* A client shows the dialog, the checkpoints, the class, the models and the
\* attributes that the server has for it, whatever scripts do in the callbacks
\* of those.
THEOREM ViewsFollowAnyhow ==
  Spec => [](component \notin {"looks", "fixes"} => ViewExact)
<1>1. Inv => (component \notin {"looks", "fixes"} => ViewExact)
  BY DialogImply, CheckpointsImply, SpawningImply, ModelsImply,
     AttributesImply
  DEF Inv, ViewExact
<1> QED BY <1>1, ServicesInvariant, PTL

\* With careful scripts so it is of what players look like, of the animations
\* that are applied again, of game texts, and of the money of the dead.
THEOREM ViewsFollow == Careful /\ Spec => []ViewExact
<1>1. CASE Careful
  <2>1. Inv => ViewExact
    BY <1>1, DialogImply, CheckpointsImply, SpawningImply, ModelsImply,
       LooksImply, FixesImply, AttributesImply
    DEF Inv, ViewExact
  <2> QED BY <2>1, ServicesInvariant, PTL
<1>2. CASE ~Careful
  BY <1>2
<1> QED BY <1>1, <1>2

\* No request, result set or component is kept after its release, whatever
\* scripts do.
THEOREM NothingDanglesAnyhow ==
  Spec =>
      [](component \notin {"timers", "npcs", "moves", "playback", "sync", "looks",
                          "fixes", "reports"}
           => NoDangling)
<1>1. Inv => (component \notin {"timers", "npcs", "moves", "playback", "sync",
                                "looks", "fixes", "reports"}
                    => NoDangling)
  BY HttpImply, DatabasesImply, LifeImply
  DEF Inv, NoDangling
<1> QED BY <1>1, ServicesInvariant, PTL

\* Nothing is kept of an object that is gone, in any component, with careful
\* scripts: no timer's id, NPC, path, node or record, no vehicle of a packet, no
\* target of a shot, no text draw and no viewer.
THEOREM NothingDangles ==
  Careful /\ Spec => []NoDangling
<1>1. CASE Careful
  <2>1. Inv => NoDangling
    BY <1>1, TimersImply, HttpImply, DatabasesImply, NpcsImply, MovesImply,
       PlaybackImply, SyncImply, LooksImply, FixesImply, ReportsImply,
       LifeImply
    DEF Inv, NoDangling
  <2> QED BY <2>1, ServicesInvariant, PTL
<1>2. CASE ~Careful
  BY <1>2
<1> QED BY <1>1, <1>2

\* Answers, lines and relays come as often as they were asked for, and the
\* callback of a timer too, modes run as long as they are to and one comes unless
\* the console took it away or its file is gone, and components start and stop in
\* step, whatever scripts do.
THEOREM DoneAsAskedAnyhow ==
  Spec =>
      [](/\ component = "timers" => T!CalledOnce
         /\ component \notin {"timers", "moves", "playback", "weapons", "netcode",
                            "options", "bans"}
              => AsAsked)
<1>1. Inv => /\ component = "timers" => T!CalledOnce
             /\ component \notin {"timers", "moves", "playback", "weapons", "netcode",
                                "options", "bans"}
                  => AsAsked
  BY DialogImply, CheckpointsImply, SpawningImply, TimersImply, GamesImply,
     ConsoleImply, HttpImply, ModelsImply, SyncImply, ReportsImply, LifeImply
  DEF Inv, AsAsked
<1> QED BY <1>1, ServicesInvariant, PTL

\* With careful scripts an NPC moves where the last call sent it, a playback
\* ends once, bans are kept until they are lifted, no client has weapons where it
\* may have none or loses any where it may, and an option keeps its type and has
\* the value that the last word on it gave.
THEOREM DoneAsAsked ==
  Careful /\ Spec => [](component # "netcode" => AsAsked)
<1>1. CASE Careful
  <2>1. Inv => (component # "netcode" => AsAsked)
    BY <1>1, DialogImply, CheckpointsImply, SpawningImply, TimersImply,
       GamesImply, ConsoleImply, HttpImply, ModelsImply, MovesImply,
       PlaybackImply, SyncImply, ReportsImply, BansImply, LifeImply,
       WeaponsImply, OptionsImply
    DEF Inv, AsAsked
  <2> QED BY <2>1, ServicesInvariant, PTL
<1>2. CASE ~Careful
  BY <1>2
<1> QED BY <1>1, <1>2
=============================================================================
