---------------------------- MODULE PawnManager ----------------------------
(***************************************************************************)
(* The gamemode rotation: requests for another mode, from the console and  *)
(* from scripts, that the next tick acts upon; the pause without a mode;   *)
(* the load that ends it.  Beside it the side scripts, and what the main   *)
(* script is told of players:                                              *)
(* src/Server/Components/Pawn/Manager/Manager.cpp.                         *)
(***************************************************************************)
EXTENDS Integers, Sequences

CONSTANTS
    Players,    \* players that may be connected
    GameModes,  \* gamemodes_: the names of the modes, in order
    Repeats,    \* repeats_: how often each is to run
    Sides,      \* names of side scripts, none of them a mode's
    MaxRuns,    \* loads of one mode that are counted (a bound)
    None

Modes == {GameModes[i] : i \in DOMAIN GameModes}

VARIABLES
    present,    \* the modes whose files can be loaded
    mainName,   \* mainName_
    main,       \* mainScript_ is there
    sides,      \* scripts_
    rotation,   \* gamemodeIndex_ and gamemodeRepeat_
    pending,    \* unloadNextTick_ with nextScriptName_, or None
    reloading,  \* reloading_
    restart,    \* nextRestart_ is set
    phase,      \* callbacks that run: of closeAMX in a tick or for the
                \* console, of openAMX, or none
    players,    \* players connected
    told,       \* players the main script believes connected
    runs,       \* loads of the mode at the index since the index moved
    without,    \* the main script was unloaded by the console, or the first
                \* mode could not be loaded, and none came since
    regular     \* only regular requests since then: each found the mode that
                \* ran loadable, and none came while another was pending

own == <<present, mainName, main, sides, rotation, pending, reloading,
         restart, phase, told, runs, without, regular>>
vars == <<players, own>>

Init ==
    /\ present = Modes
    /\ mainName = None
    /\ main = FALSE
    /\ sides = {}
    /\ rotation = [index |-> 1, repeat |-> 0]
    /\ pending = None
    /\ reloading = FALSE
    /\ restart = FALSE
    /\ phase = "start"
    /\ players = {}
    /\ told = {}
    /\ runs = 0
    /\ without = FALSE
    /\ regular = TRUE

-----------------------------------------------------------------------------
(* Requests                                                                 *)

Following(i) == IF i = Len(GameModes) THEN 1 ELSE i + 1

\* The first place after i whose file is there, or the last one before i:
\* i itself is tried only when it is the only one.
FirstPresentAfter(i) ==
    LET step[j \in DOMAIN GameModes] ==
          IF GameModes[j] \in present \/ Following(j) = i THEN j
          ELSE step[Following(j)]
    IN  step[Following(i)]

\* EndMainScript (gmx, GameModeExit): one run less of this mode; when none is
\* left, or its file is gone, the next mode of the list that has a file.
EndMainScript ==
    LET here  == rotation.index
        stays == /\ rotation.repeat > 1
                 /\ GameModes[here] \in present \/ Len(GameModes) = 1
        there == IF stays THEN here ELSE FirstPresentAfter(here)
        found == GameModes[there] \in present
    IN  /\ ~reloading
        /\ phase # "start"
        /\ rotation' = IF stays THEN [rotation EXCEPT !.repeat = @ - 1]
                       ELSE [index |-> there, repeat |-> Repeats[there]]
        /\ pending' = IF found THEN GameModes[there] ELSE pending
        /\ runs' = IF stays THEN runs ELSE 0
        /\ regular' = IF pending # None \/ ~found THEN FALSE
                      ELSE IF stays THEN regular ELSE TRUE
        /\ UNCHANGED <<players, present, mainName, main, sides, reloading,
                       restart, phase, told, without>>

\* The console's changemode: that mode once, and then the rotation goes on.
Changemode(name) ==
    /\ ~reloading
    /\ phase # "start"
    /\ name \in present
    /\ pending' = name
    /\ rotation' = [rotation EXCEPT !.repeat = 1]
    /\ regular' = FALSE
    /\ UNCHANGED <<players, present, mainName, main, sides, reloading, restart,
                   phase, told, runs, without>>

FileChanges(name) ==
    /\ present' = IF name \in present THEN present \ {name}
                  ELSE present \union {name}
    /\ UNCHANGED <<players, mainName, main, sides, rotation, pending, reloading,
                   restart, phase, told, runs, without, regular>>

-----------------------------------------------------------------------------
(* The server's start, and ticks                                            *)

\* Load of the entry script, up to its OnGameModeInit.  A script that cannot
\* be loaded leaves everything as it is.
LoadMain(name) ==
    IF name \in present
    THEN /\ mainName' = name
         /\ main' = TRUE
         /\ pending' = None
         /\ phase' = "opening"
         /\ runs' = IF runs = MaxRuns THEN runs ELSE runs + 1
         /\ without' = FALSE
    ELSE UNCHANGED <<mainName, main, pending, phase, runs, without>>

Start ==
    /\ phase = "start"
    /\ GameModes[1] \in present
    /\ rotation' = [index |-> 1, repeat |-> Repeats[1]]
    /\ LoadMain(GameModes[1])
    /\ UNCHANGED <<players, present, sides, reloading, restart, told, regular>>

\* The server goes on without a mode.
StartFails ==
    /\ phase = "start"
    /\ GameModes[1] \notin present
    /\ rotation' = [index |-> 1, repeat |-> Repeats[1]]
    /\ phase' = "idle"
    /\ without' = TRUE
    /\ regular' = FALSE
    /\ UNCHANGED <<players, present, mainName, main, sides, pending, reloading,
                   restart, told, runs>>

\* The tick unloads the mode: the callbacks of closeAMX, that tell the script
\* of a disconnect of everyone, run first.
TickUnload ==
    /\ phase = "idle"
    /\ pending # None
    /\ main
    /\ phase' = "closing"
    /\ told' = {}
    /\ UNCHANGED <<players, present, mainName, main, sides, rotation, pending,
                   reloading, restart, runs, without, regular>>

\* The pause before the next mode begins.
Pause ==
    /\ main' = FALSE
    /\ mainName' = pending
    /\ pending' = None
    /\ restart' = TRUE
    /\ reloading' = TRUE
    /\ phase' = "idle"
    /\ UNCHANGED <<players, present, sides, rotation, told, runs, without, regular>>

Unloaded == phase = "closing" /\ Pause

\* There is no mode to unload.
TickWithout ==
    /\ phase = "idle"
    /\ pending # None
    /\ ~main
    /\ Pause

\* The console's unloadscript of the main script: the callbacks run, the script
\* goes, and nothing is asked to take its place.
UnloadMain ==
    /\ phase = "idle"
    /\ main
    /\ phase' = "unloading"
    /\ told' = {}
    /\ UNCHANGED <<players, present, mainName, main, sides, rotation, pending,
                   reloading, restart, runs, without, regular>>

MainUnloaded ==
    /\ phase = "unloading"
    /\ main' = FALSE
    /\ mainName' = None
    /\ without' = TRUE
    /\ phase' = "idle"
    /\ UNCHANGED <<players, present, sides, rotation, pending, reloading,
                   restart, told, runs, regular>>

TickLoad ==
    /\ phase = "idle"
    /\ restart
    /\ LoadMain(mainName)
    /\ restart' = FALSE
    /\ UNCHANGED <<players, present, sides, rotation, reloading, told, regular>>

\* OnGameModeInit has returned; the players are told of as if they joined.
Loaded ==
    /\ phase = "opening"
    /\ reloading' = FALSE
    /\ told' = players
    /\ phase' = "idle"
    /\ UNCHANGED <<players, present, mainName, main, sides, rotation, pending,
                   restart, runs, without, regular>>

-----------------------------------------------------------------------------
(* Side scripts and players                                                 *)

LoadSide(s) ==
    /\ phase = "idle"
    /\ s \notin sides
    /\ sides' = sides \union {s}
    /\ UNCHANGED <<players, present, mainName, main, rotation, pending,
                   reloading, restart, phase, told, runs, without, regular>>

UnloadSide(s) ==
    /\ phase = "idle"
    /\ s \in sides
    /\ sides' = sides \ {s}
    /\ UNCHANGED <<players, present, mainName, main, rotation, pending,
                   reloading, restart, phase, told, runs, without, regular>>

Connect(p) ==
    /\ phase = "idle"
    /\ p \notin players
    /\ players' = players \union {p}
    /\ told' = IF main THEN told \union {p} ELSE told
    /\ UNCHANGED <<present, mainName, main, sides, rotation, pending, reloading,
                   restart, phase, runs, without, regular>>

Disconnect(p) ==
    /\ phase = "idle"
    /\ p \in players
    /\ players' = players \ {p}
    /\ told' = told \ {p}
    /\ UNCHANGED <<present, mainName, main, sides, rotation, pending, reloading,
                   restart, phase, runs, without, regular>>

Next ==
    \/ EndMainScript \/ Start \/ StartFails
    \/ TickUnload \/ Unloaded \/ TickWithout \/ TickLoad \/ Loaded
    \/ UnloadMain \/ MainUnloaded
    \/ \E name \in Modes : Changemode(name) \/ FileChanges(name)
    \/ \E s \in Sides : LoadSide(s) \/ UnloadSide(s)
    \/ \E p \in Players : Connect(p) \/ Disconnect(p)

Spec == Init /\ [][Next]_vars

-----------------------------------------------------------------------------
(* Properties                                                               *)

TypeOK ==
    /\ present \subseteq Modes
    /\ mainName \in Modes \union {None}
    /\ main \in BOOLEAN
    /\ sides \subseteq Sides
    /\ rotation \in [index : DOMAIN GameModes, repeat : 0 .. MaxRuns]
    /\ pending \in Modes \union {None}
    /\ {reloading, restart, without, regular} \subseteq BOOLEAN
    /\ phase \in {"start", "idle", "closing", "unloading", "opening"}
    /\ players \subseteq Players
    /\ told \subseteq players
    /\ runs \in 0 .. MaxRuns

\* The script that runs believes connected exactly the players that are.
ToldExact == phase = "idle" => told = IF main THEN players ELSE {}

\* There is a mode, or a restart that will bring it, or the mode that was to
\* come could not be loaded, or the console took the mode away.
ModeComes ==
    /\ phase \in {"closing", "unloading", "opening"} => main
    /\ phase = "idle" /\ restart => reloading /\ ~main
    /\ phase = "idle" /\ ~reloading => main \/ without
    /\ without => ~main

\* A mode runs as often in a row as the configuration asks, as long as the
\* requests are regular: a second one before the tick counts again.
RunsExact ==
    /\ regular /\ main /\ pending = None /\ phase = "idle" =>
         rotation.repeat + runs = Repeats[rotation.index] + 1
    /\ regular /\ phase = "idle" => runs <= Repeats[rotation.index]
=============================================================================
