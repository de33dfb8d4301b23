---------------------------- MODULE ConsoleInput ----------------------------
(***************************************************************************)
(* The console's lines: read by a thread of their own, left in one         *)
(* variable under a mutex with a flag beside it, and taken by the tick.    *)
(* src/Server/Components/Console/console_impl.hpp, with the players that   *)
(* logged in to give commands too.                                         *)
(***************************************************************************)
EXTENDS Integers, Sequences, Functions

CONSTANTS
    Players,   \* players that may be connected
    MaxLines,  \* lines typed, numbered from 1 (a bound)
    None

VARIABLES
    players,   \* the players that have a PlayerConsoleData
    access,    \* those with hasAccess
    typed,     \* the number of lines the thread has read
    cmd,       \* the line in cmd, 0 at first
    newCmd,    \* the flag
    reader,    \* the thread: "reads", "locks" with a line, "stores" it
    taker,     \* onTick: "idle", "took" the flag, "locks"
    mutex,     \* who holds cmdMutex
    sent,      \* the console's lines given to the handlers
    overrun    \* lines stored while the line before was not taken, or while
               \* the tick stood between the flag and the line

own == <<access, typed, cmd, newCmd, reader, taker, mutex, sent, overrun>>
vars == <<players, own>>

Init ==
    /\ players = {}
    /\ access = {}
    /\ typed = 0
    /\ cmd = 0
    /\ newCmd = FALSE
    /\ reader = "reads"
    /\ taker = "idle"
    /\ mutex = None
    /\ sent = <<>>
    /\ overrun = {}

-----------------------------------------------------------------------------
(* ThreadProc                                                               *)

ReadLine ==
    /\ reader = "reads"
    /\ typed < MaxLines
    /\ typed' = typed + 1
    /\ reader' = "locks"
    /\ UNCHANGED <<players, access, cmd, newCmd, taker, mutex, sent, overrun>>

StoreLine ==
    /\ reader = "locks"
    /\ mutex = None
    /\ mutex' = "reader"
    /\ cmd' = typed
    /\ overrun' = IF newCmd \/ taker # "idle" THEN overrun \union {typed}
                  ELSE overrun
    /\ reader' = "stores"
    /\ UNCHANGED <<players, access, typed, newCmd, taker, sent>>

RaiseFlag ==
    /\ reader = "stores"
    /\ newCmd' = TRUE
    /\ mutex' = None
    /\ reader' = "reads"
    /\ UNCHANGED <<players, access, typed, cmd, taker, sent, overrun>>

-----------------------------------------------------------------------------
(* onTick: the exchange may fail without a reason, and is tried next tick   *)

\* The mistake of a tick that looks at the flag and leaves it raised.
LookAtFlag ==
    /\ taker = "idle"
    /\ newCmd
    /\ taker' = "took"
    /\ UNCHANGED <<players, access, typed, cmd, newCmd, reader, mutex, sent,
                   overrun>>

TakeFlag ==
    /\ taker = "idle"
    /\ newCmd
    /\ newCmd' = FALSE
    /\ taker' = "took"
    /\ UNCHANGED <<players, access, typed, cmd, reader, mutex, sent, overrun>>

Send ==
    /\ taker = "took"
    /\ mutex = None
    /\ sent' = Append(sent, cmd)
    /\ taker' = "idle"
    /\ UNCHANGED <<players, access, typed, cmd, newCmd, reader, mutex, overrun>>

-----------------------------------------------------------------------------
(* Players                                                                  *)

Connect(p) ==
    /\ p \notin players
    /\ players' = players \union {p}
    /\ access' = access \ {p}
    /\ UNCHANGED <<typed, cmd, newCmd, reader, taker, mutex, sent, overrun>>

\* The login of PlayerRconCommandHandler; a script may give access too.
Login(p) ==
    /\ p \in players
    /\ access' = access \union {p}
    /\ UNCHANGED <<players, typed, cmd, newCmd, reader, taker, mutex, sent,
                   overrun>>

Disconnect(p) ==
    /\ p \in players
    /\ players' = players \ {p}
    /\ access' = access \ {p}
    /\ UNCHANGED <<typed, cmd, newCmd, reader, taker, mutex, sent, overrun>>

Next ==
    \/ ReadLine \/ StoreLine \/ RaiseFlag \/ TakeFlag \/ Send
    \/ \E p \in Players : Connect(p) \/ Login(p) \/ Disconnect(p)

Spec == Init /\ [][Next]_vars

-----------------------------------------------------------------------------
(* Properties                                                               *)

TypeOK ==
    /\ players \subseteq Players
    /\ access \subseteq players
    /\ typed \in 0 .. MaxLines
    /\ cmd \in 0 .. typed
    /\ newCmd \in BOOLEAN
    /\ reader \in {"reads", "locks", "stores"}
    /\ taker \in {"idle", "took"}
    /\ mutex \in {None, "reader"}
    /\ sent \in Seq(1 .. MaxLines)
    /\ overrun \subseteq 1 .. typed

\* The handlers are given the lines in the order they were typed, no line
\* twice but one that overran another, and none is lost but the one before
\* such a line: the last line typed is always given, or about to be.
LinesExact ==
    /\ \A i, j \in DOMAIN sent : i < j =>
         sent[i] < sent[j] \/ (sent[i] = sent[j] /\ sent[i] \in overrun)
    /\ \A n \in 1 .. cmd :
         \/ n \in Range(sent)
         \/ n + 1 \in overrun
         \/ n = cmd /\ (newCmd \/ reader = "stores" \/ taker = "took")
=============================================================================
