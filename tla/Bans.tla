-------------------------------- MODULE Bans --------------------------------
(***************************************************************************)
(* The bans of the server: the list Config keeps, the file it is written   *)
(* to, the list of the network, which is what keeps players out, and the   *)
(* players that are in when their address is banned.  The console, the     *)
(* scripts and a signal change them, an operator edits the file, and the   *)
(* server may be stopped at any moment and started again.                  *)
(***************************************************************************)
EXTENDS Naturals, Sequences, FiniteSets

CONSTANTS
    Addresses, Local,  \* addresses, and that of the server itself
    Careful            \* the list is reloaded only to drop all bans, and scripts
                       \* unblock only what they have blocked

VARIABLES
    running,
    list,       \* addresses in Config's list
    file,       \* those in bans.json
    legacy,     \* those in samp.ban
    inForce,    \* those in the network's ban list
    connected,  \* those of the players
    kicked,     \* those of the players that are being disconnected
    doing,      \* the ban that is being made, and the steps that are left
    banned,     \* history: banned, and nobody has lifted it
    lifted,     \* history: unbanned, and not banned since
    blocked     \* history: blocked by a script since the server started

own  == <<running, list, file, legacy, inForce, connected, kicked, doing,
          banned, lifted, blocked>>
vars == own
-----------------------------------------------------------------------------
Nothing == [address |-> Local, left |-> <<>>]
Idle    == running /\ doing = Nothing

Init ==
    /\ running = FALSE
    /\ list = {} /\ inForce = {}
    /\ file \in SUBSET Addresses
    /\ legacy \in SUBSET Addresses
    /\ connected = {} /\ kicked = {}
    /\ doing = Nothing
    /\ banned = file /\ lifted = {} /\ blocked = {}

\* ban() of the network: not the server's own address; whoever is in is kicked.
Enforce(a) ==
    IF a = Local THEN UNCHANGED <<inForce, kicked>>
    ELSE /\ inForce' = inForce \cup {a}
         /\ kicked' = kicked \cup (connected \cap inForce')

\* loadBans and provideConfiguration of LegacyConfig read the files; the list is
\* written back, and handed to the network as that starts.
Start ==
    /\ ~running
    /\ running' = TRUE
    /\ list' = file \cup legacy
    /\ file' = list'
    /\ inForce' = list' \ {Local}
    /\ banned' = banned \cup list'
    /\ lifted' = lifted \ list'
    /\ UNCHANGED <<legacy, connected, kicked, doing, blocked>>

\* What is not written is lost, at any step of a ban.
Stop ==
    /\ running
    /\ running' = FALSE
    /\ list' = {} /\ inForce' = {}
    /\ connected' = {} /\ kicked' = {}
    /\ doing' = Nothing
    /\ blocked' = {}
    /\ UNCHANGED <<file, legacy, banned, lifted>>

Begin(a, steps) ==
    /\ Idle
    /\ doing' = [address |-> a, left |-> steps]
    /\ lifted' = lifted \ {a}
    /\ UNCHANGED <<running, list, file, legacy, inForce, connected, kicked, banned, blocked>>

\* Player::ban, and the console's banip, which bans an address nobody need have.
Ban(a)   == a \in connected /\ Begin(a, <<"enforce", "add", "write", "kick">>)
BanIp(a) == Begin(a, <<"add", "enforce", "write">>)

Do(step) ==
    /\ running /\ doing # Nothing
    /\ Head(doing.left) = step
    /\ doing' = IF Len(doing.left) = 1 THEN Nothing
                ELSE [address |-> doing.address, left |-> Tail(doing.left)]

EnforceBan ==
    /\ Do("enforce")
    /\ Enforce(doing.address)
    /\ UNCHANGED <<running, list, file, legacy, connected, banned, lifted, blocked>>

AddBan ==
    /\ Do("add")
    /\ list' = list \cup {doing.address}
    /\ UNCHANGED <<running, file, legacy, inForce, connected, kicked, banned, lifted, blocked>>

WriteBans ==
    /\ Do("write")
    /\ file' = list
    /\ banned' = banned \cup {doing.address}
    /\ UNCHANGED <<running, list, legacy, inForce, connected, kicked, lifted, blocked>>

Kick ==
    /\ Do("kick")
    /\ kicked' = kicked \cup {doing.address}
    /\ UNCHANGED <<running, list, file, legacy, inForce, connected, banned, lifted, blocked>>

\* unbanip: the file is written only if the address was in the list.
UnbanIp(a) ==
    /\ Idle
    /\ inForce' = inForce \ {a}
    /\ IF a \in list THEN list' = list \ {a} /\ file' = list'
       ELSE UNCHANGED <<list, file>>
    /\ banned' = banned \ {a}
    /\ lifted' = lifted \cup {a}
    /\ blocked' = blocked \ {a}
    /\ UNCHANGED <<running, legacy, connected, kicked, doing>>

\* reloadBans: by the console between two operations, by a signal within one.
\* The network forgets the bans, and is not told those of the file.
ReloadBans ==
    /\ running
    /\ Careful => Idle /\ file = {}
    /\ inForce' = inForce \ list
    /\ list' = file
    /\ UNCHANGED <<running, file, legacy, connected, kicked, doing, banned, lifted, blocked>>

\* ClearBanList of the scripts; the network keeps them until it starts again.
ClearBans ==
    /\ Idle
    /\ list' = {} /\ file' = {}
    /\ banned' = {}
    /\ UNCHANGED <<running, legacy, inForce, connected, kicked, doing, lifted, blocked>>

\* BlockIpAddress and UnBlockIpAddress of the scripts.
Block(a) ==
    /\ Idle
    /\ Enforce(a)
    /\ blocked' = blocked \cup {a}
    /\ UNCHANGED <<running, list, file, legacy, connected, doing, banned, lifted>>

\* A ban of the same address goes with the block.
Unblock(a) ==
    /\ Idle
    /\ Careful => a \notin list
    /\ inForce' = inForce \ {a}
    /\ blocked' = blocked \ {a}
    /\ UNCHANGED <<running, list, file, legacy, connected, kicked, doing, banned, lifted>>

EditFile(addresses) ==
    /\ doing = Nothing
    /\ file' = addresses
    /\ banned' = banned \cap addresses
    /\ UNCHANGED <<running, list, legacy, inForce, connected, kicked, doing, lifted, blocked>>

\* The network does not let those in that are banned.
Connect(a) ==
    /\ Idle
    /\ a \notin inForce \cup connected
    /\ connected' = connected \cup {a}
    /\ UNCHANGED <<running, list, file, legacy, inForce, kicked, doing, banned, lifted, blocked>>

Disconnect(a) ==
    /\ Idle
    /\ a \in connected
    /\ connected' = connected \ {a}
    /\ kicked' = kicked \ {a}
    /\ UNCHANGED <<running, list, file, legacy, inForce, doing, banned, lifted, blocked>>

Next ==
    \/ Start \/ Stop \/ EnforceBan \/ AddBan \/ WriteBans \/ Kick
    \/ ReloadBans \/ ClearBans
    \/ \E a \in Addresses :
          \/ Ban(a) \/ BanIp(a) \/ UnbanIp(a) \/ Block(a) \/ Unblock(a)
          \/ Connect(a) \/ Disconnect(a)
    \/ \E addresses \in SUBSET Addresses : EditFile(addresses)

Spec == Init /\ [][Next]_vars
-----------------------------------------------------------------------------
TypeOK ==
    /\ {running} \subseteq BOOLEAN
    /\ UNION {list, file, legacy, inForce, connected, kicked, banned, lifted, blocked}
          \subseteq Addresses
    /\ doing.address \in Addresses
    /\ \A i \in DOMAIN doing.left : doing.left[i] \in {"enforce", "add", "write", "kick"}

\* A ban is in force as long as it is in the list, in the file as long as nobody
\* has lifted it, whenever the server stops and starts again; and nobody
\* whose address is banned stays in.
Kept ==
    /\ Idle => list \ {Local} \subseteq inForce
    /\ banned \subseteq file
    /\ Idle => banned \subseteq list
    /\ connected \cap inForce \subseteq kicked

\* An address that was unbanned may connect, but for a script that blocks it and
\* for samp.ban, which bans it again at the next start.
Lifted ==
    running => \A a \in lifted : a \notin list /\ (a \in inForce => a \in blocked)
=============================================================================
