--------------------------- MODULE PlayerSessions ---------------------------
(***************************************************************************)
(* What the network and the player pool promise to scripts of a player,    *)
(* without RakNet, its indices, its queue and the slots of the pool: a     *)
(* session enters the pool under a name no other session has, is announced *)
(* (onPlayerConnect) at most once and not if it was kicked before, leaves  *)
(* (onPlayerDisconnect) once, nothing else of players beginning meanwhile, *)
(* and is gone.  PlayerConnection implements it.                           *)
(***************************************************************************)
EXTENDS Integers, FiniteSets

CONSTANTS
    Peers,     \* remote systems; each connects at most once
    Names,     \* the names players may have
    NickOf,    \* the name a peer asks for
    Capacity,  \* max_players
    NoName

VARIABLES
    session,   \* away, joining, playing, leaving or gone
    name,      \* of each session in the pool
    marked     \* the sessions kicked and still in the pool

vars == <<session, name, marked>>

Present == {p \in Peers : session[p] \in {"joining", "playing", "leaving"}}
NobodyLeaves == \A p \in Peers : session[p] # "leaving"

Init ==
    /\ session = [p \in Peers |-> "away"]
    /\ name = [p \in Peers |-> NoName]
    /\ marked = {}

Join(p) ==
    /\ session[p] = "away"
    /\ NobodyLeaves
    /\ Cardinality(Present) < Capacity
    /\ \A q \in Present : name[q] # NickOf[p]
    /\ session' = [session EXCEPT ![p] = "joining"]
    /\ name' = [name EXCEPT ![p] = NickOf[p]]
    /\ UNCHANGED marked

Announce(p) ==
    /\ session[p] = "joining"
    /\ p \notin marked
    /\ NobodyLeaves
    /\ session' = [session EXCEPT ![p] = "playing"]
    /\ UNCHANGED <<name, marked>>

BeginLeave(p) ==
    /\ session[p] \in {"joining", "playing"}
    /\ NobodyLeaves
    /\ session' = [session EXCEPT ![p] = "leaving"]
    /\ UNCHANGED <<name, marked>>

EndLeave(p) ==
    /\ session[p] = "leaving"
    /\ session' = [session EXCEPT ![p] = "gone"]
    /\ name' = [name EXCEPT ![p] = NoName]
    /\ marked' = marked \ {p}

\* A kick marks one player, a ban everyone at the address too.
Mark(S) ==
    /\ marked' = marked \union S
    /\ UNCHANGED <<session, name>>

Rename(p, n) ==
    /\ p \in Present
    /\ \A q \in Present \ {p} : name[q] # n
    /\ name' = [name EXCEPT ![p] = n]
    /\ UNCHANGED <<session, marked>>

Next ==
    \/ \E p \in Peers :
         \/ Join(p) \/ Announce(p) \/ BeginLeave(p) \/ EndLeave(p)
         \/ \E n \in Names : Rename(p, n)
    \/ \E S \in SUBSET Present : Mark(S)

Spec == Init /\ [][Next]_vars
=============================================================================
