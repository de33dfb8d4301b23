---------------------------- MODULE Checkpoints ----------------------------
(***************************************************************************)
(* Checkpoints and race checkpoints: one of each kind per player, the      *)
(* marker its client shows, and the enter and leave callbacks, in which a  *)
(* script mostly sets the next one: src/Server/Components/Checkpoints and  *)
(* its natives.                                                            *)
(***************************************************************************)
EXTENDS Integers

CONSTANTS
    Players,  \* players that may be connected
    Places,   \* places of checkpoints
    None

\* The order in which onPlayerUpdate processes the kinds.
First  == "checkpoint"
Second == "race"
Kinds  == {First, Second}

VARIABLES
    players,  \* the players that have a PlayerCheckpointData
    cp,       \* of each player and kind: enabled_, inside_ and position_
    marker,   \* the place of the marker on the client
    told,     \* whether the last callback since it was set was an enter
    update    \* the onPlayerUpdate that runs: its player, the kind it is at,
              \* and whether that kind's callback runs

own == <<cp, marker, told, update>>
vars == <<players, own>>

Each(v) == [p \in Players |-> [k \in Kinds |-> v]]

Init ==
    /\ players = {}
    /\ cp = Each([enabled |-> FALSE, inside |-> FALSE, at |-> None])
    /\ marker = Each(None)
    /\ told = Each(FALSE)
    /\ update = None

-----------------------------------------------------------------------------
\* The constructor leaves inside_ as the memory had it.
Connect(p, garbage) ==
    /\ p \notin players
    /\ update = None
    /\ players' = players \union {p}
    /\ cp' = [cp EXCEPT ![p] = [k \in Kinds |->
                [enabled |-> FALSE, inside |-> garbage, at |-> None]]]
    /\ UNCHANGED <<marker, told, update>>

Disconnect(p) ==
    /\ p \in players
    /\ update = None
    /\ players' = players \ {p}
    /\ cp' = [cp EXCEPT ![p] = [k \in Kinds |->
                [enabled |-> FALSE, inside |-> FALSE, at |-> None]]]
    /\ marker' = [marker EXCEPT ![p] = [k \in Kinds |-> None]]
    /\ told' = [told EXCEPT ![p] = [k \in Kinds |-> FALSE]]
    /\ UNCHANGED update

\* SetPlayerCheckpoint, SetPlayerRaceCheckpoint: enable() disables first.
Set(p, k, place) ==
    /\ p \in players
    /\ cp' = [cp EXCEPT ![p][k] = [enabled |-> TRUE, inside |-> FALSE, at |-> place]]
    /\ marker' = [marker EXCEPT ![p][k] = place]
    /\ told' = [told EXCEPT ![p][k] = FALSE]
    /\ UNCHANGED <<players, update>>

Disable(p, k) ==
    /\ p \in players
    /\ cp[p][k].enabled
    /\ cp' = [cp EXCEPT ![p][k].enabled = FALSE, ![p][k].inside = FALSE]
    /\ marker' = [marker EXCEPT ![p][k] = None]
    /\ told' = [told EXCEPT ![p][k] = FALSE]
    /\ UNCHANGED <<players, update>>

OnPlayerUpdate(p) ==
    /\ p \in players
    /\ update = None
    /\ update' = [player |-> p, kind |-> First, calling |-> FALSE]
    /\ UNCHANGED <<players, cp, marker, told>>

After(u) == IF u.kind = First THEN [u EXCEPT !.kind = Second, !.calling = FALSE]
            ELSE None

\* One kind: the player is near its place, or not.
Process(near) ==
    /\ update # None
    /\ ~update.calling
    /\ LET p == update.player
           k == update.kind
       IN  IF cp[p][k].enabled /\ cp[p][k].inside # near
           THEN /\ cp' = [cp EXCEPT ![p][k].inside = near]
                /\ told' = [told EXCEPT ![p][k] = near]
                /\ update' = [update EXCEPT !.calling = TRUE]
           ELSE /\ update' = After(update)
                /\ UNCHANGED <<cp, told>>
    /\ UNCHANGED <<players, marker>>

Return ==
    /\ update # None
    /\ update.calling
    /\ update' = After(update)
    /\ UNCHANGED <<players, cp, marker, told>>

\* Player::reset: reset() of the data clears enabled_ only; the client starts
\* anew.
Reset ==
    /\ update = None
    /\ cp' = [p \in Players |-> [k \in Kinds |-> [cp[p][k] EXCEPT !.enabled = FALSE]]]
    /\ marker' = Each(None)
    /\ told' = Each(FALSE)
    /\ UNCHANGED <<players, update>>

Next ==
    \/ Return \/ Reset
    \/ \E near \in BOOLEAN : Process(near)
    \/ \E p \in Players :
         \/ Disconnect(p) \/ OnPlayerUpdate(p)
         \/ \E garbage \in BOOLEAN : Connect(p, garbage)
         \/ \E k \in Kinds :
              Disable(p, k) \/ \E place \in Places : Set(p, k, place)

Spec == Init /\ [][Next]_vars

-----------------------------------------------------------------------------
(* Properties                                                               *)

TypeOK ==
    /\ players \subseteq Players
    /\ cp \in [Players -> [Kinds -> [enabled : BOOLEAN, inside : BOOLEAN,
                                     at : Places \union {None}]]]
    /\ marker \in [Players -> [Kinds -> Places \union {None}]]
    /\ told \in [Players -> [Kinds -> BOOLEAN]]
    /\ update \in [player : players, kind : Kinds, calling : BOOLEAN] \union {None}

\* A client shows a marker exactly where the server tests for it.
ViewExact == \A p \in players, k \in Kinds :
    marker[p][k] = IF cp[p][k].enabled THEN cp[p][k].at ELSE None

\* Enters and leaves of one checkpoint alternate and begin with an enter,
\* although a script may set the next one in the callback.
Alternate == \A p \in players, k \in Kinds :
    cp[p][k].enabled => cp[p][k].inside = told[p][k]
=============================================================================
