--------------------------- MODULE PlayerWeapons ---------------------------
(***************************************************************************)
(* Weapons: the client has them, tells the server in weapon updates, and   *)
(* the server keeps that record. Where weapons are not allowed, by a script*)
(* or because interiors are without, the client's are taken, updates are   *)
(* ignored, and the record is what is given back: player_impl.hpp (the     *)
(* weapon operations) and player_pool.hpp (the update and interior         *)
(* handlers). A weapon is its slot; ammunition is left out.                *)
(***************************************************************************)
EXTENDS Integers, Sequences, SequencesExt, FiniteSets

CONSTANTS
    Players,   \* players that may be connected
    Slots,     \* weapon slots
    MaxQueue,  \* RPCs on their way to a client (a bound)
    Careful,   \* whether scripts allow weapons only where players are outside
    None

Interiors == {0, 1}  \* outside is 0

VARIABLES
    players,         \* the players in the pool
    interiorWeapons, \* game.allow_interior_weapons
    allow,           \* allowWeapons_
    interior,        \* interior_
    record,          \* weapons_: the slots in use
    hands,           \* the weapons that the client has
    place,           \* the interior that the client is in
    down,            \* RPCs to the client: "reset" or the slot of a weapon given
    unsaid,          \* whether they changed since its last update
    update,          \* the weapon update on its way, replaced by the next one
    entering,        \* the interior change on its way
    owned,           \* what the player was given and has not used or lost
    crossed          \* players whose weapons were reset or restored while
                     \* news of them was on its way

own == <<interiorWeapons, allow, interior, record, hands, place, down,
         unsaid, update, entering, owned, crossed>>
vars == <<players, own>>

None0 == [p \in Players |-> {}]

Init ==
    /\ players = {}
    /\ interiorWeapons \in BOOLEAN
    /\ allow = [p \in Players |-> TRUE]
    /\ interior = [p \in Players |-> 0]
    /\ record = None0
    /\ hands = None0
    /\ place = [p \in Players |-> 0]
    /\ down = [p \in Players |-> <<>>]
    /\ unsaid = [p \in Players |-> FALSE]
    /\ update = [p \in Players |-> None]
    /\ entering = [p \in Players |-> None]
    /\ owned = None0
    /\ crossed = {}

-----------------------------------------------------------------------------
AreWeaponsAllowed(p) == allow[p] /\ (interiorWeapons \/ interior[p] = 0)

\* Nothing about weapons is under way: the record has caught up.
Settled(p) ==
    /\ down[p] = <<>>
    /\ update[p] = None
    /\ ~unsaid[p]

Ready(p) == p \in players /\ Len(down[p]) < MaxQueue

\* The client's weapons are taken, or given again from the record.
Crosses(p) == crossed' = IF Settled(p) THEN crossed ELSE crossed \union {p}

Send(p, rpcs) == down' = [down EXCEPT ![p] = @ \o rpcs]

\* ResetPlayerWeapons, then GivePlayerWeapon for each of a record's slots.
Restore(p, weapons) == Send(p, <<"reset">> \o SetToSeq(weapons))

Connect(p) ==
    /\ p \notin players
    /\ players' = players \union {p}
    /\ UNCHANGED own

Disconnect(p) ==
    /\ p \in players
    /\ players' = players \ {p}
    /\ allow' = [allow EXCEPT ![p] = TRUE]
    /\ interior' = [interior EXCEPT ![p] = 0]
    /\ record' = [record EXCEPT ![p] = {}]
    /\ hands' = [hands EXCEPT ![p] = {}]
    /\ place' = [place EXCEPT ![p] = 0]
    /\ down' = [down EXCEPT ![p] = <<>>]
    /\ unsaid' = [unsaid EXCEPT ![p] = FALSE]
    /\ update' = [update EXCEPT ![p] = None]
    /\ entering' = [entering EXCEPT ![p] = None]
    /\ owned' = [owned EXCEPT ![p] = {}]
    /\ crossed' = crossed \ {p}
    /\ UNCHANGED interiorWeapons

GiveWeapon(p, s) ==
    /\ Ready(p)
    /\ owned' = [owned EXCEPT ![p] = @ \union {s}]
    /\ IF AreWeaponsAllowed(p)
       THEN Send(p, <<s>>) /\ UNCHANGED record
       ELSE record' = [record EXCEPT ![p] = @ \union {s}] /\ UNCHANGED down
    /\ UNCHANGED <<players, interiorWeapons, allow, interior, hands, place,
                   unsaid, update, entering, crossed>>

\* The others are given again from the record.
RemoveWeapon(p, s) ==
    /\ Ready(p)
    /\ s \in record[p]
    /\ record' = [record EXCEPT ![p] = @ \ {s}]
    /\ owned' = [owned EXCEPT ![p] = @ \ {s}]
    /\ IF AreWeaponsAllowed(p)
       THEN Restore(p, record[p] \ {s})
       ELSE UNCHANGED down
    /\ Crosses(p)
    /\ UNCHANGED <<players, interiorWeapons, allow, interior, hands, place,
                   unsaid, update, entering>>

ResetWeapons(p) ==
    /\ Ready(p)
    /\ owned' = [owned EXCEPT ![p] = {}]
    /\ IF AreWeaponsAllowed(p)
       THEN Send(p, <<"reset">>) /\ UNCHANGED record
       ELSE record' = [record EXCEPT ![p] = {}] /\ UNCHANGED down
    /\ UNCHANGED <<players, interiorWeapons, allow, interior, hands, place,
                   unsaid, update, entering, crossed>>

\* allowWeapons(true) gives the weapons back wherever the player is.
AllowWeapons(p) ==
    /\ Ready(p)
    /\ ~allow[p]
    /\ Careful => interiorWeapons \/ interior[p] = 0
    /\ allow' = [allow EXCEPT ![p] = TRUE]
    /\ Restore(p, record[p])
    /\ Crosses(p)
    /\ UNCHANGED <<players, interiorWeapons, interior, record, hands, place,
                   unsaid, update, entering, owned>>

BanWeapons(p) ==
    /\ Ready(p)
    /\ allow[p]
    /\ allow' = [allow EXCEPT ![p] = FALSE]
    /\ Send(p, <<"reset">>)
    /\ Crosses(p)
    /\ UNCHANGED <<players, interiorWeapons, interior, record, hands, place,
                   unsaid, update, entering, owned>>

\* AllowInteriorWeapons changes what is allowed and takes or gives nothing.
AllowInteriorWeapons(enable) ==
    /\ Careful => \A p \in players : interior[p] = 0 /\ entering[p] = None
    /\ interiorWeapons' = enable
    /\ UNCHANGED <<players, allow, interior, record, hands, place, down,
                   unsaid, update, entering, owned, crossed>>

\* The interior handler: a reset inside, the record's weapons outside.
OnInteriorChange(p) ==
    /\ Ready(p)
    /\ entering[p] # None
    /\ interior' = [interior EXCEPT ![p] = entering[p]]
    /\ entering' = [entering EXCEPT ![p] = None]
    /\ CASE entering[p] = interior[p] \/ interiorWeapons -> UNCHANGED down
         [] entering[p] # interior[p] /\ ~interiorWeapons /\ entering[p] # 0 ->
              Send(p, <<"reset">>)
         [] entering[p] # interior[p] /\ ~interiorWeapons /\ entering[p] = 0 ->
              IF allow[p] THEN Restore(p, record[p]) ELSE UNCHANGED down
    /\ Crosses(p)
    /\ UNCHANGED <<players, interiorWeapons, allow, record, hands, place,
                   unsaid, update, owned>>

OnWeaponsUpdate(p) ==
    /\ p \in players
    /\ update[p] # None
    /\ update' = [update EXCEPT ![p] = None]
    /\ record' = IF AreWeaponsAllowed(p)
                 THEN [record EXCEPT ![p] = update[p]] ELSE record
    /\ UNCHANGED <<players, interiorWeapons, allow, interior, hands, place,
                   down, unsaid, entering, owned, crossed>>

-----------------------------------------------------------------------------
(* The client                                                               *)

Held(weapons, rpc) == IF rpc = "reset" THEN {} ELSE weapons \union {rpc}

ClientReceives(p) ==
    /\ p \in players
    /\ down[p] # <<>>
    /\ hands' = [hands EXCEPT ![p] = Held(@, Head(down[p]))]
    /\ unsaid' = [unsaid EXCEPT ![p] = @ \/ hands'[p] # hands[p]]
    /\ down' = [down EXCEPT ![p] = Tail(@)]
    /\ UNCHANGED <<players, interiorWeapons, allow, interior, record, place,
                   update, entering, owned, crossed>>

ClientReports(p) ==
    /\ p \in players
    /\ unsaid[p]
    /\ unsaid' = [unsaid EXCEPT ![p] = FALSE]
    /\ update' = [update EXCEPT ![p] = hands[p]]
    /\ UNCHANGED <<players, interiorWeapons, allow, interior, record, hands,
                   place, down, entering, owned, crossed>>

ClientUsesUp(p, s) ==
    /\ p \in players
    /\ s \in hands[p]
    /\ hands' = [hands EXCEPT ![p] = @ \ {s}]
    /\ owned' = [owned EXCEPT ![p] = @ \ {s}]
    /\ unsaid' = [unsaid EXCEPT ![p] = TRUE]
    /\ UNCHANGED <<players, interiorWeapons, allow, interior, record, place,
                   down, update, entering, crossed>>

ClientEnters(p, i) ==
    /\ p \in players
    /\ entering[p] = None
    /\ i # place[p]
    /\ place' = [place EXCEPT ![p] = i]
    /\ entering' = [entering EXCEPT ![p] = i]
    /\ UNCHANGED <<players, interiorWeapons, allow, interior, record, hands,
                   down, unsaid, update, owned, crossed>>

Next ==
    \/ \E enable \in BOOLEAN : AllowInteriorWeapons(enable)
    \/ \E p \in Players :
         \/ Connect(p) \/ Disconnect(p) \/ ResetWeapons(p)
         \/ AllowWeapons(p) \/ BanWeapons(p)
         \/ OnInteriorChange(p) \/ OnWeaponsUpdate(p)
         \/ ClientReceives(p) \/ ClientReports(p)
         \/ \E i \in Interiors : ClientEnters(p, i)
         \/ \E s \in Slots :
              GiveWeapon(p, s) \/ RemoveWeapon(p, s) \/ ClientUsesUp(p, s)

Spec == Init /\ [][Next]_vars

-----------------------------------------------------------------------------
(* Properties                                                               *)

TypeOK ==
    /\ players \subseteq Players
    /\ interiorWeapons \in BOOLEAN
    /\ allow \in [Players -> BOOLEAN]
    /\ interior \in [Players -> Interiors]
    /\ record \in [Players -> SUBSET Slots]
    /\ hands \in [Players -> SUBSET Slots]
    /\ place \in [Players -> Interiors]
    /\ \A p \in Players : /\ Len(down[p]) =< MaxQueue + Cardinality(Slots)
                          /\ down[p] \in Seq(Slots \union {"reset"})
    /\ unsaid \in [Players -> BOOLEAN]
    /\ update \in [Players -> (SUBSET Slots) \union {None}]
    /\ entering \in [Players -> Interiors \union {None}]
    /\ owned \in [Players -> SUBSET Slots]
    /\ crossed \subseteq players

\* Where a player may have no weapons its client will have none, whatever is
\* still on its way to it: the last of that takes them, or nothing is and it
\* has none - if scripts allow weapons again only where they are
\* (allowWeapons does not look).
Unarmed == \A p \in players : ~AreWeaponsAllowed(p) =>
    IF down[p] = <<>> THEN hands[p] = {} ELSE down[p][Len(down[p])] = "reset"

\* When nothing is under way, the record is what the client has, and nothing
\* that a player was given and has not used was lost to a ban, an interior or
\* the removal of another weapon - unless one of these crossed news of it.
Kept == \A p \in players : Settled(p) =>
    /\ AreWeaponsAllowed(p) => record[p] = hands[p]
    /\ p \notin crossed => owned[p] \subseteq record[p]
=============================================================================
