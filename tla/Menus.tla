------------------------------- MODULE Menus -------------------------------
(***************************************************************************)
(* Menus: src/Server/Components/Menus.  A client is sent a menu's contents *)
(* once, and after that only told to show it; a change of the contents     *)
(* makes the component forget who has them.  Each player's data names the  *)
(* menu it was last shown, by an id that the next menu may be given.       *)
(* Titles and column headers are left out: setColumnHeader tells nobody.   *)
(***************************************************************************)
CONSTANTS
    Players,   \* players that may be connected
    Things,    \* ids of menus
    None       \* INVALID_MENU_ID

VARIABLES
    players,   \* the players that have a PlayerMenuData
    pool,      \* the menus in the storage
    menu,      \* of each: its rows and their being enabled, and initedFor_
    shown,     \* PlayerMenuData::menuId
    known,     \* the rows each client was sent of each menu
    open,      \* the menu each client has on its screen
    answers    \* the players with an unread answer: a row, or an exit

vars == <<players, pool, menu, shown, known, open, answers>>

Rows  == {0, 1}
Fresh == [rows |-> 0, inited |-> {}]

Init ==
    /\ players = {}
    /\ pool = {}
    /\ menu = [m \in Things |-> Fresh]
    /\ shown = [p \in Players |-> None]
    /\ known = [p \in Players |-> [m \in Things |-> None]]
    /\ open = [p \in Players |-> None]
    /\ answers = {}

clientVars == <<known, open, answers>>

-----------------------------------------------------------------------------
(* Scripts; no menu is locked by the handlers                               *)

Create(m) ==
    /\ m \notin pool
    /\ pool' = pool \union {m}
    /\ UNCHANGED <<players, menu, shown, clientVars>>

\* The players that were shown the menu are not told, nor does their data
\* forget it.
Release(m) ==
    /\ m \in pool
    /\ pool' = pool \ {m}
    /\ menu' = [menu EXCEPT ![m] = Fresh]
    /\ UNCHANGED <<players, shown, clientVars>>

\* addCell, disableRow and disable
WithRows(l, rows) == [l EXCEPT !.rows = rows, !.inited = {}]

ChangeRows(m, rows) ==
    /\ m \in pool
    /\ menu' = [menu EXCEPT ![m] = WithRows(@, rows)]
    /\ UNCHANGED <<players, pool, shown, clientVars>>

InitForPlayer(m, p) ==
    /\ known' = [known EXCEPT ![p][m] = menu[m].rows]
    /\ menu' = [menu EXCEPT ![m].inited = @ \union {p}]

ShowForPlayer(m, p) ==
    /\ m \in pool
    /\ p \in players
    /\ IF p \in menu[m].inited THEN UNCHANGED <<known, menu>>
       ELSE InitForPlayer(m, p)
    /\ shown' = [shown EXCEPT ![p] = m]
    /\ open' = [open EXCEPT ![p] = m]
    /\ UNCHANGED <<players, pool, answers>>

HideForPlayer(m, p) ==
    /\ m \in pool
    /\ p \in players
    /\ shown[p] = m
    /\ shown' = [shown EXCEPT ![p] = None]
    /\ open' = [open EXCEPT ![p] = IF @ = m THEN None ELSE @]
    /\ UNCHANGED <<players, pool, menu, known, answers>>

-----------------------------------------------------------------------------
(* Clients, and the handlers of their answers                               *)

\* Choosing a row, and leaving, close the menu on the client.
ClientAnswers(p) ==
    /\ open[p] # None
    /\ open' = [open EXCEPT ![p] = None]
    /\ answers' = answers \union {p}
    /\ UNCHANGED <<players, pool, menu, shown, known>>

\* PlayerSelectedMenuRow and PlayerExitedMenu: an answer for a menu that was
\* released is refused, and forgotten; any other is reported, and the player
\* keeps being shown the menu.
Answer(p) ==
    /\ p \in answers
    /\ answers' = answers \ {p}
    /\ shown' = IF shown[p] \in pool THEN shown ELSE [shown EXCEPT ![p] = None]
    /\ UNCHANGED <<players, pool, menu, known, open>>

-----------------------------------------------------------------------------
(* Players come and go                                                      *)

Connect(p) ==
    /\ p \notin players
    /\ players' = players \union {p}
    /\ UNCHANGED <<pool, menu, shown, clientVars>>

RemoveFor(l, p) == [l EXCEPT !.inited = @ \ {p}]

\* onPoolEntryDestroyed; the player's data goes with it.
Disconnect(p) ==
    /\ p \in players
    /\ players' = players \ {p}
    /\ menu' = [m \in Things |-> RemoveFor(menu[m], p)]
    /\ shown' = [shown EXCEPT ![p] = None]
    /\ known' = [known EXCEPT ![p] = [m \in Things |-> None]]
    /\ open' = [open EXCEPT ![p] = None]
    /\ answers' = answers \ {p}
    /\ UNCHANGED pool

Reset ==
    /\ pool' = {}
    /\ menu' = [m \in Things |-> Fresh]
    /\ shown' = [p \in Players |-> None]
    /\ known' = [p \in Players |-> [m \in Things |-> None]]
    /\ open' = [p \in Players |-> None]
    /\ UNCHANGED <<players, answers>>

Next ==
    \/ Reset
    \/ \E p \in Players :
         Connect(p) \/ Disconnect(p) \/ ClientAnswers(p) \/ Answer(p)
    \/ \E m \in Things :
         \/ Create(m) \/ Release(m)
         \/ \E c \in Rows : ChangeRows(m, c)
         \/ \E p \in Players : ShowForPlayer(m, p) \/ HideForPlayer(m, p)

Spec == Init /\ [][Next]_vars

-----------------------------------------------------------------------------
(* Properties                                                               *)

TypeOK ==
    /\ players \subseteq Players
    /\ pool \subseteq Things
    /\ menu \in [Things -> [rows : Rows, inited : SUBSET Players]]
    /\ shown \in [Players -> Things \union {None}]
    /\ known \in [Players -> [Things -> Rows \union {None}]]
    /\ open \in [Players -> Things \union {None}]
    /\ answers \subseteq players

\* A client that the component takes to have a menu has its rows as they are:
\* no row that was disabled or added since is missing when it is shown again.
\* And a menu on a client's screen is the one the player's data names.
ViewExact == \A p \in players :
    /\ \A m \in pool : p \in menu[m].inited =>
         known[p][m] = menu[m].rows
    /\ open[p] # None => shown[p] \in {open[p], None}

\* No menu is taken to be known to a player that left: the next player with
\* its id would be shown nothing.
NoStale == \A m \in pool : menu[m].inited \subseteq players
=============================================================================
