----------------------------- MODULE TextDraws -----------------------------
(***************************************************************************)
(* Text draws, shown to whoever a script says or to their owner alone, and *)
(* the mode in which a client selects one with the mouse:                  *)
(* src/Server/Components/TextDraws.                                        *)
(*                                                                         *)
(* Of what a text draw looks like only the text is kept: setters of the    *)
(* rest wait for the next restream, a new text is sent at once.            *)
(***************************************************************************)
CONSTANTS
    Players,    \* players that may be connected
    Things,     \* text draw objects
    Server,     \* the owner of the text draws that are not per-player
    None

VARIABLES
    players,    \* the players that have a PlayerTextDrawData
    pool,       \* the text draws in the component's and the players' storages
    doomed,     \* those released while locked
    draw,       \* of each: shownFor_ or shown, its text and its owner
    screen,     \* of each client: what it was sent of each text draw
    selecting,  \* PlayerTextDrawData::selecting
    mouse,      \* the players whose clients are in selection mode
    cancels,    \* the players with an unread cancellation
    at          \* the text draw whose callback runs

vars == <<players, pool, doomed, draw, screen, selecting, mouse, cancels, at>>

Texts == {0, 1}
Fresh == [shown |-> {}, text |-> 0, owner |-> Server]
Shows(text, personal) == [text |-> text, personal |-> personal]
Blank == [d \in Things |-> None]

Init ==
    /\ players = {}
    /\ pool = {}
    /\ doomed = {}
    /\ draw = [d \in Things |-> Fresh]
    /\ screen = [p \in Players |-> Blank]
    /\ selecting = {}
    /\ mouse = {}
    /\ cancels = {}
    /\ at = None

drawVars   == <<pool, doomed, draw, screen>>
selectVars == <<selecting, mouse, cancels>>

-----------------------------------------------------------------------------
(* Scripts, between handlers and in callbacks                               *)

Usable == pool \ doomed

\* Who may be shown a text draw at all.
Audience(d) == IF draw[d].owner = Server THEN players ELSE {draw[d].owner}

Create(d, s) ==
    /\ d \notin pool
    /\ s \in players \union {Server}
    /\ pool' = pool \union {d}
    /\ draw' = [draw EXCEPT ![d] = [Fresh EXCEPT !.owner = s]]
    /\ UNCHANGED <<players, doomed, screen, selectVars, at>>

ShowForPlayer(d, p) ==
    /\ d \in Usable
    /\ p \in Audience(d)
    /\ draw' = [draw EXCEPT ![d].shown = @ \union {p}]
    /\ screen' = [screen EXCEPT ![p][d] = Shows(draw[d].text, FALSE)]
    /\ UNCHANGED <<players, pool, doomed, selectVars, at>>

HideForPlayer(d, p) ==
    /\ d \in Usable
    /\ p \in Audience(d)
    /\ draw' = [draw EXCEPT ![d].shown = @ \ {p}]
    /\ screen' = [screen EXCEPT ![p][d] = None]
    /\ UNCHANGED <<players, pool, doomed, selectVars, at>>

\* What everyone whom d is shown to gets.
SentToShown(d, s) == [p \in Players |-> IF p \in draw[d].shown
                        THEN [screen[p] EXCEPT ![d] = s] ELSE screen[p]]

SetText(d, text) ==
    /\ d \in Usable
    /\ draw' = [draw EXCEPT ![d].text = text]
    /\ screen' = SentToShown(d, Shows(text, FALSE))
    /\ UNCHANGED <<players, pool, doomed, selectVars, at>>

\* A text for one player only, who need not be shown the text draw.
SetTextForPlayer(d, p, text) ==
    /\ d \in Usable
    /\ draw[d].owner = Server
    /\ p \in players
    /\ screen' = IF screen[p][d] = None THEN screen
                 ELSE [screen EXCEPT ![p][d] = Shows(text, TRUE)]
    /\ UNCHANGED <<players, pool, doomed, draw, selectVars, at>>

Restream(d) ==
    /\ d \in Usable
    /\ screen' = SentToShown(d, Shows(draw[d].text, FALSE))
    /\ UNCHANGED <<players, pool, doomed, draw, selectVars, at>>

\* What the clients are told before a text draw is freed.
Destream(d) == SentToShown(d, None)

\* release: hidden everywhere at once, freed now or when it is unlocked.
Release(d) ==
    /\ d \in Usable
    /\ screen' = Destream(d)
    /\ IF d = at
       THEN doomed' = doomed \union {d} /\ UNCHANGED <<pool, draw>>
       ELSE /\ pool' = pool \ {d}
            /\ draw' = [draw EXCEPT ![d] = Fresh]
            /\ UNCHANGED doomed
    /\ UNCHANGED <<players, selectVars, at>>

BeginSelection(p) ==
    /\ p \in players
    /\ selecting' = selecting \union {p}
    /\ mouse' = mouse \union {p}
    /\ UNCHANGED <<players, drawVars, cancels, at>>

EndSelection(p) ==
    /\ p \in players
    /\ selecting' = selecting \ {p}
    /\ mouse' = mouse \ {p}
    /\ UNCHANGED <<players, drawVars, cancels, at>>

-----------------------------------------------------------------------------
(* Clients, and PlayerSelectTextDrawEventHandler                            *)

\* The client leaves selection mode by itself and says so.
ClientCancels(p) ==
    /\ p \in mouse
    /\ mouse' = mouse \ {p}
    /\ cancels' = cancels \union {p}
    /\ UNCHANGED <<players, drawVars, selecting, at>>

\* It is read later, perhaps after the script began a new selection.
CancelSelection(p) ==
    /\ at = None
    /\ p \in cancels
    /\ cancels' = cancels \ {p}
    /\ selecting' = selecting \ {p}
    /\ UNCHANGED <<players, drawVars, mouse, at>>

\* A click, which may be as late, counts if the text draw is still shown to
\* the player; whether the player is selecting is not asked.
ClickTextDraw(p, d) ==
    /\ at = None
    /\ d \in pool
    /\ p \in draw[d].shown
    /\ at' = d
    /\ UNCHANGED <<players, drawVars, selectVars>>

\* The callback returns: the lock is dropped.
Return ==
    /\ at # None
    /\ at' = None
    /\ pool' = pool \ doomed
    /\ draw' = [d \in Things |-> IF d \in doomed THEN Fresh ELSE draw[d]]
    /\ doomed' = {}
    /\ UNCHANGED <<players, screen, selectVars>>

-----------------------------------------------------------------------------
(* Players come and go                                                      *)

Connect(p) ==
    /\ at = None
    /\ p \notin players
    /\ players' = players \union {p}
    /\ UNCHANGED <<drawVars, selectVars, at>>

\* onPoolEntryDestroyed; the player's data and text draws go with it.
RemoveFor(d, p) == IF draw[d].owner = p THEN Fresh
                   ELSE [draw[d] EXCEPT !.shown = @ \ {p}]

Disconnect(p) ==
    /\ at = None
    /\ p \in players
    /\ players' = players \ {p}
    /\ pool' = {d \in pool : draw[d].owner # p}
    /\ draw' = [d \in Things |-> RemoveFor(d, p)]
    /\ screen' = [screen EXCEPT ![p] = Blank]
    /\ selecting' = selecting \ {p}
    /\ mouse' = mouse \ {p}
    /\ cancels' = cancels \ {p}
    /\ UNCHANGED <<doomed, at>>

\* resetAll: the component, the players' data and the clients start anew.
Reset ==
    /\ at = None
    /\ pool' = {}
    /\ draw' = [d \in Things |-> Fresh]
    /\ screen' = [p \in Players |-> Blank]
    /\ selecting' = {}
    /\ mouse' = {}
    /\ UNCHANGED <<players, doomed, cancels, at>>

Next ==
    \/ Return \/ Reset
    \/ \E p \in Players :
         \/ Connect(p) \/ Disconnect(p) \/ BeginSelection(p) \/ EndSelection(p)
         \/ ClientCancels(p) \/ CancelSelection(p)
    \/ \E d \in Things :
         \/ Restream(d) \/ Release(d)
         \/ \E s \in Players \union {Server} : Create(d, s)
         \/ \E text \in Texts : SetText(d, text)
         \/ \E p \in Players :
              \/ ShowForPlayer(d, p) \/ HideForPlayer(d, p) \/ ClickTextDraw(p, d)
              \/ \E text \in Texts : SetTextForPlayer(d, p, text)

Spec == Init /\ [][Next]_vars

-----------------------------------------------------------------------------
(* Properties                                                               *)

TypeOK ==
    /\ players \subseteq Players
    /\ pool \subseteq Things
    /\ doomed \subseteq pool
    /\ draw \in [Things -> [shown : SUBSET Players, text : Texts,
                            owner : Players \union {Server}]]
    /\ screen \in [Players -> [Things -> [text : Texts, personal : BOOLEAN]
                                           \union {None}]]
    /\ selecting \subseteq players
    /\ mouse \subseteq players
    /\ cancels \subseteq players
    /\ at \in Things \union {None}

\* A client shows exactly the text draws it is down for, with their texts or
\* one of its own; and a player that the server takes to be selecting is, or
\* has said that it no longer is.
ViewExact == \A p \in players :
    /\ \A d \in Things :
         IF d \in Usable /\ p \in draw[d].shown
         THEN /\ screen[p][d] # None
              /\ screen[p][d].personal \/ screen[p][d].text = draw[d].text
         ELSE screen[p][d] = None
    /\ p \in selecting => p \in mouse \union cancels

\* Nothing is shown to, or owned by, a player that left.
NoStale == \A d \in pool :
    draw[d].shown \subseteq players /\ draw[d].owner \in players \union {Server}
=============================================================================
