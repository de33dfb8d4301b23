---------------------------- MODULE PlayerLooks ----------------------------
(***************************************************************************)
(* How players look to each other: the colour every client is told, or the *)
(* one a script set for one viewer only, and the team, skills, style and   *)
(* skin that those it is streamed for are told: player.cpp, player_impl.hpp*)
(* and player_pool.hpp. Teams, skills and fighting styles are one value.   *)
(***************************************************************************)
EXTENDS Integers

CONSTANTS
    Players,  \* players that may be connected
    Careful,  \* whether scripts let the looks of leaving and of streamed
              \* players alone where no client is told
    None

Values == {0, 1}  \* colours, styles and skins; the default is 0

VARIABLES
    players,  \* the players in the pool
    leaving,  \* the player whose onPlayerDisconnect runs
    streamed, \* pairs: who is streamed in for whom (streamedFor_)
    colour,   \* colour_
    others,   \* othersColours_: of a viewer, for a player, or None
    style,    \* team_, skillLevels_, fightingStyle_
    skin,     \* skin_
    seen,     \* the colour a client has of a player, None before its join
    worn      \* the style and skin it shows, None when not streamed in

own == <<leaving, streamed, colour, others, style, skin, seen, worn>>
vars == <<players, own>>

Pairs(v) == [p \in Players |-> [q \in Players |-> v]]

Init ==
    /\ players = {}
    /\ leaving = None
    /\ streamed = {}
    /\ colour = [p \in Players |-> 0]
    /\ others = Pairs(None)
    /\ style = [p \in Players |-> 0]
    /\ skin = [p \in Players |-> 0]
    /\ seen = Pairs(None)
    /\ worn = Pairs(None)

-----------------------------------------------------------------------------
Others(p) == players \ {p}

\* initPlayer gives the id's default colour; onPeerConnect tells the others of
\* the player, and it of them, with the colours that hold for everyone.
Connect(p) ==
    /\ p \notin players
    /\ leaving = None
    /\ players' = players \union {p}
    /\ colour' = [colour EXCEPT ![p] = 0]
    /\ style' = [style EXCEPT ![p] = 0]
    /\ skin' = [skin EXCEPT ![p] = 0]
    /\ seen' = [q \in Players |-> [r \in Players |->
                  CASE q \in Others(p) /\ r = p -> 0
                    [] q = p /\ r \in Others(p) -> colour[r]
                    [] OTHER -> seen[q][r]]]
    /\ UNCHANGED <<leaving, streamed, others, worn>>

Forgotten(p) == [q \in Players |-> [others[q] EXCEPT ![p] = None]]

\* clearPlayer, up to the callbacks: the others forget what they had of it.
BeginLeave(p) ==
    /\ leaving = None
    /\ p \in players
    /\ leaving' = p
    /\ streamed' = {s \in streamed : p \notin {s[1], s[2]}}
    /\ others' = Forgotten(p)
    /\ UNCHANGED <<players, colour, style, skin, seen, worn>>

\* The rest: PlayerQuit, and the player's own data is destroyed.
EndLeave ==
    /\ leaving # None
    /\ players' = players \ {leaving}
    /\ others' = [others EXCEPT ![leaving] = [q \in Players |-> None]]
    /\ seen' = [q \in Players |-> [r \in Players |->
                  IF leaving \in {q, r} THEN None ELSE seen[q][r]]]
    /\ worn' = [q \in Players |-> [r \in Players |->
                  IF leaving \in {q, r} THEN None ELSE worn[q][r]]]
    /\ leaving' = None
    /\ UNCHANGED <<streamed, colour, style, skin>>

ColourFor(q, p) == IF others[q][p] # None THEN others[q][p] ELSE colour[p]

\* streamInForPlayer: the stream-in tells everything.
StreamIn(p, q) ==
    /\ {p, q} \subseteq players \ {leaving} /\ p # q
    /\ <<p, q>> \notin streamed
    /\ streamed' = streamed \union {<<p, q>>}
    /\ seen' = [seen EXCEPT ![q][p] = ColourFor(q, p)]
    /\ worn' = [worn EXCEPT ![q][p] = [style |-> style[p], skin |-> skin[p]]]
    /\ UNCHANGED <<players, leaving, colour, others, style, skin>>

StreamOut(p, q) ==
    /\ <<p, q>> \in streamed
    /\ streamed' = streamed \ {<<p, q>>}
    /\ worn' = [worn EXCEPT ![q][p] = None]
    /\ UNCHANGED <<players, leaving, colour, others, style, skin, seen>>

\* Everyone's own colour for the player goes, so that the new one shows.
SetColour(p, v) ==
    /\ p \in players
    /\ colour' = [colour EXCEPT ![p] = v]
    /\ others' = Forgotten(p)
    /\ seen' = [q \in Players |->
                  IF q \in Others(p) THEN [seen[q] EXCEPT ![p] = v] ELSE seen[q]]
    /\ UNCHANGED <<players, leaving, streamed, style, skin, worn>>

SetOtherColour(q, p, v) ==
    /\ {p, q} \subseteq players /\ p # q
    /\ Careful => p # leaving
    /\ others' = [others EXCEPT ![q][p] = v]
    /\ seen' = [seen EXCEPT ![q][p] = v]
    /\ UNCHANGED <<players, leaving, streamed, colour, style, skin, worn>>

\* Those it is streamed in for are told.
Told(p, w) == [q \in Players |->
    IF <<p, q>> \in streamed THEN [worn[q] EXCEPT ![p] = w] ELSE worn[q]]

\* setTeam, setSkillLevel, setFightingStyle.
SetStyle(p, v) ==
    /\ p \in players
    /\ style' = [style EXCEPT ![p] = v]
    /\ worn' = Told(p, [style |-> v, skin |-> skin[p]])
    /\ UNCHANGED <<players, leaving, streamed, colour, others, skin, seen>>

SetSkin(p, v) ==
    /\ p \in players
    /\ skin' = [skin EXCEPT ![p] = v]
    /\ worn' = Told(p, [style |-> style[p], skin |-> v])
    /\ UNCHANGED <<players, leaving, streamed, colour, others, style, seen>>

\* SetSpawnInfo: setSkin with send = false.
SetSpawnInfo(p, v) ==
    /\ p \in players
    /\ Careful => \A q \in players : <<p, q>> \notin streamed
    /\ skin' = [skin EXCEPT ![p] = v]
    /\ UNCHANGED <<players, leaving, streamed, colour, others, style, seen, worn>>

\* A spawn sets the class's skin in the same way, and streams the player out
\* for everyone, so that the next tick shows it anew.
Spawn(p, v) ==
    /\ p \in players \ {leaving}
    /\ skin' = [skin EXCEPT ![p] = v]
    /\ streamed' = {s \in streamed : s[1] # p}
    /\ worn' = [q \in Players |-> [worn[q] EXCEPT ![p] = None]]
    /\ UNCHANGED <<players, leaving, colour, others, style, seen>>

Next ==
    \/ EndLeave
    \/ \E p \in Players :
         \/ Connect(p) \/ BeginLeave(p)
         \/ \E v \in Values : \/ SetColour(p, v) \/ SetStyle(p, v)
                              \/ SetSkin(p, v) \/ SetSpawnInfo(p, v) \/ Spawn(p, v)
         \/ \E q \in Players :
              \/ StreamIn(p, q) \/ StreamOut(p, q)
              \/ \E v \in Values : SetOtherColour(q, p, v)

Spec == Init /\ [][Next]_vars

-----------------------------------------------------------------------------
(* Properties                                                               *)

TypeOK ==
    /\ players \subseteq Players
    /\ leaving \in players \union {None}
    /\ streamed \subseteq players \X players
    /\ colour \in [Players -> Values]
    /\ others \in [Players -> [Players -> Values \union {None}]]
    /\ style \in [Players -> Values]
    /\ skin \in [Players -> Values]
    /\ seen \in [Players -> [Players -> Values \union {None}]]
    /\ \A q \in Players, p \in Players :
         worn[q][p] \in [style : Values, skin : Values] \union {None}

\* Every client has of every player the colour that holds for it, the one a
\* script set for that client or the player's own, and shows the players that
\* are streamed in as they are.
ViewExact == \A p \in players \ {leaving} : \A q \in Others(p) \ {leaving} :
    /\ seen[q][p] = ColourFor(q, p)
    /\ <<p, q>> \in streamed =>
         worn[q][p] = [style |-> style[p], skin |-> skin[p]]

\* No one keeps a colour for an id that is free: the player that takes it
\* would be shown in it.
NoStale == \A p \in Players \ players, q \in Players :
    others[q][p] = None /\ others[p][q] = None
=============================================================================
