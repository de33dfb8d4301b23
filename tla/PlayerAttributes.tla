-------------------------- MODULE PlayerAttributes --------------------------
(***************************************************************************)
(* What the server keeps of a player's attributes (player_impl.hpp) and    *)
(* what the player's client has of them.  Some are set on the server and   *)
(* sent, some are only sent and come back with what the client reports,    *)
(* and some are both: a report replaces what was set and is still on its   *)
(* way.  What is sent, and what is reported, arrives in order.             *)
(*                                                                         *)
(* The attributes do not touch each other, except the place of the player, *)
(* which takes it out of its vehicle and its parachute from it; so a       *)
(* behaviour follows one of them.                                          *)
(***************************************************************************)
EXTENDS Integers, Sequences, FiniteSetsExt

CONSTANTS
    MaxWaiting,     \* bound: messages on their way to the client
    MaxReports      \* bound: reports on their way to the server

VARIABLES
    attribute,  \* the attribute
    version,    \* the client's: "037" or "03DL"
    server,     \* the server's value
    client,     \* the client's
    down, up,   \* what is on its way to the client, and to the server
    reported,   \* history: the client has reported the value it has
    seated,     \* the server has the player in a vehicle
    parachute,  \* the player is falling with a parachute, and has it
    inView,     \* the player is streamed in for the client of the chat bubble
    expires,    \* time left of the chat bubble on the server
    shows       \* and on that client

bubble == <<inView, expires, shows>>
own    == <<attribute, version, server, client, down, up, reported, seated,
            parachute, inView, expires, shows>>
vars   == own
-----------------------------------------------------------------------------
\* Kept and sent, by the part of the class that has them.
KeptOfWorld   == {"weather", "worldBounds"}
KeptOfScreen  == {"widescreen", "clock", "time"}
KeptOfSelf    == {"controllable"}
KeptOfSounds  == {"lastPlayedSound", "lastPlayedAudio"}
KeptOfTeam    == {"team"}
KeptGravity   == {"gravity"}
KeptWanted    == {"wantedLevel"}
KeptFighting  == {"fightingStyle"}
KeptCamera    == {"cameraPosition", "cameraLookAt"}
KeptShop      == {"shopName"}
KeptTargeting == {"cameraTargeting"}
KeptObjects   == {"defaultObjectsRemoved"}
Kept == UNION {KeptOfWorld, KeptOfScreen, KeptOfSelf, KeptOfSounds, KeptOfTeam,
               KeptGravity, KeptWanted, KeptFighting, KeptCamera, KeptShop,
               KeptTargeting, KeptObjects}

\* Kept by the server alone.
KeptHere == {"ghostMode", "allowTeleport", "rotTransform"}

\* Sent, and known when the client reports them.
ReportedBody     == {"health", "armour"}
ReportedMotion   == {"action", "velocity"}
ReportedInterior == {"interior"}
ReportedPlace    == {"position", "rotation"}
ReportedAmmo     == {"ammo", "armedWeapon"}
Reported == UNION {ReportedBody, ReportedMotion, ReportedInterior,
                   ReportedPlace, ReportedAmmo}

\* Kept, sent, and replaced by what the client reports.
Both == {"money", "drunkLevel"}

\* Sent, and known to the client alone.
SentOfWorld    == {"worldTime", "stuntBonuses"}
SentMessages   == {"clientMessage", "chatMessage", "gameText"}
SentDeaths     == {"explosion", "deathMessage"}
SentCamera     == {"cameraBehind", "interpolateCamera", "attachCamera"}
SentIcons      == {"mapIcon", "nameTag"}
SentCommand    == {"command", "classSelection"}
SentCollisions == {"vehicleCollisions"}
SentCheck      == {"clientCheck"}
Sent == UNION {SentOfWorld, SentMessages, SentDeaths, SentCamera, SentIcons,
               SentCommand, SentCollisions, SentCheck}

Attributes == UNION {Kept, KeptHere, Reported, Both, Sent} \cup {"virtualWorld", "chatBubble"}
Amounts    == 0..1

\* The client's value when it has taken one more of what was sent to it.
Taken(value, sent) ==
    CASE sent.how = "set"   -> sent.value
      [] sent.how = "give"  -> value + sent.value
      [] sent.how = "reset" -> 0
Tell(how, v) == [how |-> how, value |-> v]
Bubble(v, time) == [how |-> "set", value |-> v, time |-> time]
-----------------------------------------------------------------------------
Init ==
    /\ attribute \in Attributes
    /\ version \in {"037", "03DL"}
    /\ attribute # "virtualWorld" => version = "037"
    /\ server = 0 /\ client = 0
    /\ down = <<>> /\ up = <<>>
    /\ reported = TRUE
    /\ seated \in BOOLEAN /\ parachute \in BOOLEAN
    /\ attribute # "position" => ~seated /\ ~parachute
    /\ inView = FALSE /\ expires = 0 /\ shows = 0

Room(sends) == Len(down) + sends <= MaxWaiting
Rest == UNCHANGED <<attribute, version, seated, parachute, bubble>>

\* An attribute that is kept and sent.
SetKept(v) ==
    /\ attribute \in Kept \cup {"drunkLevel"}
    /\ Room(1)
    /\ server' = v
    /\ down' = Append(down, Tell("set", v))
    /\ UNCHANGED <<client, up, reported>> /\ Rest

SetHere(v) ==
    /\ attribute \in KeptHere
    /\ server' = v
    /\ UNCHANGED <<client, down, up, reported>> /\ Rest

\* One that is only sent.
SetReported(v) ==
    /\ attribute \in (Reported \ {"position"}) \cup Sent
    /\ Room(1)
    /\ down' = Append(down, Tell("set", v))
    /\ UNCHANGED <<server, client, up, reported>> /\ Rest

\* setPosition, setPositionFindZ: out of the vehicle, and without parachute.
SetPosition(v) ==
    /\ attribute = "position"
    /\ Room(1)
    /\ parachute' = FALSE
    /\ seated' = FALSE
    /\ down' = Append(down, Tell("set", v))
    /\ UNCHANGED <<attribute, version, server, client, up, reported, bubble>>

GiveMoney(n) ==
    /\ attribute = "money"
    /\ Room(1)
    /\ server + n \in -1..2
    /\ server' = server + n
    /\ down' = Append(down, Tell("give", n))
    /\ UNCHANGED <<client, up, reported>> /\ Rest

ResetMoney ==
    /\ attribute = "money"
    /\ Room(1)
    /\ server' = 0
    /\ down' = Append(down, Tell("reset", 0))
    /\ UNCHANGED <<client, up, reported>> /\ Rest

SetMoney(n) ==
    /\ attribute = "money"
    /\ Room(2)
    /\ server' = n
    /\ down' = down \o <<Tell("reset", 0), Tell("give", n)>>
    /\ UNCHANGED <<client, up, reported>> /\ Rest

\* Nothing is sent to a 0.3.7 client, nor when the world is the same.
SetVirtualWorld(v) ==
    /\ attribute = "virtualWorld"
    /\ v # server
    /\ server' = v
    /\ IF version = "037" THEN UNCHANGED down
       ELSE /\ Room(1)
            /\ down' = Append(down, Tell("set", v))
    /\ UNCHANGED <<client, up, reported>> /\ Rest

\* setChatBubble: those the player is streamed in for are told.
SetChatBubble(v, time) ==
    /\ attribute = "chatBubble"
    /\ server' = v
    /\ expires' = time
    /\ IF inView THEN Room(1) /\ down' = Append(down, Bubble(v, time))
       ELSE UNCHANGED down
    /\ UNCHANGED <<attribute, version, client, up, reported, seated, parachute,
                   inView, shows>>

\* streamInForPlayer: a bubble that has not expired is shown with the player.
StreamIn ==
    /\ attribute = "chatBubble"
    /\ ~inView
    /\ inView' = TRUE
    /\ down' = IF expires > 0 THEN Append(down, Bubble(server, expires)) ELSE down
    /\ UNCHANGED <<attribute, version, server, client, up, reported, seated,
                   parachute, expires, shows>>

\* streamOutForPlayer: the client drops the player, and its bubble.
StreamOut ==
    /\ attribute = "chatBubble"
    /\ inView /\ down = <<>>
    /\ inView' = FALSE
    /\ client' = 0 /\ shows' = 0
    /\ UNCHANGED <<attribute, version, server, down, up, reported, seated,
                   parachute, expires>>

\* Time passes on both sides.
Pass ==
    /\ attribute = "chatBubble"
    /\ expires > 0 \/ shows > 0
    /\ expires' = Max({expires - 1, 0})
    /\ shows' = Max({shows - 1, 0})
    /\ UNCHANGED <<attribute, version, server, client, down, up, reported, seated,
                   parachute, inView>>
-----------------------------------------------------------------------------
\* The client takes what was sent.
Take ==
    /\ down # <<>>
    /\ client' = Taken(client, Head(down))
    /\ down' = Tail(down)
    /\ reported' = (attribute \notin Reported \cup Both)
    /\ shows' = IF attribute = "chatBubble" THEN Head(down).time ELSE shows
    /\ UNCHANGED <<attribute, version, server, up, seated, parachute, inView, expires>>

\* Its player moves, is hurt, spends money.
Change(v) ==
    /\ attribute \in Reported \cup Both
    /\ client' = v
    /\ reported' = FALSE
    /\ UNCHANGED <<server, down, up>> /\ Rest

\* Its packets report what it has.
Report ==
    /\ attribute \in Reported \cup Both
    /\ Len(up) < MaxReports
    /\ up' = Append(up, client)
    /\ reported' = TRUE
    /\ UNCHANGED <<server, client, down>> /\ Rest

\* PlayerStatsSyncHandler and the other handlers of what is reported.
OnReport ==
    /\ up # <<>>
    /\ server' = Head(up)
    /\ up' = Tail(up)
    /\ UNCHANGED <<client, down, reported>> /\ Rest

Next ==
    \/ \E v \in Amounts : SetKept(v) \/ SetHere(v) \/ SetReported(v) \/ SetPosition(v)
    \/ \E n \in {-1, 1} : GiveMoney(n)
    \/ ResetMoney
    \/ \E n \in Amounts : SetMoney(n)
    \/ \E v \in Amounts : SetVirtualWorld(v)
    \/ \E v \in Amounts, time \in 1..2 : SetChatBubble(v, time)
    \/ StreamIn \/ StreamOut \/ Pass
    \/ Take
    \/ \E v \in Amounts : Change(v)
    \/ Report \/ OnReport

Spec == Init /\ [][Next]_vars
-----------------------------------------------------------------------------
TypeOK ==
    /\ attribute \in Attributes
    /\ version \in {"037", "03DL"}
    /\ {server, client} \subseteq Int
    /\ Len(down) \in 0..MaxWaiting /\ Len(up) \in 0..MaxReports
    /\ \A i \in DOMAIN down : down[i].how \in {"set", "give", "reset"}
    /\ {reported, seated, parachute, inView} \subseteq BOOLEAN
    /\ {expires, shows} \subseteq 0..2

\* What the server keeps, and only it sets, the client has or will have: each
\* message sets the value, and the last one, or the client's if there is none, is
\* the server's.
KeptExact ==
    attribute \in Kept \/ (attribute = "virtualWorld" /\ version # "037") =>
        /\ \A i \in 1 .. Len(down) : down[i].how = "set"
        /\ server = IF down = <<>> THEN client ELSE down[Len(down)].value

\* What the client reports becomes the server's value, whatever was set on the
\* server meanwhile: when nothing is on its way both have the same.
ReportedExact ==
    /\ attribute \in Reported \cup Both
    /\ down = <<>> /\ up = <<>> /\ reported
    => server = client

\* Whoever has the player in view sees its chat bubble until it expires, those
\* the player came into view of after it was set included.
BubbleSeen ==
    attribute = "chatBubble" /\ inView /\ down = <<>> /\ expires > 0 =>
        shows >= expires /\ client = server
=============================================================================
