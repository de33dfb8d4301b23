----------------------------- MODULE TextLabels -----------------------------
(***************************************************************************)
(* 3D text labels: which are streamed in for whom, and what each follows:  *)
(* src/Server/Components/TextLabels.  A label of everyone's is streamed by *)
(* passes over the players; a per-player label is sent to its owner when   *)
(* it is made, and after each change.  Either may be attached to a player  *)
(* and to a vehicle, by their ids.                                         *)
(*                                                                         *)
(* The component dispatches nothing, so that its operations are atomic.    *)
(***************************************************************************)
CONSTANTS
    Players,   \* ids of players
    Cars,      \* ids of vehicles
    Things,    \* label objects
    Server,    \* the owner of the labels that are not per-player
    None

VARIABLES
    players,   \* the players of the pool
    cars,      \* the vehicles of the pool
    pool,      \* the labels of the component and of all players' data
    label,     \* of each label: streamedFor_, attachmentData, owner
    screen     \* what each client was sent of each label: its attachment

vars == <<players, cars, pool, label, screen>>

Free  == [player |-> None, vehicle |-> None]
Fresh == [streamed |-> {}, on |-> Free, owner |-> Server]

Init ==
    /\ players = {}
    /\ cars = {}
    /\ pool = {}
    /\ label = [z \in Things |-> Fresh]
    /\ screen = [p \in Players |-> [z \in Things |-> None]]

-----------------------------------------------------------------------------
\* Who is sent the changes of a label: restream's two overrides.
Audience(l) == IF l.owner = Server THEN l.streamed ELSE {l.owner}

\* The label z becomes l, and its audience is shown it as it is now.
Restream(z, l) ==
    /\ label' = [label EXCEPT ![z] = l]
    /\ screen' = [p \in Players |-> IF p \in Audience(l)
                    THEN [screen[p] EXCEPT ![z] = l.on] ELSE screen[p]]

\* What a new label, or one that is attached anew, may be attached to; the
\* other of its two attachments stays.
Attachments(l) ==
    {[l.on EXCEPT !.player = p] : p \in players}
      \union {[l.on EXCEPT !.vehicle = c] : c \in cars}

\* Both components' create: near are the players it is streamed in for at once.
Create(z, s, near) ==
    /\ z \notin pool
    /\ s \in players \union {Server}
    /\ near \subseteq players
    /\ s # Server => near = {}
    /\ pool' = pool \union {z}
    /\ LET l == [Fresh EXCEPT !.owner = s, !.streamed = near]
       IN  \E on \in {Free} \union Attachments(l) :
             Restream(z, [l EXCEPT !.on = on])
    /\ UNCHANGED <<players, cars>>

\* attachToPlayer and attachToVehicle
Attach(z) ==
    /\ z \in pool
    /\ \E on \in Attachments(label[z]) : Restream(z, [label[z] EXCEPT !.on = on])
    /\ UNCHANGED <<players, cars, pool>>

DetachFromPlayer(l)  == [l EXCEPT !.on.player = None]
DetachFromVehicle(l) == [l EXCEPT !.on.vehicle = None]

Detach(z) ==
    /\ z \in pool
    /\ \E l \in {DetachFromPlayer(label[z]), DetachFromVehicle(label[z])} :
         Restream(z, l)
    /\ UNCHANGED <<players, cars, pool>>

\* The other setters: text, colour, position, distance, world, line of sight.
SetAndRestream(z) ==
    /\ z \in pool
    /\ Restream(z, label[z])
    /\ UNCHANGED <<players, cars, pool>>

\* release, with destream.
Release(z) ==
    /\ z \in pool
    /\ pool' = pool \ {z}
    /\ label' = [label EXCEPT ![z] = Fresh]
    /\ screen' = [p \in Players |-> IF p \in Audience(label[z])
                    THEN [screen[p] EXCEPT ![z] = None] ELSE screen[p]]
    /\ UNCHANGED <<players, cars>>

\* updateLabelStateForPlayer: near is by state, position, world, and by what
\* the label is attached to.
StreamLabel(p, z, near) ==
    /\ p \in players
    /\ z \in pool
    /\ label[z].owner = Server
    /\ near # (p \in label[z].streamed)
    /\ label' = [label EXCEPT ![z].streamed =
                   IF near THEN @ \union {p} ELSE @ \ {p}]
    /\ screen' = [screen EXCEPT ![p][z] = IF near THEN label[z].on ELSE None]
    /\ UNCHANGED <<players, cars, pool>>

-----------------------------------------------------------------------------
(* Players and vehicles come and go                                         *)

Connect(p) ==
    /\ p \notin players
    /\ players' = players \union {p}
    /\ UNCHANGED <<cars, pool, label, screen>>

\* What the departure of p leaves of a label.
Forget(l, p) ==
    LET d == IF l.on.player = p THEN DetachFromPlayer(l) ELSE l
    IN  [d EXCEPT !.streamed = @ \ {p}]

\* onPoolEntryDestroyed: labels of the others that followed p are sent to them
\* again; p's own go with its data.
Disconnect(p) ==
    LET own == {z \in pool : label[z].owner = p}
    IN  /\ p \in players
        /\ players' = players \ {p}
        /\ pool' = pool \ own
        /\ label' = [z \in Things |-> IF z \in own THEN Fresh
                                      ELSE Forget(label[z], p)]
        /\ screen' = [q \in Players |-> [z \in Things |->
             IF q = p THEN None
             ELSE IF label[z].on.player = p /\ q \in Audience(label[z])
             THEN label'[z].on ELSE screen[q][z]]]
        /\ UNCHANGED cars

\* A vehicle that is destroyed leaves the labels that follow its id.
CarComes(c) ==
    /\ c \notin cars
    /\ cars' = cars \union {c}
    /\ UNCHANGED <<players, pool, label, screen>>

CarGoes(c) ==
    /\ c \in cars
    /\ cars' = cars \ {c}
    /\ UNCHANGED <<players, pool, label, screen>>

\* resetAll: the component, the players' data and the clients start anew.
Reset ==
    /\ cars' = {}
    /\ pool' = {}
    /\ label' = [z \in Things |-> Fresh]
    /\ screen' = [p \in Players |-> [z \in Things |-> None]]
    /\ UNCHANGED players

Next ==
    \/ Reset
    \/ \E c \in Cars : CarComes(c) \/ CarGoes(c)
    \/ \E p \in Players : Connect(p) \/ Disconnect(p)
    \/ \E z \in Things :
         \/ Attach(z) \/ Detach(z) \/ SetAndRestream(z) \/ Release(z)
         \/ \E p \in Players, near \in BOOLEAN : StreamLabel(p, z, near)
         \/ \E s \in Players \union {Server}, near \in SUBSET Players :
              Create(z, s, near)

Spec == Init /\ [][Next]_vars

-----------------------------------------------------------------------------
(* Properties                                                               *)

AttachedTo == [player : Players \union {None}, vehicle : Cars \union {None}]

TypeOK ==
    /\ players \subseteq Players
    /\ cars \subseteq Cars
    /\ pool \subseteq Things
    /\ label \in [Things -> [streamed : SUBSET Players, on : AttachedTo,
                             owner : Players \union {Server}]]
    /\ screen \in [Players -> [Things -> AttachedTo \union {None}]]

\* A client shows exactly the labels that are streamed in for it and its own,
\* each attached to what the server has it attached to.
ViewExact == \A p \in players : \A z \in Things :
    screen[p][z] = IF z \in pool /\ p \in Audience(label[z]) THEN label[z].on
                   ELSE None

\* No label is streamed in for, attached to or owned by a player that left.
NoStale == \A z \in pool :
    /\ label[z].streamed \union ({label[z].on.player} \ {None}) \subseteq players
    /\ label[z].owner \in players \union {Server}
=============================================================================
