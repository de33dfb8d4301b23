---------------------------- MODULE CustomModels ----------------------------
(***************************************************************************)
(* Custom models: the list of models every client must have, the files it  *)
(* asks for, and the addresses from which the web server lets files be     *)
(* downloaded, counted by the players that share one:                      *)
(* src/Server/Components/CustomModels/models.cpp.  Players are those with  *)
(* the 0.3.DL client, the others are not told of models.                   *)
(***************************************************************************)
EXTENDS Integers, Sequences, FiniteSets, Functions

CONSTANTS
    Players,   \* players that may be connected
    IPs,       \* their addresses
    Models,    \* models, each with an id and two files of its own
    None

VARIABLES
    players,   \* players connected
    ip,        \* the address of each
    storage,   \* the models, in the order they were added
    webServer, \* whether the web server was started
    allowed,   \* allowedIPs_
    shown,     \* of each player: the model its client has at each place
    asked,     \* the request for a file whose callback runs: the player and
               \* the model of the file
    early,     \* players connected before the web server was started, and
               \* players of their addresses
    present    \* players that were connected when a model was added

own == <<ip, storage, webServer, allowed, shown, asked, early, present>>
vars == <<players, own>>

Places == -1 .. Cardinality(Models) - 1
Empty  == [i \in Places |-> None]

Init ==
    /\ players = {}
    /\ ip \in [Players -> IPs]
    /\ storage = <<>>
    /\ webServer = FALSE
    /\ allowed = [a \in IPs |-> 0]
    /\ shown = [p \in Players |-> Empty]
    /\ asked = None
    /\ early = {}
    /\ present = {}

-----------------------------------------------------------------------------
\* onPlayerConnect allows the address, onPlayerClientInit sends the list.
Connect(p) ==
    /\ asked = None
    /\ p \notin players
    /\ players' = players \union {p}
    /\ allowed' = IF webServer THEN [allowed EXCEPT ![ip[p]] = @ + 1]
                  ELSE allowed
    /\ early' = IF ~webServer \/ \E q \in early : ip[q] = ip[p]
                THEN early \union {p} ELSE early \ {p}
    /\ shown' = [shown EXCEPT ![p] = [i \in Places |->
                   IF i + 1 \in DOMAIN storage THEN storage[i + 1] ELSE None]]
    /\ present' = present \ {p}
    /\ UNCHANGED <<ip, storage, webServer, asked>>

\* The mistake of counting an unknown address down.
RemovedUnder(a) == [allowed EXCEPT ![a] = @ - 1]

\* removeIPAddress counts down whether or not the player was counted.
Removed(a) == [allowed EXCEPT ![a] = IF @ > 0 THEN @ - 1 ELSE 0]

Disconnect(p) ==
    /\ asked = None
    /\ p \in players
    /\ players' = players \ {p}
    /\ allowed' = IF webServer THEN Removed(ip[p]) ELSE allowed
    /\ shown' = [shown EXCEPT ![p] = Empty]
    /\ UNCHANGED <<ip, storage, webServer, asked, early, present>>

\* addCustomModel, from a script or from artconfig.txt at start and reset: an
\* id that is in use is refused.  The clients connected are sent the new model
\* with a place one lower than the list has it at.  The first model starts
\* the web server.  In the callback of a request it would move the table of
\* files under the handler's reference: this is left out.
AddCustomModel(m) ==
    /\ asked = None
    /\ m \notin Range(storage)
    /\ storage' = Append(storage, m)
    /\ shown' = [p \in Players |-> IF p \in players
                   THEN [shown[p] EXCEPT ![Len(storage) - 1] = m]
                   ELSE shown[p]]
    /\ present' = players
    /\ webServer' = TRUE
    /\ UNCHANGED <<players, ip, allowed, asked, early>>

\* A client asks for the file of a model it was told of; requestedFile_ is set
\* for the callback.
RequestFile(p, m) ==
    /\ asked = None
    /\ p \in players
    /\ m \in Range(shown[p])
    /\ m \in Range(storage)
    /\ asked' = [player |-> p, model |-> m]
    /\ UNCHANGED <<players, ip, storage, webServer, allowed, shown, early,
                   present>>

\* The callback returned: the link is sent, or a script sent another.
SendUrl ==
    /\ asked # None
    /\ asked' = None
    /\ UNCHANGED <<players, ip, storage, webServer, allowed, shown, early,
                   present>>

Next ==
    \/ SendUrl
    \/ \E m \in Models : AddCustomModel(m)
    \/ \E p \in Players :
         Connect(p) \/ Disconnect(p) \/ \E m \in Models : RequestFile(p, m)

Spec == Init /\ [][Next]_vars

-----------------------------------------------------------------------------
(* Properties                                                               *)

TypeOK ==
    /\ players \subseteq Players
    /\ ip \in [Players -> IPs]
    /\ storage \in Seq(Models)
    /\ IsInjective(storage)
    /\ webServer \in BOOLEAN
    /\ allowed \in [IPs -> 0 .. Cardinality(Players)]
    /\ shown \in [Players -> [Places -> Models \union {None}]]
    /\ asked \in [player : players, model : Models] \union {None}
    /\ early \subseteq Players
    /\ present \subseteq Players

\* The web server lets in the addresses of connected players, each counted as
\* often as players have it, unless one of them was there before the server.
CountExact == \A a \in IPs :
    LET here == {p \in players : ip[p] = a}
    IN  {q \in early : ip[q] = a} = {} => allowed[a] = Cardinality(here)

\* A client that joins after the models were added has them as the server does.
ViewExact == \A p \in players \ present : \A i \in Places :
    shown[p][i] = IF i + 1 \in DOMAIN storage THEN storage[i + 1] ELSE None
=============================================================================
