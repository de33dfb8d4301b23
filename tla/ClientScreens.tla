--------------------------- MODULE ClientScreens ---------------------------
(***************************************************************************)
(* The ids by which one client knows the gang zones, or the pickups, it is *)
(* shown.  A client has few ids and the server many things: the component  *)
(* reserves an id when it sends a thing and releases it when it withdraws  *)
(* it.  Beside that table, c.id, stands what the messages sent make the    *)
(* client show under each id, c.screen.                                    *)
(***************************************************************************)
EXTENDS Integers

CONSTANT None  \* an invalid id, a null pointer

Blank(things, ids) == [id |-> [z \in things |-> None],
                       screen |-> [i \in ids |-> None]]

FreeIds(c) == {i \in DOMAIN c.screen : \A z \in DOMAIN c.id : c.id[z] # i}

\* The lowest free id, or none.
Reserve(c) == IF FreeIds(c) = {} THEN None
              ELSE CHOOSE i \in FreeIds(c) : \A j \in FreeIds(c) : i <= j

\* The id of z, reserved for it now if it had none; a client out of ids is
\* sent nothing.
Send(c, z) ==
    LET i == IF c.id[z] = None THEN Reserve(c) ELSE c.id[z]
    IN  IF i = None THEN c ELSE [c EXCEPT !.id[z] = i, !.screen[i] = z]

Withdraw(c, z) ==
    LET i == c.id[z]
    IN  IF i = None THEN c ELSE [c EXCEPT !.id[z] = None, !.screen[i] = None]

\* The things Z are withdrawn.
WithdrawAll(c, Z) ==
    [c EXCEPT !.id     = [z \in DOMAIN c.id |->
                            IF z \in Z THEN None ELSE c.id[z]],
              !.screen = [i \in DOMAIN c.screen |->
                            IF c.screen[i] \in Z THEN None ELSE c.screen[i]]]

\* The client shows, under each id, the thing that the id was given to.
Agrees(c) == \A i \in DOMAIN c.screen : \A z \in DOMAIN c.id :
    c.screen[i] = z <=> c.id[z] = i
=============================================================================
