------------------------------ MODULE Dialogs ------------------------------
(***************************************************************************)
(* Dialogs: the one dialog a player may be shown, its answer, which comes  *)
(* back later over the network, and the callback that is told of it, in    *)
(* which a script mostly shows the next one:                               *)
(* src/Server/Components/Dialogs/dialog.cpp.                               *)
(***************************************************************************)
EXTENDS Integers, Sequences, Functions

CONSTANTS
    Players,      \* players that may be connected
    DialogIds,    \* ids scripts give to dialogs
    MaxAnswers,   \* answers of one player that are not read yet (a bound)
    None

\* A dialog has a style (a list of rows, a list with a row of headers, or
\* anything without rows) and the number of lines of its body.
Contents == {[style |-> "box", lines |-> 1], [style |-> "list", lines |-> 0],
             [style |-> "list", lines |-> 1], [style |-> "headers", lines |-> 3]}

VARIABLES
    players,      \* the players that have a PlayerDialogData
    activeId,     \* of each player: the dialog that may be answered
    content,      \* style_ and body_ of the last dialog shown
    box,          \* what the client shows: an id and its content
    responses,    \* the client's answers that are not read yet
    responding,   \* the player whose onDialogResponse runs
    crossed       \* players shown a dialog while an answer to another one of
                  \* the same id was on its way

own == <<activeId, content, box, responses, responding, crossed>>
vars == <<players, own>>

NoContent == [style |-> "box", lines |-> 0]

Init ==
    /\ players = {}
    /\ activeId = [p \in Players |-> None]
    /\ content = [p \in Players |-> NoContent]
    /\ box = [p \in Players |-> None]
    /\ responses = [p \in Players |-> <<>>]
    /\ responding = None
    /\ crossed = {}

-----------------------------------------------------------------------------
Connect(p) ==
    /\ p \notin players
    /\ players' = players \union {p}
    /\ UNCHANGED own

Gone(p) ==
    /\ activeId' = [activeId EXCEPT ![p] = None]
    /\ content' = [content EXCEPT ![p] = NoContent]
    /\ box' = [box EXCEPT ![p] = None]
    /\ responses' = [responses EXCEPT ![p] = <<>>]
    /\ crossed' = crossed \ {p}

Disconnect(p) ==
    /\ p \in players
    /\ responding = None
    /\ players' = players \ {p}
    /\ Gone(p)
    /\ UNCHANGED responding

\* ShowPlayerDialog: the data, and the client's dialog, are replaced.
Show(p, i, c) ==
    /\ p \in players
    /\ activeId' = [activeId EXCEPT ![p] = i]
    /\ content' = [content EXCEPT ![p] = c]
    /\ box' = [box EXCEPT ![p] = [id |-> i, content |-> c]]
    /\ crossed' = IF \E r \in Range(responses[p]) : r.id = i
                  THEN crossed \union {p} ELSE crossed \ {p}
    /\ UNCHANGED <<players, responses, responding>>

Hidden(p) ==
    /\ activeId' = [activeId EXCEPT ![p] = None]
    /\ box' = [box EXCEPT ![p] = IF activeId[p] # None THEN None ELSE @]

Hide(p) ==
    /\ p \in players
    /\ Hidden(p)
    /\ UNCHANGED <<players, content, responses, responding, crossed>>

\* The rows a client can choose from; without any it answers with -1.
Rows(c) == CASE c.style = "box" -> {-1}
             [] c.style = "list" -> IF c.lines = 0 THEN {-1} ELSE 0 .. c.lines - 1
             [] c.style = "headers" -> 0 .. c.lines - 2

\* The player presses a button: its client closes the dialog.
ClientAnswers(p, item) ==
    /\ p \in players
    /\ box[p] # None
    /\ item \in Rows(box[p].content)
    /\ Len(responses[p]) < MaxAnswers
    /\ responses' = [responses EXCEPT ![p] =
                       Append(@, [id |-> box[p].id, item |-> item,
                                  of |-> box[p].content])]
    /\ box' = [box EXCEPT ![p] = None]
    /\ UNCHANGED <<players, activeId, content, responding, crossed>>

\* The tests of the handler: the id is the active one's, and the row one that
\* the dialog shown last has.
Fits(item, c) ==
    IF c.style = "box" THEN item = -1
    ELSE c.lines = 0 \/ item \in 0 .. c.lines - (IF c.style = "list" THEN 1 ELSE 2)

Accepted(p, r) == activeId[p] = r.id /\ Fits(r.item, content[p])

OnDialogResponse(p) ==
    /\ responding = None
    /\ responses[p] # <<>>
    /\ responses' = [responses EXCEPT ![p] = Tail(@)]
    /\ IF Accepted(p, Head(responses[p]))
       THEN /\ activeId' = [activeId EXCEPT ![p] = None]
            /\ responding' = p
       ELSE UNCHANGED <<activeId, responding>>
    /\ UNCHANGED <<players, content, box, crossed>>

\* The mistake of a handler that clears the id last.
RespondedThenCleared ==
    /\ responding # None
    /\ responding' = None
    /\ activeId' = [activeId EXCEPT ![responding] = None]
    /\ UNCHANGED <<players, content, box, responses, crossed>>

\* The callback returns: the handler does nothing more.
Responded ==
    /\ responding # None
    /\ responding' = None
    /\ UNCHANGED <<players, activeId, content, box, responses, crossed>>

\* The component's reset hides every dialog, the data's own only forgets it;
\* the clients start anew.
Reset ==
    /\ responding = None
    /\ activeId' = [p \in Players |-> None]
    /\ box' = [p \in Players |-> None]
    /\ UNCHANGED <<players, content, responses, responding, crossed>>

Next ==
    \/ Responded \/ Reset
    \/ \E p \in Players :
         \/ Connect(p) \/ Disconnect(p) \/ Hide(p) \/ OnDialogResponse(p)
         \/ \E i \in DialogIds, c \in Contents : Show(p, i, c)
         \/ \E item \in -1 .. 1 : ClientAnswers(p, item)

Spec == Init /\ [][Next]_vars

-----------------------------------------------------------------------------
(* Properties                                                               *)

Unread == [id : DialogIds, item : -1 .. 1, of : Contents]

TypeOK ==
    /\ players \subseteq Players
    /\ activeId \in [Players -> DialogIds \union {None}]
    /\ content \in [Players -> Contents \union {NoContent}]
    /\ \A p \in Players :
         /\ box[p] \in [id : DialogIds, content : Contents] \union {None}
         /\ responses[p] \in Seq(Unread) /\ Len(responses[p]) =< MaxAnswers
    /\ responding \in players \union {None}
    /\ crossed \subseteq players

\* A player looks at the dialog whose answer the server waits for, and every
\* answer the server will take was given to that dialog - unless a dialog was
\* replaced by another one of its id while its answer was on its way.
ViewExact == \A p \in players \ crossed :
    /\ box[p] # None => activeId[p] = box[p].id /\ content[p] = box[p].content
    /\ \A r \in Range(responses[p]) : Accepted(p, r) => r.of = content[p]

\* The server waits for no answer that cannot come: it shows the dialog, or
\* has its answer on the way.
NotWaiting == \A p \in players : activeId[p] # None =>
    \/ box[p] # None /\ box[p].id = activeId[p]
    \/ \E r \in Range(responses[p]) : r.id = activeId[p]
=============================================================================
