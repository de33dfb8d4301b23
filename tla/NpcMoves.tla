------------------------------ MODULE NpcMoves ------------------------------
(***************************************************************************)
(* Where an NPC goes: to a place, after a player, along a path of the path *)
(* pool, along the nodes of an open node file, and to a vehicle that it is *)
(* to enter.  The move, path and node functions of                         *)
(* src/Server/Components/NPCs/NPC/npc.cpp, Path/, Node/ and the path and   *)
(* node functions of npcs_impl.cpp.                                        *)
(*                                                                         *)
(* A callback runs in the middle of most of these; the script may answer   *)
(* it with orders of its own, after which the code goes on.  Careful keeps *)
(* scripts from what the code does not stand: to destroy or change a path  *)
(* an NPC is on, to close a node it plays, to stop a path in the callback  *)
(* of one of its points (the code moves on to the next point), and to stop *)
(* or replace a node in the callbacks of its points and changes.           *)
(*                                                                         *)
(* Left out: the speed and the kind of a move (it is always a valid kind). *)
(***************************************************************************)
EXTENDS Integers

CONSTANTS
    Paths,          \* ids of paths
    Nodes,          \* ids of nodes
    MaxPoints,      \* bound on the points of a path
    Careful,
    None

VARIABLES
    points,         \* paths_: points of each path, -1 when there is none
    opened,         \* the open nodes
    moving, following, restart, toEnter,
    movingByPath, currentPath, index, pathReverse,
    playing, nodePaused, currentNode,
    calling,        \* the callback that runs, and what the code does after
    order           \* the last order that still stands: what the NPC moves for

own == <<points, opened, moving, following, restart, toEnter, movingByPath,
         currentPath, index, pathReverse, playing, nodePaused,
         currentNode, calling, order>>
vars == own

move == <<moving, following, restart>>
path == <<movingByPath, currentPath, index, pathReverse>>
node == <<playing, nodePaused, currentNode>>

NoCall == [at |-> "none", next |-> None]
Call(at, next) == calling' = [at |-> at, next |-> next]
Idle == calling.at = "none"

Init ==
    /\ points = [p \in Paths |-> -1]
    /\ opened = {}
    /\ moving = FALSE /\ following = FALSE /\ restart = FALSE /\ toEnter = FALSE
    /\ movingByPath = FALSE /\ currentPath = None
    /\ index = 0 /\ pathReverse = FALSE
    /\ playing = FALSE /\ nodePaused = FALSE /\ currentNode = None
    /\ calling = NoCall
    /\ order = "none"

-----------------------------------------------------------------------------
\* The path pool and the nodes.
CreatePath(p) ==
    /\ points[p] = -1
    /\ points' = [points EXCEPT ![p] = 0]
    /\ UNCHANGED <<opened, move, toEnter, path, node, calling, order>>

DestroyPath(p) ==
    /\ points[p] # -1
    /\ Careful => currentPath # p
    /\ points' = [points EXCEPT ![p] = -1]
    /\ UNCHANGED <<opened, move, toEnter, path, node, calling, order>>

\* addPointToPath, removePointFromPath, clearPath.
ChangePath(p, n) ==
    /\ points[p] # -1
    /\ Careful => calling.at # "point" \/ currentPath # p
    /\ n \in {points[p] + 1, points[p] - 1, 0} \intersect 0 .. MaxPoints
    /\ points' = [points EXCEPT ![p] = n]
    /\ UNCHANGED <<opened, move, toEnter, path, node, calling, order>>

OpenNode(n) ==
    /\ opened' = opened \union {n}
    /\ UNCHANGED <<points, move, toEnter, path, node, calling, order>>

CloseNode(n) ==
    /\ Careful => currentNode # n
    /\ opened' = opened \ {n}
    /\ UNCHANGED <<points, move, toEnter, path, node, calling, order>>

-----------------------------------------------------------------------------
\* stopMove: the path is forgotten, paused or not, and the player too.
StopMove ==
    /\ moving' = FALSE
    /\ following' = FALSE
    /\ movingByPath' = FALSE
    /\ currentPath' = IF movingByPath THEN None ELSE currentPath
    /\ index' = IF movingByPath THEN 0 ELSE index
    /\ pathReverse' = IF movingByPath THEN FALSE ELSE pathReverse
    /\ UNCHANGED restart

MayStop == Careful => calling.at \notin {"point", "nodePoint", "change"}

\* move: the path, the player and the nodes of before stay.
Move ==
    /\ moving' = TRUE
    /\ order' = "move"
    /\ UNCHANGED <<points, opened, following, restart, toEnter, path, node, calling>>

MoveToPlayer(auto) ==
    /\ moving' = TRUE
    /\ following' = TRUE
    /\ restart' = auto
    /\ order' = "move"
    /\ UNCHANGED <<points, opened, toEnter, path, node, calling>>

\* enterVehicle, for a vehicle that is some way off; a stop does not cancel it.
GoToVehicle ==
    /\ toEnter' = TRUE
    /\ moving' = TRUE
    /\ order' = "move"
    /\ UNCHANGED <<points, opened, following, restart, path, node, calling>>

\* stopMove and stopPath, a death, the start of a playback.
Stop ==
    /\ MayStop
    /\ StopMove
    /\ order' = "stop"
    /\ UNCHANGED <<points, opened, toEnter, node, calling>>

MoveByPath(p, reverse) ==
    /\ points[p] > 0
    /\ MayStop
    /\ movingByPath' = TRUE
    /\ currentPath' = p
    /\ pathReverse' = reverse
    /\ index' = IF reverse THEN points[p] - 1 ELSE 0
    /\ moving' = TRUE
    /\ order' = "move"
    /\ UNCHANGED <<points, opened, following, restart, toEnter, node, calling>>

\* pausePath stops the NPC, which forgets the path and that it is paused: there
\* is nothing left to resume, so that resumePath never does anything and the
\* pause of a path has no variable.
PausePath ==
    /\ MayStop
    /\ movingByPath
    /\ StopMove
    /\ order' = "stop"
    /\ UNCHANGED <<points, opened, toEnter, node, calling>>

-----------------------------------------------------------------------------
\* playNode: another node is stopped first, with its callback.
StartNode(n) ==
    /\ currentNode' = IF n \in opened THEN n ELSE None
    /\ playing' = (n \in opened \/ playing)
    /\ nodePaused' = (n \notin opened /\ nodePaused)
    /\ moving' = (n \in opened \/ moving)
    /\ order' = IF n \in opened THEN "move" ELSE order

PlayNode(n) ==
    /\ ~playing
    /\ MayStop
    /\ StartNode(n)
    /\ UNCHANGED <<points, opened, following, restart, toEnter, path, calling>>

\* stopPlayingNode, for itself, before another node (next), and when the code
\* finds no way to go on.
StopNode(next) ==
    /\ currentNode' = None
    /\ playing' = FALSE
    /\ nodePaused' = FALSE
    /\ StopMove
    /\ order' = "stop"
    /\ IF currentNode # None THEN Call("node", next) ELSE calling' = NoCall
    /\ UNCHANGED <<points, opened, toEnter>>

\* Before another node there is a stop only when one is played: when the one
\* played is unknown, stopping it is a step of its own.
StopPlayingNode(next) ==
    /\ Idle
    /\ playing
    /\ next # None => currentNode # None
    /\ StopNode(next)

PausePlayingNode ==
    /\ playing /\ ~nodePaused
    /\ MayStop
    /\ StopMove
    /\ nodePaused' = TRUE
    /\ order' = "stop"
    /\ UNCHANGED <<points, opened, toEnter, playing, currentNode, calling>>

\* The NPC moves to the place where it was paused, and from there on.
ResumePlayingNode ==
    /\ playing /\ nodePaused
    /\ nodePaused' = FALSE
    /\ moving' = TRUE
    /\ order' = "move"
    /\ UNCHANGED <<points, opened, following, restart, toEnter, path, playing,
                   currentNode, calling>>

-----------------------------------------------------------------------------
\* tick: a followed player has moved away.
FollowTick ==
    /\ Idle
    /\ following
    /\ moving \/ restart
    /\ moving' = TRUE
    /\ UNCHANGED <<points, opened, following, restart, toEnter, path, node, calling,
                   order>>

Arriving == Idle /\ moving

\* advance at the target: without a path or a player to follow, or with one to
\* be followed once, the move is over; the order it was for is carried out.
\* Near a vehicle that it is to enter, the NPC enters it and does no more.
AfterArrival ==
    IF (following /\ ~restart) \/ (~following /\ ~movingByPath) THEN StopMove
    ELSE moving' = FALSE /\ UNCHANGED <<following, restart, path>>

ArriveAtVehicle ==
    /\ Arriving
    /\ toEnter
    /\ AfterArrival
    /\ order' = IF following /\ restart THEN order ELSE "stop"
    /\ UNCHANGED <<points, opened, toEnter, node, calling>>

\* The entry animation has ended, or a spawn or the vehicle's end cancels it.
EndEnter ==
    /\ Idle
    /\ toEnter
    /\ toEnter' = FALSE
    /\ UNCHANGED <<points, opened, move, path, node, calling, order>>

StaysOnPath == movingByPath /\ ~(following /\ ~restart)
NextIndex == IF pathReverse THEN index - 1 ELSE index + 1
HasNext == NextIndex \in 0 .. points[currentPath] - 1

ArriveAtPoint ==
    /\ Arriving
    /\ StaysOnPath
    /\ HasNext
    /\ moving' = FALSE
    /\ index' = NextIndex
    /\ Call("point", NextIndex)
    /\ UNCHANGED <<points, opened, following, restart, toEnter, movingByPath,
                   currentPath, pathReverse, node, order>>

\* The path is over: it is forgotten before its callbacks run.
FinishPath ==
    /\ Arriving
    /\ StaysOnPath
    /\ ~HasNext
    /\ moving' = FALSE
    /\ movingByPath' = FALSE
    /\ currentPath' = None
    /\ index' = IF pathReverse /\ index = 0 THEN 0 ELSE NextIndex
    /\ order' = IF following THEN order ELSE "stop"
    /\ Call("finish", None)
    /\ UNCHANGED <<points, opened, following, restart, toEnter,
                   pathReverse, node>>

PlaysNode == playing /\ ~nodePaused /\ currentNode # None

ArriveAtNodePoint ==
    /\ Arriving
    /\ ~StaysOnPath
    /\ PlaysNode
    /\ AfterArrival
    /\ Call("nodePoint", None)
    /\ UNCHANGED <<points, opened, toEnter, node, order>>

FinishMove ==
    /\ Arriving
    /\ ~StaysOnPath
    /\ ~PlaysNode
    /\ AfterArrival
    /\ order' = IF following /\ restart THEN order ELSE "stop"
    /\ Call("finish", None)
    /\ UNCHANGED <<points, opened, toEnter, node>>

-----------------------------------------------------------------------------
\* The callback returns: nothing is left to do,
ReturnFinish ==
    /\ calling.at \in {"finish", "node"}
    /\ calling.next = None
    /\ calling' = NoCall
    /\ UNCHANGED <<points, opened, move, toEnter, path, node, order>>

\* the NPC goes to the next point of its path,
ReturnPoint ==
    /\ calling.at = "point"
    /\ moving' = TRUE
    /\ calling' = NoCall
    /\ UNCHANGED <<points, opened, following, restart, toEnter, path, node, order>>

\* to a next point of the node (one of a link, never the first),
ReturnNodePoint ==
    /\ calling.at = "nodePoint"
    /\ moving' = TRUE
    /\ order' = "move"
    /\ calling' = NoCall
    /\ UNCHANGED <<points, opened, following, restart, toEnter, path, node>>

\* nowhere (no link, an error, a link to a node that is not open),
ReturnNodeEnd ==
    /\ calling.at = "nodePoint"
    /\ StopNode(None)

\* or to another node, which scripts are asked about.
ReturnNodeChange(n) ==
    /\ calling.at = "nodePoint"
    /\ n \in opened \ {currentNode}
    /\ Call("change", n)
    /\ UNCHANGED <<points, opened, move, toEnter, path, node, order>>

ReturnChange ==
    /\ calling.at = "change"
    /\ calling.next \in opened
    /\ currentNode' = calling.next
    /\ moving' = TRUE
    /\ order' = "move"
    /\ calling' = NoCall
    /\ UNCHANGED <<points, opened, following, restart, toEnter, path, playing,
                   nodePaused>>

\* Refused by a script, closed meanwhile, or without the point of the link.
ReturnChangeFails ==
    /\ calling.at = "change"
    /\ StopNode(None)

\* The node that was asked for when another was stopped.
ReturnNode ==
    /\ calling.at = "node"
    /\ calling.next # None
    /\ StartNode(calling.next)
    /\ calling' = NoCall
    /\ UNCHANGED <<points, opened, following, restart, toEnter, path>>

Next ==
    \/ \E p \in Paths : CreatePath(p) \/ DestroyPath(p)
    \/ \E p \in Paths, n \in 0 .. MaxPoints : ChangePath(p, n)
    \/ \E n \in Nodes : OpenNode(n) \/ CloseNode(n) \/ PlayNode(n)
    \/ \E n \in Nodes \union {None} : StopPlayingNode(n)
    \/ \E p \in Paths, reverse \in BOOLEAN : MoveByPath(p, reverse)
    \/ Move \/ Stop \/ PausePath
    \/ \E auto \in BOOLEAN : MoveToPlayer(auto)
    \/ GoToVehicle \/ EndEnter \/ ArriveAtVehicle
    \/ PausePlayingNode \/ ResumePlayingNode
    \/ FollowTick \/ ArriveAtPoint \/ FinishPath \/ ArriveAtNodePoint \/ FinishMove
    \/ ReturnFinish \/ ReturnPoint \/ ReturnNodePoint \/ ReturnNodeEnd
    \/ \E n \in Nodes : ReturnNodeChange(n)
    \/ ReturnChange \/ ReturnChangeFails \/ ReturnNode

Spec == Init /\ [][Next]_vars

-----------------------------------------------------------------------------
TypeOK ==
    /\ points \in [Paths -> -1 .. MaxPoints]
    /\ opened \subseteq Nodes
    /\ {moving, following, restart, toEnter, movingByPath,
        pathReverse, playing, nodePaused} \subseteq BOOLEAN
    /\ currentPath \in Paths \union {None}
    /\ index \in 0 .. MaxPoints
    /\ currentNode \in Nodes \union {None}
    /\ calling.at \in {"none", "point", "finish", "node", "nodePoint", "change"}
    /\ calling.next \in Nodes \union 0 .. MaxPoints \union {None}
    /\ order \in {"none", "stop", "move"}

\* The path an NPC is on is in the pool, the node it plays is open, and it
\* has a path just while it is on one: advance() follows both without a check.
NoDangling ==
    /\ movingByPath <=> currentPath # None
    /\ movingByPath => points[currentPath] # -1
    /\ currentNode \in opened \union {None}

\* An NPC moves, and a tick may set it moving, only for an order that still
\* stands: after the last stop, or the end of what it was told, it stays.
Obeys == moving \/ (following /\ restart) => order = "move"
=============================================================================
