---------------------------- MODULE PlayerStream ----------------------------
(***************************************************************************)
(* Which players each client is shown: streamedFor_, numStreamed_, the     *)
(* spectate data and the per-player colours, kept by                       *)
(* src/Server/Source/player.cpp, player_impl.hpp and player_pool.hpp.      *)
(*                                                                         *)
(* The relation "q is streamed in for p" is stored twice, in the array     *)
(* streamedFor_ of q and in the counter numStreamed_ of p, and every       *)
(* operation that changes it dispatches a callback in the middle.  A       *)
(* callback may start operations of its own: the operations in progress    *)
(* form the variable stack, innermost last.                                *)
(*                                                                         *)
(* PlayerConnection models how players come and go; here Join and          *)
(* BeginLeave .. EndLeave stand for the constructor and clearPlayer.       *)
(***************************************************************************)
EXTENDS Integers, Sequences, FiniteSets
LOCAL INSTANCE TLC

CONSTANTS
    Slots,        \* ids of the player pool
    MaxStreamed,  \* MAX_STREAMED_PLAYERS
    CounterSize,  \* the values of a uint16_t
    MaxDepth,     \* bound: operations nested through callbacks
    MaxColours,   \* bound: per-player colours set
    LateOps,      \* whether an onPlayerDisconnect callback makes the leaver
                  \*   spectate, be spectated or be given a colour anew
    NestedToggle, \* whether spectatePlayer's callbacks end the spectating
    None          \* INVALID_PLAYER_ID

ASSUME StreamAssumption ==
    /\ IsFiniteSet(Slots)
    /\ None \notin Slots
    /\ MaxStreamed \in Nat
    /\ CounterSize \in Nat
    /\ MaxStreamed + 1 < CounterSize
    /\ MaxDepth \in Nat \ {0}
    /\ MaxColours \in Nat
    /\ LateOps \in BOOLEAN
    /\ NestedToggle \in BOOLEAN

VARIABLES
    inPool,      \* the ids with a player in the pool storage
    leaving,     \* the player whose onPlayerDisconnect is being dispatched
    state,       \* state_: Present stands for all but None and Spectating
    streamedFor, \* streamedFor_: the players each player is streamed in for
    numStreamed, \* numStreamed_: how many players are streamed for each
    spectating,  \* spectateData_.spectating
    spectateID,  \* spectateData_.spectateID, None unless type is Player
    colours,     \* the keys of othersColours_
    stack        \* the operations in progress on the main thread

playerVars == <<state, streamedFor, numStreamed, spectating, spectateID, colours>>
vars       == <<inPool, leaving, playerVars, stack>>

PlayerStates == {"None", "Present", "Spectating"}

\* An operation on the stack: the streaming pass of who over the players of
\* todo, or who's restreaming after a spawn; who's spectatePlayer(target)
\* after setState (spectate) or after streamInForPlayer (streamed).  calls
\* says whether what it did last is dispatching a callback.
Pass(op, p, ps) ==
    [op |-> op, who |-> p, target |-> None, todo |-> ps, calls |-> TRUE]
Spectate(p, t) ==
    [op |-> "spectate", who |-> p, target |-> t, todo |-> {},
     calls |-> state[p] # "Spectating"]
Frames == [op     : {"stream", "restream", "spectate", "streamed"},
           who    : Slots,
           target : Slots \union {None},
           todo   : SUBSET Slots,
           calls  : BOOLEAN]

Top == stack[Len(stack)]
Pop == SubSeq(stack, 1, Len(stack) - 1)
SetTop(f) == [stack EXCEPT ![Len(stack)] = f]

\* Between operations: the pool and the network only act from here.
Idle == stack = << >> /\ leaving = None

Init ==
    /\ inPool = {}
    /\ leaving = None
    /\ state = [p \in Slots |-> "None"]
    /\ streamedFor = [p \in Slots |-> {p}]
    /\ numStreamed = [p \in Slots |-> 0]
    /\ spectating = [p \in Slots |-> FALSE]
    /\ spectateID = [p \in Slots |-> None]
    /\ colours = [p \in Slots |-> {}]
    /\ stack = << >>

-----------------------------------------------------------------------------
(* Streaming                                                                *)

Inc(n) == (n + 1) % CounterSize
Dec(n) == (n - 1) % CounterSize

\* streamInForPlayer without the limit.
StreamInAnyway(q, p) ==
    IF p \notin streamedFor[q]
    THEN /\ streamedFor' = [streamedFor EXCEPT ![q] = @ \union {p}]
         /\ numStreamed' = [numStreamed EXCEPT ![p] = Inc(@)]
    ELSE UNCHANGED <<streamedFor, numStreamed>>

\* q.streamInForPlayer(p): nothing if it is already, or if p's counter is
\* beyond MAX_STREAMED_PLAYERS.
StreamIn(q, p) ==
    IF p \notin streamedFor[q] /\ numStreamed[p] <= MaxStreamed
    THEN /\ streamedFor' = [streamedFor EXCEPT ![q] = @ \union {p}]
         /\ numStreamed' = [numStreamed EXCEPT ![p] = Inc(@)]
    ELSE UNCHANGED <<streamedFor, numStreamed>>

\* streamOutForPlayer without the test that the player is streamed in.
StreamOutTwice(q, p) ==
    /\ streamedFor' = [streamedFor EXCEPT ![q] = @ \ {p}]
    /\ numStreamed' = [numStreamed EXCEPT ![p] = Dec(@)]

\* q.streamOutForPlayer(p)
StreamOut(q, p) ==
    IF p \in streamedFor[q]
    THEN /\ streamedFor' = [streamedFor EXCEPT ![q] = @ \ {p}]
         /\ numStreamed' = [numStreamed EXCEPT ![p] = Dec(@)]
    ELSE UNCHANGED <<streamedFor, numStreamed>>

\* The end of a sync packet: onPlayerUpdate runs a streaming pass unless a
\* handler before the pool's refuses the update or no pass is due.
PlayerUpdate(p) ==
    \/ stack' = <<Pass("stream", p, inPool \ {p})>>
    \/ UNCHANGED stack

\* On foot, driver and passenger sync: setState, then the update.
Sync(p) ==
    /\ Idle
    /\ p \in inPool
    /\ state' = [state EXCEPT ![p] = "Present"]
    /\ PlayerUpdate(p)
    /\ UNCHANGED <<inPool, leaving, streamedFor, numStreamed, spectating,
                   spectateID, colours>>

\* Spectator sync is ignored from a player that is not spectating.
SpectatorSync(p) ==
    /\ Idle
    /\ p \in inPool
    /\ spectating[p]
    /\ state' = [state EXCEPT ![p] = "Spectating"]
    /\ PlayerUpdate(p)
    /\ UNCHANGED <<inPool, leaving, streamedFor, numStreamed, spectating,
                   spectateID, colours>>

\* One step of PlayerPool::onPlayerUpdate: player q may be seen by p when it
\* is in the world and, by position and virtual world, near enough.
StreamNext(q) ==
    /\ stack # << >>
    /\ Top.op = "stream"
    /\ q \in Top.todo
    /\ \E near \in BOOLEAN :
         LET seen == near /\ state[q] \notin {"Spectating", "None"}
         IN  IF seen THEN StreamIn(q, Top.who) ELSE StreamOut(q, Top.who)
    /\ stack' = SetTop([Top EXCEPT !.todo = @ \ {q},
                                   !.calls = (streamedFor' # streamedFor)])
    /\ UNCHANGED <<inPool, leaving, state, spectating, spectateID, colours>>

\* PlayerSpawn RPC: the player is streamed out for everyone that sees it.
PlayerSpawn(p) ==
    /\ Idle
    /\ p \in inPool
    /\ state' = [state EXCEPT ![p] = "Present"]
    /\ stack' = <<Pass("restream", p, inPool \ {p})>>
    /\ UNCHANGED <<inPool, leaving, streamedFor, numStreamed, spectating,
                   spectateID, colours>>

RestreamNext(q) ==
    /\ stack # << >>
    /\ Top.op = "restream"
    /\ q \in Top.todo
    /\ StreamOut(Top.who, q)
    /\ stack' = SetTop([Top EXCEPT !.todo = @ \ {q},
                                   !.calls = (streamedFor' # streamedFor)])
    /\ UNCHANGED <<inPool, leaving, state, spectating, spectateID, colours>>

EndPass ==
    /\ stack # << >>
    /\ Top.op \in {"stream", "restream"}
    /\ Top.todo = {}
    /\ stack' = Pop
    /\ UNCHANGED <<inPool, leaving, playerVars>>

-----------------------------------------------------------------------------
(* Scripts: from a callback of an operation in progress, or from a timer    *)
(* when there is none.                                                      *)

\* Whether a script is running that may use these players: those of the pool,
\* the leaver of the onPlayerDisconnect being dispatched among them.
Usable(ps) ==
    /\ stack # << >> => Top.calls
    /\ ps \subseteq inPool

\* Whether these players may be put into each other's records again: clearPlayer
\* has dropped what the others keep about the leaver, and nothing does so after
\* the callback.
Remembered(ps) == LateOps \/ leaving \notin ps

\* Whether p's spectating may be ended here.
MayToggle(p) ==
    NestedToggle \/ \A k \in DOMAIN stack :
        ~(stack[k].op \in {"spectate", "streamed"} /\ stack[k].who = p)

\* setSpectating that leaves the old target in place.
ToggleOnly(p, on) ==
    /\ Usable({p})
    /\ MayToggle(p)
    /\ spectating[p] # on
    /\ spectating' = [spectating EXCEPT ![p] = on]
    /\ UNCHANGED <<inPool, leaving, state, streamedFor, numStreamed, spectateID,
                   colours, stack>>

\* Player::setSpectating: no effect if the mode does not change.
SetSpectating(p, on) ==
    /\ Usable({p})
    /\ MayToggle(p)
    /\ spectating[p] # on
    /\ spectating' = [spectating EXCEPT ![p] = on]
    /\ spectateID' = IF on THEN spectateID
                     ELSE [spectateID EXCEPT ![p] = None]
    /\ UNCHANGED <<inPool, leaving, state, streamedFor, numStreamed, colours,
                   stack>>

\* Player::spawn ends spectating whatever the mode was.
Spawn(p) ==
    /\ Usable({p})
    /\ MayToggle(p)
    /\ spectating' = [spectating EXCEPT ![p] = FALSE]
    /\ spectateID' = [spectateID EXCEPT ![p] = None]
    /\ UNCHANGED <<inPool, leaving, state, streamedFor, numStreamed, colours,
                   stack>>

\* Player::spectatePlayer: spectator mode is set and the state changed, with
\* onPlayerStateChange; the target is streamed in, with onPlayerStreamIn; and
\* only then are the type and the id of what is spectated written.
SpectatePlayer(p, t) ==
    /\ Usable({p, t})
    /\ Remembered({p, t})
    /\ Len(stack) < MaxDepth
    /\ spectating' = [spectating EXCEPT ![p] = TRUE]
    /\ state' = [state EXCEPT ![p] = "Spectating"]
    /\ stack' = Append(stack, Spectate(p, t))
    /\ UNCHANGED <<inPool, leaving, streamedFor, numStreamed, spectateID,
                   colours>>

SpectateStreamIn ==
    /\ stack # << >>
    /\ Top.op = "spectate"
    /\ StreamIn(Top.target, Top.who)
    /\ stack' = SetTop([Top EXCEPT !.op = "streamed",
                                   !.calls = (streamedFor' # streamedFor)])
    /\ UNCHANGED <<inPool, leaving, state, spectating, spectateID, colours>>

SpectateSetTarget ==
    /\ stack # << >>
    /\ Top.op = "streamed"
    /\ spectateID' = [spectateID EXCEPT ![Top.who] = Top.target]
    /\ stack' = Pop
    /\ UNCHANGED <<inPool, leaving, state, streamedFor, numStreamed,
                   spectating, colours>>

\* Player::setOtherColour: p is shown t in a colour of its own.
NumColours == Cardinality({pt \in inPool \X Slots : pt[2] \in colours[pt[1]]})
SetOtherColour(p, t) ==
    /\ Usable({p, t})
    /\ Remembered({t})
    /\ t \in colours[p] \/ NumColours < MaxColours
    /\ colours' = [colours EXCEPT ![p] = @ \union {t}]
    /\ UNCHANGED <<inPool, leaving, state, streamedFor, numStreamed,
                   spectating, spectateID, stack>>

\* Player::setColour drops the colours others had for the player.
SetColour(p) ==
    /\ Usable({p})
    /\ colours' = [q \in Slots |-> IF q \in inPool THEN colours[q] \ {p}
                                   ELSE colours[q]]
    /\ UNCHANGED <<inPool, leaving, state, streamedFor, numStreamed,
                   spectating, spectateID, stack>>

-----------------------------------------------------------------------------
(* The pool                                                                 *)

\* The constructor and initPlayer, for each player of ps; freed slots keep
\* the values a new player will start from.
Fresh(ps) ==
    /\ state' = [p \in Slots |-> IF p \in ps THEN "None" ELSE state[p]]
    /\ streamedFor' = [p \in Slots |-> IF p \in ps THEN {p} ELSE streamedFor[p]]
    /\ numStreamed' = [p \in Slots |-> IF p \in ps THEN 0 ELSE numStreamed[p]]
    /\ spectating' = [p \in Slots |-> p \notin ps /\ spectating[p]]
    /\ spectateID' = [p \in Slots |-> IF p \in ps THEN None ELSE spectateID[p]]
    /\ colours' = [p \in Slots |-> IF p \in ps THEN {} ELSE colours[p]]

Join(p) ==
    /\ Idle
    /\ p \notin inPool
    /\ inPool' = inPool \union {p}
    /\ Fresh({p})
    /\ UNCHANGED <<leaving, stack>>

\* The players that a leaver's clearPlayer takes out of spectator mode.
InModeAndState(l) == {p \in inPool \ {l} :
    spectateID[p] = l /\ spectating[p] /\ state[p] = "Spectating"}
Watchers(l) == {p \in inPool \ {l} : spectateID[p] = l /\ spectating[p]}

\* What the other players keep about a leaver is dropped.
ForgetNobody(f, l) == f
Forget(f, l) == [p \in Slots |-> IF p \in inPool \ {l} THEN f[p] \ {l} ELSE f[p]]

\* PlayerPool::clearPlayer, before its dispatch of onPlayerDisconnect: every
\* other player stops spectating the leaver and forgets it.
BeginLeave(l) ==
    /\ Idle
    /\ l \in inPool
    /\ leaving' = l
    /\ LET seers == (inPool \ {l}) \intersect streamedFor[l]
       IN  numStreamed' = [p \in Slots |->
             IF p \in seers THEN Dec(numStreamed[p]) ELSE numStreamed[p]]
    /\ spectating' = [p \in Slots |-> spectating[p] /\ p \notin Watchers(l)]
    /\ spectateID' = [p \in Slots |->
         IF p \in Watchers(l) THEN None ELSE spectateID[p]]
    /\ streamedFor' = Forget(streamedFor, l)
    /\ colours' = Forget(colours, l)
    /\ UNCHANGED <<inPool, state, stack>>

\* A removal that leaves a reference to the player behind.
RemoveOnly ==
    /\ leaving # None
    /\ stack = << >>
    /\ inPool' = inPool \ {leaving}
    /\ Fresh({leaving})
    /\ UNCHANGED <<leaving, stack>>

\* After the dispatch: storage.remove.
EndLeave ==
    /\ leaving # None
    /\ stack = << >>
    /\ inPool' = inPool \ {leaving}
    /\ leaving' = None
    /\ Fresh({leaving})
    /\ UNCHANGED stack

\* Core::resetAll, when the gamemode changes: Player::reset of every player.
ResetAll ==
    /\ Idle
    /\ Fresh(inPool)
    /\ UNCHANGED <<inPool, leaving, stack>>

-----------------------------------------------------------------------------
StreamStep == \E q \in Slots : StreamNext(q) \/ RestreamNext(q)

Continue == StreamStep \/ EndPass \/ SpectateStreamIn \/ SpectateSetTarget
            \/ EndLeave

Next ==
    \/ Continue
    \/ ResetAll
    \/ \E p \in Slots :
         \/ Sync(p) \/ SpectatorSync(p) \/ PlayerSpawn(p)
         \/ \E on \in BOOLEAN : SetSpectating(p, on)
         \/ Spawn(p) \/ SetColour(p)
         \/ \E t \in Slots : SpectatePlayer(p, t) \/ SetOtherColour(p, t)
         \/ Join(p) \/ BeginLeave(p)

Spec == Init /\ [][Next]_vars

-----------------------------------------------------------------------------
(* Properties                                                               *)

TypeOK ==
    /\ inPool \subseteq Slots
    /\ leaving \in inPool \union {None}
    /\ state \in [Slots -> PlayerStates]
    /\ streamedFor \in [Slots -> SUBSET Slots]
    /\ numStreamed \in [Slots -> 0 .. CounterSize - 1]
    /\ spectating \in [Slots -> BOOLEAN]
    /\ spectateID \in [Slots -> Slots \union {None}]
    /\ colours \in [Slots -> SUBSET Slots]
    /\ stack \in Seq(Frames)

Staying == inPool \ {leaving}

\* The players q, other than p, that are streamed in for p.
StreamedTo(p) == {q \in Staying \ {p} : p \in streamedFor[q]}

\* numStreamed_ is exact: each counter is the number of players streamed in
\* for the player, in the middle of every operation, so it never underflows
\* and a leaver never uses up the limit of those that stay.
NumStreamedExact ==
    \A p \in Staying : numStreamed[p] = Cardinality(StreamedTo(p))

\* No client is shown more than MAX_STREAMED_PLAYERS + 1 players: the test is
\* made before the increment and with <=.
StreamLimit ==
    \A p \in Staying : Cardinality(StreamedTo(p)) <= MaxStreamed + 1

\* What players keep about others names players that stay: an id that is
\* freed and given to a new player brings no streaming state or colour along.
NoStaleReferences == \A p \in Staying :
    /\ p \in streamedFor[p]
    /\ streamedFor[p] \subseteq Staying
    /\ colours[p] \subseteq Staying

\* What p keeps about players that are not there, or are about to go.
Stale(p) == (streamedFor[p] \union colours[p]) \ Staying

\* Whatever scripts do, in any callback: a reference to a player that is not
\* there comes from one place only, the dispatch of that player's own
\* onPlayerDisconnect, after clearPlayer has made the others forget it.
StaleFromDispatchOnly ==
    [][\A p \in Staying' : Stale(p)' \subseteq Stale(p) \union ({leaving} \ {None})]_vars

\* The comment in clearPlayer: "This also makes spectateData values to be
\* accurate and not remain with old data".  Nobody's spectate data names a
\* player that has left.
NoStaleSpectate ==
    \A p \in Staying : spectateID[p] \in Staying \union {None}

\* Only a player in spectator mode has somebody to spectate, so that leaving
\* the mode, or the target's leaving, always clears it.
TargetNeedsMode == \A p \in Staying : spectateID[p] # None => spectating[p]

\* The ids are interchangeable (for TLC).
Symmetry == Permutations(Slots)
=============================================================================
