------------------------------- MODULE Fixes -------------------------------
(***************************************************************************)
(* The Fixes component (src/Server/Components/Fixes/fixes.cpp), three      *)
(* things that do not touch each other, of which a behaviour follows one.  *)
(* An animation of a library that a client has not loaded is applied again *)
(* half a second later, by timers that each take the front of one queue    *)
(* for all players; its targets are players and actors.  Game texts are    *)
(* text draws of the player they are for, among those of the scripts, and  *)
(* each has a timer that hides it.  And while a player is dead a timer     *)
(* gives it back the money that its client takes.                          *)
(***************************************************************************)
EXTENDS Integers, Sequences, SequencesExt, FiniteSets

CONSTANTS
    Players,      \* players that may be connected
    Actors,       \* actors that may exist
    MaxQueue,     \* animations that wait (a bound)
    Timer,        \* timers that may hide a game text
    None,
    Careful       \* scripts release only text draws of theirs and leave the
                  \* money of the dead alone, and no client reports its money
                  \* in the last moment before it spawns

Targets == Players \union Actors
Anims   == {1, 2}  \* an animation is the number of its library
Nothing == 0       \* no animation

DrawIds == 0 .. 1     \* the ids of a player's text draws (a bound)
Styles  == {"style1", "style2"}  \* of game texts (a bound)
Texts   == {1, 2}
Times   == {1, 2}     \* how long a game text is shown
Script  == "script"   \* whose text draws are not game texts

NoDraw  == [owner |-> "nobody", text |-> 0, look |-> "none", shown |-> FALSE]
NoTimer == [style |-> "none", left |-> 0, running |-> FALSE]
NoText  == [text |-> 0, left |-> 0]

VARIABLES
    players,  \* the players that have a PlayerFixesData
    actors,   \* the actors in the pool
    queue,    \* animationToReapply_: whose client, about whom, and what
    timers,   \* the animation timers that run
    saw,      \* libraries_ of each player
    view,     \* what each client was told last of each target
    uncleared, \* players whose death cleared their tasks alone
    about,    \* what the behaviour follows
    here,     \* the player of the game texts and the money is connected
    draws,    \* its text draws: whose they are, text, look, and is it shown
    gts,      \* gts_: of each style the text draw
    gtTimers, \* gtTimers_: and the timer that hides it
    timer,    \* the style each timer hides, the time left, and does it run
    screen,   \* the text draws the client shows
    asked,    \* history: of each style the text last sent, and its time left
    money,    \* the player's money, the client's, and that of the last death
    dead,     \* the client waits to spawn
    moneyTimer, \* the timer of the money runs
    due       \* history: the money the scripts have given

animationVars == <<actors, queue, timers, saw, view, uncleared>>
textVars  == <<draws, gts, gtTimers, timer, screen, asked>>
moneyVars == <<money, dead, moneyTimer, due>>
own  == <<about, here, animationVars, textVars, moneyVars>>
vars == <<players, own>>

Init ==
    /\ players = {}
    /\ actors = {}
    /\ queue = <<>>
    /\ timers = 0
    /\ saw = [p \in Players |-> {}]
    /\ view = [p \in Players |-> [t \in Targets |-> Nothing]]
    /\ uncleared = {}
    /\ about \in {"animations", "texts", "money"}
    /\ here = FALSE
    /\ draws = [i \in DrawIds |-> NoDraw]
    /\ gts = [s \in Styles |-> None]
    /\ gtTimers = [s \in Styles |-> None]
    /\ timer = [h \in Timer |-> NoTimer]
    /\ screen = [i \in DrawIds |-> NoDraw]
    /\ asked = [s \in Styles |-> NoText]
    /\ money = [server |-> 1, client |-> 1, kept |-> 0]
    /\ dead = FALSE /\ moneyTimer = FALSE
    /\ due = 1

-----------------------------------------------------------------------------
Mapped(f(_)) == [i \in DOMAIN queue |-> f(queue[i])]

\* clearAnimation: what waits for a target is blanked, and still popped.
Blanked(t) == LET Blank(e) == IF e.target = t THEN [e EXCEPT !.target = None] ELSE e
              IN  Mapped(Blank)

\* The destructor, and reset(): what waits for the player's client, or is
\* about the player, is blanked.
Without(p) == LET Drop(e) == [e EXCEPT !.viewer = IF @ = p THEN None ELSE @,
                                       !.target = IF @ = p THEN None ELSE @]
              IN  Mapped(Drop)


Connect(p) ==
    /\ p \notin players
    /\ players' = players \union {p}
    /\ UNCHANGED animationVars

Disconnect(p) ==
    /\ p \in players
    /\ players' = players \ {p}
    /\ queue' = Without(p)
    /\ saw' = [saw EXCEPT ![p] = {}]
    /\ view' = [q \in Players |-> IF q = p THEN [t \in Targets |-> Nothing]
                                  ELSE [view[q] EXCEPT ![p] = Nothing]]
    /\ uncleared' = uncleared \ {p}
    /\ UNCHANGED <<actors, timers>>

CreateActor(a) ==
    /\ a \notin actors
    /\ actors' = actors \union {a}
    /\ UNCHANGED <<players, queue, timers, saw, view, uncleared>>

ReleaseActor(a) ==
    /\ a \in actors
    /\ actors' = actors \ {a}
    /\ queue' = Blanked(a)
    /\ view' = [p \in Players |-> [view[p] EXCEPT ![a] = Nothing]]
    /\ UNCHANGED <<players, timers, saw, uncleared>>

\* A restart: the actors go without a word, and every player is reset.
Reset ==
    /\ actors' = {}
    /\ queue' = [i \in DOMAIN queue |-> [queue[i] EXCEPT !.viewer = None,
                   !.target = IF @ \in Players THEN None ELSE @]]
    /\ view' = [p \in Players |-> [t \in Targets |-> Nothing]]
    /\ uncleared' = {}
    /\ UNCHANGED <<players, timers, saw>>

Alive(t) == t \in players \union actors

\* applyAnimation of a player or an actor: what waits for it is blanked, some
\* clients are told, and those that have not seen the library get it again.
ApplyAnimation(t, viewers, a) ==
    /\ Alive(t)
    /\ viewers \subseteq players
    /\ LET again == {p \in viewers : a \notin saw[p]}
           more  == SetToSeq({[viewer |-> p, target |-> t, anim |-> a] : p \in again})
       IN  /\ Len(queue) + Cardinality(again) =< MaxQueue
           /\ queue' = Blanked(t) \o more
           /\ timers' = timers + Cardinality(again)
    /\ view' = [p \in Players |->
                  IF p \in viewers THEN [view[p] EXCEPT ![t] = a] ELSE view[p]]
    /\ uncleared' = uncleared \ {t}
    /\ UNCHANGED <<players, actors, saw>>

\* clearTasks, clearAnimations.
ClearAnimations(t, viewers) ==
    /\ Alive(t)
    /\ viewers \subseteq players
    /\ queue' = Blanked(t)
    /\ view' = [p \in Players |->
                  IF p \in viewers THEN [view[p] EXCEPT ![t] = Nothing] ELSE view[p]]
    /\ uncleared' = uncleared \ {t}
    /\ UNCHANGED <<players, actors, timers, saw>>

\* onPlayerDeath tells the dead player's client to clear its tasks, and leaves
\* what waits for it.
OnPlayerDeath(p) ==
    /\ p \in players
    /\ view' = [view EXCEPT ![p][p] = Nothing]
    /\ uncleared' = uncleared \union {p}
    /\ UNCHANGED <<players, actors, queue, timers, saw>>

\* A timer fires, whichever: the front of the queue is applied again and its
\* library known from now on.
AnimationTimer ==
    /\ timers > 0
    /\ timers' = timers - 1
    /\ queue' = Tail(queue)
    /\ LET e == Head(queue)
       IN  /\ saw' = IF e.viewer = None THEN saw
                     ELSE [saw EXCEPT ![e.viewer] = @ \union {e.anim}]
           /\ view' = IF e.viewer = None \/ e.target = None THEN view
                      ELSE [view EXCEPT ![e.viewer][e.target] = e.anim]
    /\ UNCHANGED <<players, actors, uncleared>>

-----------------------------------------------------------------------------
(* Game texts                                                               *)

\* release() of the player's text draws: the client is told to hide it.
Released(i) == [draws EXCEPT ![i] = NoDraw]

\* doHideGameText, as far as it leaves the text draws, the timers and the screen.
WithoutDraw(f, s) == IF gts[s] = None THEN f ELSE [f EXCEPT ![gts[s]] = NoDraw]
Killed(s) ==
    IF gtTimers[s] = None THEN timer ELSE [timer EXCEPT ![gtTimers[s]].running = FALSE]

DoHideGameText(s) ==
    /\ draws'    = WithoutDraw(draws, s)
    /\ screen'   = WithoutDraw(screen, s)
    /\ timer'    = Killed(s)
    /\ gts'      = [gts EXCEPT ![s] = None]
    /\ gtTimers' = [gtTimers EXCEPT ![s] = None]

\* What the setters make of a new text draw before it is shown.
Dressed(s, text) == [owner |-> s, text |-> text, look |-> s, shown |-> TRUE]

\* sendGameText: the text of the style goes first; without a free text draw the
\* new one is not shown.
SendGameText(s, text, time) ==
    /\ here
    /\ LET free == {i \in DrawIds : WithoutDraw(draws, s)[i] = NoDraw}
           i    == CHOOSE i \in free : \A j \in free : i <= j
       IN  IF free = {}
           THEN DoHideGameText(s) /\ asked' = [asked EXCEPT ![s] = NoText]
           ELSE \E h \in {h \in Timer : timer[h] = NoTimer} :
                  /\ draws'    = [WithoutDraw(draws, s) EXCEPT ![i] = Dressed(s, text)]
                  /\ screen'   = [WithoutDraw(screen, s) EXCEPT ![i] = Dressed(s, text)]
                  /\ timer'    = [Killed(s) EXCEPT ![h] =
                                    [style |-> s, left |-> time, running |-> TRUE]]
                  /\ gts'      = [gts EXCEPT ![s] = i]
                  /\ gtTimers' = [gtTimers EXCEPT ![s] = h]
                  /\ asked'    = [asked EXCEPT ![s] = [text |-> text, left |-> time]]
    /\ UNCHANGED here

HideGameText(s) ==
    /\ here
    /\ DoHideGameText(s)
    /\ asked' = [asked EXCEPT ![s] = NoText]
    /\ UNCHANGED here

\* The timers' tick: one that was killed is deleted, one whose time is up hides
\* the text of its style, and is deleted then.
DeleteTimer(h) ==
    /\ timer[h] # NoTimer /\ ~timer[h].running
    /\ timer' = [timer EXCEPT ![h] = NoTimer]
    /\ UNCHANGED <<here, draws, gts, gtTimers, screen, asked>>

HideTimer(h) ==
    /\ timer[h].running /\ timer[h].left = 0
    /\ DoHideGameText(timer[h].style)
    /\ UNCHANGED <<here, asked>>

PassTime ==
    /\ \A h \in Timer : timer[h].running => timer[h].left > 0
    /\ \E h \in Timer : timer[h].running
    /\ timer' = [h \in Timer |-> IF timer[h].running
                   THEN [timer[h] EXCEPT !.left = @ - 1] ELSE timer[h]]
    /\ asked' = [s \in Styles |-> IF asked[s].left < 2 THEN NoText
                   ELSE [asked[s] EXCEPT !.left = @ - 1]]
    /\ UNCHANGED <<here, draws, gts, gtTimers, screen>>

\* The text draws of the scripts, in the same pool.
CreateDraw(i, text) ==
    /\ here
    /\ draws[i] = NoDraw /\ \A j \in DrawIds : j < i => draws[j] # NoDraw
    /\ draws' = [draws EXCEPT ![i] =
                   [owner |-> Script, text |-> text, look |-> Script, shown |-> FALSE]]
    /\ UNCHANGED <<here, gts, gtTimers, timer, screen, asked>>

ShowDraw(i) ==
    /\ draws[i].owner = Script
    /\ draws' = [draws EXCEPT ![i].shown = TRUE]
    /\ screen' = [screen EXCEPT ![i] = draws'[i]]
    /\ UNCHANGED <<here, gts, gtTimers, timer, asked>>

DestroyDraw(i) ==
    /\ draws[i] # NoDraw
    /\ Careful => draws[i].owner = Script
    /\ draws' = Released(i)
    /\ screen' = [screen EXCEPT ![i] = NoDraw]
    /\ UNCHANGED <<here, gts, gtTimers, timer, asked>>

\* reset(), of the player's text draws and of the fixes, in a restart or when
\* the player leaves: the client is told nothing, as it starts again.
Forget ==
    /\ draws' = [i \in DrawIds |-> NoDraw]
    /\ screen' = [i \in DrawIds |-> NoDraw]
    /\ timer' = [h \in Timer |-> IF \E s \in Styles : gtTimers[s] = h
                   THEN [timer[h] EXCEPT !.running = FALSE] ELSE timer[h]]
    /\ gts' = [s \in Styles |-> None]
    /\ gtTimers' = [s \in Styles |-> None]
    /\ asked' = [s \in Styles |-> NoText]

TextStep ==
    \/ \E s \in Styles :
          \/ HideGameText(s)
          \/ \E text \in Texts, time \in Times : SendGameText(s, text, time)
    \/ \E h \in Timer : DeleteTimer(h) \/ HideTimer(h)
    \/ PassTime
    \/ \E i \in DrawIds :
          \/ ShowDraw(i) \/ DestroyDraw(i)
          \/ \E text \in Texts : CreateDraw(i, text)

-----------------------------------------------------------------------------
(* Money                                                                    *)

Amounts == 0 .. 2  \* (a bound)

\* setMoney, of a script.
GiveMoney(n) ==
    /\ here
    /\ Careful => ~dead
    /\ money' = [money EXCEPT !.server = n, !.client = n]
    /\ due' = n
    /\ UNCHANGED <<here, dead, moneyTimer>>

\* onPlayerDeath, as often as the client says that it has died.
StartMoneyTimer ==
    /\ here
    /\ Careful /\ dead => money.server = money.kept
    /\ dead' = TRUE
    /\ money' = [money EXCEPT !.kept = money.server]
    /\ moneyTimer' = TRUE
    /\ UNCHANGED <<here, due>>

\* What the game takes from the dead, and the client's report of its money.
Deduct ==
    /\ dead /\ money.client > 0
    /\ money' = [money EXCEPT !.client = @ - 1]
    /\ UNCHANGED <<here, dead, moneyTimer, due>>

ReportMoney ==
    /\ here
    /\ money' = [money EXCEPT !.server = money.client]
    /\ UNCHANGED <<here, dead, moneyTimer, due>>

MoneyTimer ==
    /\ moneyTimer
    /\ money' = [money EXCEPT !.server = money.kept, !.client = money.kept]
    /\ UNCHANGED <<here, dead, moneyTimer, due>>

\* onPlayerSpawn
StopMoneyTimer ==
    /\ here
    /\ Careful /\ dead => money.server = money.kept
    /\ dead' = FALSE
    /\ moneyTimer' = FALSE
    /\ money' = IF moneyTimer THEN [money EXCEPT !.client = money.server] ELSE money
    /\ UNCHANGED <<here, due>>

\* reset() leaves the player without money, who has to spawn again.
LoseMoney ==
    /\ money' = [money EXCEPT !.server = 0, !.client = 0]
    /\ due' = 0
    /\ dead' = FALSE /\ moneyTimer' = FALSE

MoneyStep ==
    \/ StartMoneyTimer \/ Deduct \/ ReportMoney \/ MoneyTimer \/ StopMoneyTimer
    \/ \E n \in Amounts : GiveMoney(n)

\* The player of the texts and the money comes, goes, or sees a restart.
Arrive ==
    /\ ~here
    /\ here' = TRUE
    /\ UNCHANGED <<textVars, moneyVars>>

StartAgain ==
    /\ here' \in BOOLEAN
    /\ Forget
    /\ LoseMoney

-----------------------------------------------------------------------------
AnimationStep ==
    \/ AnimationTimer \/ Reset
    \/ \E p \in Players : Connect(p) \/ Disconnect(p) \/ OnPlayerDeath(p)
    \/ \E a \in Actors : CreateActor(a) \/ ReleaseActor(a)
    \/ \E t \in Targets, viewers \in SUBSET Players :
         \/ ClearAnimations(t, viewers)
         \/ \E a \in Anims : ApplyAnimation(t, viewers, a)

Next ==
    /\ UNCHANGED about
    /\ \/ /\ about = "animations" /\ AnimationStep
          /\ UNCHANGED <<here, textVars, moneyVars>>
       \/ /\ about = "texts" /\ TextStep
          /\ UNCHANGED <<players, animationVars, moneyVars>>
       \/ /\ about = "money" /\ MoneyStep
          /\ UNCHANGED <<players, animationVars, textVars>>
       \/ /\ about # "animations" /\ (Arrive \/ (here /\ StartAgain))
          /\ UNCHANGED <<players, animationVars>>

Spec == Init /\ [][Next]_vars

-----------------------------------------------------------------------------
(* Properties                                                               *)

Entries == [viewer : players \union {None}, target : Targets \union {None},
            anim : Anims]

TypeOK ==
    /\ players \subseteq Players
    /\ actors \subseteq Actors
    /\ Len(queue) =< MaxQueue /\ Range(queue) \subseteq Entries
    /\ timers \in 0 .. MaxQueue
    /\ saw \in [Players -> SUBSET Anims]
    /\ view \in [Players -> [Targets -> Anims \union {Nothing}]]
    /\ uncleared \subseteq players
    /\ \A f \in {draws, screen} : \A i \in DrawIds :
          f[i].owner \in Styles \cup {Script, "nobody"}
    /\ gts \in [Styles -> DrawIds \cup {None}]
    /\ gtTimers \in [Styles -> Timer \cup {None}]
    /\ \A h \in Timer : timer[h].left \in {0} \cup Times /\ timer[h].style \in Styles \cup {"none"}
    /\ asked \in [Styles -> [text : Texts \cup {0}, left : {0} \cup Times]]
    /\ money \in [server : Amounts, client : Amounts, kept : Amounts]
    /\ {here, dead, moneyTimer} \subseteq BOOLEAN /\ due \in Amounts

\* A timer finds an entry, one per timer, and what it applies again is about
\* somebody that is still there; a game text has its text draw and one timer,
\* and no other timer hides its style.
NoDangling ==
    /\ \A s \in Styles :
         /\ gts[s] # None => draws[gts[s]].owner = s
         /\ {h \in Timer : timer[h].running /\ timer[h].style = s} = {gtTimers[s]} \ {None}
         /\ gtTimers[s] # None <=> gts[s] # None
    /\ timers = Len(queue)
    /\ \A e \in Range(queue) :
         e.viewer # None /\ e.target # None => Alive(e.target)

\* "the latest animation is never accidentally wiped out": what waits is the
\* last that its client was told of its target - except of one that died.
ViewExact == \A e \in Range(queue) :
    e.viewer # None /\ e.target \notin uncleared \union {None}
        => view[e.viewer][e.target] = e.anim

\* A game text is on the client's screen, in the look of its style, for the time
\* it was sent for, unless it was hidden or another was sent in that style; and
\* besides the scripts' text draws nothing else is.
TextsExact ==
    /\ screen = [i \in DrawIds |-> IF draws[i].shown THEN draws[i] ELSE NoDraw]
    /\ \A s \in Styles :
         IF asked[s] # NoText
         THEN gts[s] # None /\ screen[gts[s]] = Dressed(s, asked[s].text)
         ELSE gtTimers[s] # None => timer[gtTimers[s]].left = 0

\* "Reset the player's money to what it was before they died": once it has
\* spawned again the server and the client have what the scripts gave.
MoneyKept ==
    here /\ ~dead => money.server = due /\ money.client = due
=============================================================================
