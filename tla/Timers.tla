------------------------------- MODULE Timers -------------------------------
(***************************************************************************)
(* Timers: the list that the tick walks while callbacks add to it and kill *)
(* what is in it (src/Server/Components/Timers), and above it the handlers *)
(* of scripts' timers with the ids scripts know them by                    *)
(* (src/Server/Components/Pawn/timers.cpp).                                *)
(***************************************************************************)
EXTENDS Integers, Sequences, Functions

CONSTANTS
    Timer,     \* timer objects
    Scripts,   \* scripts, each with an AMX of its own
    TimerIds,  \* 1 .. UINT_MAX (a bound)
    Careful,   \* whether the arguments given to SetTimerEx fit its format
    None

VARIABLES
    loaded,    \* the scripts loaded
    timers,    \* the list of the component
    timer,     \* of each timer in it: running_, count_, the script its
               \* handler calls, and the handler's poolID
    orphans,   \* timers in it whose handler was deleted
    pool,      \* of each id: the timer it leads to
    idx,       \* the id that insert tries first
    cursor,    \* the place in the list of the tick that runs, or 0
    fired,     \* how often each timer was called (up to 2)
    callback   \* the timer whose callback runs

own == <<loaded, timers, timer, orphans, pool, idx, cursor, fired, callback>>
vars == own

NoTimer == [running |-> FALSE, left |-> 0, script |-> None, id |-> 0]

Init ==
    /\ loaded = {}
    /\ timers = <<>>
    /\ timer = [t \in Timer |-> NoTimer]
    /\ orphans = {}
    /\ pool = [i \in TimerIds |-> None]
    /\ idx = 1
    /\ cursor = 0
    /\ fired = [t \in Timer |-> 0]
    /\ callback = None

-----------------------------------------------------------------------------
(* Scripts, between ticks and in callbacks                                  *)

NextId(i) == IF i + 1 \in TimerIds THEN i + 1 ELSE 1

\* The first free id from idx on, around the end; 0 when there is none.
FreeId == LET free  == {i \in TimerIds : pool[i] = None}
              ahead == {i \in free : i >= idx}
              least(S) == CHOOSE i \in S : \A j \in S : i <= j
          IN  IF ahead # {} THEN least(ahead)
              ELSE IF free # {} THEN least(free) ELSE 0

NewTimer(t, s, repeating) ==
    /\ s \in loaded
    /\ t \notin Range(timers)
    /\ timers' = Append(timers, t)
    /\ timer' = [timer EXCEPT ![t] =
                   [running |-> TRUE, left |-> IF repeating THEN 0 ELSE 1,
                    script |-> s, id |-> FreeId]]
    /\ IF FreeId # 0
       THEN pool' = [pool EXCEPT ![FreeId] = t] /\ idx' = NextId(FreeId)
       ELSE UNCHANGED <<pool, idx>>
    /\ fired' = [fired EXCEPT ![t] = 0]
    /\ UNCHANGED <<loaded, cursor, callback>>

\* SetTimer, SetTimerEx: once, or again and again.  With no id left the timer
\* runs all the same, and the script gets 0.
SetTimer(t, s, repeating) ==
    /\ NewTimer(t, s, repeating)
    /\ UNCHANGED orphans

\* SetTimerEx whose arguments do not parse: the script gets 0 and the handler is
\* deleted, but neither the timer, which goes on with it, nor its id.
SetTimerExFails(t, s, repeating) ==
    /\ ~Careful
    /\ NewTimer(t, s, repeating)
    /\ orphans' = orphans \union {t}

\* The memory of a deleted handler comes to hold something else.
Overwritten(t, s, i) ==
    /\ t \in orphans
    /\ timer' = [timer EXCEPT ![t].script = s, ![t].id = i]
    /\ UNCHANGED <<loaded, timers, orphans, pool, idx, cursor, fired, callback>>

KillTimer(i) ==
    /\ pool[i] # None
    /\ timer[pool[i]].running
    /\ timer' = [timer EXCEPT ![pool[i]].running = FALSE]
    /\ UNCHANGED <<loaded, timers, orphans, pool, idx, cursor, fired, callback>>

LoadScript(s) ==
    /\ s \notin loaded
    /\ loaded' = loaded \union {s}
    /\ UNCHANGED <<timers, timer, orphans, pool, idx, cursor, fired, callback>>

\* closeAMX: killTimers takes the timers that have an id.  A script is not
\* unloaded while it runs.
UnloadScript(s) ==
    /\ s \in loaded
    /\ callback # None => timer[callback].script # s
    /\ loaded' = loaded \ {s}
    /\ timer' = [t \in Timer |->
         IF timer[t].script = s /\ \E i \in TimerIds : pool[i] = t
         THEN [timer[t] EXCEPT !.running = FALSE] ELSE timer[t]]
    /\ UNCHANGED <<timers, orphans, pool, idx, cursor, fired, callback>>

-----------------------------------------------------------------------------
(* TimersComponent::onTick                                                  *)

Tick ==
    /\ cursor = 0
    /\ timers # <<>>
    /\ cursor' = 1
    /\ UNCHANGED <<loaded, timers, timer, orphans, pool, idx, fired, callback>>

Visit(due) ==
    /\ cursor \in DOMAIN timers
    /\ callback = None
    /\ timer[timers[cursor]].running
    /\ LET t == timers[cursor]
       IN  IF due
           THEN /\ callback' = t
                /\ fired' = [fired EXCEPT ![t] = IF @ = 2 THEN 2 ELSE @ + 1]
                /\ UNCHANGED cursor
           ELSE /\ cursor' = cursor + 1
                /\ UNCHANGED <<callback, fired>>
    /\ UNCHANGED <<loaded, timers, timer, orphans, pool, idx>>

\* The timer is deleted, and its handler with it, which gives its id back.
Deleted(t) ==
    /\ timers' = SubSeq(timers, 1, cursor - 1) \o SubSeq(timers, cursor + 1, Len(timers))
    /\ timer' = [timer EXCEPT ![t] = NoTimer]
    /\ orphans' = orphans \ {t}
    /\ pool' = [i \in TimerIds |-> IF i = timer[t].id THEN None ELSE pool[i]]
    /\ UNCHANGED cursor

VisitKilled ==
    /\ cursor \in DOMAIN timers
    /\ callback = None
    /\ ~timer[timers[cursor]].running
    /\ Deleted(timers[cursor])
    /\ UNCHANGED <<loaded, idx, fired, callback>>

\* trigger(), after the callback, which may have killed the timer.
Trigger ==
    /\ callback # None
    /\ LET t == callback
       IN  IF timer[t].running /\ timer[t].left = 0
           THEN cursor' = cursor + 1 /\ UNCHANGED <<timers, timer, orphans, pool>>
           ELSE Deleted(t)
    /\ callback' = None
    /\ UNCHANGED <<loaded, idx, fired>>

TickEnds ==
    /\ cursor > Len(timers)
    /\ cursor' = 0
    /\ UNCHANGED <<loaded, timers, timer, orphans, pool, idx, fired, callback>>

Next ==
    \/ Tick \/ VisitKilled \/ Trigger \/ TickEnds
    \/ \E due \in BOOLEAN : Visit(due)
    \/ \E i \in TimerIds : KillTimer(i)
    \/ \E s \in Scripts :
         \/ LoadScript(s) \/ UnloadScript(s)
         \/ \E t \in Timer, repeating \in BOOLEAN :
              SetTimer(t, s, repeating) \/ SetTimerExFails(t, s, repeating)
         \/ \E t \in Timer, i \in TimerIds \union {0} : Overwritten(t, s, i)

Spec == Init /\ [][Next]_vars

-----------------------------------------------------------------------------
(* Properties                                                               *)

TypeOK ==
    /\ loaded \subseteq Scripts
    /\ timers \in Seq(Timer)
    /\ IsInjective(timers)
    /\ timer \in [Timer -> [running : BOOLEAN, left : 0 .. 1,
                            script : Scripts \union {None},
                            id : TimerIds \union {0}]]
    /\ orphans \subseteq Range(timers)
    /\ pool \in [TimerIds -> Timer \union {None}]
    /\ idx \in TimerIds
    /\ cursor \in 0 .. Len(timers) + 1
    /\ fired \in [Timer -> 0 .. 2]
    /\ callback \in Range(timers) \union {None}

\* Ids lead to the timers that carry them, and to nothing that was deleted.
IdsExact ==
    /\ \A i \in TimerIds : pool[i] # None =>
         pool[i] \in Range(timers) /\ timer[pool[i]].id = i
    /\ \A t \in Range(timers) : timer[t].id # 0 => pool[timer[t].id] = t

\* No timer outlives its script so as to call it, unless the ids had run out
\* when it was made: killTimers looks for timers among the ids.  None goes on with
\* a handler that was deleted.
NoDangling ==
    /\ \A t \in Range(timers) :
         timer[t].running /\ timer[t].id # 0 => timer[t].script \in loaded
    /\ orphans = {}

\* A timer that does not repeat is called once, whatever its callback does.
CalledOnce == \A t \in Range(timers) :
    timer[t].left = 1 =>
        fired[t] = IF callback = t THEN 1 ELSE 0
=============================================================================
