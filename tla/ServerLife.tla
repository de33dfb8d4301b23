----------------------------- MODULE ServerLife -----------------------------
(***************************************************************************)
(* The life of the server (Core and ComponentList of core_impl.hpp): which *)
(* components it loads, the phases it leads them through, the pointers     *)
(* they take to each other, the restarts of the game mode with players on, *)
(* and the order in which everything is freed.                             *)
(***************************************************************************)
EXTENDS Naturals, FiniteSets

CONSTANTS
    Components,   \* the libraries in the folder
    High,         \* those whose names begin with $, loaded first
    Networks,     \* those that bring a network
    Twins,        \* those that have the UID of another
    Players,
    Careful       \* no component with a network has the UID of another

VARIABLES
    stage,      \* of the core
    waiting,    \* libraries not yet tried, or components the phase has not reached
    listed,     \* the components of the list
    networks,   \* components whose networks the core uses
    live,       \* components that exist
    phase,      \* the last phase each component was led through
    refs,       \* the components each has a pointer to
    reloading,  \* the game mode is being restarted
    players,    \* connected
    closed,     \* players whose client was told that the game is over
    handled     \* their sync packets are handled

own  == <<stage, waiting, listed, networks, live, phase, refs, reloading, closed, handled>>
vars == <<players, own>>
-----------------------------------------------------------------------------
Phases == <<"loaded", "configured", "onLoad", "onInit", "onReady">>
Place(s) == CHOOSE i \in DOMAIN Phases : Phases[i] = s

Init ==
    /\ stage = "loading"
    /\ waiting = Components
    /\ listed = {} /\ networks = {} /\ live = {}
    /\ phase = [c \in Components |-> 1]
    /\ refs = [c \in Components |-> {}]
    /\ reloading = FALSE
    /\ players = {} /\ closed = {}
    /\ handled = FALSE

\* addComponent: one with the UID of another is not listed, but its network is.
AddComponent(c) ==
    /\ live' = live \cup {c}
    /\ listed' = IF c \in Twins /\ listed \cap Twins # {} THEN listed ELSE listed \cup {c}
    /\ networks' = IF c \in Networks THEN networks \cup {c} ELSE networks

\* loadComponents: those of high priority first, the others after them; one that
\* is excluded, is no component, or was built for another version is left out.
LoadComponent(c) ==
    /\ stage = "loading"
    /\ c \in waiting
    /\ waiting \cap High # {} => c \in High
    /\ waiting' = waiting \ {c}
    /\ AddComponent(c) \/ UNCHANGED <<live, listed, networks>>
    /\ UNCHANGED <<players, stage, phase, refs, reloading, closed, handled>>

Enter(s, components) ==
    /\ stage' = s
    /\ waiting' = components
    /\ UNCHANGED <<players, listed, networks, live, phase, refs, reloading, closed>>

EndLoading ==
    /\ stage = "loading" /\ waiting = {}
    /\ Enter("configured", listed)
    /\ UNCHANGED handled

\* --default-config: the core is left after this phase.
DefaultConfig ==
    /\ stage = "configured" /\ waiting = {}
    /\ stage' = "freeing"
    /\ waiting' = listed
    /\ networks' = {}
    /\ UNCHANGED <<players, listed, live, phase, refs, reloading, closed, handled>>

\* A phase reaches the components one after the other; in onInit they ask for
\* each other.
Reach(c) ==
    /\ stage \in {"configured", "onLoad", "onInit", "onReady"}
    /\ c \in waiting
    /\ waiting' = waiting \ {c}
    /\ phase' = [phase EXCEPT ![c] = Place(stage)]
    /\ IF stage = "onInit"
       THEN \E others \in SUBSET listed : refs' = [refs EXCEPT ![c] = others \ {c}]
       ELSE UNCHANGED refs
    /\ UNCHANGED <<players, stage, listed, networks, live, reloading, closed, handled>>

EndPhase ==
    /\ waiting = {}
    /\ \/ stage = "configured" /\ Enter("onLoad", listed) /\ UNCHANGED handled
       \/ /\ stage = "onLoad"               \* players.init comes first
          /\ Enter("onInit", listed)
          /\ handled' = TRUE
       \/ stage = "onInit" /\ Enter("onReady", listed) /\ UNCHANGED handled
       \/ stage = "onReady" /\ Enter("running", {}) /\ UNCHANGED handled
-----------------------------------------------------------------------------
\* onPlayerConnect: the client is told of the game, and if that is just being
\* restarted, that it is over.
Connect(p) ==
    /\ stage = "running" /\ networks # {}
    /\ p \notin players
    /\ players' = players \cup {p}
    /\ closed' = IF reloading THEN closed \cup {p} ELSE closed
    /\ UNCHANGED <<stage, waiting, listed, networks, live, phase, refs, reloading, handled>>

Disconnect(p) ==
    /\ stage = "running" /\ p \in players
    /\ players' = players \ {p}
    /\ closed' = closed \ {p}
    /\ UNCHANGED <<stage, waiting, listed, networks, live, phase, refs, reloading, handled>>

\* The components are reset in any order, and keep what they have of each other.
ResetAll ==
    /\ stage = "running"
    /\ reloading' = TRUE
    /\ closed' = players
    /\ handled' = FALSE
    /\ UNCHANGED <<players, stage, waiting, listed, networks, live, phase, refs>>

ReloadAll ==
    /\ stage = "running" /\ reloading
    /\ handled' = TRUE
    /\ reloading' = FALSE
    /\ closed' = {}
    /\ UNCHANGED <<players, stage, waiting, listed, networks, live, phase, refs>>

\* stop, and the destructor: the players' extensions and the networks go first.
Stop ==
    /\ stage = "running"
    /\ stage' = "freeing"
    /\ waiting' = listed
    /\ networks' = {}
    /\ UNCHANGED <<players, listed, live, phase, refs, reloading, closed, handled>>

\* ComponentList::free: all that are left are told that one is freed, itself
\* included, before it is.
Free(c) ==
    /\ stage = "freeing"
    /\ c \in listed
    /\ refs' = [d \in Components |-> IF d \in listed THEN refs[d] \ {c} ELSE refs[d]]
    /\ live' = live \ {c}
    /\ listed' = listed \ {c}
    /\ waiting' = waiting \ {c}
    /\ UNCHANGED <<players, stage, networks, phase, reloading, closed, handled>>

Next ==
    \/ \E c \in Components : LoadComponent(c) \/ Reach(c) \/ Free(c)
    \/ EndLoading \/ DefaultConfig \/ EndPhase
    \/ \E p \in Players : Connect(p) \/ Disconnect(p)
    \/ ResetAll \/ ReloadAll \/ Stop

Spec == Init /\ [][Next]_vars
-----------------------------------------------------------------------------
TypeOK ==
    /\ stage \in {"loading", "configured", "onLoad", "onInit", "onReady", "running",
                  "freeing"}
    /\ UNION {waiting, listed, networks, live} \subseteq Components
    /\ phase \in [Components -> DOMAIN Phases]
    /\ refs \in [Components -> SUBSET Components]
    /\ players \subseteq Players /\ closed \subseteq players
    /\ {reloading, handled} \subseteq BOOLEAN

\* No component has a pointer to one that was freed, in whatever order they are,
\* so that none uses one in its own destructor; and the core uses no network
\* whose component it does not lead through its phases.
PointersAlive ==
    /\ \A c \in listed : refs[c] \subseteq live
    /\ networks \subseteq live
    /\ Careful => networks \subseteq listed

\* A component is in a phase only when all are through the one before, whatever
\* order they are reached in, so that whom it finds in onInit has been loaded.
PhasesInStep ==
    stage # "freeing" => \A c, d \in listed : phase[c] <= phase[d] + 1

\* While the game mode restarts, every client knows that its game is over, those
\* that connect meanwhile included, and nobody's packets are handled; when it is
\* through all play again.
ClientsInStep ==
    stage = "running" =>
        /\ closed = IF reloading THEN players ELSE {}
        /\ handled = ~reloading
=============================================================================
