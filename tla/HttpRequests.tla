---------------------------- MODULE HttpRequests ----------------------------
(***************************************************************************)
(* HTTP requests of scripts: each waits for its answer in a thread of its  *)
(* own, the main loop polls them, and the handler calls the script back,   *)
(* which may be gone by then: HTTPAsyncIO and Core::run of                 *)
(* src/Server/Source/core_impl.hpp, and the handler of the Pawn native     *)
(* that asks by the address of the script's AMX whether it is still there. *)
(***************************************************************************)
EXTENDS Integers, FiniteSets

CONSTANTS
    Requests,   \* HTTPAsyncIO objects
    Scripts,    \* scripts, over time
    Addresses,  \* where an AMX may be
    None

VARIABLES
    loaded,     \* amxToScript_: the script at each address
    request,    \* of each request: its state, the script that asked, its amx
    calling,    \* the request whose callback runs
    answers,    \* how often each request of now was answered
    reused      \* addresses given to a script while a request of another
                \* script at that address was open

own == <<loaded, request, calling, answers, reused>>
vars == own

NoRequest == [state |-> "none", script |-> None, amx |-> None]

Init ==
    /\ loaded = [a \in Addresses |-> None]
    /\ request = [r \in Requests |-> NoRequest]
    /\ calling = None
    /\ answers = [r \in Requests |-> 0]
    /\ reused = {}

Open == {r \in Requests : request[r].state # "none"}

-----------------------------------------------------------------------------
LoadScript(s, a) ==
    /\ loaded[a] = None
    /\ \A b \in Addresses : loaded[b] # s
    /\ \A r \in Open : request[r].script # s
    /\ loaded' = [loaded EXCEPT ![a] = s]
    /\ reused' = IF \E r \in Open : request[r].amx = a THEN reused \union {a}
                 ELSE reused \ {a}
    /\ UNCHANGED <<request, calling, answers>>

\* A script is not unloaded while it runs.
UnloadScript(a) ==
    /\ loaded[a] # None
    /\ calling # None => request[calling].amx # a
    /\ loaded' = [loaded EXCEPT ![a] = None]
    /\ UNCHANGED <<request, calling, answers, reused>>

\* requestHTTP: the thread starts with the object.  A callback may put more
\* requests into the ordered set that run() goes through.
RequestHTTP(r, a) ==
    /\ request[r].state = "none"
    /\ loaded[a] # None
    /\ request' = [request EXCEPT ![r] =
                     [state |-> "runs", script |-> loaded[a], amx |-> a]]
    /\ answers' = [answers EXCEPT ![r] = 0]
    /\ UNCHANGED <<loaded, calling, reused>>

\* The end of threadProc: an answer, or an error that stands for one.
ThreadFinishes(r) ==
    /\ request[r].state = "runs"
    /\ request' = [request EXCEPT ![r].state = "finished"]
    /\ UNCHANGED <<loaded, calling, answers, reused>>

\* The main loop comes to a request that has finished.  The handler looks for
\* the script, and is freed.
TryExec(r) ==
    /\ calling = None
    /\ request[r].state = "finished"
    /\ IF loaded[request[r].amx] # None
       THEN calling' = r /\ answers' = [answers EXCEPT ![r] = @ + 1]
            /\ UNCHANGED request
       ELSE request' = [request EXCEPT ![r] = NoRequest]
            /\ UNCHANGED <<calling, answers>>
    /\ UNCHANGED <<loaded, reused>>

\* The callback has returned: the object is deleted and taken from the set.
Erase ==
    /\ calling # None
    /\ request' = [request EXCEPT ![calling] = NoRequest]
    /\ calling' = None
    /\ UNCHANGED <<loaded, answers, reused>>

Next ==
    \/ Erase
    \/ \E r \in Requests : ThreadFinishes(r) \/ TryExec(r)
    \/ \E a \in Addresses :
         \/ UnloadScript(a)
         \/ \E s \in Scripts : LoadScript(s, a)
         \/ \E r \in Requests : RequestHTTP(r, a)

Spec == Init /\ [][Next]_vars

-----------------------------------------------------------------------------
(* Properties                                                               *)

TypeOK ==
    /\ loaded \in [Addresses -> Scripts \union {None}]
    /\ request \in [Requests -> [state : {"none", "runs", "finished"},
                                 script : Scripts \union {None},
                                 amx : Addresses \union {None}]]
    /\ calling \in Open \union {None}
    /\ answers \in [Requests -> 0 .. 1]
    /\ reused \subseteq Addresses

\* A script is called back only while it is loaded, for a request of its own -
\* unless its AMX took the address of one that left a request open.
NoDangling ==
    /\ calling # None =>
         /\ loaded[request[calling].amx] # None
         /\ request[calling].amx \in reused
            \/ loaded[request[calling].amx] = request[calling].script
    /\ \A a \in Addresses : loaded[a] # None /\ a \notin reused =>
         \A r \in Open : request[r].amx = a => request[r].script = loaded[a]

\* A request is answered once, from a thread that is done.
AnsweredOnce == \A r \in Open :
    answers[r] = IF calling = r THEN 1 ELSE 0
=============================================================================
