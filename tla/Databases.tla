----------------------------- MODULE Databases -----------------------------
(***************************************************************************)
(* Connections to SQLite files and the result sets of their queries:       *)
(* src/Server/Components/Databases.  A result set copies the rows that     *)
(* SQLite hands it one by one, and lives until a script frees it, longer   *)
(* than its connection if the script wants; one whose query fails, after   *)
(* any number of rows, is freed at once.                                   *)
(***************************************************************************)
EXTENDS Integers, FiniteSets, FiniteSetsExt

CONSTANTS
    Connections,    \* ids of connections
    ResultSets,     \* ids of result sets
    MaxRows,        \* bound on the rows of a query
    None

VARIABLES
    connected,      \* databaseConnections
    resultSet,      \* databaseResultSets: rows left, rows counted
    executing,      \* the query that sqlite3_exec runs: connection, result set
    handles         \* of each id that a script got: rows its query had, rows
                    \* that the script passed

own == <<connected, resultSet, executing, handles>>
vars == own

NoSet == [used |-> FALSE, rows |-> 0, rowCount |-> 0]
NoHandle == [given |-> FALSE, had |-> 0, passed |-> 0]

Init ==
    /\ connected = {}
    /\ resultSet = [s \in ResultSets |-> NoSet]
    /\ executing = None
    /\ handles = [s \in ResultSets |-> NoHandle]

Free == {s \in ResultSets : ~resultSet[s].used}

-----------------------------------------------------------------------------
\* No script runs while SQLite does.
Open ==
    /\ executing = None
    /\ connected # Connections
    /\ connected' = connected \union {Min(Connections \ connected)}
    /\ UNCHANGED <<resultSet, executing, handles>>

\* A result set outlives its connection.
Close(c) ==
    /\ executing = None
    /\ c \in connected
    /\ connected' = connected \ {c}
    /\ UNCHANGED <<resultSet, executing, handles>>

\* executeQuery takes the first free result set; without one there is no query.
ExecuteQuery(c) ==
    /\ executing = None
    /\ c \in connected
    /\ Free # {}
    /\ executing' = [connection |-> c, set |-> Min(Free), rows |-> 0]
    /\ resultSet' = [resultSet EXCEPT ![Min(Free)] =
                       [used |-> TRUE, rows |-> 0, rowCount |-> 0]]
    /\ UNCHANGED <<connected, handles>>

\* queryStepExecuted: one row.
AddRow ==
    /\ executing # None
    /\ executing.rows < MaxRows
    /\ executing' = [executing EXCEPT !.rows = @ + 1]
    /\ resultSet' = [resultSet EXCEPT ![executing.set].rows = @ + 1,
                                      ![executing.set].rowCount = @ + 1]
    /\ UNCHANGED <<connected, handles>>

FreedSet(s) == [resultSet EXCEPT ![s] = NoSet]

\* A row that names a column twice is dropped and aborts the query; SQLite may
\* fail at any row too.  The rows copied so far go with the result set.
Fail ==
    /\ executing # None
    /\ resultSet' = FreedSet(executing.set)
    /\ executing' = None
    /\ UNCHANGED <<connected, handles>>

Succeed ==
    /\ executing # None
    /\ handles' = [handles EXCEPT ![executing.set] =
                     [given |-> TRUE, had |-> executing.rows, passed |-> 0]]
    /\ executing' = None
    /\ UNCHANGED <<connected, resultSet>>

\* The row before the first call is the first one; past the last there is none.
SelectNextRow(s) ==
    /\ executing = None
    /\ handles[s].given
    /\ resultSet[s].rows > 0
    /\ resultSet' = [resultSet EXCEPT ![s].rows = @ - 1]
    /\ handles' = [handles EXCEPT ![s].passed = @ + 1]
    /\ UNCHANGED <<connected, executing>>

FreeResultSet(s) ==
    /\ executing = None
    /\ handles[s].given
    /\ resultSet' = FreedSet(s)
    /\ handles' = [handles EXCEPT ![s] = NoHandle]
    /\ UNCHANGED <<connected, executing>>

Next ==
    \/ Open \/ AddRow \/ Fail \/ Succeed
    \/ \E c \in Connections : Close(c) \/ ExecuteQuery(c)
    \/ \E s \in ResultSets : SelectNextRow(s) \/ FreeResultSet(s)

Spec == Init /\ [][Next]_vars

-----------------------------------------------------------------------------
TypeOK ==
    /\ connected \subseteq Connections
    /\ resultSet \in [ResultSets -> [used : BOOLEAN, rows : 0 .. MaxRows,
                                     rowCount : 0 .. MaxRows]]
    /\ executing = None \/ executing \in
         [connection : connected, set : ResultSets, rows : 0 .. MaxRows]
    /\ handles \in [ResultSets -> [given : BOOLEAN, had : 0 .. MaxRows,
                                   passed : 0 .. MaxRows]]

\* A result set is in use just while its query runs or a script holds it (none
\* leaks when a query fails half way), and a script that holds one reads every
\* row of its query once, whatever other queries did since, even over a
\* connection that was closed.
HandlesExact == \A s \in ResultSets :
    /\ resultSet[s].used <=>
         handles[s].given \/ (executing # None /\ executing.set = s)
    /\ handles[s].given =>
         /\ resultSet[s].rowCount = handles[s].had
         /\ resultSet[s].rows = handles[s].had - handles[s].passed
=============================================================================
