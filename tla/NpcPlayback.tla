---------------------------- MODULE NpcPlayback ----------------------------
(***************************************************************************)
(* Recordings that NPCs play back: records are loaded once per file under  *)
(* ids that only grow, shared by the NPCs that play them, and unloaded by  *)
(* scripts or by the end of a playback that was started so.  The playback  *)
(* functions of src/Server/Components/NPCs/NPC/npc.cpp and Playback/.      *)
(*                                                                         *)
(* A playback keeps a copy of its record, but goes on only while the       *)
(* record's id is loaded: when another NPC's playback unloads it, it stops *)
(* without an end.                                                         *)
(*                                                                         *)
(* Careful keeps scripts from starting a playback for an NPC in the        *)
(* callback that ends one because another is being started (the first of   *)
(* the two would be lost), and from unloading every record, which restarts *)
(* the ids, while an NPC has a playback.                                   *)
(***************************************************************************)
EXTENDS Integers

CONSTANTS
    Npcs, Files,
    MaxRecords,     \* bound on the ids of records
    MaxFrames,      \* frames of every record
    Careful,
    None

VARIABLES
    records,        \* records_: the file of each loaded id
    nextRecordId_,
    playback,       \* of each NPC: record, file, unloads itself, frame, paused
    ending,         \* the callback of an end: the NPC, the playback to start next
    unended         \* playbacks started and not ended, of each NPC

own == <<records, nextRecordId_, playback, ending, unended>>
vars == own

RecordIds == 0 .. MaxRecords - 1
Calm == [npc |-> None, next |-> None]

Init ==
    /\ records = [r \in RecordIds |-> None]
    /\ nextRecordId_ = 0
    /\ playback = [n \in Npcs |-> None]
    /\ ending = Calm
    /\ unended = [n \in Npcs |-> 0]

Loaded(f) == {r \in RecordIds : records[r] = f}
Valid(p) == p # None /\ records[p.record] # None

-----------------------------------------------------------------------------
\* loadRecord finds the file among the records before it reads it.
LoadRecord(f) ==
    /\ Loaded(f) = {}
    /\ nextRecordId_ < MaxRecords
    /\ records' = [records EXCEPT ![nextRecordId_] = f]
    /\ nextRecordId_' = nextRecordId_ + 1
    /\ UNCHANGED <<playback, ending, unended>>

UnloadRecord(r) ==
    /\ records[r] # None
    /\ records' = [records EXCEPT ![r] = None]
    /\ UNCHANGED <<nextRecordId_, playback, ending, unended>>

UnloadAllRecords ==
    /\ Careful => \A n \in Npcs : playback[n] = None
    /\ Careful => ending.next = None
    /\ records' = [r \in RecordIds |-> None]
    /\ nextRecordId_' = 0
    /\ UNCHANGED <<playback, ending, unended>>

\* ~NPCPlayback
Unloaded(p) == IF p.autoUnload THEN [records EXCEPT ![p.record] = None] ELSE records

\* startPlayback by a record's id, which a file's name gives after loadRecord;
\* one whose record is not loaded is deleted, and unloads itself, at once.
Begun(n, r, auto) ==
    IF records[r] # None
    THEN /\ playback' = [playback EXCEPT ![n] =
                           [record |-> r, file |-> records[r],
                            autoUnload |-> auto, frame |-> 0, paused |-> FALSE]]
         /\ unended' = [unended EXCEPT ![n] = @ + 1]
    ELSE /\ playback' = [playback EXCEPT ![n] = None]
         /\ UNCHANGED unended

StartPlayback(n, r, auto) ==
    /\ playback[n] = None
    /\ Careful => ~(ending.npc = n /\ ending.next # None)
    /\ records[r] # None
    /\ unended[n] < 2
    /\ Begun(n, r, auto)
    /\ UNCHANGED <<records, nextRecordId_, ending>>

\* stopPlayback deletes the playback, then tells the scripts.
Ended(n) == [playback EXCEPT ![n] = None]
EndPlayback(n, next) ==
    /\ playback' = Ended(n)
    /\ records' = Unloaded(playback[n])
    /\ unended' = [unended EXCEPT ![n] = @ - 1]
    /\ ending' = [npc |-> n, next |-> next]
    /\ UNCHANGED nextRecordId_

StopPlayback(n) ==
    /\ ending = Calm
    /\ playback[n] # None
    /\ EndPlayback(n, None)

\* startPlayback over a playback ends it first.
ReplacePlayback(n, r, auto) ==
    /\ ending = Calm
    /\ playback[n] # None
    /\ EndPlayback(n, [record |-> r, autoUnload |-> auto])

Return ==
    /\ ending # Calm
    /\ IF ending.next = None THEN UNCHANGED <<playback, unended>>
       ELSE Begun(ending.npc, ending.next.record, ending.next.autoUnload)
    /\ ending' = Calm
    /\ UNCHANGED <<records, nextRecordId_>>

PausePlayback(n) ==
    /\ playback[n] # None
    /\ playback' = [playback EXCEPT ![n].paused = ~@]
    /\ UNCHANGED <<records, nextRecordId_, ending, unended>>

\* processPlayback: a frame whose time has come, or the end after the last.
Process(n) ==
    /\ ending = Calm
    /\ Valid(playback[n])
    /\ playback[n].frame < MaxFrames
    /\ ~playback[n].paused
    /\ playback' = [playback EXCEPT ![n].frame = @ + 1]
    /\ UNCHANGED <<records, nextRecordId_, ending, unended>>

Finish(n) ==
    /\ ending = Calm
    /\ Valid(playback[n])
    /\ playback[n].frame = MaxFrames
    /\ EndPlayback(n, None)

\* The NPC is destroyed: its playback goes without a callback.
Destroy(n) ==
    /\ ending.npc # n
    /\ playback' = Ended(n)
    /\ records' = IF playback[n] = None THEN records ELSE Unloaded(playback[n])
    /\ unended' = [unended EXCEPT ![n] = 0]
    /\ UNCHANGED <<nextRecordId_, ending>>

Next ==
    \/ \E f \in Files : LoadRecord(f)
    \/ \E r \in RecordIds : UnloadRecord(r)
    \/ UnloadAllRecords
    \/ Return
    \/ \E n \in Npcs, r \in RecordIds, auto \in BOOLEAN :
         StartPlayback(n, r, auto) \/ ReplacePlayback(n, r, auto)
    \/ \E n \in Npcs : StopPlayback(n) \/ PausePlayback(n) \/ Process(n)
                       \/ Finish(n) \/ Destroy(n)

Spec == Init /\ [][Next]_vars

-----------------------------------------------------------------------------
TypeOK ==
    /\ records \in [RecordIds -> Files \union {None}]
    /\ nextRecordId_ \in 0 .. MaxRecords
    /\ \A n \in Npcs : playback[n] = None \/ playback[n] \in
         [record : RecordIds, file : Files, autoUnload : BOOLEAN,
          frame : 0 .. MaxFrames, paused : BOOLEAN]
    /\ ending.npc \in Npcs \union {None}
    /\ unended \in [Npcs -> Int]

\* A playback goes on only with the record it copied: its id is not that of a
\* later record, whose end it would cause by unloading it; and a file is
\* loaded once.
RecordsExact ==
    /\ \A n \in Npcs : Valid(playback[n]) =>
         records[playback[n].record] = playback[n].file
    /\ \A r, q \in RecordIds :
         records[r] = records[q] /\ records[r] # None => r = q

\* Every playback that scripts were told had started ends for them once: an NPC
\* has one that has not ended just while it has a playback.
EndsOnce == \A n \in Npcs : unended[n] = IF playback[n] = None THEN 0 ELSE 1
=============================================================================
