---------------------------- MODULE MCEntities ----------------------------
(***************************************************************************)
(* The things that the server shows to players, one component at a time:   *)
(* a behaviour is one of the component it starts with, on the variables    *)
(* that component has, so that one run explores the sum of their states.   *)
(***************************************************************************)
EXTENDS Integers, FiniteSets, TLC

CONSTANTS Players, Things, Cars, Server, None, Careful, ClientIds, ObjectIds,
          MaxStreamed

\* Ids are numbers, a null pointer is no entity and no id and not what a client
\* shows, the server is no player; a storage is a bounded array.
ASSUME EntitiesAssumption ==
    /\ IsFiniteSet(Things)
    /\ ClientIds \subseteq Nat
    /\ ObjectIds \subseteq Nat
    /\ MaxStreamed \in Nat
    /\ Careful \in BOOLEAN
    /\ Server \notin Players
    /\ None \notin Players \union {Server} \union Things \union Cars
                  \union ClientIds \union ObjectIds
    /\ None \notin {"still", "moving"} \union [text : {0, 1}, personal : BOOLEAN]
                  \union [type : {"none", "player", "vehicle"},
                          id : Players \union {None}]

VARIABLES
    component,
    players, pool, doomed, zone, seen, legacy, checking, scan, pickup, client,
    sent, at, cars, label, screen, actor, numStreamed, pass, draw, selecting,
    mouse, cancels, menu, shown, known, open, answers, streamed, object,
    counter, slots, view, grouping, moving, delayed, any, processed, near,
    owner, attach, indexed, waiting, skipped

vars == <<component,
          players, pool, doomed, zone, seen, legacy, checking, scan,
          pickup, client, sent, at, cars, label, screen, actor, numStreamed, pass,
          draw, selecting, mouse, cancels, menu, shown, known, open, answers,
          streamed, object, counter, slots, view, grouping, moving, delayed,
          any, processed, near, owner, attach, indexed, waiting, skipped>>

Z == INSTANCE GangZones WITH Zones <- Things, client <- seen, at <- scan
P == INSTANCE Pickups
L == INSTANCE TextLabels
A == INSTANCE Actors WITH at <- pass
D == INSTANCE TextDraws
M == INSTANCE Menus
O == INSTANCE Objects WITH screen <- view
V == INSTANCE ObjectMoves
T == INSTANCE ObjectAttachments

Init ==
    /\ component \in {"zones", "pickups", "labels", "actors", "draws",
                     "menus", "objects", "moves", "attachments"}
    /\ Z!Init /\ P!Init /\ L!Init /\ A!Init /\ D!Init /\ M!Init
    /\ O!Init /\ V!Init /\ T!Init
    /\ component # "objects" => ~grouping

Next ==
    \/ /\ component = "zones"
       /\ Z!Next
       /\ UNCHANGED <<component, pickup, client, sent, at, cars, label, screen, actor,
                      numStreamed, pass, draw, selecting, mouse, cancels,
                      menu, shown, known, open, answers, streamed, object,
                      counter, slots, view, grouping, moving, delayed, any,
                      processed, near, owner, attach, indexed, waiting,
                      skipped>>
    \/ /\ component = "pickups"
       /\ P!Next
       /\ UNCHANGED <<component, zone, seen, checking, scan, cars, label, screen, actor,
                      numStreamed, pass, draw, selecting, mouse, cancels,
                      menu, shown, known, open, answers, streamed, object,
                      counter, slots, view, grouping, moving, delayed, any,
                      processed, near, owner, attach, indexed, waiting,
                      skipped>>
    \/ /\ component = "labels"
       /\ L!Next
       /\ UNCHANGED <<component, doomed, zone, seen, client, legacy, checking, scan, pickup,
                      sent, at, actor, numStreamed, pass, draw, selecting,
                      mouse, cancels, menu, shown, known, open, answers,
                      streamed, object, counter, slots, view, grouping,
                      moving, delayed, any, processed, near, owner, attach,
                      indexed, waiting, skipped>>
    \/ /\ component = "actors"
       /\ A!Next
       /\ UNCHANGED <<component, zone, seen, client, legacy, checking, scan, pickup, sent, at,
                      cars, label, draw, selecting, mouse, cancels, menu,
                      shown, known, open, answers, streamed, object, counter,
                      slots, view, grouping, moving, delayed, any, processed,
                      near, owner, attach, indexed, waiting, skipped>>
    \/ /\ component = "draws"
       /\ D!Next
       /\ UNCHANGED <<component, zone, seen, client, legacy, checking, scan, pickup, sent,
                      cars, label, actor, numStreamed, pass, menu, shown,
                      known, open, answers, streamed, object, counter, slots,
                      view, grouping, moving, delayed, any, processed, near,
                      owner, attach, indexed, waiting, skipped>>
    \/ /\ component = "menus"
       /\ M!Next
       /\ UNCHANGED <<component, doomed, zone, seen, client, legacy, checking, scan, pickup,
                      sent, at, cars, label, screen, actor, numStreamed,
                      pass, draw, selecting, mouse, cancels, streamed,
                      object, counter, slots, view, grouping, moving,
                      delayed, any, processed, near, owner, attach, indexed,
                      waiting, skipped>>
    \/ /\ component = "objects"
       /\ O!Next
       /\ UNCHANGED <<component, zone, seen, client, legacy, checking, scan, pickup, sent,
                      cars, label, screen, actor, numStreamed, pass, draw,
                      selecting, mouse, cancels, menu, shown, known, open,
                      answers, moving, delayed, any, processed, near, owner,
                      attach, indexed, waiting, skipped>>
    \/ /\ component = "moves"
       /\ V!Next
       /\ UNCHANGED <<component, zone, seen, client, legacy, checking, scan, pickup, sent,
                      cars, label, actor, numStreamed, pass, draw, selecting,
                      mouse, cancels, menu, shown, known, open, answers,
                      object, counter, slots, view, grouping, near, owner,
                      attach, indexed, waiting, skipped>>
    \/ /\ component = "attachments"
       /\ T!Next
       /\ UNCHANGED <<component, doomed, zone, seen, client, legacy, checking, scan, pickup,
                      sent, at, cars, label, actor, numStreamed, pass, draw,
                      selecting, mouse, cancels, menu, shown, known, open,
                      answers, streamed, object, counter, slots, view,
                      grouping, moving, delayed, any, processed>>

Spec == Init /\ [][Next]_vars

Symmetry == Permutations(Players) \union Permutations(Things)

-----------------------------------------------------------------------------
\* Every component is well typed.
TypeOK ==
    /\ component = "zones" => Z!TypeOK
    /\ component = "pickups" => P!TypeOK
    /\ component = "labels" => L!TypeOK
    /\ component = "actors" => A!TypeOK
    /\ component = "draws" => D!TypeOK
    /\ component = "menus" => M!TypeOK
    /\ component = "objects" => O!TypeOK
    /\ component = "moves" => V!TypeOK
    /\ component = "attachments" => T!TypeOK

\* What the messages sent to a client make it show is what the server has it
\* down for: under the ids it was given, streamed or shown for it, with the
\* rows, texts, looks, movements and attachments things have.
ViewExact ==
    /\ component = "zones" => Z!ViewExact
    /\ component = "pickups" => P!ViewExact
    /\ component = "labels" => L!ViewExact
    /\ component = "actors" => A!ViewExact
    /\ component = "draws" => D!ViewExact
    /\ component = "menus" => M!ViewExact
    /\ component = "objects" => O!ViewExact
    /\ component = "moves" => V!ViewExact
    /\ component = "attachments" => T!ViewExact

\* No entity keeps a player that left the pool: one that takes its id would
\* inherit what was kept.
NoStale ==
    /\ component = "zones" => Z!NoStale
    /\ component = "pickups" => P!NoStale
    /\ component = "labels" => L!NoStale
    /\ component = "actors" => A!NoStale
    /\ component = "draws" => D!NoStale
    /\ component = "menus" => M!NoStale
    /\ component = "objects" => O!NoStale
    /\ component = "attachments" => T!NoStale

\* Ids name one thing: legacy ids, those of every usable zone and pickup, and
\* the ids that global and per-player objects share.
IdsExact ==
    /\ component = "zones" => Z!IdsExact
    /\ component = "pickups" => P!IdsExact
    /\ component = "objects" => O!IdsApart

\* What a component keeps beside its entities, to be quick, agrees with them:
\* the counters of streamed actors and of per-player objects, the processed
\* objects and the attached ones.
CountExact ==
    /\ component = "actors" => A!CountExact
    /\ component = "objects" => O!CountExact
    /\ component = "moves" => V!ProcessedExact
    /\ component = "attachments" => T!IndexExact

\* A player is inside only of gang zones that are shown for it.
InsideShown ==
    /\ component = "zones" => Z!InsideShown
=============================================================================
