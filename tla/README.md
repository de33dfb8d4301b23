# open.mp server: TLA+ models, model checking and proofs

These modules model the control of the open.mp server (`src/Server`): who is
connected, who is shown to whom, who sits in what, how NPCs fight and move, what
the client's screen shows of every entity, and what scripts are called with.  TLC
checks the modules on small instances, TLAPS proves part of the results for every
instance.

Run a check with `tlc -config <cfg> <module>.tla`, where `PROJECT.json` names the
cfg and the module of each run, and a proof with `tlapm <module>.tla`.
`PROJECT.json` also lists the source lines each definition translates, the hazards the properties are for, and the findings.

| run | module | composes |
|---|---|---|
| `connection`, `connection_live`, `freed_player` | `PlayerConnection` | itself, and `PlayerSessions` that it implements (proofs: `PlayerConnectionProofs`) |
| `stream`, `stale_spectate` | `PlayerStream` | itself (proofs: `PlayerStreamProofs`) |
| `vehicles`, `towing`, `released_cab` | `Vehicles` | `Vehicles` (proofs: `VehiclesProofs`) |
| `npc_combat`, `stuck_aim` | `NpcCombat` | `NpcCombat` (proofs: `NpcCombatProofs`) |
| `entities` | `MCEntities` | the ten modules of entities, below (proofs: `EntitiesProofs`) |
| `services` | `MCServices` | the twenty-two modules of services, below (proofs: `PlayerServicesProofs`, `ServicesProofs`) |

`MCEntities` and `MCServices` instantiate their modules side by side: a variable
`component` says which of them the behaviour is about, and the variables of the
others stay as they were.  So one run explores the sum, not the product, of the
state spaces of components that share no state, and each of its invariants is
the conjunction of what the components promise under that name.  Each of the other
runs is of one module, which ends with what its instances need (names and addresses
of the peers, clip sizes, symmetry).

An operator preceded by a comment that starts with "Wrong:", or named for what it
omits, is a mistake of the code that the properties are checked to find; no
specification uses it.

## 1. Inventory

The server is one process.  The *main thread* runs `Core::run`: it sleeps,
dispatches `onTick` to every component, then ticks the player pool.  The network
component reads RakNet's queue in its `onTick` and calls packet and RPC handlers
synchronously; handlers and ticks dispatch events to components, and through the
Pawn component to scripts, which call back into any component *in the middle* of
the operation that dispatched the event.  Other threads exist in three places:
RakNet's own network thread, the console's input thread, and a thread per HTTP
request; and a signal handler reloads the bans.  Nothing but configuration, bans
and script databases is persisted.

So the hard behaviours here are (a) re-entrancy: a callback that kicks, destroys,
respawns or moves what the caller is working on; (b) pointers kept on both sides
of a relation, where each must be cleared when the other end goes; (c) ids and
slots that are reused; (d) packets of a client that has not heard yet of what the
server did, and a client's screen that must come to what the server has; (e)
counters at their limits; (f) what timers and ticks do later, from a record that
may be out of date.

| component | state | hard because | correct when |
|---|---|---|---|
| Core (`core_impl.hpp`) | components and their phases, pending HTTP answers, restarts | answers come on other threads; components hold pointers to each other; players stay through a restart | each answer reaches its handler once; nothing freed is pointed at; every client knows whether the game goes on |
| Configuration, `LegacyConfig`, bans | option tables, pointers into them, the ban list, file and network's list | five sources of a value in order; a stop between steps; a reload by a signal | the last source that may speak has the say; list, file and network agree |
| Network (`LegacyNetwork`) | `playerFromRakIndex`, `playerRemoteSystem`, `BanEntries` | RakNet drops peers in its own thread, and the leave is read later, when the index or the slot may belong to somebody else | a packet is handled for the player of the peer that sent it or not at all |
| Player pool, players | the pool, names, `kicked_`, `streamedFor_`/`numStreamed_`, spectate data, colours, sync data, weapons, attributes | announcements and callbacks interleave with kicks; ids are reused; two halves of one relation | one departure each, unique names, exact counters, nothing names a player that left, viewers see what is |
| Vehicles | driver, passengers, trailer, cab, death, `streamedFor_`, and of each player its vehicle and seat | pointers both ways; release in the middle of a handler | the two sides agree and lead to what exists |
| Sessions (Classes, Dialogs, Menus, TextDraws, Checkpoints) | what each player is being asked or shown | an answer arrives after the server hid or replaced what it answers | an answer is taken only for what is shown, and nobody waits for one that cannot come |
| Streamed entities (Objects, Pickups, Actors, TextLabels, GangZones) | pools, `streamedFor_`, client ids and legacy ids, object ids shared by two pools | few ids on a client; entities attached to others; passes interrupted by callbacks | a client shows exactly what it is down for, ids name one thing, counters agree |
| NPCs | pool beside the player pool, kick queue, orders, paths, nodes, records, weapon, aim | destroyed from their own tick; shots and points dispatch events half-way | pools agree, pointers lead to what exists, orders are obeyed until revoked, keys and counts fit |
| Timers, Pawn | the timer list, ids of scripts, rotation of modes, restarts | timers killed and made in their own callbacks; a restart asked for in a callback of the script that is restarted | a timer fires as asked and never after its kill; the next mode comes |
| Console, CustomModels, Databases, Fixes | a line under a mutex, download addresses, result sets, animations to reapply, game texts | threads, counts of shared addresses, failures half-way, timers out of date | each line executed once, addresses let in exactly, no set leaks, the latest is what is shown |
| NetCode | the layout of each message | short messages, conditional fields | what is read is what is written on |
| Query, Variables, Recordings, Unicode, C API, argument conversion | - | I/O, formatting, data without control | - |

## 2. The four central modules

### PlayerConnection
*State.* `peer`, `remote`, `banned` and `queue` are RakNet's: what it knows of
each peer, who is at each index, the ban list, what was received and not read.
`playerFromRakIndex` and `playerRemoteSystem` are the network's tables; `owner`,
`nick`, `kicked` are the pool (a player is identified with the peer it was made
for, its pointer with its slot).  `known`, `met`, `quits` record what clients
were told and what was dispatched.  `at` is where the main thread is.

*Actions.* `PeerArrives`, `PeerSends`, `PeerDrops`, `PeerCloses` are RakNet's
thread.  `RefuseConnect` and `OnPlayerConnect` are the connect RPC with
`requestPlayer`; `Announce`, `Connected`, `EndConnect` the rest of it around the
callbacks `onIncomingConnection` and `onPlayerConnect`.  `HandlePacket`,
`RPCHook`, `DropFreedPlayer` and `OnRakNetDisconnect` are the receive loop;
`BeginPoolTick`, `VisitPlayer`, `EndKicked`, `EndTick` the pool's `onTick`.
Scripts may `Kick`, `Ban` and `SetName` in every callback.

RakNet is not part of the repository: its four actions, and the index lookup, are
modelled from the calls that `LegacyNetwork` makes.  Assumed: a peer sends one
connect RPC; a peer RakNet closes on the server's request queues no leave (as
`disconnect` assumes by clearing the table); packets of one peer are read in
order; the slot of a freed player reads as one with id -1, which is what `onTick`
tests for.

*Abstraction.* `PlayerSessions` is what scripts see of all this: a session is away,
joining (in the pool, not announced), playing, leaving (from the dispatch of
`onPlayerDisconnect` until the player is freed) or gone; it has a name while it is
in the pool and may be marked for removal by a kick or a ban.  The mapping takes
the session of a peer from `owner`, `quits`, `met` and the position `at` of the
main thread, its name from `nick`, and the marked from `kicked`.  RakNet's steps,
packets, indices and rosters are stutters.  `connection_live` checks it as
`ImplementsSessions`, `Implementation` proves it.

### PlayerStream
*State.* The pool, the player whose `onPlayerDisconnect` is being dispatched, the
fields named above, and `stack`, the operations in progress: `streamInForPlayer`
and its like dispatch callbacks, in which scripts start other operations.

*Actions.* `Sync`, `SpectatorSync`, `PlayerSpawn` are packets and RPCs that end in
`onPlayerUpdate`'s streaming pass or a respawn (`StreamNext`, `RestreamNext`,
`EndPass`).  `SpectatePlayer`, `SpectateStreamIn`, `SpectateSetTarget` are
`spectatePlayer` before, between and after its callbacks.  `SetSpectating`,
`Spawn`, `SetColour`, `SetOtherColour` are the API; `Join`, `BeginLeave`,
`EndLeave`, `ResetAll` the pool.  Distance, virtual world and interior are a free
choice of "should be streamed in".

Two constants choose what scripts do: `LateOps`, whether `onPlayerDisconnect`
callbacks make the leaver spectate, be spectated or be given a colour anew (every
other operation on it is allowed), and `NestedToggle`, whether callbacks
of `spectatePlayer` end that player's spectating.  `toSpawn_` and `isBot_`, which
guard `PlayerSpawn`, are in `Spawning`.

### Vehicles
*State.* `pool` and `doomed` are the storage, whose release of a locked entry is
deferred to the unlock.  `occ`, `link`, `death`, `respawning`, `streamedFor` are
fields of a vehicle; `ride` and `numStreamed` of a player's `PlayerVehicleData`;
`state` is the player's.  `at` is the handler in progress and its position.

*Actions.* `DriverSync` up to the siren callback, then `DriverSeat` up to the one
for the keys, then `StateInVehicle`;
`PassengerSync`, `FootSync`, `UnoccupiedSync`/`EndUnoccupied`, `TrailerSync`;
`PlayerUpdate`, `StreamVehicle`, `EndUpdate` for `onPlayerUpdate`; `PlayerDeath`
and `OnPlayerDeath`, `VehicleDeath`; `VehicleRPC` for the three RPCs that only
dispatch; `BeginTick`, `VisitVehicle`, `EndKilled`, `EndTick` for `onTick`;
`Create`, `Release`, `Respawn`, `PutPlayer`, `ResetVehicle`, `SpectateVehicle`,
`AttachTrailer`, `DetachTrailer` for scripts; `Connect`, `Disconnect`, `ResetAll`.

Scripts act between handlers and from the callbacks of handlers.  A vehicle is an
object of the heap and a freed one is never reused while a pointer leads to it, so
that dangling pointers stay visible; what is read through one is arbitrary
(`UnoccupiedSync`).  Distance and delays are free choices.  Simplified: what a
script calls runs to its end (callbacks that a script's own call dispatches are
not entered again), scripts do not use a vehicle they released, and the storage
and its locks are external, modelled from how `release` and the handlers use
them.  `ReleaseIn` names the handlers whose callbacks may release the vehicle that the
handler works on: `rpc`, the siren, the keys, the update, a streaming pass, an
unoccupied packet, a death.  `Towing` chooses whether trailers exist.

### NpcCombat
*State.* `npc` is the record of the fields of an `NPC` object that combat reads or
writes (`target` stands for `hitId_`, `hitType_` and `playerAimingAt_`, which are
written together); `state` the state of its player, driver and passenger being
one; `sprinting` whether it moves at a sprint; `alive` the players of the pool;
`stack` the operations interrupted by an event: a tick in its first half, a shot,
`setAmmo`, `spawn` after each of its events, `respawn`.

*Actions.* The API, by its names in the code (`SetAmmo` and `Spawn` are cut where
they dispatch an event: `EndSetAmmo`; `Disarm`, `Empty`, `EndSpawn`).  The tick is
`TickReloading`, `TickDry`, `TickBetweenShots`, `TickShoot` with `AfterShot`, and
`TickMelee`, one for each branch of the code; `TickInterrupted` is its first half,
whose events may change everything but the local copy of the state that the second
half goes by, so that an NPC killed in a tick may still fire in it.
`TickUpdateAim` is the update of the weapon's state at the rate of the aim syncs.
The helpers (`WithState`, `Updated`, `AimStopped`, `Spent`...) are functions of the
record, named for the functions of the code they stand for.  Time is a free
choice: whether a delay has passed.

Three constants choose what scripts do: `StopInShot`, whether they end the aim
from an event of a shot; `ArmsInShot`, whether they change the weapon or its
ammunition there; `SprintAim`, whether they have a sprinting NPC aim at a player,
whose id and pointer `aimAtPlayer` then keeps without an aim.  `ScriptStates` are
the states they pass to `setWeaponState`.

## 3. Entities (`MCEntities`)

Each module is one component with the natives that keep state for it, two players
and two things.  `players`, `pool` and `doomed` (released while locked) are shared
names; the rest is the component's own.

| module | models | most delicate step |
|---|---|---|
| `ClientScreens` | the ids one client knows zones or pickups by, beside what its screen shows under them | an id is reserved and released as often as sent and withdrawn |
| `GangZones` | show, hide, flash, stop, the checks of `onPlayerUpdate` and clicks, legacy ids | callbacks of a check destroy and hide zones of the list being walked |
| `Pickups` | streaming, hiding, per-player pickups, pick-ups that arrive late, legacy ids | a pickup reported by a client that was just withdrawn from it |
| `TextLabels` | streaming passes, labels of one player, attachments to players and vehicles | what a label follows goes |
| `Actors` | streaming under a limit, looks, animations, damage | a release in the callback of the pass that streams |
| `TextDraws` | showing, restreaming, texts, the selection mode | a click on what was hidden; escape after the server ended the mode |
| `Menus` | contents sent once, showing, answers | contents change after a client has them; a menu is destroyed while open |
| `Objects` | the id space of global and per-player objects with its counters and slots | two pools free the same id |
| `ObjectMoves` | processed objects, delayed moves told to new viewers | a player leaves with moves delayed for it |
| `ObjectAttachments` | the index of attached objects, attachments to players in and out of sight | a player goes out of sight, leaves, and another takes its id |

The run's invariants are conjunctions over the components.  `ViewExact`: applying
the messages that were sent to a client, in order, leaves it showing what the
server has it down for.  `NoStale`: nothing names a player that left (the next one
with its id would inherit it).  `IdsExact`: `IdsExact` of zones and pickups (a
legacy id leads to one usable thing and back) and `IdsApart` of objects (no id is
a global and a per-player object at once).  `CountExact`: counters of streamed
actors, of per-player objects under each id, `processedObjects` and the attached
index agree with the entities.  `InsideShown`: a player is inside only of zones
shown to it.

## 4. Services (`MCServices`)

| module | models | promises |
|---|---|---|
| `Dialogs` | one dialog per player, answers delayed and unmatched, the callback that shows the next | `ViewExact`, `NotWaiting` |
| `Checkpoints` | both kinds, enter and leave callbacks | `ViewExact`, `Alternate` (no enter without a leave between) |
| `Spawning` | class request, a skin set in its callback, `toSpawn_`, spawn, death, spectating | `ViewExact` (it spawns as the server has it, but for such a skin), `SpawnAllowed`, `DefaultExact` |
| `Timers` | the list walked while callbacks change it, scripts' ids, a `SetTimerEx` that fails half-way | `NoDangling`, `IdsExact`, `CalledOnce` |
| `PawnManager` | rotation with repeats, delayed unload and load, a first mode that cannot be loaded, the console's unload of the mode, side scripts | `ToldExact`, `ModeComes`, `RunsExact` |
| `ConsoleInput` | the input thread and the tick, step by step, and who logged in | `LinesExact` |
| `HttpRequests` | a thread per request, the polling loop, scripts unloaded meanwhile | `NoDangling`, `AnsweredOnce` |
| `CustomModels` | the catalogue, downloads, addresses let in | `ViewExact`, `CountExact` |
| `Databases` | queries row by row, failures, ids of sets | `HandlesExact` |
| `NpcPool` | the two pools, the kick queue, the aim, pointers to players and vehicles | `NoDangling`, `KicksExact` |
| `NpcMoves` | move, follow, path, node, enter, each with its callbacks | `NoDangling`, `Obeys` |
| `NpcPlayback` | records shared by NPCs, playbacks that end each other | `RecordsExact`, `EndsOnce` |
| `PlayerWeapons` | give, take, reset, ban and allow, against late weapon updates | `Unarmed`, `Kept` |
| `PlayerSync` | the packets' handlers with their callbacks, relays of the pool's tick | `NoDangling`, `RelaysExact` |
| `PlayerLooks` | colours, skins, teams, styles told to viewers, who leaves | `ViewExact`, `NoStale` |
| `Fixes` | animations applied again, game texts, money of the dead | `ViewExact`, `TextsExact`, `MoneyKept`, `NoDangling` |
| `NetCode` | the fields each message reads and writes, conditional ones included | `Whole`, `RelayedAsRead`, `SameSurface`, `IdsTell` |
| `PlayerAttributes` | what is set, sent, reported, chat bubbles | `KeptExact`, `ReportedExact`, `BubbleSeen` |
| `PlayerReports` | shots, damage, text, commands, clicks, checks: validation, one event handler after the other, relay | `AskedAboutWhatIs`, `PassedOnRightly`, `TargetSeen` |
| `Settings` | defaults, file, environment of the legacy file, command line twice, natives; pointers to options; the network's copy | `TablesAgree`, `Typed`, `Precedence`, `NetworkCurrent` |
| `Bans` | list, file, network's list, players inside, stop and start at any step | `Kept`, `Lifted` |
| `ServerLife` | loading, phases, pointers between components, restarts, freeing | `PointersAlive`, `PhasesInStep`, `ClientsInStep` |

The run's `ViewExact`, `NoDangling` and `AsAsked` are the conjunctions of these, by
the question they answer: what clients show is what the server has; nothing is
kept of what is gone; what was asked for is done, once and as asked.

Some variables are not the code's: they remember what happened so that a property
can tell an excuse from a fault.  `crossed` (Dialogs, PlayerWeapons): a report and
an order passed each other on the wire.  `uncleared` (Fixes): an animation that
was to be cleared is still to be applied.  `dressed` (Spawning): a script set the
skin of a player in the callback of its request for a class, so that its client
was sent that skin with the class.  `without` (PawnManager): the mode was unloaded
by the console, or the first could not be loaded, and none was asked for since.
`late` (PlayerConnection):
RakNet dropped a peer between the receive loop and the end of the pool's tick, so
that its leave may be unread when its player is freed.  The header of each module says which of
its variables the client has and which the server.

## 5. Conditions

Where the code relies on scripts, the condition is a constant, `Careful` unless
another name is given; with FALSE, TLC shows what the code does then.

* GangZones: callbacks leave alone the zones that the handler visits next, in the
  list that it walks and among those that the player has entered: they neither
  destroy nor hide them, nor switch the checks of those in the list.
* Objects: no restart while the ids of per-player objects are shared
  (`game.group_player_objects`) and some are listed.
* ObjectMoves: the looks of a moving object are not changed.
* ObjectAttachments: an attachment to a player is reset before another is made.
* NpcPool: no NPC is queued twice, none in a callback of the queue's processing,
  and no gamemode restarts with a queue; no NPC is told to aim at a player while it
  sprints.
* Timers: the arguments given to `SetTimerEx` fit its format.
* NpcMoves: no path or node is destroyed, changed or left in the callbacks of its
  own points.
* NpcPlayback: no playback starts in the callback that ends one because another
  starts; the records are not all unloaded while one plays.
* PlayerWeapons: weapons are allowed by a script only where the interior does too.
* PlayerSync: a passenger's or driver's vehicle is locked; others stay through the
  callbacks of their own update.
* PlayerLooks: nobody is given a colour of a player that is leaving, and
  `SetSpawnInfo` is for players that nobody sees.
* PlayerReports: no player is released in an event handler.
* Fixes: scripts release only text draws of their own and leave the money of the
  dead.
* Settings: legacy files give legacy names only.
* Bans: the list is reloaded only to drop all bans; scripts unblock only what they
  blocked.
* ServerLife: no component with a network shares another's UID.
* Vehicles: the vehicle of a handler is released in the callbacks of `ReleaseIn`
  only.  With `siren`, `unoccupied` or `killed` a freed vehicle becomes a player's
  vehicle, or is respawned; with `keys`, `update` or `stream` one that waits to be
  freed is streamed out by the pass that follows, and uncounted twice.
* PlayerStream: `LateOps`, `NestedToggle`; NpcCombat: `StopInShot`, `ArmsInShot`,
  `SprintAim` (section 2).

## 6. Runs

| run | instance | distinct states | shows |
|---|---|---|---|
| `connection` | 3 peers, 2 RakNet indices, 2 slots, 1 unread packet, 1 bot | exhaustive | roster, single leave, unique names, own ping, sound index table, packets reach their player, kicked players are silent |
| `connection_live` | 2 peers, no other packets, fair | exhaustive | kicked players and those whose peer is gone leave; `PlayerSessions` is implemented |
| `freed_player` | 2 peers | violation | the "impossible" test of `onTick` for a freed player succeeds |
| `stream` | 3 players, limit `MaxStreamed` 0, depth 1 | exhaustive | exact counters, the limit, no stale reference or spectating |
| `stale_spectate` | 2 players, depth 2 | violation | a callback of `spectatePlayer` that ends spectating leaves a target behind |
| `vehicles` | 2 players, 2 vehicles, limit 1 | 4.1 million | both ends of every seat agree, no freed vehicle, exact counters, respawned vehicles unseen |
| `towing` | 1 player, 2 vehicles | 5.3 million | cab and trailer pointers tear in two places only |
| `released_cab` | 1 player, 2 vehicles | violation | a trailer keeps a freed cab |
| `npc_combat` | 1 NPC, 1 player, 5 weapons, 2 bullets, depth 1 | 2.8 million | no stuck key, stale target, negative or excessive count |
| `stuck_aim` | the same, 3 bullets | violation | an NPC told to stop aiming in a shot's event reloads, aims and shoots again |
| `entities` | ten modules, 2 players, 2 things, 1 vehicle | 1.4 million | section 3 |
| `services` | twenty-two modules | 0.8 million | section 4 |

*Bounds.* Three peers over two indices and two slots make every index and slot
change hands, with a peer waiting for one; two share a name and two an address, so
that reconnecting under a name still held and bans of several players happen.
`MaxData` bounds the packets other than connects and leaves that are unread: one
suffices for a packet to be overtaken by a kick, a drop and a reuse of its index.
In `stream`, with `MaxStreamed` 0 a client is shown one other player at most, so
that with three players the limit bites; `CounterSize` is the code's 65536; a
callback starts one operation (`MaxDepth`), on any player, from the middle of any
other.  In `vehicles` a limit of one does the same for two vehicles.  Moves between
vehicles, two claimants for one wheel, and drivers that become passengers all need
two of each; no relation here links three players or three vehicles but a chain of
trailers, which the code does not follow.

`npc_combat` has a weapon of each kind the code tells apart: cold, single, fed
from a clip of two with and without bullets, and the shotgun; two bullets of
ammunition make a clip full, half full and empty with and without more to load.
One player suffices because an NPC has one target.

In `entities`, a client has one id for two zones or pickups, so that ids run out
and change hands; there are two object ids for two objects; the second actor meets
the limit; a player's id is taken by another when it leaves, since ids are the
players' names.  In `services`, `Alone` is one player where players do not touch
each other (dialogs, checkpoints, spawning, weapons, synchronisation, animations)
and `Players` two where they do (looks, addresses, reports).  Histories that the
code does not bound are: `MaxRuns`, `MaxLines`, `MaxRows`, `MaxRecords`,
`MaxPackets`, `MaxQueue`, `MaxWaiting`, `MaxReports`, `MaxMarks`, `MaxAnswers`.  Components whose state a behaviour does not follow have one initial
state, so that the product of the unused ones is not explored.

*Symmetry* is over players, vehicles and things, whose names nothing orders; in
`services` there is none.

*Deadlock* is checked in every run but `services`, where a behaviour really stops
when its bounded history is used up.

*Fairness.* `FairSpec` asks weak fairness of the steps of the main thread only:
`Core::run` loops until the server stops, and callbacks return.  Nothing is asked
of peers, of RakNet's thread or of scripts.  `connection_live` has `MaxData` 0
because the receive loop ends only when the queue is empty
(`legacy_network_impl.cpp:922`): a peer that sends as fast as packets are read
would keep it from ending, and no property can rule that out.

## 7. Disagreements found

* `freed_player`: `disconnect()` clears the index table only if RakNet still knows
  the peer.  A player kicked after RakNet dropped its peer, before its leave is
  read, is freed with the table still pointing at it.  The comment in `onTick`
  calls its own guard unneeded; it is reached.  `RPCHook` has no such guard.  While
  this has happened (`late`), the properties about the table claim nothing.
* `stale_spectate`: `spectatePlayer` writes its target after two callbacks; a
  script that ends the spectating in one of them leaves a target that outlives the
  target's departure, which `clearPlayer`'s comment says does not happen.
* `released_cab`: `_respawn` forgets the trailer and the cab on one side only.
* `stuck_aim`: after the events of a shot the tick starts the reload that the shot
  calls for even if a script has stopped the aim in them.  The aim's key is then
  pressed for good, the end of the reload starts the shooting again, and `stopAim`,
  which returns early for an NPC that does not aim, ends neither.  The comment above
  says that the code is there for exactly such scripts.

### Observations

Met while modelling; they contradict no text of the repository that a run could
cite, so no run records them.  The models do what the code does in each case.

* *Entities.*  A gang zone streamed again is sent its last colour and loses its
  flashing.  What was not sent because a client had no id left is not sent when one
  becomes free.  `DestroyPickup` frees the legacy id of a static pickup too.  A
  label keeps the id of a destroyed vehicle; attached to a player and then to a
  vehicle it is attached to both.  `onActorStreamIn` is dispatched in each pass at
  the limit.  `setColumnHeader` does not make a menu's contents be sent again.
* *Sessions.*  A dialog cannot be closed by the server once a late answer to its
  predecessor of the same id was taken.  `toSpawn_` is not cleared by a spawn.  The
  answer to a request for a class sends the player's own skin and team, so that a
  script may change them in the callback (`classes_main.cpp:204`), but the spawn
  sets those of the stored class (`player_pool.hpp:466`): the others see another
  skin than the client.
* *NPCs.*  `pausePath` and `resumePath` cannot resume; the last point of a path is
  reported one too high; `resumePlayingNode` reports the point it paused at as
  finished; `stopMove` leaves `vehicleToEnter_`; `moveToPlayer` and a path may both
  be active.  A sprinting NPC told to aim at a player keeps the pointer without an
  aim, and `onPlayerDisconnect` clears that of aiming NPCs only
  (`npcs_impl.cpp:211`).
* *Vehicles.*  A release of a locked vehicle uncounts it for its viewers at once but
  leaves `streamedFor_` until it is freed: if it happens in a callback for keys or
  of an update, the streaming pass that follows uncounts it again.
* *Players.*  `getCameraTargetPlayer` returns what `targetPlayer_` says.
  `allowWeapons(true)` gives weapons in interiors where none are allowed.  Updates
  received while spectating are relayed when it ends.  A marker set for a player
  that is leaving stays.  `onPlayerDeath` clears tasks that a waiting reapplication
  then starts again.  A money report between the last `MoneyTimer` and the spawn
  keeps the deduction (`fixes.cpp:193`).  Destroying a player's text draws leaves
  the pointers of its game texts (`fixes.cpp:206`).
* *Messages.*  `PlayerRequestClassResponse` writes a custom model that its read
  does not take; the two formats of `ClientCheck` differ.  A shot at an object that
  is neither the server's nor the player's is relayed without asking any handler.
* *Configuration and bans.*  `max_players` of the command line is applied after the
  clamp.  An unknown legacy option dereferences `end()` (`config_main.cpp:511`); a
  legacy number too large throws; the fallback may change an option's type under
  pointers to it.  A blanked name or language is not cleared in the network.
  Reloading the bans, which a signal handler does itself, forgets those that only
  the network has; `samp.ban` is imported at each start.
* *Core and Pawn.*  A component with another's UID keeps its network and is not
  freed.  `~PlayerPool` removes handlers under other RPC ids (`player_pool.hpp:2322`).
  `SetTimerEx` deletes the handler of a timer that keeps it when its arguments do
  not parse (`Pawn/timers.cpp:117`).  The console's `unloadscript` of the mode
  leaves the server without one and asks for none (`Manager.cpp:687`).  `loadscript` of the main mode's name during a
  restart loads it as a side script too.  `putPlayer` into a passenger's seat leaves
  `passengers` as it was (`vehicle.cpp:576`).

## 8. Proofs

All proofs are for any values of the constants that satisfy the assumptions named
in the modules: any peers, names, addresses, slots and indices in
`PlayerConnection`, finitely many slots in `PlayerStream`, finitely many vehicle
objects and any players in `Vehicles`, any weapons and clip sizes in `NpcCombat`;
`None` is none of them, and the bounds are in their ranges.

**PlayerConnectionProofs.**  `Invariant` shows inductive

    IInv == TypeOK /\ NetOK /\ OrderOK /\ UnreadOK /\ PoolOK /\ RosterOK /\ NamesUnique

`NetOK` says that RakNet has one index for each peer it has not dropped.  What a
step of the main thread does depends on packets received long before, so the
invariant must speak of the queue: `OrderOK` says that a peer's unread packets are
at one index and those of the next peer there follow its connect, `UnreadOK` that a
peer connects once, and only if it never had a player.  Without the two, a peer
could enter the pool twice.  `PoolOK` links the pool with what was dispatched,
`RosterOK` with what clients were told.

The steps of the specification are many and do little to the pool.  `StepCases`
sorts them into seven kinds, each a small formula: a player enters (`Enters`), is
announced (`Announces`), some are marked (`Marks`), one is renamed (`Renames`), a
departure begins (`Departing`) and ends (`Departs`), or the pool stays as it is
(`Aside`).  Everything about the pool is then proved by seven cases.
`RostersAgree`, `LeaveOnce`, `UniqueNames` and `TypeCorrect` follow from `IInv`.

The properties of the index table need `JInv = IInv /\ TableOK /\ PingOK`:
`TableOK` says that, unless a peer was dropped at the wrong moment (`late`), an
entry is of the peer RakNet has at the index, or of one whose leave is still to be
read.  The interesting step is the reading of a leave: that it clears the entry of
its own player is a consequence of `OrderOK`.  `TableSound`, `PacketsOwn`,
`KickSilences` and `OwnPing` follow.

`Implementation` is the refinement `Spec => ImplementsSessions`.  `PoolView` gives
the session and the name of each player of the pool and of each peer that has none;
with it each of the seven kinds is an action of `PlayerSessions`, or none of its
variables change.  That a pool with a free slot has room for a session (`Room`) is
the one counting argument: the sessions present inject into the slots that are
taken.

**PlayerStreamProofs.**  `Invariant` shows `IInv = TypeOK /\ FramesOK /\
RelationOK /\ ColoursOK` inductive.  `TypeOK` alone is not: that a counter never
wraps needs that it *is* the number of players streamed in (`RelationOK`), which
in turn needs that the operations on the stack are about players that stay
(`FramesOK`).  From it follow `TypeCorrect`, `CountersExact`, `StreamBounded` and
`NothingStale`, for any depth of nesting, assuming `LateOps = FALSE`: the only acts
excluded are those that make a leaver spectate, be spectated or coloured.
`StaleFromDispatch` shows, with no assumption, that these are the only way: what a
player keeps comes to name one that is leaving or gone only in a step taken while
that player's own `onPlayerDisconnect` is dispatched.
`SpectateAccurate` (`NoStaleSpectate`) and `TargetsInMode` need in addition
`NestedToggle = FALSE` and the invariant `SInv`, which adds that whoever has a
target is spectating and that a `spectatePlayer` in progress keeps it so;
`stale_spectate` shows that the second assumption is needed.

**VehiclesProofs.**  `IInv = Seated /\ RestOK /\ AtOK`.  `Seated` says that both
ends of each seat agree; it is not inductive alone, because a handler goes on
after its callbacks with the player and the vehicle it started with: `AtOK` says
that these are still connected and in the pool, which holds only if no callback
for the siren, an unoccupied packet or a death releases the vehicle (`Spared`;
with any of these in `ReleaseIn`, TLC finds it violated).  A release in all the
others is covered: there the vehicle is locked, or the handler is done with it.
The key lemma is `LeaveEverywhere`: `unoccupy` looks at one vehicle only, the one
the player's data names, and that is enough because no other vehicle has the
player.  The theorems are `TypeCorrect`, `OccupantsAgree` and `VehiclesAlive`.

On top of `IInv`, `CountOK` says that numStreamed counts the vehicles streamed in
for each player, and that what is not in the pool, or respawning, is streamed in
for nobody.  `StreamKinds` sorts the steps into six kinds by what they do to the
sets (`Steady`, `Shows`, `Hides`, `Clears`, `Forgets`, `Empties`), so that the
counting is done once for each; `CountersExact` (`StreamedExact`) and
`UnseenOnRespawn` (`RespawnedUnseen`) follow, if only the callbacks of `rpc`
release what their handler works on (`Reserved`).  `PointersTear` is the action property
`LinksTear`: `DetachedReads` and `OffCabReads` say which pointers a detachment
clears, and each step that writes pointers keeps them, cuts a pair, ties two that
were free, frees or makes a vehicle (`StaysMutual`), or is one of the two that tear.

**NpcCombatProofs.**  `IInv` has four parts.  `NInv` is about the record alone, and
every helper that maps a record to a record has a lemma that it keeps `NInv` and
says what else it changes (`WithStateKeeps`, `AimStoppedKeeps`, `SpentKeeps`...),
so that most actions need one line each.  `ShotOK` says what a shot in progress
relies on: the bullet it will take is still in the clip, the NPC is not reloading
and, if scripts let it, still aims; with `OneShot`, a shot is the first operation
in progress or none.  `Watched` has the target in the pool, by `Aimed`: only an NPC
that aims has one.  `TypeCorrect`, `ClipNeverExceedsAmmo` and
`ReloadingIsNotShooting` hold whatever scripts do; `CountsStayNatural` assumes
`ArmsInShot = FALSE`, `NoStaleTarget` assumes `SprintAim = FALSE`, `StoppedIsQuiet`
and `NoStuckKeys` assume `StopInShot = FALSE` and that no script passes
`Reloading` to `setWeaponState`; `stuck_aim` shows that the former is needed.

**EntitiesProofs** is about `MCEntities`, for any players, ids and cars, finitely
many things, and any actor limit (`EntitiesAssumption`).  A behaviour is of one
component, so `Inv` has one inductive invariant for each of the nine: `ZoneInv`,
`PickupInv`, `LabelInv`, `ActorInv`, `DrawInv`, `MenuInv`, then `ObjectInv`,
`MoveInv`, `AttachInv`.  Of each there
is a lemma for every action, and lemmas that the initial states have it, that it
implies the properties, and that it survives a stutter.  TLC finds no state of
`entities` that violates them, with `Careful` TRUE or FALSE.

What the properties lack to be inductive is of three kinds.  *Of whom they speak*:
`ViewExact` is about the players that are there, but a player's slot must be blank
when the next one takes it, so the invariants say it of every player (`ZoneViews`,
`LabelViews`...), and of things that are not in the pool that nothing is kept of
them (`LabelFree`, `ActorFree`, `MenuFree`).  *Where the handler is*: what a
callback of a check, a pass or a pick-up may release is still there when the handler
goes on, and what is released at once is only what the handler works on
(`ZoneScan`, `ActorPass`, `doomed \subseteq {at}`).  *What ties two tables*: a
legacy id leads to a thing of its own space (`ZoneNames`), a client's ids and its
screen are inverse to each other, which `SendOK` and `WithdrawOK` show of every
change (the lowest free id exists because ids are numbers, `LowestOf`), a
per-player text draw is shown to its player only (`DrawOwn`), a bit for some player
is set exactly when the object has one (`MoveBits`), and what waits to be attached
is global (`AttachLater`).  Two counts are by cardinality, and each step that
changes them adds or removes one element (`CountOneMore`, `CountOneLess`) but for a
leaving player, who takes a whole storage along.

`EntitiesTyped`, `NobodyStale` and `CountsExact` hold whatever scripts do, and so
do `ViewsExactAnyhow` (`ViewExact` of all but the objects) and `LegacyIdsExact`
(`IdsExact` of zones and pickups).  `ViewsExact` and `IdsAreExact` assume `Careful`, whose meaning in each component is said at its declaration: that
no restart of the mode happens while players share object ids, that a moving or
attached object is not changed in a way that sends it anew, that an attachment is
reset before another is made, and that callbacks leave alone the zones that their
handler visits next.

**PlayerServicesProofs** and **ServicesProofs** are about `MCServices`, in the same
way: `Inv` is one inductive invariant per component, under its name, and the first
module has those of what each player has (`DialogInv`, `CheckpointInv`, `SpawnInv`,
`LookInv`, `SyncInv`, `ReportInv`, `FixInv`, `AttributeInv`, `WeaponInv`), the
second those of the rest (`HttpInv`, `DatabaseInv`, `LifeInv`, `PlaybackInv`,
`BanInv`, `MoveInv`, `NpcInv`, `ModelInv`, `ConsoleInv`, `TimerInv`, `GameInv`,
`OptionInv`) and the theorems.  Assumed of the constants are the named assumptions
of `MCServices`: `None` is no object, id or address; players, slots and the keys of
counters are finite; bounds are numbers; and what `Careful` means for the loading
of components.  The queues, lists and counters of these components are as long as
their bounds allow, and nothing is assumed of the bounds' values but that no queue
is forbidden altogether.

What had to be added to the properties, by kind:

* *Queues say what comes.*  What a client has follows what the server has only
  after what is under way, so the invariants speak of the last message of its kind.
  `AnswersFit` and `AnswerComes` say of which dialog each answer is and that the
  last is of the active one; `AttrKnown` and `AttrBubble` compare the server's value
  with the last order, or with the client's if there is none; `WeaponSaid`,
  `WeaponRecorded`, `WeaponOwned` and `WeaponUnarmed` say what the hands will be
  after the orders and updates in between (`Comes`, `Quiet`), for any order in which
  the slots of one update are listed.  `PacketsInOrder` and `FlaggedNew` number
  the packets of `PlayerSync`.
* *Counts.*  The queue of animations has as many entries as timers (`AnimInv`), an
  address is let in as often as players still download from it
  (`AddressesCounted`, by cardinality), the calls of a timer and the requests
  answered are those that were due (`TimerCalls`, `AnsweredOnce`), a mode has run as
  often as its repeats (`RunsCounted`).
* *Where a callback left the handler.*  What a packet's handler, a check, a move or a
  playback goes on with is still there (`HandlerKeeps`, `ReportAbout`, `MoveCalls`),
  and what waits to be released is only what is locked (`DyingLocked`).
* *Two tables that lead to each other.*  A script's id of a timer and the timer
  (`TimerIdsLead`, `TimersOnce`), the two pools of NPCs and players and the queue of
  kicks (`PointersMeet`, `QueueOnce`, `MarksQueued`), the tables of options and
  the pointers into them (`TablesDoAgree`), list, file and network of the bans.
* *Slots that are taken again*: nothing is left of a player that is not there
  (`DialogsApart`, `SpawningApart`, `WeaponsApart`...).

`ServicesTypedAnyhow`, `ViewsFollowAnyhow`, `NothingDanglesAnyhow` and
`DoneAsAskedAnyhow` name the components whose promises hold whatever scripts do
(of the timers, that none is called oftener than asked; what is pointed at only if
the arguments of `SetTimerEx` fit);
`ServicesTyped`, `ViewsFollow`, `NothingDangles` and `DoneAsAsked` assume `Careful`
(section 5) and are the whole invariants but for `NetCode`.  Those of `NpcPool`
and `NpcMoves` are shown for careful scripts only, their types included: otherwise
the queue may name an NPC twice, and a tick goes on along a path that is gone.

*Model-checked only*:

* `TypeOK` and `AsAsked` of `NetCode`.  The size of a message is a sum over its
  fields by a recursive function, and what that computes needs induction over data.
  The tables of messages are constants of the module, and TLC goes through all.
* What careless scripts (`Careful = FALSE`) may still not do in the components that the
  theorems named `...Anyhow` leave out; the run `services` has `Careful` TRUE.
* Liveness: the prover has no support for fairness and `ENABLED`.

## 9. Not modelled

* *Without control of their own*: argument conversion and `format.cpp` of the Pawn
  component and the natives that only read or pass on a value, the C API (the same
  calls for another language), Unicode conversion, Variables (a map by name),
  Recordings (a writer of packets to a file), query answers, cookies and
  statistics of the network, logging.
* *Data without effect on the control that is modelled*: positions, angles,
  distances, quaternions, materials, the text of labels and dialogs, vehicle
  paint, mods and doors, weather and time, bullets' trajectories, skill levels.
* *Left out with their control*: trains with their carriages, `preloadModels`, the
  editing of objects, objects worn by players, the emulated packets of NPCs,
  scores, markers, menus' column headers, extensions of components.
* *Not part of the server*: `TestComponent` and `DatabasesTest`, which exercise the
  SDK, and the ABI check.
* *External*: RakNet, the Pawn machine, SQLite, the HTTP library, the SDK's headers
  (pools with their locks, event dispatchers), modelled from their use.

`PROJECT.json` says for each component what is modelled and what is not.

## 10. Plan

1. The message formats of `NetCode` without the recursion over their fields, so
   that what is proved of the other services can be proved of them.
2. One abstract *screen*, what one client shows of one thing, implemented by each
   of the entities, in place of the conjunctions of `ViewExact`.
3. Composition of `PlayerConnection` with `NpcPool`: the bots' connections go the
   same way.
4. Trains, and the preloaded models of vehicles.
