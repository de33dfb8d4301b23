--------------------------- MODULE EntitiesProofs ---------------------------
(***************************************************************************)
(* Proofs about MCEntities: first what clients show of gang zones,         *)
(* pickups, labels, actors, text draws and menus, then the three sides of  *)
(* objects (their ids, their movements and what they are attached to).     *)
(* For each component: an inductive invariant, one lemma for each action,  *)
(* which keeps it, and what it implies; and at the end the theorems.       *)
(***************************************************************************)
EXTENDS MCEntities, FiniteSetTheorems, WellFoundedInduction, TLAPS

-----------------------------------------------------------------------------
(* The ids on a client's screen                                             *)

\* A set of ids that is not empty has a lowest one, which is taken.
LEMMA LowestOf ==
  ASSUME NEW I, I \subseteq Nat, I # {}
  PROVE  (CHOOSE i \in I : \A j \in I : i <= j) \in I
<1>1. PICK i \in I : \A j \in I : <<j, i>> \notin OpToRel(<, Nat)
  BY WFMin, NatLessThanWellFounded
<1>2. \A j \in I : ~(j < i)
  BY <1>1 DEF OpToRel
<1>3. \A j \in I : i <= j
  BY <1>2
<1> QED BY <1>3

\* What a client shows of the pickups, or of the zones, some of which flash.
IdTable     == [Things -> ClientIds \union {None}]
ScreenTable == [ClientIds -> Things \union {None}]
PickupView  == [id : IdTable, screen : ScreenTable]
ZoneView    == [id : IdTable, screen : ScreenTable, flash : SUBSET Things]

\* d differs from c in what it shows of the things Y.
SameBut(c, d, Y) ==
    /\ c \in PickupView => d \in PickupView
    /\ c \in ZoneView => d \in ZoneView /\ d.flash = c.flash
    /\ Z!Agrees(d)
    /\ \A z \in Things \ Y : d.id[z] = c.id[z]

LEMMA ViewTables ==
  ASSUME NEW c \in PickupView \union ZoneView
  PROVE  /\ c.id \in IdTable /\ c.screen \in ScreenTable
         /\ Z!Agrees(c) <=>
              \A i \in ClientIds, z \in Things : c.screen[i] = z <=> c.id[z] = i
<1>1. c.id \in IdTable /\ c.screen \in ScreenTable
  BY DEF PickupView, ZoneView
<1> QED BY <1>1 DEF Z!Agrees, IdTable, ScreenTable

\* New tables make a view of the same kind.
WithTables(c, f, g) == [c EXCEPT !.id = f, !.screen = g]

LEMMA NewTables ==
  ASSUME NEW c \in PickupView \union ZoneView, NEW f \in IdTable, NEW g \in ScreenTable
  PROVE  /\ WithTables(c, f, g).id = f /\ WithTables(c, f, g).screen = g
         /\ c \in PickupView => WithTables(c, f, g) \in PickupView
         /\ c \in ZoneView => /\ WithTables(c, f, g) \in ZoneView
                             /\ WithTables(c, f, g).flash = c.flash
<1> USE DEF WithTables
<1>1. CASE c \in PickupView
  BY <1>1 DEF PickupView, ZoneView
<1>2. CASE c \in ZoneView
  BY <1>2 DEF PickupView, ZoneView
<1> QED BY <1>1, <1>2

LEMMA Reserved ==
  ASSUME NEW c \in PickupView \union ZoneView
  PROVE  \/ Z!Reserve(c) = None
         \/ Z!Reserve(c) \in ClientIds /\ \A z \in Things : c.id[z] # Z!Reserve(c)
<1>1. DOMAIN c.id = Things /\ DOMAIN c.screen = ClientIds
  BY ViewTables DEF IdTable, ScreenTable
<1>2. Z!FreeIds(c) \subseteq Nat
  BY <1>1, EntitiesAssumption DEF Z!FreeIds
<1>3. CASE Z!FreeIds(c) = {}
  BY <1>3 DEF Z!Reserve
<1>4. CASE Z!FreeIds(c) # {}
  <2>1. Z!Reserve(c) \in Z!FreeIds(c)
    BY <1>2, <1>4, LowestOf DEF Z!Reserve
  <2> QED BY <1>1, <2>1 DEF Z!FreeIds
<1> QED BY <1>3, <1>4

\* Send gives z an id that nothing else has, or leaves a client out of ids as
\* it was.
LEMMA SendOK ==
  ASSUME NEW c \in PickupView \union ZoneView, Z!Agrees(c), NEW z \in Things
  PROVE  /\ SameBut(c, Z!Send(c, z), {z})
         /\ Z!Send(c, z).id[z] = None => Z!Send(c, z) = c
<1> DEFINE i == IF c.id[z] = None THEN Z!Reserve(c) ELSE c.id[z]
           d == Z!Send(c, z)
           f == [c.id EXCEPT ![z] = i]
           g == [c.screen EXCEPT ![i] = z]
<1>0. /\ c.id \in IdTable /\ c.screen \in ScreenTable
      /\ \A j \in ClientIds, y \in Things : c.screen[j] = y <=> c.id[y] = j
  BY ViewTables
<1>1. CASE i = None
  <2>1. d = c /\ c.id[z] = None
    BY <1>1 DEF Z!Send
  <2> QED BY <2>1 DEF SameBut
<1>2. CASE i # None
  <2>1. i \in ClientIds /\ \A y \in Things \ {z} : c.id[y] # i
    <3>1. CASE c.id[z] = None
      BY <1>0, <1>2, <3>1, Reserved
    <3>2. CASE c.id[z] # None
      <4>1. i = c.id[z] /\ i \in ClientIds
        BY <1>0, <1>2, <3>2 DEF IdTable
      <4>2. c.screen[i] = z
        BY <1>0, <4>1
      <4> QED BY <1>0, <4>1, <4>2
    <3> QED BY <3>1, <3>2
  <2>2. c.id[z] \in {None, i}
    OBVIOUS
  <2>3. d = WithTables(c, f, g)
    BY <1>2 DEF Z!Send, WithTables
  <2> HIDE DEF i
  <2>4. f \in IdTable /\ g \in ScreenTable
    BY <1>0, <2>1 DEF IdTable, ScreenTable
  <2>5. \A j \in ClientIds, y \in Things : g[j] = y <=> f[y] = j
    BY <1>0, <2>1, <2>2, EntitiesAssumption DEF IdTable, ScreenTable
  <2> HIDE DEF d, f, g
  <2>6. /\ d.id = f /\ d.screen = g
        /\ c \in PickupView => d \in PickupView
        /\ c \in ZoneView => d \in ZoneView /\ d.flash = c.flash
    BY <2>3, <2>4, NewTables
  <2>7. Z!Agrees(d)
    BY <2>5, <2>6, ViewTables
  <2>8. (\A y \in Things \ {z} : d.id[y] = c.id[y]) /\ d.id[z] = i
    BY <1>0, <2>6 DEF IdTable, f
  <2> QED BY <1>2, <2>6, <2>7, <2>8 DEF SameBut, d
<1> QED BY <1>1, <1>2

LEMMA WithdrawOK ==
  ASSUME NEW c \in PickupView \union ZoneView, Z!Agrees(c), NEW z \in Things
  PROVE  SameBut(c, Z!Withdraw(c, z), {z}) /\ Z!Withdraw(c, z).id[z] = None
<1> DEFINE i == c.id[z]
           d == Z!Withdraw(c, z)
           f == [c.id EXCEPT ![z] = None]
           g == [c.screen EXCEPT ![i] = None]
<1>0. /\ c.id \in IdTable /\ c.screen \in ScreenTable
      /\ \A j \in ClientIds, y \in Things : c.screen[j] = y <=> c.id[y] = j
  BY ViewTables
<1>1. CASE i = None
  <2>1. d = c
    BY <1>1 DEF Z!Withdraw
  <2> QED BY <1>1, <2>1 DEF SameBut
<1>2. CASE i # None
  <2>1. i \in ClientIds /\ c.screen[i] = z
    BY <1>0, <1>2 DEF IdTable
  <2>2. \A y \in Things \ {z} : c.id[y] # i
    BY <1>0, <2>1
  <2>3. d = WithTables(c, f, g)
    BY <1>2 DEF Z!Withdraw, WithTables
  <2>4. f \in IdTable /\ g \in ScreenTable
    BY <1>0, <2>1 DEF IdTable, ScreenTable
  <2>5. \A j \in ClientIds, y \in Things : g[j] = y <=> f[y] = j
    BY <1>0, <2>1, <2>2, EntitiesAssumption DEF IdTable, ScreenTable
  <2> HIDE DEF d, f, g
  <2>6. /\ d.id = f /\ d.screen = g
        /\ c \in PickupView => d \in PickupView
        /\ c \in ZoneView => d \in ZoneView /\ d.flash = c.flash
    BY <2>3, <2>4, NewTables
  <2>7. Z!Agrees(d)
    BY <2>5, <2>6, ViewTables
  <2>8. (\A y \in Things \ {z} : d.id[y] = c.id[y]) /\ d.id[z] = None
    BY <1>0, <2>6 DEF IdTable, f
  <2> QED BY <2>6, <2>7, <2>8 DEF SameBut, d
<1> QED BY <1>1, <1>2

LEMMA WithdrawAllOK ==
  ASSUME NEW c \in PickupView \union ZoneView, Z!Agrees(c), NEW Y \in SUBSET Things
  PROVE  /\ SameBut(c, Z!WithdrawAll(c, Y), Y)
         /\ \A z \in Y : Z!WithdrawAll(c, Y).id[z] = None
<1> DEFINE d == Z!WithdrawAll(c, Y)
           f == [z \in Things |-> IF z \in Y THEN None ELSE c.id[z]]
           g == [i \in ClientIds |-> IF c.screen[i] \in Y THEN None ELSE c.screen[i]]
<1>0. /\ c.id \in IdTable /\ c.screen \in ScreenTable
      /\ \A j \in ClientIds, y \in Things : c.screen[j] = y <=> c.id[y] = j
  BY ViewTables
<1>1. DOMAIN c.id = Things /\ DOMAIN c.screen = ClientIds
  BY <1>0 DEF IdTable, ScreenTable
<1>2. d = WithTables(c, f, g)
  BY <1>1 DEF Z!WithdrawAll, WithTables
<1>3. f \in IdTable /\ g \in ScreenTable
  BY <1>0 DEF IdTable, ScreenTable
<1>4. ASSUME NEW j \in ClientIds, NEW y \in Things
      PROVE  g[j] = y <=> f[y] = j
  <2>1. None # y /\ None # j
    BY EntitiesAssumption
  <2>2. c.screen[j] = y <=> c.id[y] = j
    BY <1>0
  <2>3. g[j] = IF c.screen[j] \in Y THEN None ELSE c.screen[j]
    OBVIOUS
  <2>4. f[y] = IF y \in Y THEN None ELSE c.id[y]
    OBVIOUS
  <2> QED BY <2>1, <2>2, <2>3, <2>4
<1> HIDE DEF d, f, g
<1>5. /\ d.id = f /\ d.screen = g
      /\ c \in PickupView => d \in PickupView
      /\ c \in ZoneView => d \in ZoneView /\ d.flash = c.flash
  BY <1>2, <1>3, NewTables
<1>6. Z!Agrees(d)
  BY <1>4, <1>5, ViewTables
<1>7. \A y \in Things : d.id[y] = IF y \in Y THEN None ELSE c.id[y]
  BY <1>5 DEF f
<1> QED BY <1>5, <1>6, <1>7 DEF SameBut, d

\* A client that is shown nothing.
LEMMA BlankOK ==
  /\ Z!Blank(Things, ClientIds) \in PickupView
  /\ Z!NoData \in ZoneView
  /\ Z!Agrees(Z!Blank(Things, ClientIds)) /\ Z!Agrees(Z!NoData)
  /\ \A z \in Things : Z!Blank(Things, ClientIds).id[z] = None /\ Z!NoData.id[z] = None
  /\ Z!NoData.flash = {}
<1> USE DEF Z!Blank, Z!NoData
<1>1. Z!Blank(Things, ClientIds) \in PickupView /\ Z!NoData \in ZoneView
  BY DEF PickupView, ZoneView, IdTable, ScreenTable
<1>2. \A z \in Things : Z!Blank(Things, ClientIds).id[z] = None /\ Z!NoData.id[z] = None
  OBVIOUS
<1>3. Z!Agrees(Z!Blank(Things, ClientIds)) /\ Z!Agrees(Z!NoData)
  BY EntitiesAssumption DEF Z!Agrees
<1> QED BY <1>1, <1>2, <1>3

-----------------------------------------------------------------------------
(* Gang zones                                                               *)

ZoneRecord == [shown : SUBSET Players, flashing : SUBSET Players,
               inside : SUBSET Players, owner : Z!Spaces]
ScanRecord == [op : {"idle", "check", "enter", "click"},
               who : Players \union {None}, zone : Things \union {None},
               todo : SUBSET Things, entered : SUBSET Things]

\* The types of what is kept of the zones, the clients' views apart.
ZoneTypes ==
    /\ players \subseteq Players
    /\ pool \subseteq Things
    /\ doomed \subseteq pool
    /\ zone \in [Things -> ZoneRecord]
    /\ legacy \in [Z!Spaces -> Things \union {None}]
    /\ checking \subseteq pool
    /\ scan \in ScanRecord

\* The handler in progress: what it will visit next can be visited.
ZoneScan ==
    /\ scan.op = "idle" => scan = Z!Idle
    /\ scan.op # "idle" => scan.who \in players
    /\ scan.op = "enter" => scan.todo = {}
    /\ scan.todo \subseteq checking
    /\ doomed \subseteq {scan.zone}
    /\ doomed \intersect checking = {}

\* What one client shows of the zones is consistent.
ZoneViewOK(c) == c \in ZoneView /\ Z!Agrees(c) /\ \A z \in c.flash : c.id[z] # None

\* What a client shows is what the server has it down for, also of a player
\* that is not there: nothing.
ZoneViewExact(p) ==
    /\ ZoneViewOK(seen[p])
    /\ \A z \in Things : seen[p].id[z] # None => z \in Z!Usable /\ p \in zone[z].shown
    /\ \A z \in seen[p].flash : p \in zone[z].flashing

ZoneViews == seen \in [Players -> ZoneView] /\ \A p \in Players : ZoneViewExact(p)

\* A legacy id leads to a zone of its own space.
ZoneNames ==
    /\ Z!IdsExact
    /\ \A s \in Z!Spaces : legacy[s] # None => zone[legacy[s]].owner = s

\* A player is inside what it is shown, and so will it be of what it has
\* entered, if scripts leave alone what the handler will visit next.
ZoneInside == Careful =>
    /\ Z!InsideShown
    /\ \A z \in scan.entered : z \in Z!Usable /\ scan.who \in zone[z].shown

ZoneInv == ZoneTypes /\ ZoneScan /\ ZoneViews /\ Z!NoStale /\ ZoneNames /\ ZoneInside

-----------------------------------------------------------------------------
\* In d the zones Y may be shown or not, and do not flash; the others are as
\* in c.
ZoneStep(c, d, Y) ==
    /\ ZoneViewOK(d)
    /\ \A z \in Things \ Y : d.id[z] = c.id[z]
    /\ d.flash \subseteq c.flash \ Y

\* New flashing marks, of zones that have an id, make a view of the same kind.
LEMMA NewFlashOK ==
  ASSUME NEW c \in ZoneView, Z!Agrees(c), NEW F \in SUBSET Things,
         \A z \in F : c.id[z] # None
  PROVE  LET d == [c EXCEPT !.flash = F]
         IN  ZoneViewOK(d) /\ d.id = c.id /\ d.flash = F
<1> DEFINE d == [c EXCEPT !.flash = F]
<1>1. d \in ZoneView /\ d.id = c.id /\ d.screen = c.screen /\ d.flash = F
  BY DEF ZoneView
<1> HIDE DEF d
<1>2. Z!Agrees(d)
  BY <1>1 DEF Z!Agrees
<1> QED BY <1>1, <1>2 DEF ZoneViewOK, d

LEMMA ZoneShow ==
  ASSUME NEW c, ZoneViewOK(c), NEW z \in Things
  PROVE  ZoneStep(c, Z!ShowForClient(c, z), {z})
<1> DEFINE d == Z!Send(c, z)
<1>0. c \in ZoneView /\ Z!Agrees(c) /\ c.flash \subseteq Things
  BY DEF ZoneViewOK, ZoneView
<1>1. /\ d \in ZoneView /\ d.flash = c.flash /\ Z!Agrees(d)
      /\ \A y \in Things \ {z} : d.id[y] = c.id[y]
      /\ d.id[z] = None => d = c
  BY <1>0, SendOK DEF SameBut
<1> HIDE DEF d
<1>2. CASE d.id[z] = None
  <2>1. Z!ShowForClient(c, z) = c /\ c.id[z] = None
    BY <1>1, <1>2 DEF Z!ShowForClient, d
  <2> QED BY <2>1 DEF ZoneStep, ZoneViewOK
<1>3. CASE d.id[z] # None
  <2>1. Z!ShowForClient(c, z) = [d EXCEPT !.flash = d.flash \ {z}]
    BY <1>3 DEF Z!ShowForClient, d
  <2>2. \A y \in d.flash \ {z} : d.id[y] # None
    BY <1>0, <1>1 DEF ZoneViewOK
  <2>3. LET e == [d EXCEPT !.flash = d.flash \ {z}]
        IN  ZoneViewOK(e) /\ e.id = d.id /\ e.flash = d.flash \ {z}
    BY <1>0, <1>1, <2>2, NewFlashOK
  <2> QED BY <1>0, <1>1, <2>1, <2>3 DEF ZoneStep
<1> QED BY <1>2, <1>3

LEMMA ZoneHide ==
  ASSUME NEW c, ZoneViewOK(c), NEW z \in Things
  PROVE  /\ ZoneStep(c, Z!HideForClient(c, z), {z})
         /\ Z!HideForClient(c, z).id[z] = None
<1> DEFINE d == Z!Withdraw(c, z)
<1>0. c \in ZoneView /\ Z!Agrees(c) /\ c.flash \subseteq Things
  BY DEF ZoneViewOK, ZoneView
<1>1. /\ d \in ZoneView /\ d.flash = c.flash /\ Z!Agrees(d)
      /\ \A y \in Things \ {z} : d.id[y] = c.id[y]
      /\ d.id[z] = None
  BY <1>0, WithdrawOK DEF SameBut
<1> HIDE DEF d
<1>2. Z!HideForClient(c, z) = [d EXCEPT !.flash = d.flash \ {z}]
  BY DEF Z!HideForClient, d
<1>3. \A y \in d.flash \ {z} : d.id[y] # None
  BY <1>0, <1>1 DEF ZoneViewOK
<1>4. LET e == [d EXCEPT !.flash = d.flash \ {z}]
      IN  ZoneViewOK(e) /\ e.id = d.id /\ e.flash = d.flash \ {z}
  BY <1>0, <1>1, <1>3, NewFlashOK
<1> QED BY <1>0, <1>1, <1>2, <1>4 DEF ZoneStep

LEMMA ZoneHideAll ==
  ASSUME NEW c, ZoneViewOK(c), NEW Y \in SUBSET Things
  PROVE  LET d == [Z!WithdrawAll(c, Y) EXCEPT !.flash = @ \ Y]
         IN  ZoneStep(c, d, Y) /\ \A z \in Y : d.id[z] = None
<1> DEFINE d == Z!WithdrawAll(c, Y)
<1>0. c \in ZoneView /\ Z!Agrees(c) /\ c.flash \subseteq Things
  BY DEF ZoneViewOK, ZoneView
<1>1. /\ d \in ZoneView /\ d.flash = c.flash /\ Z!Agrees(d)
      /\ \A y \in Things \ Y : d.id[y] = c.id[y]
      /\ \A y \in Y : d.id[y] = None
  BY <1>0, WithdrawAllOK DEF SameBut
<1> HIDE DEF d
<1>3. \A y \in d.flash \ Y : d.id[y] # None
  BY <1>0, <1>1 DEF ZoneViewOK
<1>4. LET e == [d EXCEPT !.flash = d.flash \ Y]
      IN  ZoneViewOK(e) /\ e.id = d.id /\ e.flash = d.flash \ Y
  BY <1>0, <1>1, <1>3, NewFlashOK
<1> QED BY <1>0, <1>1, <1>4 DEF ZoneStep, d

\* What removeFor leaves of a zone.
LEMMA RemovedOK ==
  ASSUME NEW z \in Things, zone[z] \in ZoneRecord, NEW p \in Players
  PROVE  /\ Z!RemoveFor(z, p) \in ZoneRecord
         /\ Z!RemoveFor(z, p).shown = zone[z].shown \ {p}
         /\ Z!RemoveFor(z, p).flashing = zone[z].flashing \ {p}
         /\ Z!RemoveFor(z, p).inside = zone[z].inside \ {p}
         /\ Z!RemoveFor(z, p).owner = zone[z].owner
  BY DEF Z!RemoveFor, ZoneRecord

\* A zone that is withdrawn and sent again.
LEMMA ZoneAnew ==
  ASSUME NEW c, ZoneViewOK(c), NEW z \in Things
  PROVE  ZoneStep(c, Z!ShowForClient(Z!HideForClient(c, z), z), {z})
<1> DEFINE d == Z!HideForClient(c, z)
           e == Z!ShowForClient(d, z)
<1>1. ZoneStep(c, d, {z})
  BY ZoneHide
<1>2. ZoneStep(d, e, {z})
  BY <1>1, ZoneShow DEF ZoneStep
<1> HIDE DEF d, e
<1>3. ZoneStep(c, e, {z})
  BY <1>1, <1>2 DEF ZoneStep
<1> QED BY <1>3 DEF d, e

\* Views stay exact while the zones they have stay and are shown as before.
LEMMA ZoneViewsKept ==
  ASSUME ZoneViews, UNCHANGED seen,
         \A z \in Z!Usable : /\ z \in Z!Usable'
                             /\ zone'[z].shown = zone[z].shown
                             /\ zone'[z].flashing = zone[z].flashing
  PROVE  ZoneViews'
<1>1. ASSUME NEW p \in Players
      PROVE  ZoneViewExact(p)'
  <2>1. ZoneViewExact(p)
    BY DEF ZoneViews
  <2>2. seen'[p] = seen[p]
    OBVIOUS
  <2>3. \A z \in seen[p].flash : z \in Things /\ seen[p].id[z] # None
    BY <2>1 DEF ZoneViewExact, ZoneViewOK, ZoneView
  <2>4. ZoneViewOK(seen'[p])
    BY <2>1, <2>2 DEF ZoneViewExact
  <2>5. \A z \in Things : seen'[p].id[z] # None => z \in Z!Usable' /\ p \in zone'[z].shown
    BY <2>1, <2>2 DEF ZoneViewExact
  <2>6. \A z \in seen'[p].flash : p \in zone'[z].flashing
    BY <2>1, <2>2, <2>3 DEF ZoneViewExact
  <2> QED BY <2>4, <2>5, <2>6 DEF ZoneViewExact
<1> QED BY <1>1 DEF ZoneViews

LEMMA ZonesReturn ==
  ASSUME ZoneInv, Z!Return
  PROVE  ZoneInv'
<1>1. ZoneTypes'
  BY DEF ZoneInv, Z!Return, ZoneTypes, ZoneRecord, ScanRecord, ZoneScan,
         Z!Fresh, Z!Spaces
<1>2. ZoneScan'
  BY DEF ZoneInv, Z!Return, ZoneScan, Z!Idle
<1>3. ZoneViews'
  <2>1. \A y \in Z!Usable : /\ y \in Z!Usable'
                            /\ zone'[y].shown = zone[y].shown
                            /\ zone'[y].flashing = zone[y].flashing
    BY DEF ZoneInv, ZoneTypes, Z!Usable, Z!Return
  <2> QED BY <2>1, ZoneViewsKept DEF ZoneInv, Z!Return
<1>4. Z!NoStale'
  BY DEF ZoneInv, Z!Return, Z!NoStale, ZoneTypes
<1>5. ZoneNames'
  BY DEF ZoneInv, Z!Return, ZoneNames, Z!IdsExact, ZoneTypes, Z!Usable
<1>6. ZoneInside'
  BY DEF ZoneInv, Z!Return, ZoneInside, Z!InsideShown, ZoneTypes, Z!Usable
<1> QED BY <1>1, <1>2, <1>3, <1>4, <1>5, <1>6 DEF ZoneInv

LEMMA ZonesEndHandler ==
  ASSUME ZoneInv, Z!EndHandler
  PROVE  ZoneInv'
<1>1. ZoneTypes'
  BY DEF ZoneInv, Z!EndHandler, Z!Idle, ZoneTypes, ScanRecord
<1>2. ZoneScan'
  BY DEF ZoneInv, Z!EndHandler, Z!Idle, ZoneScan
<1>3. ZoneViews'
  <2>1. \A y \in Z!Usable : /\ y \in Z!Usable'
                            /\ zone'[y].shown = zone[y].shown
                            /\ zone'[y].flashing = zone[y].flashing
    BY DEF ZoneInv, ZoneTypes, ZoneScan, Z!Usable, Z!EndHandler
  <2> QED BY <2>1, ZoneViewsKept DEF ZoneInv, Z!EndHandler
<1>4. Z!NoStale'
  BY DEF ZoneInv, Z!EndHandler, Z!NoStale
<1>5. ZoneNames'
  BY DEF ZoneInv, Z!EndHandler, ZoneNames, Z!IdsExact, Z!Usable
<1>6. ZoneInside'
  BY DEF ZoneInv, Z!EndHandler, Z!Idle, ZoneInside, Z!InsideShown
<1> QED BY <1>1, <1>2, <1>3, <1>4, <1>5, <1>6 DEF ZoneInv

LEMMA ZonesReset ==
  ASSUME ZoneInv, Z!Reset
  PROVE  ZoneInv'
<1>1. ZoneTypes'
  BY EntitiesAssumption
  DEF ZoneInv, Z!Reset, ZoneTypes, ZoneRecord, ZoneScan, Z!Idle, Z!Fresh,
      Z!Spaces
<1>2. ZoneScan'
  BY DEF ZoneInv, Z!Reset, ZoneScan, Z!Idle
<1>3. ZoneViews'
  <2>1. seen' = [p \in Players |-> Z!NoData]
    BY DEF Z!Reset
  <2> QED BY <2>1, BlankOK DEF ZoneViews, ZoneViewExact, ZoneViewOK
<1>4. Z!NoStale'
  BY DEF Z!Reset, Z!NoStale
<1>5. ZoneNames'
  BY DEF Z!Reset, ZoneNames, Z!IdsExact, Z!Usable
<1>6. ZoneInside'
  BY DEF Z!Reset, Z!Idle, ZoneInside, Z!InsideShown
<1> QED BY <1>1, <1>2, <1>3, <1>4, <1>5, <1>6 DEF ZoneInv

\* A walk over the checking list that goes on over a list that has changed: only
\* what is left of the walk may be another.
LEMMA WalkedOnOK ==
  ASSUME ZoneTypes, ZoneScan, Z!WalkedOn, checking' \subseteq Things
  PROVE  /\ scan' \in ScanRecord
         /\ scan'.op = scan.op /\ scan'.who = scan.who /\ scan'.zone = scan.zone
         /\ scan'.entered = scan.entered
         /\ scan'.todo \subseteq checking'
         /\ scan.op \notin {"check", "click"} => scan' = scan
<1>1. scan \in ScanRecord /\ scan.todo \subseteq checking
  BY DEF ZoneTypes, ZoneScan
<1>2. CASE Z!Walking /\ checking' # checking
  <2>1. PICK left \in SUBSET checking' : scan' = [scan EXCEPT !.todo = left]
    BY <1>2 DEF Z!WalkedOn
  <2> QED BY <1>1, <1>2, <2>1 DEF ScanRecord, Z!Walking
<1>3. CASE ~(Z!Walking /\ checking' # checking)
  <2>1. scan' = scan
    BY <1>3 DEF Z!WalkedOn
  <2>2. scan.todo \subseteq checking'
    <3>1. CASE checking' = checking
      BY <1>1, <3>1
    <3>2. CASE ~Z!Walking
      <4>1. scan.op \in {"idle", "enter"}
        BY <1>1, <3>2 DEF ScanRecord, Z!Walking
      <4>2. scan.todo = {}
        BY <4>1 DEF ZoneScan, Z!Idle
      <4> QED BY <4>2
    <3> QED BY <1>3, <3>1, <3>2
  <2> QED BY <1>1, <2>1, <2>2
<1> QED BY <1>2, <1>3

LEMMA ZonesDestroy ==
  ASSUME ZoneInv, NEW s \in Z!Spaces, Z!Destroy(s)
  PROVE  ZoneInv'
<1>0. /\ scan' \in ScanRecord
      /\ scan'.op = scan.op /\ scan'.who = scan.who /\ scan'.zone = scan.zone
      /\ scan'.entered = scan.entered
      /\ scan'.todo \subseteq checking'
      /\ scan.op \notin {"check", "click"} => scan' = scan
  <2>1. checking' \subseteq Things
    BY DEF ZoneInv, ZoneTypes, Z!Destroy, Z!Released
  <2> QED BY <2>1, WalkedOnOK DEF ZoneInv, Z!Destroy
<1>1. ZoneTypes'
  BY <1>0 DEF ZoneInv, Z!Destroy, Z!Released, Z!Usable, ZoneTypes, ZoneRecord,
         Z!Fresh, Z!Spaces
<1>2. ZoneScan'
  <2>1. scan'.op = "idle" => scan' = Z!Idle
    BY <1>0 DEF ZoneInv, ZoneScan
  <2>2. scan'.op # "idle" => scan'.who \in players'
    BY <1>0 DEF ZoneInv, ZoneScan, Z!Destroy
  <2>3. scan'.op = "enter" => scan'.todo = {}
    BY <1>0 DEF ZoneInv, ZoneScan
  <2>4. doomed' \subseteq {scan'.zone} /\ doomed' \intersect checking' = {}
    BY <1>0 DEF ZoneInv, ZoneScan, Z!Destroy, Z!Released
  <2> QED BY <1>0, <2>1, <2>2, <2>3, <2>4 DEF ZoneScan
<1>3. ZoneViews'
  <2> DEFINE z == legacy[s]
  <2>0. /\ z \in Z!Usable /\ z \in Things /\ Z!Usable' = Z!Usable \ {z}
        /\ \A y \in Things \ {z} : zone'[y] = zone[y]
        /\ seen' = Z!Destreamed(z)
    BY EntitiesAssumption
    DEF ZoneInv, ZoneTypes, Z!Destroy, Z!Released, Z!Usable
  <2> HIDE DEF z
  <2>1. ASSUME NEW p \in Players
        PROVE  seen'[p] \in ZoneView /\ ZoneViewExact(p)'
    <3>1. /\ ZoneViewExact(p) /\ ZoneViewOK(seen[p]) /\ seen[p] \in ZoneView
          /\ seen[p].flash \subseteq Things
      BY DEF ZoneInv, ZoneViews, ZoneViewExact, ZoneView
    <3>2. CASE p \in zone[z].shown
      <4>1. seen'[p] = Z!HideForClient(seen[p], z)
        BY <2>0, <3>2 DEF Z!Destreamed
      <4>2. ZoneStep(seen[p], seen'[p], {z}) /\ seen'[p].id[z] = None
        BY <2>0, <3>1, <4>1, ZoneHide
      <4> QED BY <2>0, <3>1, <4>2 DEF ZoneStep, ZoneViewExact, ZoneViewOK
    <3>3. CASE p \notin zone[z].shown
      <4>1. seen'[p] = seen[p] /\ seen[p].id[z] = None /\ z \notin seen[p].flash
        BY <2>0, <3>1, <3>3 DEF Z!Destreamed, ZoneViewExact, ZoneViewOK
      <4> QED BY <2>0, <3>1, <4>1 DEF ZoneViewExact, ZoneViewOK
    <3> QED BY <3>2, <3>3
  <2>2. seen' \in [Players -> ZoneView]
    BY <2>0, <2>1 DEF Z!Destreamed
  <2> QED BY <2>1, <2>2 DEF ZoneViews
<1>4. Z!NoStale'
  BY DEF ZoneInv, Z!Destroy, Z!Released, Z!NoStale, ZoneTypes
<1>5. ZoneNames'
  BY DEF ZoneInv, Z!Destroy, Z!Released, Z!Usable, ZoneNames, Z!IdsExact,
         ZoneTypes
<1>6. ZoneInside'
  BY <1>0 DEF ZoneInv, Z!Destroy, Z!Released, Z!Usable, ZoneInside, Z!InsideShown,
         ZoneTypes
<1> QED BY <1>1, <1>2, <1>3, <1>4, <1>5, <1>6 DEF ZoneInv

LEMMA ZonesConnect ==
  ASSUME ZoneInv, NEW p \in Players, Z!Connect(p)
  PROVE  ZoneInv'
<1>1. ZoneTypes'
  BY DEF ZoneInv, Z!Connect, ZoneTypes
<1>2. ZoneScan'
  BY DEF ZoneInv, Z!Connect, ZoneScan
<1>3. ZoneViews'
  <2>1. \A y \in Z!Usable : /\ y \in Z!Usable'
                            /\ zone'[y].shown = zone[y].shown
                            /\ zone'[y].flashing = zone[y].flashing
    BY DEF ZoneInv, ZoneTypes, ZoneScan, Z!Usable, Z!Connect
  <2> QED BY <2>1, ZoneViewsKept DEF ZoneInv, Z!Connect
<1>4. Z!NoStale'
  BY DEF ZoneInv, Z!Connect, Z!NoStale
<1>5. ZoneNames'
  BY DEF ZoneInv, Z!Connect, ZoneNames, Z!IdsExact, Z!Usable
<1>6. ZoneInside'
  BY DEF ZoneInv, Z!Connect, Z!Idle, ZoneInside, Z!InsideShown
<1> QED BY <1>1, <1>2, <1>3, <1>4, <1>5, <1>6 DEF ZoneInv

LEMMA ZonesDisconnect ==
  ASSUME ZoneInv, NEW p \in Players, Z!Disconnect(p)
  PROVE  ZoneInv'
<1>0. /\ zone' \in [Things -> ZoneRecord]
      /\ \A y \in Things : IF y \in Z!Own(p) THEN zone'[y] = Z!Fresh
           ELSE /\ zone'[y].shown = zone[y].shown \ {p}
                /\ zone'[y].flashing = zone[y].flashing \ {p}
                /\ zone'[y].inside = zone[y].inside \ {p}
                /\ zone'[y].owner = zone[y].owner
      /\ \A y \in Things : y \in Z!Own(p) <=> y \in pool /\ zone[y].owner = p
  <2>1. \A y \in Things : zone[y] \in ZoneRecord
    BY DEF ZoneInv, ZoneTypes, ZoneRecord
  <2>2. \A y \in Things :
          /\ Z!RemoveFor(y, p) \in ZoneRecord
          /\ Z!RemoveFor(y, p).shown = zone[y].shown \ {p}
          /\ Z!RemoveFor(y, p).flashing = zone[y].flashing \ {p}
          /\ Z!RemoveFor(y, p).inside = zone[y].inside \ {p}
          /\ Z!RemoveFor(y, p).owner = zone[y].owner
    BY <2>1, RemovedOK
  <2>3. zone' = [y \in Things |-> IF y \in Z!Own(p) THEN Z!Fresh ELSE Z!RemoveFor(y, p)]
    BY DEF Z!Disconnect
  <2>4. Z!Fresh \in ZoneRecord
    BY DEF Z!Fresh, ZoneRecord, Z!Spaces
  <2> QED BY <2>2, <2>3, <2>4 DEF Z!Own
<1>1. ZoneTypes'
  BY <1>0, EntitiesAssumption
  DEF ZoneInv, Z!Disconnect, Z!Spaces, ZoneTypes, ZoneScan, Z!Idle
<1>2. ZoneScan'
  BY <1>0 DEF ZoneInv, Z!Disconnect, ZoneScan, Z!Idle
<1>3. ZoneViews'
  <2>0. Z!Own(p) \subseteq Things /\ doomed = {} /\ doomed' = {} /\ pool' = pool \ Z!Own(p)
    BY <1>0, EntitiesAssumption
    DEF ZoneInv, ZoneTypes, ZoneScan, Z!Own, Z!Disconnect, Z!Idle
  <2>1. ASSUME NEW q \in Players
        PROVE  seen'[q] \in ZoneView /\ ZoneViewExact(q)'
    <3>1. CASE q = p
      <4>1. seen'[q] = Z!NoData
        BY <3>1 DEF Z!Disconnect
      <4> QED BY <4>1, BlankOK DEF ZoneViewExact, ZoneViewOK
    <3>2. CASE q # p
      <4>1. /\ ZoneViewExact(q) /\ ZoneViewOK(seen[q]) /\ seen[q] \in ZoneView
            /\ seen[q].flash \subseteq Things
        BY DEF ZoneInv, ZoneViews, ZoneViewExact, ZoneView
      <4>2. seen'[q] = [Z!WithdrawAll(seen[q], Z!Own(p)) EXCEPT !.flash = @ \ Z!Own(p)]
        BY <3>2 DEF Z!Disconnect, Z!HiddenWith
      <4>3. /\ ZoneStep(seen[q], seen'[q], Z!Own(p))
            /\ \A z \in Z!Own(p) : seen'[q].id[z] = None
        BY <2>0, <4>1, <4>2, ZoneHideAll
      <4>4. ZoneViewOK(seen'[q]) /\ seen'[q] \in ZoneView
        BY <4>3 DEF ZoneStep, ZoneViewOK
      <4>5. \A z \in Things : seen'[q].id[z] # None => z \in Z!Usable' /\ q \in zone'[z].shown
        BY <1>0, <2>0, <3>2, <4>1, <4>3 DEF ZoneStep, ZoneViewExact, Z!Usable
      <4>6. \A z \in seen'[q].flash : q \in zone'[z].flashing
        BY <1>0, <2>0, <3>2, <4>1, <4>3 DEF ZoneStep, ZoneViewExact
      <4> QED BY <4>4, <4>5, <4>6 DEF ZoneViewExact
    <3> QED BY <3>1, <3>2
  <2>2. seen' \in [Players -> ZoneView]
    BY <2>1 DEF Z!Disconnect
  <2> QED BY <2>1, <2>2 DEF ZoneViews
<1>4. Z!NoStale'
  BY <1>0 DEF ZoneInv, Z!Disconnect, Z!NoStale, ZoneTypes
<1>5. ZoneNames'
  BY <1>0 DEF ZoneInv, Z!Disconnect, ZoneNames, Z!IdsExact, ZoneTypes, Z!Usable
<1>6. ZoneInside'
  BY <1>0
  DEF ZoneInv, Z!Disconnect, Z!Idle, ZoneInside, Z!InsideShown, ZoneTypes
<1> QED BY <1>1, <1>2, <1>3, <1>4, <1>5, <1>6 DEF ZoneInv

LEMMA ZonesHandle ==
  ASSUME ZoneInv, NEW op \in {"check", "click"}, NEW p \in Players, Z!Handle(op, p)
  PROVE  ZoneInv'
<1>1. ZoneTypes'
  BY DEF ZoneInv, Z!Handle, ZoneTypes, ScanRecord
<1>2. ZoneScan'
  BY DEF ZoneInv, Z!Handle, ZoneScan
<1>3. ZoneViews'
  <2>1. \A y \in Z!Usable : /\ y \in Z!Usable'
                            /\ zone'[y].shown = zone[y].shown
                            /\ zone'[y].flashing = zone[y].flashing
    BY DEF ZoneInv, ZoneTypes, ZoneScan, Z!Usable, Z!Handle
  <2> QED BY <2>1, ZoneViewsKept DEF ZoneInv, Z!Handle
<1>4. Z!NoStale'
  BY DEF ZoneInv, Z!Handle, Z!NoStale
<1>5. ZoneNames'
  BY DEF ZoneInv, Z!Handle, ZoneNames, Z!IdsExact, Z!Usable
<1>6. ZoneInside'
  BY DEF ZoneInv, Z!Handle, Z!Idle, ZoneInside, Z!InsideShown
<1> QED BY <1>1, <1>2, <1>3, <1>4, <1>5, <1>6 DEF ZoneInv

LEMMA ZonesSetPosition ==
  ASSUME ZoneInv, NEW z \in Things, Z!SetPosition(z)
  PROVE  ZoneInv'
<1>1. ZoneTypes'
  BY DEF ZoneInv, Z!SetPosition, ZoneTypes
<1>2. ZoneScan'
  BY DEF ZoneInv, Z!SetPosition, ZoneScan
<1>3. ZoneViews'
  <2>1. ASSUME NEW p \in Players
        PROVE  seen'[p] \in ZoneView /\ ZoneViewExact(p)'
    <3>1. ZoneViewExact(p) /\ ZoneViewOK(seen[p]) /\ seen[p] \in ZoneView
      BY DEF ZoneInv, ZoneViews, ZoneViewExact
    <3>2. CASE p \in zone[z].shown
      <4>1. seen'[p] = Z!ShowForClient(Z!HideForClient(seen[p], z), z)
        BY <3>2 DEF Z!SetPosition, Z!Restreamed
      <4>2. ZoneStep(seen[p], seen'[p], {z})
        BY <3>1, <4>1, ZoneAnew
      <4> QED
        BY <3>1, <3>2, <4>2
        DEF ZoneStep, ZoneViewExact, ZoneViewOK, Z!SetPosition, Z!Usable
    <3>3. CASE p \notin zone[z].shown
      <4>1. seen'[p] = seen[p]
        BY <3>3 DEF Z!SetPosition, Z!Restreamed
      <4> QED
        BY <3>1, <4>1 DEF ZoneViewExact, ZoneViewOK, Z!SetPosition, Z!Usable
    <3> QED BY <3>2, <3>3
  <2>2. seen' \in [Players -> ZoneView]
    BY <2>1 DEF Z!SetPosition, Z!Restreamed
  <2> QED BY <2>1, <2>2 DEF ZoneViews
<1>4. Z!NoStale'
  BY DEF ZoneInv, Z!SetPosition, Z!NoStale
<1>5. ZoneNames'
  BY DEF ZoneInv, Z!SetPosition, Z!Usable, ZoneNames, Z!IdsExact
<1>6. ZoneInside'
  BY DEF ZoneInv, Z!SetPosition, Z!Usable, ZoneInside, Z!InsideShown
<1> QED BY <1>1, <1>2, <1>3, <1>4, <1>5, <1>6 DEF ZoneInv

LEMMA ZonesEnterZone ==
  ASSUME ZoneInv, NEW z \in Things, Z!EnterZone(z)
  PROVE  ZoneInv'
<1>0. /\ zone' \in [Things -> ZoneRecord]
      /\ \A y \in Things \ {z} : zone'[y] = zone[y]
      /\ zone'[z].shown = zone[z].shown
      /\ zone'[z].flashing = zone[z].flashing
      /\ zone'[z].inside = zone[z].inside \union {scan.who}
      /\ zone'[z].owner = zone[z].owner
      /\ scan.who \in players
  <2> DEFINE r == [zone[z] EXCEPT !.inside = @ \union {scan.who}]
  <2>1. zone[z] \in ZoneRecord /\ scan.who \in players /\ players \subseteq Players
    BY DEF ZoneInv, ZoneTypes, ZoneScan, ZoneRecord, Z!EnterZone
  <2>2. /\ r \in ZoneRecord
        /\ r.shown = zone[z].shown /\ r.flashing = zone[z].flashing
        /\ r.inside = zone[z].inside \union {scan.who} /\ r.owner = zone[z].owner
    BY <2>1 DEF ZoneRecord
  <2>3. zone' = [zone EXCEPT ![z] = r]
    BY DEF Z!EnterZone, ZoneInv, ZoneTypes
  <2> HIDE DEF r
  <2> QED BY <2>1, <2>2, <2>3 DEF ZoneInv, ZoneTypes, ZoneRecord
<1>1. ZoneTypes'
  BY <1>0 DEF ZoneInv, Z!EnterZone, ZoneTypes, ScanRecord
<1>2. ZoneScan'
  BY <1>0, EntitiesAssumption DEF ZoneInv, Z!EnterZone, ZoneScan, ZoneTypes
<1>3. ZoneViews'
  <2>1. \A y \in Z!Usable : /\ y \in Z!Usable'
                            /\ zone'[y].shown = zone[y].shown
                            /\ zone'[y].flashing = zone[y].flashing
    BY <1>0 DEF ZoneInv, ZoneTypes, ZoneScan, Z!Usable, Z!EnterZone
  <2> QED BY <2>1, ZoneViewsKept DEF ZoneInv, Z!EnterZone
<1>4. Z!NoStale'
  BY <1>0 DEF ZoneInv, Z!EnterZone, Z!NoStale
<1>5. ZoneNames'
  BY <1>0 DEF ZoneInv, Z!EnterZone, ZoneNames, Z!IdsExact, Z!Usable
<1>6. ZoneInside'
  BY <1>0 DEF ZoneInv, Z!EnterZone, ZoneInside, Z!InsideShown, Z!Usable
<1> QED BY <1>1, <1>2, <1>3, <1>4, <1>5, <1>6 DEF ZoneInv

LEMMA ZonesUseGangZoneCheck ==
  ASSUME ZoneInv, NEW z \in Things, NEW b \in BOOLEAN, Z!UseGangZoneCheck(z, b)
  PROVE  ZoneInv'
<1>0. /\ scan' \in ScanRecord
      /\ scan'.op = scan.op /\ scan'.who = scan.who /\ scan'.zone = scan.zone
      /\ scan'.entered = scan.entered
      /\ scan'.todo \subseteq checking'
      /\ scan.op \notin {"check", "click"} => scan' = scan
  <2>1. checking' \subseteq Things
    BY DEF ZoneInv, ZoneTypes, Z!UseGangZoneCheck, Z!Usable
  <2> QED BY <2>1, WalkedOnOK DEF ZoneInv, Z!UseGangZoneCheck
<1>1. ZoneTypes'
  BY <1>0 DEF ZoneInv, Z!UseGangZoneCheck, Z!Usable, ZoneTypes
<1>2. ZoneScan'
  <2>1. scan'.op = "idle" => scan' = Z!Idle
    BY <1>0 DEF ZoneInv, ZoneScan
  <2>2. scan'.op # "idle" => scan'.who \in players'
    BY <1>0 DEF ZoneInv, ZoneScan, Z!UseGangZoneCheck
  <2>3. scan'.op = "enter" => scan'.todo = {}
    BY <1>0 DEF ZoneInv, ZoneScan
  <2>4. doomed' \subseteq {scan'.zone} /\ doomed' \intersect checking' = {}
    BY <1>0 DEF ZoneInv, ZoneScan, Z!UseGangZoneCheck, Z!Usable
  <2> QED BY <1>0, <2>1, <2>2, <2>3, <2>4 DEF ZoneScan
<1>3. ZoneViews'
  <2>1. \A y \in Z!Usable : /\ y \in Z!Usable'
                            /\ zone'[y].shown = zone[y].shown
                            /\ zone'[y].flashing = zone[y].flashing
    BY DEF ZoneInv, ZoneTypes, ZoneScan, Z!Usable, Z!UseGangZoneCheck
  <2> QED BY <2>1, ZoneViewsKept DEF ZoneInv, Z!UseGangZoneCheck
<1>4. Z!NoStale'
  BY DEF ZoneInv, Z!UseGangZoneCheck, Z!NoStale
<1>5. ZoneNames'
  BY DEF ZoneInv, Z!UseGangZoneCheck, Z!Usable, ZoneNames, Z!IdsExact
<1>6. ZoneInside'
  BY <1>0 DEF ZoneInv, Z!UseGangZoneCheck, Z!Usable, ZoneInside, Z!InsideShown
<1> QED BY <1>1, <1>2, <1>3, <1>4, <1>5, <1>6 DEF ZoneInv

LEMMA ZonesCheckZone ==
  ASSUME ZoneInv, NEW z \in Things, NEW b \in BOOLEAN, Z!CheckZone(z, b)
  PROVE  ZoneInv'
<1>0. /\ zone' \in [Things -> ZoneRecord]
      /\ \A y \in Things : /\ zone'[y].shown = zone[y].shown
                           /\ zone'[y].flashing = zone[y].flashing
                           /\ zone'[y].inside \subseteq zone[y].inside
                           /\ zone'[y].owner = zone[y].owner
      /\ scan' \in ScanRecord
      /\ scan.op = "check" /\ scan'.op = "check" /\ scan'.who = scan.who
      /\ scan'.todo = scan.todo \ {z}
      /\ \/ scan'.entered = scan.entered
         \/ scan'.entered = scan.entered \union {z} /\ scan.who \in zone[z].shown
      /\ doomed = {}
  <2> DEFINE r == [zone[z] EXCEPT !.inside = @ \ {scan.who}]
             n == [scan EXCEPT !.todo = @ \ {z}]
  <2>1. zone[z] \in ZoneRecord /\ scan \in ScanRecord /\ zone \in [Things -> ZoneRecord]
    BY DEF ZoneInv, ZoneTypes
  <2>2. /\ r \in ZoneRecord
        /\ r.shown = zone[z].shown /\ r.flashing = zone[z].flashing
        /\ r.inside \subseteq zone[z].inside /\ r.owner = zone[z].owner
    BY <2>1 DEF ZoneRecord
  <2>3. /\ n \in ScanRecord
        /\ n.op = scan.op /\ n.who = scan.who /\ n.todo = scan.todo \ {z}
        /\ n.entered = scan.entered
    BY <2>1 DEF ScanRecord
  <2>4. scan.op = "check" /\ doomed = {}
    BY EntitiesAssumption DEF Z!CheckZone, ZoneInv, ZoneTypes, ZoneScan
  <2>5. CASE zone' = zone /\ scan' = n
    <3> HIDE DEF n, r
    <3> QED BY <2>1, <2>3, <2>4, <2>5
  <2>6. CASE /\ scan' = [n EXCEPT !.entered = @ \union {z}]
             /\ zone' = zone /\ scan.who \in zone[z].shown
    <3> HIDE DEF n
    <3>1. /\ scan' \in ScanRecord
          /\ scan'.op = n.op /\ scan'.who = n.who /\ scan'.todo = n.todo
          /\ scan'.entered = n.entered \union {z}
      BY <2>3, <2>6 DEF ScanRecord
    <3> QED BY <2>1, <2>3, <2>4, <2>6, <3>1
  <2>7. CASE scan' = [n EXCEPT !.zone = z] /\ zone' = [zone EXCEPT ![z] = r]
    <3> HIDE DEF n, r
    <3>1. /\ scan' \in ScanRecord
          /\ scan'.op = n.op /\ scan'.who = n.who /\ scan'.todo = n.todo
          /\ scan'.entered = n.entered
      BY <2>3, <2>7 DEF ScanRecord
    <3>2. zone'[z] = r /\ \A y \in Things \ {z} : zone'[y] = zone[y]
      BY <2>1, <2>7
    <3>3. zone' \in [Things -> ZoneRecord]
      BY <2>1, <2>2, <2>7
    <3> QED BY <2>2, <2>3, <2>4, <3>1, <3>2, <3>3
  <2> QED BY <2>5, <2>6, <2>7 DEF Z!CheckZone
<1>1. ZoneTypes'
  BY <1>0 DEF ZoneInv, ZoneTypes, Z!CheckZone
<1>2. ZoneScan'
  BY <1>0 DEF ZoneInv, ZoneScan, Z!CheckZone
<1>3. ZoneViews'
  <2>1. \A y \in Z!Usable : /\ y \in Z!Usable'
                            /\ zone'[y].shown = zone[y].shown
                            /\ zone'[y].flashing = zone[y].flashing
    BY <1>0 DEF ZoneInv, ZoneTypes, ZoneScan, Z!Usable, Z!CheckZone
  <2> QED BY <2>1, ZoneViewsKept DEF ZoneInv, Z!CheckZone
<1>4. Z!NoStale'
  BY <1>0 DEF ZoneInv, ZoneTypes, Z!NoStale, Z!CheckZone
<1>5. ZoneNames'
  BY <1>0 DEF ZoneInv, ZoneTypes, ZoneNames, Z!IdsExact, Z!Usable, Z!CheckZone
<1>6. ZoneInside'
  BY <1>0
  DEF ZoneInv, ZoneScan, ZoneTypes, ZoneInside, Z!InsideShown, Z!Usable,
      Z!CheckZone
<1> QED BY <1>1, <1>2, <1>3, <1>4, <1>5, <1>6 DEF ZoneInv

LEMMA ZonesClickZone ==
  ASSUME ZoneInv, NEW z \in Things, NEW b \in BOOLEAN, Z!ClickZone(z, b)
  PROVE  ZoneInv'
<1>1. ZoneTypes'
  BY DEF ZoneInv, Z!ClickZone, ZoneTypes, ScanRecord
<1>2. ZoneScan'
  BY EntitiesAssumption DEF ZoneInv, Z!ClickZone, ZoneScan, ZoneTypes
<1>3. ZoneViews'
  <2>1. \A y \in Z!Usable : /\ y \in Z!Usable'
                            /\ zone'[y].shown = zone[y].shown
                            /\ zone'[y].flashing = zone[y].flashing
    BY DEF ZoneInv, ZoneTypes, ZoneScan, Z!Usable, Z!ClickZone
  <2> QED BY <2>1, ZoneViewsKept DEF ZoneInv, Z!ClickZone
<1>4. Z!NoStale'
  BY DEF ZoneInv, Z!ClickZone, Z!NoStale
<1>5. ZoneNames'
  BY DEF ZoneInv, Z!ClickZone, ZoneNames, Z!IdsExact, Z!Usable
<1>6. ZoneInside'
  BY DEF ZoneInv, Z!ClickZone, ZoneInside, Z!InsideShown, Z!Usable
<1> QED BY <1>1, <1>2, <1>3, <1>4, <1>5, <1>6 DEF ZoneInv

LEMMA ZonesCreate ==
  ASSUME ZoneInv, NEW z \in Things, NEW s \in Z!Spaces, Z!Create(z, s)
  PROVE  ZoneInv'
<1>1. ZoneTypes'
  BY DEF ZoneInv, Z!Create, ZoneTypes, ZoneRecord, Z!Fresh
<1>2. ZoneScan'
  BY DEF ZoneInv, Z!Create, ZoneScan
<1>3. ZoneViews'
  <2>1. \A y \in Z!Usable : /\ y \in Z!Usable'
                            /\ zone'[y].shown = zone[y].shown
                            /\ zone'[y].flashing = zone[y].flashing
    BY DEF Z!Usable, Z!Create
  <2> QED BY <2>1, ZoneViewsKept DEF ZoneInv, Z!Create
<1>4. Z!NoStale'
  BY DEF ZoneInv, Z!Create, Z!NoStale, ZoneTypes, Z!Fresh
<1>5. ZoneNames'
  BY EntitiesAssumption
  DEF ZoneInv, Z!Create, ZoneNames, Z!IdsExact, ZoneTypes, Z!Usable
<1>6. ZoneInside'
  BY DEF ZoneInv, Z!Create, ZoneInside, Z!InsideShown, ZoneTypes, Z!Usable,
         Z!Fresh
<1> QED BY <1>1, <1>2, <1>3, <1>4, <1>5, <1>6 DEF ZoneInv

LEMMA ZonesShowForPlayer ==
  ASSUME ZoneInv, NEW z \in Things, NEW p \in Players, Z!ShowForPlayer(z, p)
  PROVE  ZoneInv'
<1>0. /\ zone' \in [Things -> ZoneRecord]
      /\ \A y \in Things \ {z} : zone'[y] = zone[y]
      /\ zone'[z].shown = zone[z].shown \union {p}
      /\ zone'[z].flashing = zone[z].flashing \ {p}
      /\ zone'[z].inside = zone[z].inside
      /\ zone'[z].owner = zone[z].owner
  <2> DEFINE r == [zone[z] EXCEPT !.shown = @ \union {p}, !.flashing = @ \ {p}]
  <2>1. zone[z] \in ZoneRecord
    BY DEF ZoneInv, ZoneTypes, ZoneRecord
  <2>2. /\ r \in ZoneRecord
        /\ r.shown = zone[z].shown \union {p} /\ r.flashing = zone[z].flashing \ {p}
        /\ r.inside = zone[z].inside /\ r.owner = zone[z].owner
    BY <2>1 DEF ZoneRecord
  <2>3. zone' = [zone EXCEPT ![z] = r]
    BY DEF Z!ShowForPlayer, ZoneInv, ZoneTypes
  <2> HIDE DEF r
  <2> QED BY <2>2, <2>3 DEF ZoneInv, ZoneTypes, ZoneRecord
<1>1. ZoneTypes'
  BY <1>0 DEF ZoneInv, Z!ShowForPlayer, ZoneTypes
<1>2. ZoneScan'
  BY <1>0 DEF ZoneInv, Z!ShowForPlayer, ZoneScan
<1>3. ZoneViews'
  <2> DEFINE d == Z!ShowForClient(seen[p], z)
  <2>1. ZoneViewOK(seen[p])
    BY DEF ZoneInv, ZoneViews, ZoneViewExact
  <2>2. ZoneStep(seen[p], d, {z})
    BY <2>1, ZoneShow
  <2>3. seen' = [seen EXCEPT ![p] = d]
    BY DEF Z!ShowForPlayer
  <2> HIDE DEF d
  <2>4. seen' \in [Players -> ZoneView]
    BY <2>2, <2>3 DEF ZoneInv, ZoneViews, ZoneStep, ZoneViewOK
  <2>5. \A y \in Things \ {z} : zone'[y] = zone[y]
    BY DEF ZoneInv, ZoneTypes, Z!ShowForPlayer
  <2>6. ZoneViewExact(p)'
    BY <1>0, <2>2, <2>3, <2>5
    DEF ZoneInv, Z!ShowForPlayer, Z!Usable, ZoneViews, ZoneViewExact, ZoneView,
        ZoneStep
  <2>7. ASSUME NEW q \in Players \ {p}
        PROVE  ZoneViewExact(q)'
    BY <1>0, <2>3, <2>5
    DEF ZoneInv, Z!ShowForPlayer, Z!Usable, ZoneViews, ZoneViewExact, ZoneView
  <2> QED BY <2>4, <2>6, <2>7 DEF ZoneViews
<1>4. Z!NoStale'
  BY <1>0 DEF ZoneInv, Z!ShowForPlayer, Z!NoStale, ZoneTypes
<1>5. ZoneNames'
  BY <1>0
  DEF ZoneInv, Z!ShowForPlayer, Z!Usable, ZoneNames, Z!IdsExact, ZoneTypes
<1>6. ZoneInside'
  BY <1>0
  DEF ZoneInv, Z!ShowForPlayer, Z!Usable, ZoneInside, Z!InsideShown, ZoneTypes
<1> QED BY <1>1, <1>2, <1>3, <1>4, <1>5, <1>6 DEF ZoneInv

LEMMA ZonesHideForPlayer ==
  ASSUME ZoneInv, NEW z \in Things, NEW p \in Players, Z!HideForPlayer(z, p)
  PROVE  ZoneInv'
<1>0. /\ zone' \in [Things -> ZoneRecord]
      /\ \A y \in Things \ {z} : zone'[y] = zone[y]
      /\ zone'[z].shown = zone[z].shown \ {p}
      /\ zone'[z].flashing = zone[z].flashing \ {p}
      /\ zone'[z].inside = zone[z].inside \ {p}
      /\ zone'[z].owner = zone[z].owner
  <2> DEFINE r == Z!RemoveFor(z, p)
  <2>1. zone[z] \in ZoneRecord
    BY DEF ZoneInv, ZoneTypes, ZoneRecord
  <2>2. /\ r \in ZoneRecord
        /\ r.shown = zone[z].shown \ {p} /\ r.flashing = zone[z].flashing \ {p}
        /\ r.inside = zone[z].inside \ {p} /\ r.owner = zone[z].owner
    BY <2>1, RemovedOK
  <2>3. zone' = [zone EXCEPT ![z] = r]
    BY DEF Z!HideForPlayer
  <2> HIDE DEF r
  <2> QED BY <2>2, <2>3 DEF ZoneInv, ZoneTypes, ZoneRecord
<1>1. ZoneTypes'
  BY <1>0 DEF ZoneInv, Z!HideForPlayer, ZoneTypes
<1>2. ZoneScan'
  BY <1>0 DEF ZoneInv, Z!HideForPlayer, ZoneScan
<1>3. ZoneViews'
  <2> DEFINE d == Z!HideForClient(seen[p], z)
  <2>1. ZoneViewOK(seen[p])
    BY DEF ZoneInv, ZoneViews, ZoneViewExact
  <2>2. d.id[z] = None /\ ZoneStep(seen[p], d, {z})
    BY <2>1, ZoneHide
  <2>3. seen' = [seen EXCEPT ![p] = d]
    BY DEF Z!HideForPlayer
  <2> HIDE DEF d
  <2>4. seen' \in [Players -> ZoneView]
    BY <2>2, <2>3 DEF ZoneInv, ZoneViews, ZoneStep, ZoneViewOK
  <2>5. \A y \in Things \ {z} : zone'[y] = zone[y]
    BY DEF ZoneInv, ZoneTypes, Z!HideForPlayer
  <2>6. ZoneViewExact(p)'
    BY <1>0, <2>2, <2>3, <2>5
    DEF ZoneInv, Z!HideForPlayer, Z!Usable, ZoneViews, ZoneViewExact, ZoneStep
  <2>7. ASSUME NEW q \in Players \ {p}
        PROVE  ZoneViewExact(q)'
    BY <1>0, <2>3, <2>5
    DEF ZoneInv, Z!HideForPlayer, Z!Usable, ZoneViews, ZoneViewExact
  <2> QED BY <2>4, <2>6, <2>7 DEF ZoneViews
<1>4. Z!NoStale'
  BY <1>0 DEF ZoneInv, Z!HideForPlayer, Z!NoStale
<1>5. ZoneNames'
  BY <1>0 DEF ZoneInv, Z!HideForPlayer, Z!Usable, ZoneNames, Z!IdsExact
<1>6. ZoneInside'
  BY <1>0 DEF ZoneInv, Z!HideForPlayer, Z!Usable, ZoneInside, Z!InsideShown
<1> QED BY <1>1, <1>2, <1>3, <1>4, <1>5, <1>6 DEF ZoneInv

LEMMA ZonesFlashForPlayer ==
  ASSUME ZoneInv, NEW z \in Things, NEW p \in Players, Z!FlashForPlayer(z, p)
  PROVE  ZoneInv'
<1>1. ZoneTypes'
  BY DEF ZoneInv, Z!FlashForPlayer, ZoneTypes, ZoneRecord
<1>2. ZoneScan'
  BY DEF ZoneInv, Z!FlashForPlayer, ZoneScan
<1>3. ZoneViews'
  <2> DEFINE c == seen[p]
             d == [c EXCEPT !.flash = @ \union {z}]
  <2>1. /\ c \in ZoneView /\ Z!Agrees(c) /\ c.flash \subseteq Things
        /\ \A y \in c.flash : c.id[y] # None
    BY DEF ZoneInv, ZoneViews, ZoneViewExact, ZoneViewOK, ZoneView
  <2>2. CASE c.id[z] = None
    BY <2>2 DEF ZoneInv, Z!FlashForPlayer, Z!Usable, ZoneViews, ZoneViewExact
  <2>3. CASE c.id[z] # None
    <3>1. LET e == [c EXCEPT !.flash = c.flash \union {z}]
          IN  ZoneViewOK(e) /\ e.id = c.id /\ e.flash = c.flash \union {z}
      BY <2>1, <2>3, NewFlashOK
    <3>2. ZoneViewOK(d) /\ d.id = c.id /\ d.flash = c.flash \union {z}
      BY <3>1
    <3>3. seen' = [seen EXCEPT ![p] = d]
      BY <2>3 DEF Z!FlashForPlayer
    <3> HIDE DEF d
    <3>4. /\ \A y \in Things : /\ zone'[y].shown = zone[y].shown
                               /\ y # z => zone'[y].flashing = zone[y].flashing
          /\ zone'[z].flashing = zone[z].flashing \union {p}
          /\ Z!Usable' = Z!Usable
      BY DEF ZoneInv, ZoneTypes, ZoneRecord, Z!FlashForPlayer, Z!Usable
    <3>5. seen' \in [Players -> ZoneView] /\ seen'[p] = d /\ \A q \in Players \ {p} : seen'[q] = seen[q]
      BY <3>2, <3>3 DEF ZoneInv, ZoneViews, ZoneViewOK
    <3>6. ZoneViewExact(p)'
      BY <2>1, <3>2, <3>4, <3>5 DEF ZoneInv, ZoneViews, ZoneViewExact
    <3>7. ASSUME NEW q \in Players \ {p}
          PROVE  ZoneViewExact(q)'
      BY <3>4, <3>5 DEF ZoneInv, ZoneViews, ZoneViewExact, ZoneViewOK, ZoneView
    <3> QED BY <3>5, <3>6, <3>7 DEF ZoneViews
  <2> QED BY <2>2, <2>3
<1>4. Z!NoStale'
  BY DEF ZoneInv, Z!FlashForPlayer, Z!NoStale
<1>5. ZoneNames'
  BY DEF ZoneInv, Z!FlashForPlayer, Z!Usable, ZoneNames, Z!IdsExact
<1>6. ZoneInside'
  BY DEF ZoneInv, Z!FlashForPlayer, Z!Usable, ZoneInside, Z!InsideShown
<1> QED BY <1>1, <1>2, <1>3, <1>4, <1>5, <1>6 DEF ZoneInv

LEMMA ZonesStopFlashForPlayer ==
  ASSUME ZoneInv, NEW z \in Things, NEW p \in Players, Z!StopFlashForPlayer(z, p)
  PROVE  ZoneInv'
<1>1. ZoneTypes'
  BY DEF ZoneInv, Z!StopFlashForPlayer, ZoneTypes, ZoneRecord
<1>2. ZoneScan'
  BY DEF ZoneInv, Z!StopFlashForPlayer, ZoneScan
<1>3. ZoneViews'
  <2> DEFINE c == seen[p]
             d == [c EXCEPT !.flash = @ \ {z}]
  <2>1. /\ c \in ZoneView /\ Z!Agrees(c) /\ c.flash \subseteq Things
        /\ \A y \in c.flash : c.id[y] # None
    BY DEF ZoneInv, ZoneViews, ZoneViewExact, ZoneViewOK, ZoneView
  <2>2. LET e == [c EXCEPT !.flash = c.flash \ {z}]
        IN  ZoneViewOK(e) /\ e.id = c.id /\ e.flash = c.flash \ {z}
    BY <2>1, NewFlashOK
  <2>3. ZoneViewOK(d) /\ d.id = c.id /\ d.flash = c.flash \ {z}
    BY <2>2
  <2>4. seen' = [seen EXCEPT ![p] = d]
    BY DEF Z!StopFlashForPlayer
  <2> HIDE DEF d
  <2>5. /\ \A y \in Things : /\ zone'[y].shown = zone[y].shown
                             /\ y # z => zone'[y].flashing = zone[y].flashing
        /\ zone'[z].flashing = zone[z].flashing \ {p}
        /\ Z!Usable' = Z!Usable
    BY DEF ZoneInv, ZoneTypes, ZoneRecord, Z!StopFlashForPlayer, Z!Usable
  <2>6. seen' \in [Players -> ZoneView] /\ seen'[p] = d /\ \A q \in Players \ {p} : seen'[q] = seen[q]
    BY <2>3, <2>4 DEF ZoneInv, ZoneViews, ZoneViewOK
  <2>7. ZoneViewExact(p)'
    BY <2>1, <2>3, <2>5, <2>6 DEF ZoneInv, ZoneViews, ZoneViewExact
  <2>8. ASSUME NEW q \in Players \ {p}
        PROVE  ZoneViewExact(q)'
    BY <2>5, <2>6 DEF ZoneInv, ZoneViews, ZoneViewExact, ZoneViewOK, ZoneView
  <2> QED BY <2>6, <2>7, <2>8 DEF ZoneViews
<1>4. Z!NoStale'
  BY DEF ZoneInv, Z!StopFlashForPlayer, Z!NoStale
<1>5. ZoneNames'
  BY DEF ZoneInv, Z!StopFlashForPlayer, Z!Usable, ZoneNames, Z!IdsExact
<1>6. ZoneInside'
  BY DEF ZoneInv, Z!StopFlashForPlayer, Z!Usable, ZoneInside, Z!InsideShown
<1> QED BY <1>1, <1>2, <1>3, <1>4, <1>5, <1>6 DEF ZoneInv

LEMMA ZonesStutter == ASSUME ZoneInv, UNCHANGED vars PROVE ZoneInv'
  BY DEF vars, ZoneInv, ZoneTypes, ZoneScan, ZoneViews, ZoneViewExact,
         ZoneNames, ZoneInside, Z!NoStale, Z!IdsExact, Z!InsideShown, Z!Usable

LEMMA ZonesInit == ASSUME Z!Init PROVE ZoneInv
<1>1. /\ players = {} /\ pool = {} /\ doomed = {} /\ checking = {}
      /\ zone = [z \in Things |-> Z!Fresh] /\ seen = [p \in Players |-> Z!NoData]
      /\ legacy = [s \in Z!Spaces |-> None] /\ scan = Z!Idle
  BY DEF Z!Init
<1>2. Z!Fresh \in ZoneRecord /\ scan \in ScanRecord
  BY <1>1 DEF Z!Fresh, ZoneRecord, Z!Idle, ScanRecord, Z!Spaces
<1>3. ZoneTypes
  BY <1>1, <1>2 DEF ZoneTypes
<1>4. ZoneScan /\ ZoneInside /\ Z!NoStale
  BY <1>1 DEF ZoneScan, ZoneInside, Z!Idle, Z!NoStale, Z!InsideShown
<1>5. ZoneViews
  BY <1>1, BlankOK DEF ZoneViews, ZoneViewExact, ZoneViewOK
<1>6. ZoneNames
  BY <1>1 DEF ZoneNames, Z!IdsExact, Z!Usable
<1> QED BY <1>3, <1>4, <1>5, <1>6 DEF ZoneInv

LEMMA ZonesStep ==
  ASSUME ZoneInv, Z!Next
  PROVE  ZoneInv'
<1>1. CASE Z!Return \/ Z!EndHandler \/ Z!Reset
  BY <1>1, ZonesReturn, ZonesEndHandler, ZonesReset
<1>2. CASE \E s \in Z!Spaces : Z!Destroy(s)
  BY <1>2, ZonesDestroy
<1>3. CASE \E p \in Players :
             \/ Z!Connect(p) \/ Z!Disconnect(p)
             \/ \E op \in {"check", "click"} : Z!Handle(op, p)
  BY <1>3, ZonesConnect, ZonesDisconnect, ZonesHandle
<1>4. CASE \E z \in Things : Z!SetPosition(z) \/ Z!EnterZone(z)
  BY <1>4, ZonesSetPosition, ZonesEnterZone
<1>5. CASE \E z \in Things, b \in BOOLEAN :
             Z!UseGangZoneCheck(z, b) \/ Z!CheckZone(z, b) \/ Z!ClickZone(z, b)
  BY <1>5, ZonesUseGangZoneCheck, ZonesCheckZone, ZonesClickZone
<1>6. CASE \E z \in Things, s \in Z!Spaces : Z!Create(z, s)
  BY <1>6, ZonesCreate
<1>7. CASE \E z \in Things, p \in Players :
             \/ Z!ShowForPlayer(z, p) \/ Z!HideForPlayer(z, p)
             \/ Z!FlashForPlayer(z, p) \/ Z!StopFlashForPlayer(z, p)
  BY <1>7, ZonesShowForPlayer, ZonesHideForPlayer, ZonesFlashForPlayer,
     ZonesStopFlashForPlayer
<1> QED BY <1>1, <1>2, <1>3, <1>4, <1>5, <1>6, <1>7 DEF Z!Next

\* What the invariant of the zones says of them.
LEMMA ZonesImply ==
  ASSUME ZoneInv
  PROVE  /\ Z!TypeOK /\ Z!ViewExact /\ Z!NoStale /\ Z!IdsExact
         /\ Careful => Z!InsideShown
<1>1. Z!TypeOK
  BY DEF ZoneInv, ZoneTypes, ZoneViews, ZoneView, IdTable, ScreenTable,
         ZoneRecord, ScanRecord, Z!TypeOK
<1>2. Z!ViewExact
  BY DEF ZoneInv, ZoneTypes, ZoneViews, ZoneViewExact, ZoneViewOK, Z!Usable,
         Z!ViewExact
<1> QED BY <1>1, <1>2 DEF ZoneInv, ZoneNames, ZoneInside

-----------------------------------------------------------------------------
(* Pickups                                                                  *)

PickupRecord == [streamed : SUBSET Players, hidden : SUBSET Players,
                 static : BOOLEAN, owner : P!Spaces]

\* The types of what is kept of the pickups, the clients' views apart.
PickupTypes ==
    /\ players \subseteq Players
    /\ pool \subseteq Things
    /\ doomed \subseteq pool
    /\ pickup \in [Things -> PickupRecord]
    /\ legacy \in [P!Spaces -> Things \union {None}]
    /\ sent \in [Players -> ClientIds \union {None}]
    /\ at \in Things \union {None}
    /\ doomed \subseteq {at}

PickupViewExact(p) ==
    /\ client[p] \in PickupView /\ Z!Agrees(client[p])
    /\ \A z \in Things :
         client[p].id[z] # None => z \in P!Usable /\ p \in pickup[z].streamed

\* What a client shows is what the server has it down for, also of a player
\* that is not there: nothing.
PickupViews ==
    client \in [Players -> PickupView] /\ \A p \in Players : PickupViewExact(p)

\* A legacy id leads to a pickup of its own space.
PickupNames ==
    /\ P!IdsExact
    /\ \A s \in P!Spaces : legacy[s] # None => pickup[legacy[s]].owner = s

PickupInv == PickupTypes /\ PickupViews /\ P!NoStale /\ PickupNames

-----------------------------------------------------------------------------
\* In d the pickups Y may be shown or not; the others are as in c.
PickupStep(c, d, Y) ==
    d \in PickupView /\ Z!Agrees(d) /\ \A z \in Things \ Y : d.id[z] = c.id[z]

LEMMA PickupSteps ==
  ASSUME NEW c \in PickupView, Z!Agrees(c), NEW z \in Things
  PROVE  /\ PickupStep(c, P!StreamInForClient(c, z), {z})
         /\ PickupStep(c, P!StreamOutForClient(c, z), {z})
         /\ P!StreamOutForClient(c, z).id[z] = None
         /\ PickupStep(c, P!StreamInForClient(P!StreamOutForClient(c, z), z), {z})
<1> DEFINE In(d)  == P!StreamInForClient(d, z)
           Out(d) == P!StreamOutForClient(d, z)
<1>1. \A d : In(d) = Z!Send(d, z) /\ Out(d) = Z!Withdraw(d, z)
  BY DEF P!StreamInForClient, P!StreamOutForClient, P!Send, Z!Send, P!Withdraw,
         Z!Withdraw, P!Reserve, Z!Reserve, P!FreeIds, Z!FreeIds
<1> HIDE DEF In, Out
<1>2. \A d \in PickupView : Z!Agrees(d) =>
         PickupStep(d, In(d), {z}) /\ PickupStep(d, Out(d), {z}) /\ Out(d).id[z] = None
  BY <1>1, SendOK, WithdrawOK DEF SameBut, PickupStep
<1>3. PickupStep(c, In(Out(c)), {z})
  BY <1>2 DEF PickupStep
<1> QED BY <1>2, <1>3 DEF In, Out

LEMMA PickupHideAll ==
  ASSUME NEW c \in PickupView, Z!Agrees(c), NEW Y \in SUBSET Things
  PROVE  /\ PickupStep(c, P!WithdrawAll(c, Y), Y)
         /\ \A z \in Y : P!WithdrawAll(c, Y).id[z] = None
<1>1. P!WithdrawAll(c, Y) = Z!WithdrawAll(c, Y)
  BY DEF P!WithdrawAll, Z!WithdrawAll
<1> QED BY <1>1, WithdrawAllOK DEF SameBut, PickupStep

LEMMA PickupBlank ==
  /\ P!NoData \in PickupView /\ Z!Agrees(P!NoData)
  /\ \A z \in Things : P!NoData.id[z] = None
<1>1. P!NoData = Z!Blank(Things, ClientIds)
  BY DEF P!NoData, P!Blank, Z!Blank
<1> QED BY <1>1, BlankOK

\* What removeFor leaves of a pickup.
LEMMA PickupRemoved ==
  ASSUME NEW z \in Things, pickup[z] \in PickupRecord, NEW p \in Players
  PROVE  /\ P!RemoveFor(z, p) \in PickupRecord
         /\ P!RemoveFor(z, p).streamed = pickup[z].streamed \ {p}
         /\ P!RemoveFor(z, p).hidden = pickup[z].hidden \ {p}
         /\ P!RemoveFor(z, p).static = pickup[z].static
         /\ P!RemoveFor(z, p).owner = pickup[z].owner
  BY DEF P!RemoveFor, PickupRecord

\* Views stay exact while the pickups they have stay and are streamed as before.
LEMMA PickupViewsKept ==
  ASSUME PickupViews, UNCHANGED client,
         \A z \in P!Usable : /\ z \in P!Usable'
                             /\ pickup'[z].streamed = pickup[z].streamed
  PROVE  PickupViews'
  BY DEF PickupViews, PickupViewExact

LEMMA PickupsReturn ==
  ASSUME PickupInv, P!Return
  PROVE  PickupInv'
<1>1. PickupTypes'
  BY DEF PickupInv, P!Return, PickupTypes, PickupRecord, P!Fresh, P!Spaces
<1>2. PickupViews'
  <2>1. \A y \in P!Usable : y \in P!Usable' /\ pickup'[y].streamed = pickup[y].streamed
    BY DEF PickupInv, PickupTypes, P!Usable, P!Return, P!Fresh
  <2> QED BY <2>1, PickupViewsKept DEF PickupInv, P!Return
<1>3. P!NoStale'
  BY EntitiesAssumption
  DEF PickupInv, P!Return, P!NoStale, PickupTypes, P!Fresh
<1>4. PickupNames'
  BY DEF PickupInv, P!Return, PickupNames, P!IdsExact, PickupTypes, P!Usable
<1> QED BY <1>1, <1>2, <1>3, <1>4 DEF PickupInv

LEMMA PickupsReset ==
  ASSUME PickupInv, P!Reset
  PROVE  PickupInv'
<1>1. PickupTypes'
  BY EntitiesAssumption
  DEF PickupInv, P!Reset, PickupTypes, PickupRecord, P!Fresh, P!Spaces
<1>2. PickupViews'
  <2>1. client' = [p \in Players |-> P!NoData]
    BY DEF P!Reset
  <2> QED BY <2>1, PickupBlank DEF PickupViews, PickupViewExact
<1>3. P!NoStale'
  BY EntitiesAssumption DEF PickupInv, P!Reset, P!NoStale, PickupTypes, P!Fresh
<1>4. PickupNames'
  BY DEF P!Reset, PickupNames, P!IdsExact, P!Usable
<1> QED BY <1>1, <1>2, <1>3, <1>4 DEF PickupInv

LEMMA PickupsDestroy ==
  ASSUME PickupInv, NEW s \in P!Spaces, P!Destroy(s)
  PROVE  PickupInv'
<1>1. PickupTypes'
  <2> DEFINE z == legacy[s]
  <2>0. z \in P!Usable /\ z \in Things
    BY DEF PickupInv, PickupTypes, PickupNames, P!IdsExact, P!Destroy
  <2>1. legacy' = [legacy EXCEPT ![s] = None] /\ UNCHANGED <<players, sent, at>>
    BY DEF P!Destroy
  <2>2. CASE pickup[z].static
    BY <2>1, <2>2 DEF PickupInv, PickupTypes, P!Destroy, P!Released
  <2>3. CASE ~pickup[z].static
    <3>1. IF z = at THEN doomed' = doomed \union {z} /\ UNCHANGED <<pool, pickup>>
          ELSE /\ pool' = pool \ {z}
               /\ pickup' = [pickup EXCEPT ![z] = P!Fresh]
               /\ UNCHANGED doomed
      BY <2>3 DEF P!Destroy, P!Released
    <3>2. P!Fresh \in PickupRecord
      BY DEF P!Fresh, PickupRecord, P!Spaces
    <3> HIDE DEF z
    <3> QED BY <2>0, <2>1, <3>1, <3>2 DEF PickupInv, PickupTypes, P!Usable
  <2> QED BY <2>2, <2>3
<1>2. PickupViews'
  <2> DEFINE z == legacy[s]
  <2>0. z \in P!Usable /\ z \in Things
    BY DEF PickupInv, PickupTypes, PickupNames, P!IdsExact, P!Destroy
  <2>1. CASE pickup[z].static
    <3>1. UNCHANGED <<client, pool, doomed, pickup>>
      BY <2>1 DEF P!Destroy, P!Released
    <3> QED BY <3>1, PickupViewsKept DEF PickupInv, P!Usable
  <2>2. CASE ~pickup[z].static
    <3>0. /\ P!Usable' = P!Usable \ {z}
          /\ \A y \in Things \ {z} : pickup'[y] = pickup[y]
          /\ client' = P!Destreamed(z)
      BY <2>0, <2>2 DEF PickupInv, PickupTypes, P!Destroy, P!Released, P!Usable
    <3> HIDE DEF z
    <3>1. ASSUME NEW p \in Players
          PROVE  client'[p] \in PickupView /\ PickupViewExact(p)'
      <4>1. PickupViewExact(p) /\ client[p] \in PickupView /\ Z!Agrees(client[p])
        BY DEF PickupInv, PickupViews, PickupViewExact
      <4>2. CASE p \in pickup[z].streamed
        <5>1. client'[p] = P!StreamOutForClient(client[p], z)
          BY <3>0, <4>2 DEF P!Destreamed
        <5>2. PickupStep(client[p], client'[p], {z}) /\ client'[p].id[z] = None
          BY <2>0, <4>1, <5>1, PickupSteps
        <5> QED BY <3>0, <4>1, <5>2 DEF PickupStep, PickupViewExact
      <4>3. CASE p \notin pickup[z].streamed
        <5>1. client'[p] = client[p] /\ client[p].id[z] = None
          BY <2>0, <3>0, <4>1, <4>3 DEF P!Destreamed, PickupViewExact
        <5> QED BY <3>0, <4>1, <5>1 DEF PickupViewExact
      <4> QED BY <4>2, <4>3
    <3>2. client' \in [Players -> PickupView]
      BY <3>0, <3>1 DEF P!Destreamed
    <3> QED BY <3>1, <3>2 DEF PickupViews
  <2> QED BY <2>1, <2>2
<1>3. P!NoStale'
  BY DEF PickupInv, P!Destroy, P!Released, P!NoStale, PickupTypes
<1>4. PickupNames'
  BY DEF PickupInv, P!Destroy, P!Released, PickupNames, P!IdsExact,
         PickupTypes, P!Usable
<1> QED BY <1>1, <1>2, <1>3, <1>4 DEF PickupInv

LEMMA PickupsConnect ==
  ASSUME PickupInv, NEW p \in Players, P!Connect(p)
  PROVE  PickupInv'
<1>1. PickupTypes'
  BY DEF PickupInv, P!Connect, PickupTypes
<1>2. PickupViews'
  <2>1. \A y \in P!Usable : y \in P!Usable' /\ pickup'[y].streamed = pickup[y].streamed
    BY DEF PickupInv, PickupTypes, P!Usable, P!Connect
  <2> QED BY <2>1, PickupViewsKept DEF PickupInv, P!Connect
<1>3. P!NoStale'
  BY EntitiesAssumption
  DEF PickupInv, P!Connect, P!NoStale, PickupTypes, P!Fresh
<1>4. PickupNames'
  BY DEF PickupInv, P!Connect, PickupNames, P!IdsExact, P!Usable
<1> QED BY <1>1, <1>2, <1>3, <1>4 DEF PickupInv

LEMMA PickupsDisconnect ==
  ASSUME PickupInv, NEW p \in Players, P!Disconnect(p)
  PROVE  PickupInv'
<1>0. /\ pickup' \in [Things -> PickupRecord]
      /\ \A y \in Things : IF y \in P!Own(p) THEN pickup'[y] = P!Fresh
           ELSE /\ pickup'[y].streamed = pickup[y].streamed \ {p}
                /\ pickup'[y].hidden = pickup[y].hidden \ {p}
                /\ pickup'[y].static = pickup[y].static
                /\ pickup'[y].owner = pickup[y].owner
      /\ \A y \in Things : y \in P!Own(p) <=> y \in pool /\ pickup[y].owner = p
      /\ P!Own(p) \subseteq Things /\ doomed = {} /\ doomed' = {}
  <2>1. \A y \in Things : pickup[y] \in PickupRecord
    BY DEF PickupInv, PickupTypes
  <2>2. \A y \in Things :
          /\ P!RemoveFor(y, p) \in PickupRecord
          /\ P!RemoveFor(y, p).streamed = pickup[y].streamed \ {p}
          /\ P!RemoveFor(y, p).hidden = pickup[y].hidden \ {p}
          /\ P!RemoveFor(y, p).static = pickup[y].static
          /\ P!RemoveFor(y, p).owner = pickup[y].owner
    BY <2>1, PickupRemoved
  <2>3. pickup' = [y \in Things |-> IF y \in P!Own(p) THEN P!Fresh ELSE P!RemoveFor(y, p)]
    BY DEF P!Disconnect
  <2>4. P!Fresh \in PickupRecord
    BY DEF P!Fresh, PickupRecord, P!Spaces
  <2>5. P!Own(p) \subseteq Things /\ doomed = {} /\ doomed' = {}
    BY EntitiesAssumption DEF PickupInv, PickupTypes, P!Own, P!Disconnect
  <2> QED BY <2>2, <2>3, <2>4, <2>5 DEF P!Own
<1>1. PickupTypes'
  BY <1>0 DEF PickupInv, P!Disconnect, PickupTypes
<1>2. PickupViews'
  <2>1. ASSUME NEW q \in Players
        PROVE  client'[q] \in PickupView /\ PickupViewExact(q)'
    <3>1. CASE q = p
      <4>1. client'[q] = P!NoData
        BY <3>1 DEF P!Disconnect
      <4> QED BY <4>1, PickupBlank DEF PickupViewExact
    <3>2. CASE q # p
      <4>1. PickupViewExact(q) /\ client[q] \in PickupView /\ Z!Agrees(client[q])
        BY DEF PickupInv, PickupViews, PickupViewExact
      <4>2. client'[q] = P!WithdrawAll(client[q], P!Own(p)) /\ pool' = pool \ P!Own(p)
        BY <3>2 DEF P!Disconnect
      <4>3. /\ PickupStep(client[q], client'[q], P!Own(p))
            /\ \A z \in P!Own(p) : client'[q].id[z] = None
        BY <1>0, <4>1, <4>2, PickupHideAll
      <4>4. \A z \in Things : client'[q].id[z] # None =>
              z \in P!Usable' /\ q \in pickup'[z].streamed
        BY <1>0, <3>2, <4>1, <4>2, <4>3
        DEF PickupStep, PickupViewExact, P!Usable
      <4> QED BY <4>3, <4>4 DEF PickupViewExact, PickupStep
    <3> QED BY <3>1, <3>2
  <2>2. client' \in [Players -> PickupView]
    BY <2>1 DEF P!Disconnect
  <2> QED BY <2>1, <2>2 DEF PickupViews
<1>3. P!NoStale'
  BY <1>0, EntitiesAssumption
  DEF PickupInv, P!Disconnect, P!NoStale, PickupTypes, P!Fresh
<1>4. PickupNames'
  BY <1>0
  DEF PickupInv, P!Disconnect, PickupNames, P!IdsExact, PickupTypes, P!Usable
<1> QED BY <1>1, <1>2, <1>3, <1>4 DEF PickupInv

LEMMA PickupsOnPlayerPickUpPickup ==
  ASSUME PickupInv, NEW p \in Players, P!OnPlayerPickUpPickup(p)
  PROVE  PickupInv'
<1>1. PickupTypes'
  BY EntitiesAssumption DEF PickupInv, P!OnPlayerPickUpPickup, PickupTypes
<1>2. PickupViews'
  <2>1. \A y \in P!Usable : y \in P!Usable' /\ pickup'[y].streamed = pickup[y].streamed
    BY DEF PickupInv, PickupTypes, P!Usable, P!OnPlayerPickUpPickup
  <2> QED BY <2>1, PickupViewsKept DEF PickupInv, P!OnPlayerPickUpPickup
<1>3. P!NoStale'
  BY EntitiesAssumption
  DEF PickupInv, P!OnPlayerPickUpPickup, P!NoStale, PickupTypes, P!Fresh
<1>4. PickupNames'
  BY DEF PickupInv, P!OnPlayerPickUpPickup, PickupNames, P!IdsExact, P!Usable
<1> QED BY <1>1, <1>2, <1>3, <1>4 DEF PickupInv

LEMMA PickupsClientPicksUp ==
  ASSUME PickupInv, NEW p \in Players, NEW i \in ClientIds, P!ClientPicksUp(p, i)
  PROVE  PickupInv'
<1>1. PickupTypes'
  BY DEF PickupInv, P!ClientPicksUp, PickupTypes
<1>2. PickupViews'
  <2>1. \A y \in P!Usable : y \in P!Usable' /\ pickup'[y].streamed = pickup[y].streamed
    BY DEF PickupInv, PickupTypes, P!Usable, P!ClientPicksUp
  <2> QED BY <2>1, PickupViewsKept DEF PickupInv, P!ClientPicksUp
<1>3. P!NoStale'
  BY EntitiesAssumption
  DEF PickupInv, P!ClientPicksUp, P!NoStale, PickupTypes, P!Fresh
<1>4. PickupNames'
  BY DEF PickupInv, P!ClientPicksUp, PickupNames, P!IdsExact, P!Usable
<1> QED BY <1>1, <1>2, <1>3, <1>4 DEF PickupInv

LEMMA PickupsSetAndRestream ==
  ASSUME PickupInv, NEW z \in Things, P!SetAndRestream(z)
  PROVE  PickupInv'
<1>1. PickupTypes'
  BY DEF PickupInv, P!SetAndRestream, PickupTypes
<1>2. PickupViews'
  <2>1. ASSUME NEW p \in Players
        PROVE  client'[p] \in PickupView /\ PickupViewExact(p)'
    <3>1. PickupViewExact(p) /\ client[p] \in PickupView /\ Z!Agrees(client[p])
      BY DEF PickupInv, PickupViews, PickupViewExact
    <3>2. CASE p \in pickup[z].streamed
      <4>1. client'[p] = P!StreamInForClient(P!StreamOutForClient(client[p], z), z)
        BY <3>2 DEF P!SetAndRestream, P!Restreamed
      <4>2. PickupStep(client[p], client'[p], {z})
        BY <3>1, <4>1, PickupSteps
      <4> QED
        BY <3>1, <3>2, <4>2
        DEF PickupStep, PickupViewExact, P!SetAndRestream, P!Usable
    <3>3. CASE p \notin pickup[z].streamed
      <4>1. client'[p] = client[p]
        BY <3>3 DEF P!SetAndRestream, P!Restreamed
      <4> QED BY <3>1, <4>1 DEF PickupViewExact, P!SetAndRestream, P!Usable
    <3> QED BY <3>2, <3>3
  <2>2. client' \in [Players -> PickupView]
    BY <2>1 DEF P!SetAndRestream, P!Restreamed
  <2> QED BY <2>1, <2>2 DEF PickupViews
<1>3. P!NoStale'
  BY EntitiesAssumption
  DEF PickupInv, P!SetAndRestream, P!NoStale, PickupTypes, P!Fresh
<1>4. PickupNames'
  BY DEF PickupInv, P!SetAndRestream, PickupNames, P!IdsExact, P!Usable
<1> QED BY <1>1, <1>2, <1>3, <1>4 DEF PickupInv

LEMMA PickupsCreate ==
  ASSUME PickupInv, NEW z \in Things, NEW s \in P!Spaces, NEW static \in BOOLEAN, P!Create(z, s, static)
  PROVE  PickupInv'
<1>0. /\ pickup' \in [Things -> PickupRecord]
      /\ \A y \in Things \ {z} : pickup'[y] = pickup[y]
      /\ pickup'[z].streamed = {} /\ pickup'[z].hidden = {}
      /\ pickup'[z].static = static /\ pickup'[z].owner = s
  BY DEF PickupInv, PickupTypes, PickupRecord, P!Create, P!Fresh
<1>1. PickupTypes'
  BY <1>0 DEF PickupInv, P!Create, PickupTypes
<1>2. PickupViews'
  <2>1. \A y \in P!Usable : y \in P!Usable' /\ pickup'[y].streamed = pickup[y].streamed
    BY <1>0 DEF PickupInv, PickupTypes, P!Usable, P!Create, P!Fresh
  <2> QED BY <2>1, PickupViewsKept DEF PickupInv, P!Create
<1>3. P!NoStale'
  BY <1>0, EntitiesAssumption
  DEF PickupInv, P!Create, P!NoStale, PickupTypes, P!Fresh
<1>4. PickupNames'
  BY <1>0, EntitiesAssumption
  DEF PickupInv, P!Create, PickupNames, P!IdsExact, PickupTypes, P!Usable
<1> QED BY <1>1, <1>2, <1>3, <1>4 DEF PickupInv

LEMMA PickupsSetHidden ==
  ASSUME PickupInv, NEW z \in Things, NEW p \in Players, NEW hidden \in BOOLEAN, P!SetHidden(z, p, hidden)
  PROVE  PickupInv'
<1>0. /\ pickup' \in [Things -> PickupRecord]
      /\ \A y \in Things \ {z} : pickup'[y] = pickup[y]
      /\ pickup'[z].streamed = pickup[z].streamed
      /\ pickup'[z].hidden = IF hidden THEN pickup[z].hidden \union {p} ELSE pickup[z].hidden \ {p}
      /\ pickup'[z].static = pickup[z].static
      /\ pickup'[z].owner = pickup[z].owner
  <2> DEFINE r == [pickup[z] EXCEPT !.hidden = IF hidden THEN pickup[z].hidden \union {p} ELSE pickup[z].hidden \ {p}]
  <2>1. pickup[z] \in PickupRecord
    BY DEF PickupInv, PickupTypes
  <2>2. /\ r \in PickupRecord
        /\ r.streamed = pickup[z].streamed
        /\ r.hidden = IF hidden THEN pickup[z].hidden \union {p} ELSE pickup[z].hidden \ {p}
        /\ r.static = pickup[z].static /\ r.owner = pickup[z].owner
    BY <2>1 DEF PickupRecord
  <2>3. pickup' = [pickup EXCEPT ![z] = r]
    BY DEF P!SetHidden, PickupInv, PickupTypes
  <2> HIDE DEF r
  <2> QED BY <2>2, <2>3 DEF PickupInv, PickupTypes
<1>1. PickupTypes'
  BY <1>0 DEF PickupInv, P!SetHidden, PickupTypes
<1>2. PickupViews'
  <2>1. \A y \in P!Usable : y \in P!Usable' /\ pickup'[y].streamed = pickup[y].streamed
    BY <1>0 DEF PickupInv, PickupTypes, P!Usable, P!SetHidden
  <2> QED BY <2>1, PickupViewsKept DEF PickupInv, P!SetHidden
<1>3. P!NoStale'
  BY <1>0, EntitiesAssumption
  DEF PickupInv, P!SetHidden, P!NoStale, PickupTypes, P!Fresh
<1>4. PickupNames'
  BY <1>0 DEF PickupInv, P!SetHidden, PickupNames, P!IdsExact, P!Usable
<1> QED BY <1>1, <1>2, <1>3, <1>4 DEF PickupInv

LEMMA PickupsStreamPickup ==
  ASSUME PickupInv, NEW p \in Players, NEW z \in Things, NEW isNear \in BOOLEAN, P!StreamPickup(p, z, isNear)
  PROVE  PickupInv'
<1>0. /\ pickup' \in [Things -> PickupRecord]
      /\ \A y \in Things \ {z} : pickup'[y] = pickup[y]
      /\ pickup'[z].streamed = IF isNear /\ ~P!Hidden(z, p) THEN pickup[z].streamed \union {p} ELSE pickup[z].streamed \ {p}
      /\ pickup'[z].hidden = pickup[z].hidden
      /\ pickup'[z].static = pickup[z].static
      /\ pickup'[z].owner = pickup[z].owner
  <2> DEFINE r == [pickup[z] EXCEPT !.streamed = IF isNear /\ ~P!Hidden(z, p) THEN pickup[z].streamed \union {p} ELSE pickup[z].streamed \ {p}]
  <2>1. pickup[z] \in PickupRecord
    BY DEF PickupInv, PickupTypes
  <2>2. /\ r \in PickupRecord
        /\ r.streamed = IF isNear /\ ~P!Hidden(z, p) THEN pickup[z].streamed \union {p} ELSE pickup[z].streamed \ {p}
        /\ r.hidden = pickup[z].hidden
        /\ r.static = pickup[z].static /\ r.owner = pickup[z].owner
    BY <2>1 DEF PickupRecord
  <2>3. pickup' = [pickup EXCEPT ![z] = r]
    BY DEF P!StreamPickup, PickupInv, PickupTypes
  <2> HIDE DEF r
  <2> QED BY <2>2, <2>3 DEF PickupInv, PickupTypes
<1>1. PickupTypes'
  BY <1>0 DEF PickupInv, P!StreamPickup, PickupTypes
<1>2. PickupViews'
  <2> DEFINE d == IF isNear /\ ~P!Hidden(z, p) THEN P!StreamInForClient(client[p], z)
                  ELSE P!StreamOutForClient(client[p], z)
  <2>1. client[p] \in PickupView /\ Z!Agrees(client[p])
    BY DEF PickupInv, PickupViews, PickupViewExact
  <2>2. /\ PickupStep(client[p], d, {z})
        /\ ~(isNear /\ ~P!Hidden(z, p)) => d.id[z] = None
    BY <2>1, PickupSteps
  <2>3. client' = [client EXCEPT ![p] = d]
    BY DEF P!StreamPickup
  <2>4. z \in P!Usable /\ P!Usable' = P!Usable
    BY EntitiesAssumption DEF P!StreamPickup, PickupInv, PickupTypes, P!Usable
  <2> HIDE DEF d
  <2>5. /\ client' \in [Players -> PickupView]
        /\ client'[p] = d /\ \A q \in Players \ {p} : client'[q] = client[q]
    BY <2>2, <2>3 DEF PickupInv, PickupViews, PickupStep
  <2>6. PickupViewExact(p)'
    BY <1>0, <2>1, <2>2, <2>4, <2>5
    DEF PickupInv, PickupViews, PickupViewExact, PickupStep
  <2>7. ASSUME NEW q \in Players \ {p}
        PROVE  PickupViewExact(q)'
    BY <1>0, <2>4, <2>5 DEF PickupInv, PickupViews, PickupViewExact
  <2> QED BY <2>5, <2>6, <2>7 DEF PickupViews
<1>3. P!NoStale'
  BY <1>0, EntitiesAssumption
  DEF PickupInv, P!StreamPickup, P!NoStale, PickupTypes, P!Fresh
<1>4. PickupNames'
  BY <1>0 DEF PickupInv, P!StreamPickup, PickupNames, P!IdsExact, P!Usable
<1> QED BY <1>1, <1>2, <1>3, <1>4 DEF PickupInv

LEMMA PickupsStutter == ASSUME PickupInv, UNCHANGED vars PROVE PickupInv'
  BY DEF vars, PickupInv, PickupTypes, PickupViews, PickupViewExact,
         PickupNames, P!NoStale, P!IdsExact, P!Usable

LEMMA PickupsInit == ASSUME P!Init PROVE PickupInv
<1>1. /\ players = {} /\ pool = {} /\ doomed = {} /\ at = None
      /\ pickup = [z \in Things |-> P!Fresh] /\ sent = [p \in Players |-> None]
      /\ legacy = [s \in P!Spaces |-> None]
      /\ client = [p \in Players |-> Z!Blank(Things, ClientIds)]
  BY DEF P!Init, P!NoData, P!Blank, Z!Blank
<1>2. P!Fresh \in PickupRecord
  BY DEF P!Fresh, PickupRecord, P!Spaces
<1>3. PickupTypes /\ P!NoStale
  BY <1>1, <1>2 DEF PickupTypes, P!NoStale
<1>4. PickupViews
  BY <1>1, BlankOK DEF PickupViews, PickupViewExact
<1>5. PickupNames
  BY <1>1 DEF PickupNames, P!IdsExact, P!Usable
<1> QED BY <1>3, <1>4, <1>5 DEF PickupInv

LEMMA PickupsStep ==
  ASSUME PickupInv, P!Next
  PROVE  PickupInv'
<1>1. CASE P!Return \/ P!Reset
  BY <1>1, PickupsReturn, PickupsReset
<1>2. CASE \E s \in P!Spaces : P!Destroy(s)
  BY <1>2, PickupsDestroy
<1>3. CASE \E p \in Players :
             \/ P!Connect(p) \/ P!Disconnect(p) \/ P!OnPlayerPickUpPickup(p)
             \/ \E i \in ClientIds : P!ClientPicksUp(p, i)
  BY <1>3, PickupsConnect, PickupsDisconnect, PickupsOnPlayerPickUpPickup,
     PickupsClientPicksUp
<1>4. CASE \E z \in Things : P!SetAndRestream(z)
  BY <1>4, PickupsSetAndRestream
<1>5. CASE \E z \in Things, b \in BOOLEAN, s \in P!Spaces : P!Create(z, s, b)
  BY <1>5, PickupsCreate
<1>6. CASE \E z \in Things, b \in BOOLEAN, p \in Players :
             P!SetHidden(z, p, b) \/ P!StreamPickup(p, z, b)
  BY <1>6, PickupsSetHidden, PickupsStreamPickup
<1> QED BY <1>1, <1>2, <1>3, <1>4, <1>5, <1>6 DEF P!Next

\* What the invariant of the pickups says of them.
LEMMA PickupsImply ==
  ASSUME PickupInv
  PROVE  P!TypeOK /\ P!ViewExact /\ P!NoStale /\ P!IdsExact
<1>1. P!TypeOK
  BY DEF PickupInv, PickupTypes, PickupViews, PickupView, IdTable, ScreenTable,
         PickupRecord, P!TypeOK
<1>2. P!ViewExact
  BY DEF PickupInv, PickupTypes, PickupViews, PickupViewExact, P!Usable,
         P!ViewExact, P!Agrees, Z!Agrees
<1> QED BY <1>1, <1>2 DEF PickupInv, PickupNames

-----------------------------------------------------------------------------
(* Text labels                                                              *)

LabelRecord == [streamed : SUBSET Players, on : L!AttachedTo,
                owner : Players \union {Server}]

\* A client shows what it is in the audience of, and nothing else, also that
\* of a player that is not there.
LabelViews == \A p \in Players : \A z \in Things :
    screen[p][z] = IF z \in pool /\ p \in L!Audience(label[z]) THEN label[z].on
                   ELSE None

\* A label that is not in the pool is shown to nobody.
LabelFree == \A z \in Things \ pool : label[z].streamed = {} /\ label[z].owner = Server

LabelInv == L!TypeOK /\ LabelViews /\ L!NoStale /\ LabelFree

-----------------------------------------------------------------------------
\* A label of the pool, or a new one, that is changed and sent.
LEMMA LabelRestream ==
  ASSUME LabelInv, NEW z \in Things, NEW l \in LabelRecord, L!Restream(z, l),
         UNCHANGED <<players, cars>>, pool' = pool \union {z},
         l.streamed \subseteq players, l.on.player \in players \union {None},
         l.owner \in players \union {Server},
         z \in pool => l.owner = label[z].owner /\ l.streamed = label[z].streamed
  PROVE  LabelInv'
<1>1. /\ label' = [label EXCEPT ![z] = l]
      /\ screen' = [p \in Players |-> IF p \in L!Audience(l)
                      THEN [screen[p] EXCEPT ![z] = l.on] ELSE screen[p]]
  BY DEF L!Restream
<1>2. l.on \in L!AttachedTo /\ label \in [Things -> LabelRecord]
  BY DEF LabelRecord, LabelInv, L!TypeOK
<1>3. label' \in [Things -> LabelRecord]
  BY <1>1, <1>2
<1>4. screen' \in [Players -> [Things -> L!AttachedTo \union {None}]]
  BY <1>1, <1>2 DEF LabelInv, L!TypeOK
<1>5. L!TypeOK'
  BY <1>3, <1>4 DEF LabelInv, L!TypeOK, LabelRecord
<1>6. L!NoStale'
  BY <1>1, <1>2 DEF LabelInv, L!NoStale
<1>7. LabelFree'
  BY <1>1, <1>2 DEF LabelInv, LabelFree
<1>8. ASSUME NEW p \in Players, NEW y \in Things
      PROVE  (screen[p][y] = IF y \in pool /\ p \in L!Audience(label[y]) THEN label[y].on
                             ELSE None)'
  <2>1. screen[p] \in [Things -> L!AttachedTo \union {None}]
    BY DEF LabelInv, L!TypeOK
  <2>2. screen[p][y] = IF y \in pool /\ p \in L!Audience(label[y]) THEN label[y].on ELSE None
    BY DEF LabelInv, LabelViews
  <2>3. CASE y # z
    <3>1. label'[y] = label[y] /\ (y \in pool' <=> y \in pool) /\ screen'[p][y] = screen[p][y]
      BY <1>1, <1>2, <2>1, <2>3
    <3> QED BY <2>2, <3>1
  <2>4. CASE y = z
    <3>1. label'[y] = l /\ y \in pool'
      BY <1>1, <1>2, <2>4
    <3>2. CASE p \in L!Audience(l)
      BY <1>1, <2>1, <2>4, <3>1, <3>2
    <3>3. CASE p \notin L!Audience(l)
      <4>1. screen'[p][y] = screen[p][y]
        BY <1>1, <3>3
      <4>2. ~(y \in pool /\ p \in L!Audience(label[y]))
        BY <2>4, <3>3 DEF L!Audience
      <4> QED BY <2>2, <3>1, <2>4, <3>3, <4>1, <4>2
    <3> QED BY <3>2, <3>3
  <2> QED BY <2>3, <2>4
<1>9. LabelViews'
  BY <1>8 DEF LabelViews
<1> QED BY <1>5, <1>6, <1>7, <1>9 DEF LabelInv

\* What a label may be attached to.
LEMMA LabelAttachments ==
  ASSUME L!TypeOK, NEW l \in LabelRecord, l.on.player \in players \union {None},
         NEW on \in {L!Free} \union L!Attachments(l)
  PROVE  on \in L!AttachedTo /\ on.player \in players \union {None}
<1>1. l.on \in L!AttachedTo /\ players \subseteq Players /\ cars \subseteq Cars
  BY DEF LabelRecord, L!TypeOK
<1>2. CASE on = L!Free
  BY <1>2 DEF L!Free, L!AttachedTo
<1>3. ASSUME NEW p \in players, on = [l.on EXCEPT !.player = p]
      PROVE  on \in L!AttachedTo /\ on.player = p
  BY <1>1, <1>3 DEF L!AttachedTo
<1>4. ASSUME NEW c \in cars, on = [l.on EXCEPT !.vehicle = c]
      PROVE  on \in L!AttachedTo /\ on.player = l.on.player
  BY <1>1, <1>4 DEF L!AttachedTo
<1> QED BY <1>2, <1>3, <1>4 DEF L!Attachments

\* A label that is given another attachment.
LEMMA LabelReattached ==
  ASSUME NEW l \in LabelRecord, NEW on \in L!AttachedTo
  PROVE  LET m == [l EXCEPT !.on = on]
         IN  m \in LabelRecord /\ m.on = on /\ m.owner = l.owner /\ m.streamed = l.streamed
  BY DEF LabelRecord

LEMMA LabelsCreate ==
  ASSUME LabelInv, NEW z \in Things, NEW s \in Players \union {Server},
         NEW isNear \in SUBSET Players, L!Create(z, s, isNear)
  PROVE  LabelInv'
<1> DEFINE l == [L!Fresh EXCEPT !.owner = s, !.streamed = isNear]
<1>1. /\ l \in LabelRecord /\ l.on = L!Free /\ l.owner = s /\ l.streamed = isNear
      /\ L!Free.player = None
  BY DEF L!Fresh, L!Free, LabelRecord, L!AttachedTo
<1>2. PICK on \in {L!Free} \union L!Attachments(l) : L!Restream(z, [l EXCEPT !.on = on])
  BY DEF L!Create
<1> HIDE DEF l
<1>3. on \in L!AttachedTo /\ on.player \in players \union {None}
  BY <1>1, LabelAttachments DEF LabelInv
<1> DEFINE m == [l EXCEPT !.on = on]
<1>4. m \in LabelRecord /\ m.on = on /\ m.owner = s /\ m.streamed = isNear
  BY <1>1, <1>3, LabelReattached
<1>5. L!Restream(z, m)
  BY <1>2
<1> HIDE DEF m
<1> QED BY <1>3, <1>4, <1>5, LabelRestream DEF L!Create

LEMMA LabelsAttach ==
  ASSUME LabelInv, NEW z \in Things, L!Attach(z)
  PROVE  LabelInv'
<1> DEFINE l == label[z]
<1>1. /\ l \in LabelRecord /\ l.on.player \in players \union {None}
      /\ l.streamed \subseteq players /\ l.owner \in players \union {Server}
      /\ pool' = pool \union {z}
  BY DEF LabelInv, L!TypeOK, L!NoStale, LabelRecord, L!Attach
<1>2. PICK on \in L!Attachments(l) : L!Restream(z, [l EXCEPT !.on = on])
  BY DEF L!Attach
<1>3. on \in L!AttachedTo /\ on.player \in players \union {None}
  BY <1>1, LabelAttachments DEF LabelInv
<1> DEFINE m == [l EXCEPT !.on = on]
<1>4. m \in LabelRecord /\ m.on = on /\ m.owner = l.owner /\ m.streamed = l.streamed
  BY <1>1, <1>3, LabelReattached
<1>5. L!Restream(z, m)
  BY <1>2
<1> HIDE DEF m
<1> QED BY <1>1, <1>3, <1>4, <1>5, LabelRestream DEF L!Attach

\* A label loses one of its attachments.
LEMMA LabelDetached ==
  ASSUME NEW l \in LabelRecord, NEW m \in {L!DetachFromPlayer(l), L!DetachFromVehicle(l)}
  PROVE  /\ m \in LabelRecord /\ m.owner = l.owner /\ m.streamed = l.streamed
         /\ m.on.player \in {None, l.on.player}
<1>1. l.on \in L!AttachedTo
  BY DEF LabelRecord
<1>2. CASE m = L!DetachFromPlayer(l)
  <2>1. m = [l EXCEPT !.on = [l.on EXCEPT !.player = None]]
    BY <1>2 DEF L!DetachFromPlayer, LabelRecord
  <2>2. [l.on EXCEPT !.player = None] \in L!AttachedTo /\ [l.on EXCEPT !.player = None].player = None
    BY <1>1 DEF L!AttachedTo
  <2> QED BY <2>1, <2>2, LabelReattached
<1>3. CASE m = L!DetachFromVehicle(l)
  <2>1. m = [l EXCEPT !.on = [l.on EXCEPT !.vehicle = None]]
    BY <1>3 DEF L!DetachFromVehicle, LabelRecord
  <2>2. /\ [l.on EXCEPT !.vehicle = None] \in L!AttachedTo
        /\ [l.on EXCEPT !.vehicle = None].player = l.on.player
    BY <1>1 DEF L!AttachedTo
  <2> QED BY <2>1, <2>2, LabelReattached
<1> QED BY <1>2, <1>3

LEMMA LabelsDetach ==
  ASSUME LabelInv, NEW z \in Things, L!Detach(z)
  PROVE  LabelInv'
<1>1. /\ label[z] \in LabelRecord /\ label[z].on.player \in players \union {None}
      /\ label[z].streamed \subseteq players /\ label[z].owner \in players \union {Server}
      /\ pool' = pool \union {z}
  BY DEF LabelInv, L!TypeOK, L!NoStale, LabelRecord, L!Detach
<1>2. PICK l \in {L!DetachFromPlayer(label[z]), L!DetachFromVehicle(label[z])} :
        L!Restream(z, l)
  BY DEF L!Detach
<1>3. /\ l \in LabelRecord /\ l.owner = label[z].owner /\ l.streamed = label[z].streamed
      /\ l.on.player \in {None, label[z].on.player}
  BY <1>1, LabelDetached
<1> QED BY <1>1, <1>2, <1>3, LabelRestream DEF L!Detach

LEMMA LabelsSetAndRestream ==
  ASSUME LabelInv, NEW z \in Things, L!SetAndRestream(z)
  PROVE  LabelInv'
<1>1. /\ label[z] \in LabelRecord /\ label[z].on.player \in players \union {None}
      /\ label[z].streamed \subseteq players /\ label[z].owner \in players \union {Server}
      /\ pool' = pool \union {z}
  BY DEF LabelInv, L!TypeOK, L!NoStale, LabelRecord, L!SetAndRestream
<1> QED BY <1>1, LabelRestream DEF L!SetAndRestream

\* What is not in the pool, and attached to nothing.
LEMMA LabelFresh ==
  L!Fresh \in LabelRecord /\ L!Fresh.streamed = {} /\ L!Fresh.owner = Server
  BY DEF L!Fresh, L!Free, LabelRecord, L!AttachedTo

LEMMA LabelsRelease ==
  ASSUME LabelInv, NEW z \in Things, L!Release(z)
  PROVE  LabelInv'
<1>1. label' \in [Things -> LabelRecord] /\ label'[z] = L!Fresh
      /\ \A y \in Things \ {z} : label'[y] = label[y]
  BY LabelFresh DEF LabelInv, L!TypeOK, LabelRecord, L!Release
<1>2. screen' \in [Players -> [Things -> L!AttachedTo \union {None}]]
  BY DEF LabelInv, L!TypeOK, L!Release
<1>3. L!TypeOK'
  BY <1>1, <1>2 DEF LabelInv, L!TypeOK, LabelRecord, L!Release
<1>4. L!NoStale'
  BY <1>1 DEF LabelInv, L!NoStale, L!TypeOK, L!Release
<1>5. LabelFree'
  BY <1>1, LabelFresh DEF LabelInv, LabelFree, L!TypeOK, L!Release
<1>6. LabelViews'
  BY <1>1 DEF LabelInv, LabelViews, L!TypeOK, L!Release
<1> QED BY <1>3, <1>4, <1>5, <1>6 DEF LabelInv

LEMMA LabelsStreamLabel ==
  ASSUME LabelInv, NEW p \in Players, NEW z \in Things, NEW isNear \in BOOLEAN,
         L!StreamLabel(p, z, isNear)
  PROVE  LabelInv'
<1> DEFINE F  == IF isNear THEN label[z].streamed \union {p} ELSE label[z].streamed \ {p}
           l  == [label[z] EXCEPT !.streamed = F]
           on == IF isNear THEN label[z].on ELSE None
<1>1. /\ label[z] \in LabelRecord /\ label[z].on \in L!AttachedTo /\ F \in SUBSET Players
      /\ label[z].owner = Server /\ z \in pool /\ F \subseteq players
  BY DEF LabelInv, L!TypeOK, L!NoStale, LabelRecord, L!StreamLabel
<1>2. label' = [label EXCEPT ![z] = l]
  BY DEF L!StreamLabel, LabelInv, L!TypeOK
<1>3. screen' = [screen EXCEPT ![p] = [screen[p] EXCEPT ![z] = on]]
  BY DEF L!StreamLabel, LabelInv, L!TypeOK
<1>4. l \in LabelRecord /\ l.streamed = F /\ l.on = label[z].on /\ l.owner = Server
  BY <1>1 DEF LabelRecord
<1>5. \A q \in players \ {p} : q \in F <=> q \in label[z].streamed
  OBVIOUS
<1>6. p \in F <=> isNear
  OBVIOUS
<1> HIDE DEF l, F
<1>7. /\ label' \in [Things -> LabelRecord] /\ label'[z] = l
      /\ \A y \in Things \ {z} : label'[y] = label[y]
  BY <1>2, <1>4 DEF LabelInv, L!TypeOK, LabelRecord
<1>8. screen' \in [Players -> [Things -> L!AttachedTo \union {None}]]
  BY <1>1, <1>3 DEF LabelInv, L!TypeOK
<1>9. L!TypeOK'
  BY <1>7, <1>8 DEF LabelInv, L!TypeOK, LabelRecord, L!StreamLabel
<1>10. L!NoStale'
  BY <1>1, <1>4, <1>7 DEF LabelInv, L!NoStale, L!TypeOK, L!StreamLabel
<1>11. LabelFree'
  BY <1>1, <1>7 DEF LabelInv, LabelFree, L!TypeOK, L!StreamLabel
<1>12. LabelViews'
  <2>1. ASSUME NEW q \in Players, NEW y \in Things
        PROVE  (screen[q][y] = IF y \in pool /\ q \in L!Audience(label[y])
                               THEN label[y].on ELSE None)'
    <3>1. screen[q] \in [Things -> L!AttachedTo \union {None}] /\ pool' = pool
      BY DEF LabelInv, L!TypeOK, L!StreamLabel
    <3>2. screen[q][y] = IF y \in pool /\ q \in L!Audience(label[y]) THEN label[y].on ELSE None
      BY DEF LabelInv, LabelViews
    <3>3. screen'[q][y] = IF q = p /\ y = z THEN on ELSE screen[q][y]
      BY <1>3, <3>1 DEF LabelInv, L!TypeOK
    <3>4. CASE y # z
      BY <1>7, <3>1, <3>2, <3>3, <3>4
    <3>5. CASE y = z
      <4>1. L!Audience(label[z]) = label[z].streamed /\ L!Audience(label'[z]) = F
        BY <1>1, <1>4, <1>7 DEF L!Audience
      <4>2. CASE q = p
        BY <1>1, <1>4, <1>6, <1>7, <3>1, <3>3, <3>5, <4>1, <4>2
      <4>3. CASE q # p
        <5>1. q \in F <=> q \in label[z].streamed
          BY <4>3 DEF F
        <5> QED BY <1>1, <1>4, <1>7, <3>1, <3>2, <3>3, <3>5, <4>1, <4>3, <5>1
      <4> QED BY <4>2, <4>3
    <3> QED BY <3>4, <3>5
  <2> QED BY <2>1 DEF LabelViews
<1> QED BY <1>9, <1>10, <1>11, <1>12 DEF LabelInv

LEMMA LabelsConnect ==
  ASSUME LabelInv, NEW p \in Players, L!Connect(p)
  PROVE  LabelInv'
  BY DEF LabelInv, L!TypeOK, L!NoStale, LabelFree, LabelViews, L!Connect

LEMMA LabelsCars ==
  ASSUME LabelInv, NEW c \in Cars, L!CarComes(c) \/ L!CarGoes(c)
  PROVE  LabelInv'
  BY DEF LabelInv, L!TypeOK, L!NoStale, LabelFree, LabelViews, L!CarComes,
         L!CarGoes

LEMMA LabelsReset ==
  ASSUME LabelInv, L!Reset
  PROVE  LabelInv'
<1>1. L!TypeOK'
  BY LabelFresh DEF LabelInv, L!TypeOK, LabelRecord, L!Reset
<1>2. L!NoStale' /\ LabelFree' /\ LabelViews'
  BY LabelFresh DEF L!NoStale, LabelFree, LabelViews, L!Reset
<1> QED BY <1>1, <1>2 DEF LabelInv

\* What the departure of a player leaves of a label.
LEMMA LabelForgotten ==
  ASSUME NEW l \in LabelRecord, NEW p \in Players
  PROVE  /\ L!Forget(l, p) \in LabelRecord
         /\ L!Forget(l, p).streamed = l.streamed \ {p}
         /\ L!Forget(l, p).owner = l.owner
         /\ l.on.player # p => L!Forget(l, p).on = l.on
         /\ L!Forget(l, p).on.player \in {None, l.on.player} \ {p}
<1> DEFINE d == IF l.on.player = p THEN L!DetachFromPlayer(l) ELSE l
<1>1. /\ d \in LabelRecord /\ d.owner = l.owner /\ d.streamed = l.streamed
      /\ d.on.player \in {None, l.on.player}
      /\ l.on.player # p => d.on = l.on
  BY LabelDetached
<1>2. d.on.player # p
  BY EntitiesAssumption DEF L!DetachFromPlayer, LabelRecord, L!AttachedTo
<1>3. L!Forget(l, p) = [d EXCEPT !.streamed = d.streamed \ {p}]
  BY DEF L!Forget
<1> HIDE DEF d
<1> QED BY <1>1, <1>2, <1>3 DEF LabelRecord

LEMMA LabelsDisconnect ==
  ASSUME LabelInv, NEW p \in Players, L!Disconnect(p)
  PROVE  LabelInv'
<1> DEFINE own == {z \in pool : label[z].owner = p}
<1>1. /\ players' = players \ {p} /\ pool' = pool \ own /\ cars' = cars
      /\ label' = [z \in Things |-> IF z \in own THEN L!Fresh ELSE L!Forget(label[z], p)]
      /\ screen' = [q \in Players |-> [z \in Things |->
             IF q = p THEN None
             ELSE IF label[z].on.player = p /\ q \in L!Audience(label[z])
             THEN label'[z].on ELSE screen[q][z]]]
  BY DEF L!Disconnect
<1>2. label \in [Things -> LabelRecord]
  BY DEF LabelInv, L!TypeOK, LabelRecord
<1>3. label' \in [Things -> LabelRecord]
  BY <1>1, <1>2, LabelFresh, LabelForgotten
<1>4. ASSUME NEW z \in Things, z \notin own
      PROVE  /\ label'[z].streamed = label[z].streamed \ {p}
             /\ label'[z].owner = label[z].owner
             /\ label[z].on.player # p => label'[z].on = label[z].on
             /\ label'[z].on.player \in {None, label[z].on.player} \ {p}
  BY <1>1, <1>2, <1>4, LabelForgotten
<1>5. \A z \in own : label'[z] = L!Fresh /\ z \in Things
  BY <1>1 DEF LabelInv, L!TypeOK
<1>6. \A z \in Things : z \in own <=> z \in pool /\ label[z].owner = p
  OBVIOUS
<1> HIDE DEF own
<1>7. screen' \in [Players -> [Things -> L!AttachedTo \union {None}]]
  <2>1. \A z \in Things : label'[z].on \in L!AttachedTo
    BY <1>3 DEF LabelRecord
  <2>2. \A q \in Players, z \in Things : screen[q][z] \in L!AttachedTo \union {None}
    BY DEF LabelInv, L!TypeOK
  <2> QED BY <1>1, <2>1, <2>2
<1>8. L!TypeOK'
  BY <1>1, <1>3, <1>7 DEF LabelInv, L!TypeOK, LabelRecord
<1>9. L!NoStale'
  BY <1>1, <1>4, <1>6 DEF LabelInv, L!NoStale, L!TypeOK
<1>10. LabelFree'
  BY <1>1, <1>4, <1>5, <1>6, LabelFresh DEF LabelInv, LabelFree
<1>11. ASSUME NEW q \in Players, NEW z \in Things
       PROVE  (screen[q][z] = IF z \in pool /\ q \in L!Audience(label[z])
                              THEN label[z].on ELSE None)'
  <2>1. screen[q][z] = IF z \in pool /\ q \in L!Audience(label[z]) THEN label[z].on ELSE None
    BY DEF LabelInv, LabelViews
  <2>2. CASE q = p
    <3>1. screen'[q][z] = None
      BY <1>1, <2>2
    <3>2. z \in pool' => p \notin L!Audience(label'[z])
      BY <1>1, <1>4, <1>6, EntitiesAssumption DEF L!Audience
    <3> QED BY <2>2, <3>1, <3>2
  <2>3. CASE q # p /\ z \in own
    <3>1. q \notin L!Audience(label[z])
      BY <1>6, <2>3, EntitiesAssumption DEF L!Audience
    <3> QED BY <1>1, <2>1, <2>3, <3>1
  <2>4. CASE q # p /\ z \notin own
    <3>1. q \in L!Audience(label'[z]) <=> q \in L!Audience(label[z])
      BY <1>4, <2>4 DEF L!Audience
    <3>2. z \notin pool => q \notin L!Audience(label[z])
      BY DEF LabelInv, LabelFree, L!Audience
    <3>3. screen'[q][z] = IF label[z].on.player = p /\ q \in L!Audience(label[z])
                          THEN label'[z].on ELSE screen[q][z]
      BY <1>1, <2>4
    <3>4. z \in pool' <=> z \in pool
      BY <1>1, <2>4
    <3> QED BY <1>4, <2>1, <2>4, <3>1, <3>2, <3>3, <3>4
  <2> QED BY <2>2, <2>3, <2>4
<1>12. LabelViews'
  BY <1>11 DEF LabelViews
<1> QED BY <1>8, <1>9, <1>10, <1>12 DEF LabelInv

LEMMA LabelsStutter == ASSUME LabelInv, UNCHANGED vars PROVE LabelInv'
  BY DEF vars, LabelInv, L!TypeOK, LabelViews, LabelFree, L!NoStale

LEMMA LabelsInit == ASSUME L!Init PROVE LabelInv
<1>1. /\ players = {} /\ pool = {} /\ cars = {}
      /\ label = [z \in Things |-> L!Fresh]
      /\ screen = [p \in Players |-> [z \in Things |-> None]]
  BY DEF L!Init
<1>2. L!Fresh \in LabelRecord /\ L!Fresh.streamed = {} /\ L!Fresh.owner = Server
  BY DEF L!Fresh, L!Free, L!AttachedTo, LabelRecord
<1>3. L!TypeOK
  BY <1>1, <1>2 DEF L!TypeOK, LabelRecord
<1> QED BY <1>1, <1>2, <1>3 DEF LabelInv, LabelViews, LabelFree, L!NoStale

LEMMA LabelsStep ==
  ASSUME LabelInv, L!Next
  PROVE  LabelInv'
<1>1. CASE L!Reset
  BY <1>1, LabelsReset
<1>2. CASE \E c \in Cars : L!CarComes(c) \/ L!CarGoes(c)
  BY <1>2, LabelsCars
<1>3. CASE \E p \in Players : L!Connect(p) \/ L!Disconnect(p)
  BY <1>3, LabelsConnect, LabelsDisconnect
<1>4. CASE \E z \in Things : L!Attach(z) \/ L!Detach(z) \/ L!SetAndRestream(z) \/ L!Release(z)
  BY <1>4, LabelsAttach, LabelsDetach, LabelsSetAndRestream, LabelsRelease
<1>5. CASE \E z \in Things, p \in Players, b \in BOOLEAN : L!StreamLabel(p, z, b)
  BY <1>5, LabelsStreamLabel
<1>6. CASE \E z \in Things, s \in Players \union {Server}, B \in SUBSET Players :
             L!Create(z, s, B)
  BY <1>6, LabelsCreate
<1> QED BY <1>1, <1>2, <1>3, <1>4, <1>5, <1>6 DEF L!Next

\* What the invariant of the labels says of them.
LEMMA LabelsImply ==
  ASSUME LabelInv
  PROVE  L!TypeOK /\ L!ViewExact /\ L!NoStale
<1>1. L!ViewExact
  BY DEF LabelInv, LabelViews, L!ViewExact, L!TypeOK
<1> QED BY <1>1 DEF LabelInv

-----------------------------------------------------------------------------
(* Actors                                                                   *)

ActorRecord == [streamed : SUBSET Players, looks : A!Looks, loop : BOOLEAN]
ActorSent   == [looks : A!Looks, loop : BOOLEAN] \union {None}

\* The callback in progress keeps its player, and the actor that waits for it
\* to be released.
ActorPass ==
    /\ pass.who \in players \union {None}
    /\ doomed \subseteq {pass.actor}

\* A client shows what is streamed in for it, also that of a player that is
\* not there: nothing.
ActorViews == \A p \in Players : \A a \in Things :
    screen[p][a] = IF a \in A!Usable /\ p \in actor[a].streamed
                   THEN A!Sent(actor[a]) ELSE None

StreamedFor(p) == {a \in A!Usable : p \in actor[a].streamed}

ActorCounts == \A p \in Players : numStreamed[p] = Cardinality(StreamedFor(p))

\* An actor that is not in the pool is streamed in for nobody.
ActorFree == \A a \in Things \ pool : actor[a].streamed = {}

ActorInv == A!TypeOK /\ ActorPass /\ ActorViews /\ A!NoStale /\ ActorCounts /\ ActorFree

-----------------------------------------------------------------------------
\* The instance counts as the module of finite sets does.
LEMMA ActorsCardinality == \A S : A!Cardinality(S) = Cardinality(S)
  BY DEF A!Cardinality, Cardinality

LEMMA StreamedForFinite ==
  ASSUME A!TypeOK
  PROVE  \A p \in Players : /\ IsFiniteSet(StreamedFor(p))
                            /\ Cardinality(StreamedFor(p)) \in Nat
<1>1. \A p \in Players : StreamedFor(p) \subseteq Things
  BY DEF A!TypeOK, StreamedFor, A!Usable
<1> QED BY <1>1, EntitiesAssumption, FS_Subset, FS_CardinalityType

\* One actor more, or less.
LEMMA CountOneMore ==
  ASSUME NEW S, IsFiniteSet(S), NEW a, a \notin S
  PROVE  Cardinality(S \union {a}) = Cardinality(S) + 1
  BY FS_AddElement

LEMMA CountOneLess ==
  ASSUME NEW S, IsFiniteSet(S), NEW a \in S
  PROVE  Cardinality(S \ {a}) = Cardinality(S) - 1 /\ Cardinality(S) - 1 \in Nat
<1>1. Cardinality(S \ {a}) = Cardinality(S) - 1
  BY FS_RemoveElement
<1>2. IsFiniteSet(S \ {a})
  BY FS_RemoveElement
<1> QED BY <1>1, <1>2, FS_CardinalityType

\* Nothing about the actors changes but the handler in progress, and actors
\* that come with nobody to see them.
LEMMA ActorsKept ==
  ASSUME ActorInv, UNCHANGED <<actor, numStreamed, screen>>,
         pool \subseteq pool', pool' \subseteq Things, doomed' = doomed,
         players \subseteq players', players' \subseteq Players,
         pass' \in [who : players' \union {None}, todo : SUBSET Things,
                    actor : Things \union {None}],
         doomed \subseteq {pass'.actor}
  PROVE  ActorInv'
<1>1. A!TypeOK'
  BY DEF ActorInv, A!TypeOK
<1>2. ActorPass'
  BY DEF ActorPass
<1>3. \A a \in Things \ pool : actor[a].streamed = {}
  BY DEF ActorInv, ActorFree
<1>4. \A a \in Things : a \in A!Usable' /\ a \notin A!Usable => a \notin pool
  BY DEF A!Usable, ActorInv, A!TypeOK
<1>5. A!Usable \subseteq A!Usable' /\ A!Usable' \subseteq Things
  BY DEF A!Usable
<1>6. ActorViews'
  BY <1>3, <1>4, <1>5 DEF ActorInv, ActorViews
<1>7. A!NoStale'
  BY <1>3 DEF ActorInv, A!NoStale
<1>8. ActorCounts'
  <2>1. \A p \in Players : StreamedFor(p)' = StreamedFor(p)
    BY <1>3, <1>4, <1>5 DEF StreamedFor
  <2> QED BY <2>1 DEF ActorInv, ActorCounts
<1>9. ActorFree'
  BY DEF ActorInv, ActorFree
<1> QED BY <1>1, <1>2, <1>6, <1>7, <1>8, <1>9 DEF ActorInv

LEMMA ActorsCreate ==
  ASSUME ActorInv, NEW a \in Things, A!Create(a)
  PROVE  ActorInv'
  BY ActorsKept DEF A!Create, ActorInv, A!TypeOK, ActorPass

LEMMA ActorsDamageActor ==
  ASSUME ActorInv, NEW p \in Players, NEW a \in Things, A!DamageActor(p, a)
  PROVE  ActorInv'
  BY EntitiesAssumption, ActorsKept
  DEF A!DamageActor, A!Idle, ActorInv, A!TypeOK, ActorPass

LEMMA ActorsPlayerUpdate ==
  ASSUME ActorInv, NEW p \in Players, A!PlayerUpdate(p)
  PROVE  ActorInv'
  BY EntitiesAssumption, ActorsKept
  DEF A!PlayerUpdate, A!Idle, ActorInv, A!TypeOK, ActorPass

LEMMA ActorsEndUpdate ==
  ASSUME ActorInv, A!EndUpdate
  PROVE  ActorInv'
  BY EntitiesAssumption, ActorsKept
  DEF A!EndUpdate, A!Idle, ActorInv, A!TypeOK, ActorPass

LEMMA ActorsConnect ==
  ASSUME ActorInv, NEW p \in Players, A!Connect(p)
  PROVE  ActorInv'
  BY ActorsKept DEF A!Connect, ActorInv, A!TypeOK, ActorPass

\* An actor looks otherwise, to those it is streamed in for.
LEMMA ActorsTold ==
  ASSUME ActorInv, NEW a \in A!Usable, NEW l \in ActorRecord,
         l.streamed = actor[a].streamed, A!TellStreamed(a, l),
         UNCHANGED <<players, pool, doomed, numStreamed, pass>>
  PROVE  ActorInv'
<1>0. a \in Things /\ a \in pool /\ A!Usable' = A!Usable /\ actor \in [Things -> ActorRecord]
  BY DEF A!Usable, ActorInv, A!TypeOK, ActorRecord
<1>1. /\ actor' \in [Things -> ActorRecord] /\ actor'[a] = l
      /\ \A b \in Things \ {a} : actor'[b] = actor[b]
      /\ \A b \in Things : actor'[b].streamed = actor[b].streamed
  BY <1>0 DEF A!TellStreamed
<1>2. A!Sent(l) \in ActorSent
  BY DEF A!Sent, ActorRecord, ActorSent
<1>3. screen' \in [Players -> [Things -> ActorSent]]
  BY <1>0, <1>2 DEF A!TellStreamed, ActorInv, A!TypeOK, ActorSent
<1>4. A!TypeOK'
  BY <1>1, <1>3 DEF ActorInv, A!TypeOK, ActorRecord, ActorSent
<1>5. ActorViews'
  BY <1>0, <1>1 DEF ActorInv, ActorViews, A!TellStreamed, A!TypeOK
<1>6. A!NoStale' /\ ActorFree' /\ ActorPass'
  BY <1>0, <1>1 DEF ActorInv, A!NoStale, ActorFree, ActorPass, A!TypeOK
<1>7. ActorCounts'
  <2>1. \A p \in Players : StreamedFor(p)' = StreamedFor(p)
    BY <1>0, <1>1 DEF StreamedFor, ActorInv, A!TypeOK, A!Usable
  <2> QED BY <2>1 DEF ActorInv, ActorCounts
<1> QED BY <1>4, <1>5, <1>6, <1>7 DEF ActorInv

LEMMA ActorsSetLooks ==
  ASSUME ActorInv, NEW a \in Things, NEW looks \in A!Looks, A!SetLooks(a, looks)
  PROVE  ActorInv'
<1> DEFINE l == [actor[a] EXCEPT !.looks = looks]
<1>1. l \in ActorRecord /\ l.streamed = actor[a].streamed
  BY DEF ActorInv, A!TypeOK, ActorRecord
<1> QED BY <1>1, ActorsTold DEF A!SetLooks

LEMMA ActorsAnimate ==
  ASSUME ActorInv, NEW a \in Things, NEW loop \in BOOLEAN, A!Animate(a, loop)
  PROVE  ActorInv'
<1> DEFINE l == [actor[a] EXCEPT !.loop = loop]
<1>1. l \in ActorRecord /\ l.streamed = actor[a].streamed
  BY DEF ActorInv, A!TypeOK, ActorRecord
<1> QED BY <1>1, ActorsTold DEF A!Animate

LEMMA ActorFresh == A!Fresh \in ActorRecord /\ A!Fresh.streamed = {}
  BY DEF A!Fresh, ActorRecord, A!Looks

LEMMA ActorsRelease ==
  ASSUME ActorInv, NEW a \in Things, A!Release(a)
  PROVE  ActorInv'
<1>0. a \in A!Usable /\ A!Usable' = A!Usable \ {a}
  BY DEF A!Release, A!Usable, ActorInv, A!TypeOK
<1>1. /\ actor' \in [Things -> ActorRecord]
      /\ \A b \in Things \ {a} : actor'[b] = actor[b]
      /\ actor'[a].streamed \subseteq actor[a].streamed
  BY ActorFresh DEF A!Release, ActorInv, A!TypeOK, ActorRecord
<1>2. \A p \in Players :
        /\ p \in actor[a].streamed =>
             /\ StreamedFor(p)' = StreamedFor(p) \ {a}
             /\ numStreamed'[p] = numStreamed[p] - 1 /\ numStreamed'[p] \in Nat
             /\ numStreamed'[p] = Cardinality(StreamedFor(p) \ {a})
        /\ p \notin actor[a].streamed =>
             StreamedFor(p)' = StreamedFor(p) /\ numStreamed'[p] = numStreamed[p]
  <2> TAKE p \in Players
  <2>1. CASE p \in actor[a].streamed
    <3>1. a \in StreamedFor(p)
      BY <1>0, <2>1 DEF StreamedFor
    <3>2. StreamedFor(p)' = StreamedFor(p) \ {a}
      BY <1>0, <1>1 DEF StreamedFor, ActorInv, A!TypeOK, A!Usable
    <3>3. numStreamed'[p] = numStreamed[p] - 1
      BY <2>1 DEF A!Release, A!Destream
    <3>4. numStreamed[p] = Cardinality(StreamedFor(p))
      BY DEF ActorInv, ActorCounts
    <3>5. /\ Cardinality(StreamedFor(p) \ {a}) = Cardinality(StreamedFor(p)) - 1
          /\ Cardinality(StreamedFor(p)) - 1 \in Nat
      BY <3>1, StreamedForFinite, CountOneLess DEF ActorInv
    <3> QED BY <2>1, <3>2, <3>3, <3>4, <3>5
  <2>2. CASE p \notin actor[a].streamed
    <3>1. StreamedFor(p)' = StreamedFor(p)
      BY <1>0, <1>1, <2>2 DEF StreamedFor, ActorInv, A!TypeOK, A!Usable
    <3>2. numStreamed'[p] = numStreamed[p]
      BY <2>2 DEF A!Release, A!Destream
    <3> QED BY <2>2, <3>1, <3>2
  <2> QED BY <2>1, <2>2
<1>3. numStreamed' \in [Players -> Nat]
  <2>1. \A p \in Players : numStreamed'[p] \in Nat
    BY <1>2 DEF ActorInv, A!TypeOK
  <2> QED BY <2>1 DEF A!Release, A!Destream
<1>4. screen' \in [Players -> [Things -> ActorSent]]
  BY DEF A!Release, A!Destream, ActorInv, A!TypeOK, ActorSent
<1>5. A!TypeOK'
  BY <1>0, <1>1, <1>3, <1>4
  DEF ActorInv, A!TypeOK, ActorRecord, ActorSent, A!Release, A!Usable
<1>6. ActorPass'
  BY DEF A!Release, ActorInv, ActorPass
<1>7. ActorViews'
  BY <1>0, <1>1 DEF ActorInv, ActorViews, A!Release, A!Destream, A!TypeOK
<1>8. A!NoStale'
  BY <1>0, <1>1 DEF ActorInv, A!NoStale, A!Release, A!TypeOK
<1>9. ActorFree'
  BY <1>1, ActorFresh DEF ActorInv, ActorFree, A!Release, A!TypeOK
<1>10. ActorCounts'
  BY <1>2 DEF ActorInv, ActorCounts
<1> QED BY <1>5, <1>6, <1>7, <1>8, <1>9, <1>10 DEF ActorInv

\* One player gains or loses one actor that nobody destroys meanwhile.
LEMMA ActorsStreamed ==
  ASSUME ActorInv, NEW a \in A!Usable, NEW p \in players, NEW isNear \in BOOLEAN,
         isNear # (p \in actor[a].streamed), doomed = {},
         IF isNear THEN A!StreamInForPlayer(a, p) ELSE A!StreamOutForPlayer(a, p),
         UNCHANGED <<players, pool, doomed>>,
         pass' \in [who : players \union {None}, todo : SUBSET Things,
                    actor : Things \union {None}]
  PROVE  ActorInv'
<1>0. /\ a \in Things /\ a \in pool /\ p \in Players /\ A!Usable' = A!Usable
      /\ actor \in [Things -> ActorRecord] /\ numStreamed \in [Players -> Nat]
      /\ numStreamed[p] = Cardinality(StreamedFor(p))
      /\ A!Usable \subseteq Things
  BY DEF A!Usable, ActorInv, A!TypeOK, ActorRecord, ActorCounts
<1>1. CASE UNCHANGED <<actor, numStreamed, screen>>
  <2>1. players \subseteq Players /\ pool \subseteq Things
    BY DEF ActorInv, A!TypeOK
  <2> QED BY <1>1, <2>1, ActorsKept
<1>2. CASE isNear /\ ~UNCHANGED <<actor, numStreamed, screen>>
  <2> DEFINE r == [actor[a] EXCEPT !.streamed = @ \union {p}]
  <2>1. /\ actor' = [actor EXCEPT ![a] = r]
        /\ numStreamed' = [numStreamed EXCEPT ![p] = numStreamed[p] + 1]
        /\ screen' = [screen EXCEPT ![p] = [screen[p] EXCEPT ![a] = A!Sent(actor[a])]]
    BY <1>0, <1>2 DEF A!StreamInForPlayer, ActorInv, A!TypeOK
  <2>2. /\ r \in ActorRecord /\ r.streamed = actor[a].streamed \union {p}
        /\ A!Sent(r) = A!Sent(actor[a])
    BY <1>0 DEF ActorRecord, A!Sent
  <2>3. A!Sent(actor[a]) \in ActorSent
    BY <1>0 DEF A!Sent, ActorRecord, ActorSent
  <2> HIDE DEF r
  <2>4. /\ actor' \in [Things -> ActorRecord] /\ actor'[a] = r
        /\ \A b \in Things \ {a} : actor'[b] = actor[b]
    BY <1>0, <2>1, <2>2
  <2>5. screen' \in [Players -> [Things -> ActorSent]]
    BY <1>0, <2>1, <2>3 DEF ActorInv, A!TypeOK, ActorSent
  <2>6. StreamedFor(p)' = StreamedFor(p) \union {a} /\ a \notin StreamedFor(p)
    BY <1>0, <1>2, <2>2, <2>4 DEF StreamedFor
  <2>7. \A q \in Players \ {p} : StreamedFor(q)' = StreamedFor(q)
    BY <1>0, <2>2, <2>4 DEF StreamedFor
  <2>8. Cardinality(StreamedFor(p) \union {a}) = Cardinality(StreamedFor(p)) + 1
    BY <1>0, <2>6, StreamedForFinite, CountOneMore DEF ActorInv
  <2>9. ActorCounts'
    BY <1>0, <2>1, <2>6, <2>7, <2>8 DEF ActorInv, ActorCounts
  <2>10. A!TypeOK'
    BY <1>0, <2>1, <2>4, <2>5 DEF ActorInv, A!TypeOK, ActorRecord, ActorSent
  <2>11. ActorViews'
    <3>1. ASSUME NEW q \in Players, NEW b \in Things
          PROVE  (screen[q][b] = IF b \in A!Usable /\ q \in actor[b].streamed
                                 THEN A!Sent(actor[b]) ELSE None)'
      <4>1. screen[q][b] = IF b \in A!Usable /\ q \in actor[b].streamed
                           THEN A!Sent(actor[b]) ELSE None
        BY DEF ActorInv, ActorViews
      <4>2. screen'[q][b] = IF q = p /\ b = a THEN A!Sent(actor[a]) ELSE screen[q][b]
        BY <1>0, <2>1 DEF ActorInv, A!TypeOK
      <4>3. CASE b # a
        BY <1>0, <2>4, <4>1, <4>2, <4>3
      <4>4. CASE b = a
        BY <1>0, <2>2, <2>4, <4>1, <4>2, <4>4
      <4> QED BY <4>3, <4>4
    <3> QED BY <3>1 DEF ActorViews
  <2>12. A!NoStale' /\ ActorFree' /\ ActorPass'
    BY <1>0, <2>2, <2>4 DEF ActorInv, A!NoStale, ActorFree, ActorPass, A!TypeOK
  <2> QED BY <2>9, <2>10, <2>11, <2>12 DEF ActorInv
<1>3. CASE ~isNear
  <2> DEFINE r == [actor[a] EXCEPT !.streamed = @ \ {p}]
  <2>1. /\ actor' = [actor EXCEPT ![a] = r]
        /\ numStreamed' = [numStreamed EXCEPT ![p] = numStreamed[p] - 1]
        /\ screen' = [screen EXCEPT ![p] = [screen[p] EXCEPT ![a] = None]]
    BY <1>0, <1>3 DEF A!StreamOutForPlayer, ActorInv, A!TypeOK
  <2>2. /\ r \in ActorRecord /\ r.streamed = actor[a].streamed \ {p}
        /\ A!Sent(r) = A!Sent(actor[a])
    BY <1>0 DEF ActorRecord, A!Sent
  <2> HIDE DEF r
  <2>4. /\ actor' \in [Things -> ActorRecord] /\ actor'[a] = r
        /\ \A b \in Things \ {a} : actor'[b] = actor[b]
    BY <1>0, <2>1, <2>2
  <2>5. screen' \in [Players -> [Things -> ActorSent]]
    BY <1>0, <2>1 DEF ActorInv, A!TypeOK, ActorSent
  <2>6. StreamedFor(p)' = StreamedFor(p) \ {a} /\ a \in StreamedFor(p)
    BY <1>0, <1>3, <2>2, <2>4 DEF StreamedFor
  <2>7. \A q \in Players \ {p} : StreamedFor(q)' = StreamedFor(q)
    BY <1>0, <2>2, <2>4 DEF StreamedFor
  <2>8. /\ Cardinality(StreamedFor(p) \ {a}) = Cardinality(StreamedFor(p)) - 1
        /\ Cardinality(StreamedFor(p)) - 1 \in Nat
    BY <1>0, <2>6, StreamedForFinite, CountOneLess DEF ActorInv
  <2>9. ActorCounts'
    BY <1>0, <2>1, <2>6, <2>7, <2>8 DEF ActorInv, ActorCounts
  <2>10. A!TypeOK'
    BY <1>0, <2>1, <2>4, <2>5, <2>8
    DEF ActorInv, A!TypeOK, ActorRecord, ActorSent
  <2>11. ActorViews'
    <3>1. ASSUME NEW q \in Players, NEW b \in Things
          PROVE  (screen[q][b] = IF b \in A!Usable /\ q \in actor[b].streamed
                                 THEN A!Sent(actor[b]) ELSE None)'
      <4>1. screen[q][b] = IF b \in A!Usable /\ q \in actor[b].streamed
                           THEN A!Sent(actor[b]) ELSE None
        BY DEF ActorInv, ActorViews
      <4>2. screen'[q][b] = IF q = p /\ b = a THEN None ELSE screen[q][b]
        BY <1>0, <2>1 DEF ActorInv, A!TypeOK
      <4>3. CASE b # a
        BY <1>0, <2>4, <4>1, <4>2, <4>3
      <4>4. CASE b = a
        BY <1>0, <2>2, <2>4, <4>1, <4>2, <4>4
      <4> QED BY <4>3, <4>4
    <3> QED BY <3>1 DEF ActorViews
  <2>12. A!NoStale' /\ ActorFree' /\ ActorPass'
    BY <1>0, <2>2, <2>4 DEF ActorInv, A!NoStale, ActorFree, ActorPass, A!TypeOK
  <2> QED BY <2>9, <2>10, <2>11, <2>12 DEF ActorInv
<1> QED BY <1>1, <1>2, <1>3

LEMMA ActorsStreamActor ==
  ASSUME ActorInv, NEW a \in Things, NEW isNear \in BOOLEAN, A!StreamActor(a, isNear)
  PROVE  ActorInv'
<1> DEFINE n == [pass EXCEPT !.todo = @ \ {a}]
<1>1. /\ pass \in [who : players \union {None}, todo : SUBSET Things,
                   actor : Things \union {None}]
      /\ doomed = {} /\ pass.who \in players /\ players \subseteq Players /\ pool \subseteq Things
  BY EntitiesAssumption DEF A!StreamActor, ActorInv, A!TypeOK, ActorPass
<1>2. /\ n \in [who : players \union {None}, todo : SUBSET Things, actor : Things \union {None}]
      /\ [n EXCEPT !.actor = a] \in [who : players \union {None}, todo : SUBSET Things,
                                     actor : Things \union {None}]
  BY <1>1
<1>3. CASE a \notin pool \/ isNear = (pass.who \in actor[a].streamed)
  <2>1. pass' = n /\ UNCHANGED <<actor, numStreamed, screen, players, pool, doomed>>
    BY <1>3 DEF A!StreamActor
  <2> HIDE DEF n
  <2> QED BY <1>1, <1>2, <2>1, ActorsKept
<1>4. CASE ~(a \notin pool \/ isNear = (pass.who \in actor[a].streamed))
  <2>1. /\ pass' = [n EXCEPT !.actor = a]
        /\ IF isNear THEN A!StreamInForPlayer(a, pass.who) ELSE A!StreamOutForPlayer(a, pass.who)
        /\ UNCHANGED <<players, pool, doomed>>
        /\ a \in A!Usable
    BY <1>1, <1>4 DEF A!StreamActor, A!Usable
  <2> HIDE DEF n
  <2> QED BY <1>1, <1>2, <1>4, <2>1, ActorsStreamed
<1> QED BY <1>3, <1>4

LEMMA ActorsReturn ==
  ASSUME ActorInv, A!Return
  PROVE  ActorInv'
<1>1. A!Usable' = A!Usable /\ A!Usable \subseteq Things
  BY DEF A!Return, A!Usable, ActorInv, A!TypeOK
<1>2. /\ actor' \in [Things -> ActorRecord]
      /\ \A a \in doomed : actor'[a] = A!Fresh
      /\ \A a \in Things \ doomed : actor'[a] = actor[a]
  BY ActorFresh DEF A!Return, ActorInv, A!TypeOK, ActorRecord
<1>3. pass' \in [who : Players \union {None}, todo : SUBSET Things,
                 actor : Things \union {None}] /\ pass'.who = pass.who
  BY DEF A!Return, ActorInv, A!TypeOK
<1>4. A!TypeOK'
  BY <1>2, <1>3 DEF A!Return, ActorInv, A!TypeOK, ActorRecord
<1>5. ActorPass'
  BY <1>3 DEF A!Return, ActorInv, ActorPass
<1>6. ActorViews'
  BY <1>1, <1>2 DEF A!Return, ActorInv, ActorViews, A!Usable
<1>7. A!NoStale' /\ ActorFree'
  BY <1>2, ActorFresh DEF A!Return, ActorInv, A!NoStale, ActorFree, A!TypeOK
<1>8. ActorCounts'
  <2>1. \A p \in Players : StreamedFor(p)' = StreamedFor(p)
    BY <1>1, <1>2 DEF StreamedFor, A!Usable
  <2> QED BY <2>1 DEF A!Return, ActorInv, ActorCounts
<1> QED BY <1>4, <1>5, <1>6, <1>7, <1>8 DEF ActorInv

LEMMA ActorsDisconnect ==
  ASSUME ActorInv, NEW p \in Players, A!Disconnect(p)
  PROVE  ActorInv'
<1>0. actor \in [Things -> ActorRecord] /\ A!Usable' = A!Usable /\ A!Usable \subseteq Things
  BY DEF A!Disconnect, A!Usable, ActorInv, A!TypeOK, ActorRecord
<1>1. /\ actor' \in [Things -> ActorRecord]
      /\ \A a \in Things : /\ actor'[a].streamed = actor[a].streamed \ {p}
                           /\ A!Sent(actor'[a]) = A!Sent(actor[a])
  BY <1>0 DEF A!Disconnect, A!RemoveFor, ActorRecord, A!Sent
<1>2. screen' \in [Players -> [Things -> ActorSent]]
  BY DEF A!Disconnect, ActorInv, A!TypeOK, ActorSent
<1>3. A!TypeOK'
  BY <1>1, <1>2 DEF A!Disconnect, ActorInv, A!TypeOK, ActorRecord, ActorSent
<1>4. ActorPass'
  BY DEF A!Disconnect, A!Idle, ActorInv, ActorPass
<1>5. ActorViews'
  BY <1>0, <1>1 DEF A!Disconnect, ActorInv, ActorViews, A!TypeOK
<1>6. A!NoStale' /\ ActorFree'
  BY <1>1 DEF A!Disconnect, ActorInv, A!NoStale, ActorFree, A!TypeOK
<1>7. ActorCounts'
  <2>1. StreamedFor(p)' = {}
    BY <1>0, <1>1 DEF StreamedFor
  <2>2. \A q \in Players \ {p} : StreamedFor(q)' = StreamedFor(q)
    BY <1>0, <1>1 DEF StreamedFor
  <2>3. numStreamed'[p] = 0 /\ \A q \in Players \ {p} : numStreamed'[q] = numStreamed[q]
    BY DEF A!Disconnect, ActorInv, A!TypeOK
  <2> QED BY <2>1, <2>2, <2>3, FS_EmptySet DEF ActorInv, ActorCounts
<1> QED BY <1>3, <1>4, <1>5, <1>6, <1>7 DEF ActorInv

LEMMA ActorsReset ==
  ASSUME ActorInv, A!Reset
  PROVE  ActorInv'
<1>1. A!Usable' = {}
  BY DEF A!Reset, A!Usable
<1>2. A!TypeOK'
  BY EntitiesAssumption, ActorFresh
  DEF A!Reset, A!Idle, ActorInv, A!TypeOK, ActorRecord, ActorPass
<1>3. ActorPass'
  BY DEF A!Reset, ActorInv, ActorPass
<1>4. ActorViews' /\ A!NoStale' /\ ActorFree'
  BY <1>1, ActorFresh DEF A!Reset, ActorViews, A!NoStale, ActorFree
<1>5. ActorCounts'
  <2>1. \A p \in Players : StreamedFor(p)' = {}
    BY <1>1 DEF StreamedFor
  <2> QED BY <2>1, FS_EmptySet DEF A!Reset, ActorCounts
<1> QED BY <1>2, <1>3, <1>4, <1>5 DEF ActorInv

LEMMA ActorsStutter == ASSUME ActorInv, UNCHANGED vars PROVE ActorInv'
  BY DEF vars, ActorInv, A!TypeOK, ActorPass, ActorViews, A!NoStale,
         ActorCounts, ActorFree, StreamedFor, A!Usable

LEMMA ActorsInit == ASSUME A!Init PROVE ActorInv
<1>1. /\ players = {} /\ pool = {} /\ doomed = {}
      /\ actor = [a \in Things |-> A!Fresh]
      /\ numStreamed = [p \in Players |-> 0]
      /\ screen = [p \in Players |-> [a \in Things |-> None]]
      /\ pass = A!Idle
  BY DEF A!Init
<1>2. A!Fresh \in ActorRecord /\ A!Fresh.streamed = {}
  BY DEF A!Fresh, A!Looks, ActorRecord
<1>3. A!TypeOK /\ ActorPass
  BY <1>1, <1>2 DEF A!TypeOK, ActorRecord, A!Idle, ActorPass
<1>4. \A p \in Players : StreamedFor(p) = {}
  BY <1>1 DEF StreamedFor, A!Usable
<1>5. ActorCounts
  BY <1>1, <1>4, FS_EmptySet DEF ActorCounts
<1> QED
  BY <1>1, <1>2, <1>3, <1>5
  DEF ActorInv, ActorViews, ActorFree, A!NoStale, A!Usable

LEMMA ActorsStep ==
  ASSUME ActorInv, A!Next
  PROVE  ActorInv'
<1>1. CASE A!EndUpdate \/ A!Return \/ A!Reset
  BY <1>1, ActorsEndUpdate, ActorsReturn, ActorsReset
<1>2. CASE \E p \in Players : A!Connect(p) \/ A!Disconnect(p) \/ A!PlayerUpdate(p)
  BY <1>2, ActorsConnect, ActorsDisconnect, ActorsPlayerUpdate
<1>3. CASE \E a \in Things : A!Create(a) \/ A!Release(a)
  BY <1>3, ActorsCreate, ActorsRelease
<1>4. CASE \E a \in Things, looks \in A!Looks : A!SetLooks(a, looks)
  BY <1>4, ActorsSetLooks
<1>5. CASE \E a \in Things, b \in BOOLEAN : A!Animate(a, b) \/ A!StreamActor(a, b)
  BY <1>5, ActorsAnimate, ActorsStreamActor
<1>6. CASE \E a \in Things, p \in Players : A!DamageActor(p, a)
  BY <1>6, ActorsDamageActor
<1> QED BY <1>1, <1>2, <1>3, <1>4, <1>5, <1>6 DEF A!Next

\* What the invariant of the actors says of them.
LEMMA ActorsImply ==
  ASSUME ActorInv
  PROVE  A!TypeOK /\ A!ViewExact /\ A!NoStale /\ A!CountExact
<1>1. A!ViewExact
  BY DEF ActorInv, ActorViews, A!ViewExact, A!TypeOK
<1>2. A!CountExact
  BY ActorsCardinality
  DEF ActorInv, ActorCounts, StreamedFor, A!CountExact, A!TypeOK
<1> QED BY <1>1, <1>2 DEF ActorInv

-----------------------------------------------------------------------------
(* Text draws                                                               *)

DrawRecord == [shown : SUBSET Players, text : D!Texts, owner : Players \union {Server}]
DrawSeen   == [text : D!Texts, personal : BOOLEAN]

\* What a client shows of the text draw d if it is down for it.
SeenAs(s, d) == s # None /\ (s.personal \/ s.text = draw[d].text)

\* A client shows what it is down for, also that of a player that is not there.
DrawViews == \A p \in Players : \A d \in Things :
    IF d \in D!Usable /\ p \in draw[d].shown THEN SeenAs(screen[p][d], d)
    ELSE screen[p][d] = None

\* A player that selects shows it, or has said that it no longer does.
DrawSelect == selecting \subseteq mouse \union cancels

\* A per-player text draw is shown to no other player.
DrawOwn == \A d \in pool : draw[d].owner # Server => draw[d].shown \subseteq {draw[d].owner}

\* What is released stays only while its callback runs.
DrawDoomed == doomed \subseteq {at}

DrawInv == D!TypeOK /\ DrawViews /\ DrawSelect /\ D!NoStale /\ DrawOwn /\ DrawDoomed

-----------------------------------------------------------------------------
\* The parts of the type invariant that the proofs use.
LEMMA DrawTypes ==
  ASSUME D!TypeOK
  PROVE  /\ players \subseteq Players /\ pool \subseteq Things /\ doomed \subseteq pool
         /\ draw \in [Things -> DrawRecord]
         /\ screen \in [Players -> [Things -> DrawSeen \union {None}]]
  BY DEF D!TypeOK, DrawRecord, DrawSeen

\* A text draw of the pool, or a new one, is given the record r, and the
\* clients that are down for it are sent it or have it.
LEMMA DrawSet ==
  ASSUME DrawInv, NEW d \in Things, NEW r \in DrawRecord, d \notin doomed,
         r.shown \subseteq players, r.owner \in players \union {Server},
         r.owner # Server => r.shown \subseteq {r.owner},
         draw' = [draw EXCEPT ![d] = r], pool' = pool \union {d},
         UNCHANGED <<players, doomed, selecting, mouse, cancels, at>>,
         screen' \in [Players -> [Things -> DrawSeen \union {None}]],
         \A p \in Players : \A e \in Things \ {d} : screen'[p][e] = screen[p][e],
         \A p \in Players : IF p \in r.shown
           THEN screen'[p][d] # None /\ (screen'[p][d].personal \/ screen'[p][d].text = r.text)
           ELSE screen'[p][d] = None
  PROVE  DrawInv'
<1>1. draw \in [Things -> DrawRecord]
  BY DrawTypes DEF DrawInv
<1>2. /\ draw' \in [Things -> DrawRecord] /\ draw'[d] = r
      /\ \A e \in Things \ {d} : draw'[e] = draw[e]
  BY <1>1
<1>3. D!TypeOK'
  BY <1>2 DEF DrawInv, D!TypeOK, DrawRecord, DrawSeen
<1>4. (D!NoStale /\ DrawOwn)'
  BY <1>2 DEF DrawInv, D!NoStale, DrawOwn, D!TypeOK
<1>5. ASSUME NEW p \in Players, NEW e \in Things
      PROVE  (IF e \in D!Usable /\ p \in draw[e].shown THEN SeenAs(screen[p][e], e)
              ELSE screen[p][e] = None)'
  <2>1. CASE e = d
    BY <1>2, <2>1 DEF D!Usable, SeenAs
  <2>2. CASE e # d
    BY <1>2, <2>2 DEF D!Usable, SeenAs, DrawInv, DrawViews
  <2> QED BY <2>1, <2>2
<1>6. DrawViews'
  BY <1>5 DEF DrawViews
<1>7. (DrawSelect /\ DrawDoomed)'
  BY DEF DrawInv, DrawSelect, DrawDoomed
<1> QED BY <1>3, <1>4, <1>6, <1>7 DEF DrawInv

\* Text draws are taken from the pool or hidden, and players may leave: what
\* each client then shows is what it is down for.
LEMMA DrawsGone ==
  ASSUME DrawInv, D!TypeOK', (D!NoStale /\ DrawOwn /\ DrawSelect /\ DrawDoomed)',
         D!Usable' \subseteq D!Usable,
         \A p \in Players : \A d \in Things :
           IF d \in D!Usable' /\ p \in draw'[d].shown
           THEN /\ p \in draw[d].shown /\ draw'[d].text = draw[d].text
                /\ screen'[p][d] = screen[p][d]
           ELSE screen'[p][d] = None
  PROVE  DrawInv'
<1>1. DrawViews'
  BY DEF DrawInv, DrawViews, SeenAs
<1> QED BY <1>1 DEF DrawInv

-----------------------------------------------------------------------------
LEMMA DrawsCreate ==
  ASSUME DrawInv, NEW d \in Things, NEW s \in Players \union {Server}, D!Create(d, s)
  PROVE  DrawInv'
<1> DEFINE r == [D!Fresh EXCEPT !.owner = s]
<1>1. r \in DrawRecord /\ r.shown = {} /\ r.owner = s
  BY DEF D!Fresh, DrawRecord, D!Texts
<1>2. /\ draw' = [draw EXCEPT ![d] = r] /\ s \in players \union {Server}
      /\ pool' = pool \union {d} /\ d \notin pool
      /\ UNCHANGED <<players, doomed, screen, selecting, mouse, cancels, at>>
  BY DEF D!Create, D!selectVars
<1> HIDE DEF r
<1>3. \A p \in Players : screen[p][d] = None
  BY <1>2 DEF DrawInv, DrawViews, D!Usable
<1>4. d \notin doomed /\ screen \in [Players -> [Things -> DrawSeen \union {None}]]
  BY <1>2, DrawTypes DEF DrawInv
<1> QED BY <1>1, <1>2, <1>3, <1>4, DrawSet

\* A text draw that scripts use, and what it may be given.
LEMMA DrawUsed ==
  ASSUME DrawInv, NEW d \in D!Usable
  PROVE  /\ d \in Things /\ d \notin doomed /\ pool = pool \union {d}
         /\ draw \in [Things -> DrawRecord] /\ draw[d] \in DrawRecord
         /\ screen \in [Players -> [Things -> DrawSeen \union {None}]]
         /\ draw[d].shown \subseteq players /\ draw[d].owner \in players \union {Server}
         /\ draw[d].owner # Server => draw[d].shown \subseteq {draw[d].owner}
         /\ D!Audience(d) \subseteq players
         /\ draw[d].owner # Server => D!Audience(d) = {draw[d].owner}
         /\ \A p \in Players : IF p \in draw[d].shown THEN SeenAs(screen[p][d], d)
                               ELSE screen[p][d] = None
<1>1. d \in pool /\ d \notin doomed
  BY DEF D!Usable
<1>2. d \in Things /\ draw \in [Things -> DrawRecord]
      /\ screen \in [Players -> [Things -> DrawSeen \union {None}]]
  BY <1>1, DrawTypes DEF DrawInv
<1>3. /\ draw[d].shown \subseteq players /\ draw[d].owner \in players \union {Server}
      /\ draw[d].owner # Server => draw[d].shown \subseteq {draw[d].owner}
  BY <1>1 DEF DrawInv, D!NoStale, DrawOwn
<1>4. \A p \in Players : IF p \in draw[d].shown THEN SeenAs(screen[p][d], d)
                         ELSE screen[p][d] = None
  BY <1>2 DEF DrawInv, DrawViews
<1> QED BY <1>1, <1>2, <1>3, <1>4 DEF D!Audience

\* What a client is sent of a text draw.
LEMMA DrawShows ==
  ASSUME NEW text \in D!Texts, NEW personal \in BOOLEAN
  PROVE  /\ D!Shows(text, personal) \in DrawSeen /\ D!Shows(text, personal) # None
         /\ D!Shows(text, personal).text = text
         /\ D!Shows(text, personal).personal = personal
  BY EntitiesAssumption DEF D!Shows, DrawSeen, D!Texts

LEMMA DrawsShowForPlayer ==
  ASSUME DrawInv, NEW d \in Things, NEW p \in Players, D!ShowForPlayer(d, p)
  PROVE  DrawInv'
<1> DEFINE r == [draw[d] EXCEPT !.shown = @ \union {p}]
           s == D!Shows(draw[d].text, FALSE)
<1>1. /\ draw' = [draw EXCEPT ![d] = r] /\ d \in D!Usable /\ p \in D!Audience(d)
      /\ screen' = [screen EXCEPT ![p][d] = s]
      /\ UNCHANGED <<players, pool, doomed, selecting, mouse, cancels, at>>
  BY DEF D!ShowForPlayer, D!selectVars
<1>2. /\ r \in DrawRecord /\ r.shown = draw[d].shown \union {p}
      /\ r.owner = draw[d].owner /\ r.text = draw[d].text /\ r.text \in D!Texts
  BY <1>1, DrawUsed DEF DrawRecord
<1>3. s \in DrawSeen /\ s # None /\ s.text = r.text
  BY <1>2, DrawShows
<1> HIDE DEF r, s
<1>4. screen \in [Players -> [Things -> DrawSeen \union {None}]]
  BY <1>1, DrawUsed
<1>5. /\ screen' \in [Players -> [Things -> DrawSeen \union {None}]]
      /\ \A q \in Players : \A e \in Things \ {d} : screen'[q][e] = screen[q][e]
      /\ \A q \in Players : screen'[q][d] = IF q = p THEN s ELSE screen[q][d]
  BY <1>1, <1>3, <1>4
<1>6. \A q \in Players : IF q \in draw[d].shown THEN SeenAs(screen[q][d], d)
                         ELSE screen[q][d] = None
  BY <1>1, DrawUsed
<1>7. \A q \in Players : IF q \in r.shown
        THEN screen'[q][d] # None /\ (screen'[q][d].personal \/ screen'[q][d].text = r.text)
        ELSE screen'[q][d] = None
  BY <1>2, <1>3, <1>5, <1>6 DEF SeenAs
<1>8. /\ d \notin doomed /\ r.shown \subseteq players /\ pool' = pool \union {d}
      /\ r.owner \in players \union {Server}
      /\ r.owner # Server => r.shown \subseteq {r.owner}
  BY <1>1, <1>2, DrawUsed
<1> QED BY <1>1, <1>2, <1>5, <1>7, <1>8, DrawSet

LEMMA DrawsHideForPlayer ==
  ASSUME DrawInv, NEW d \in Things, NEW p \in Players, D!HideForPlayer(d, p)
  PROVE  DrawInv'
<1> DEFINE r == [draw[d] EXCEPT !.shown = @ \ {p}]
<1>1. /\ draw' = [draw EXCEPT ![d] = r] /\ d \in D!Usable
      /\ screen' = [screen EXCEPT ![p][d] = None]
      /\ UNCHANGED <<players, pool, doomed, selecting, mouse, cancels, at>>
  BY DEF D!HideForPlayer, D!selectVars
<1>2. /\ r \in DrawRecord /\ r.shown = draw[d].shown \ {p}
      /\ r.owner = draw[d].owner /\ r.text = draw[d].text
  BY <1>1, DrawUsed DEF DrawRecord
<1> HIDE DEF r
<1> QED BY <1>1, <1>2, DrawUsed, DrawSet DEF SeenAs

\* Everyone who is down for d is sent s.
LEMMA DrawSent ==
  ASSUME DrawInv, NEW d \in D!Usable, NEW s \in DrawSeen \union {None}
  PROVE  LET t == D!SentToShown(d, s)
         IN  /\ t \in [Players -> [Things -> DrawSeen \union {None}]]
             /\ \A p \in Players : \A e \in Things \ {d} : t[p][e] = screen[p][e]
             /\ \A p \in Players : t[p][d] = IF p \in draw[d].shown THEN s ELSE None
  BY DrawUsed DEF D!SentToShown

LEMMA DrawsSetText ==
  ASSUME DrawInv, NEW d \in Things, NEW text \in D!Texts, D!SetText(d, text)
  PROVE  DrawInv'
<1> DEFINE r == [draw[d] EXCEPT !.text = text]
           s == D!Shows(text, FALSE)
<1>1. /\ draw' = [draw EXCEPT ![d] = r] /\ d \in D!Usable
      /\ screen' = D!SentToShown(d, s)
      /\ UNCHANGED <<players, pool, doomed, selecting, mouse, cancels, at>>
  BY DrawTypes DEF D!SetText, D!selectVars, DrawInv, DrawRecord
<1>2. /\ r \in DrawRecord /\ r.shown = draw[d].shown
      /\ r.owner = draw[d].owner /\ r.text = text
  BY <1>1, DrawUsed DEF DrawRecord
<1>3. s \in DrawSeen /\ s # None /\ s.text = text
  BY DrawShows
<1> HIDE DEF r, s
<1>4. /\ screen' \in [Players -> [Things -> DrawSeen \union {None}]]
      /\ \A p \in Players : \A e \in Things \ {d} : screen'[p][e] = screen[p][e]
      /\ \A p \in Players : screen'[p][d] = IF p \in draw[d].shown THEN s ELSE None
  BY <1>1, <1>3, DrawSent
<1>5. \A p \in Players : IF p \in r.shown
        THEN screen'[p][d] # None /\ (screen'[p][d].personal \/ screen'[p][d].text = r.text)
        ELSE screen'[p][d] = None
  BY <1>2, <1>3, <1>4
<1>6. /\ d \notin doomed /\ r.shown \subseteq players /\ pool' = pool \union {d}
      /\ r.owner \in players \union {Server}
      /\ r.owner # Server => r.shown \subseteq {r.owner}
  BY <1>1, <1>2, DrawUsed
<1> QED BY <1>1, <1>2, <1>4, <1>5, <1>6, DrawSet

LEMMA DrawsRestream ==
  ASSUME DrawInv, NEW d \in Things, D!Restream(d)
  PROVE  DrawInv'
<1> DEFINE r == draw[d]
           s == D!Shows(r.text, FALSE)
<1>1. /\ d \in D!Usable /\ screen' = D!SentToShown(d, s)
      /\ UNCHANGED <<players, pool, doomed, draw, selecting, mouse, cancels, at>>
  BY DEF D!Restream, D!selectVars
<1>2. r \in DrawRecord /\ draw' = [draw EXCEPT ![d] = r] /\ r.text \in D!Texts
  BY <1>1, DrawUsed DEF DrawRecord
<1>3. s \in DrawSeen /\ s # None /\ s.text = r.text
  BY <1>2, DrawShows
<1> HIDE DEF s
<1>4. /\ screen' \in [Players -> [Things -> DrawSeen \union {None}]]
      /\ \A p \in Players : \A e \in Things \ {d} : screen'[p][e] = screen[p][e]
      /\ \A p \in Players : screen'[p][d] = IF p \in r.shown THEN s ELSE None
  BY <1>1, <1>3, DrawSent
<1> QED BY <1>1, <1>2, <1>3, <1>4, DrawUsed, DrawSet

LEMMA DrawsSetTextForPlayer ==
  ASSUME DrawInv, NEW d \in Things, NEW p \in Players, NEW text \in D!Texts,
         D!SetTextForPlayer(d, p, text)
  PROVE  DrawInv'
<1> DEFINE r == draw[d]
           s == D!Shows(text, TRUE)
<1>1. /\ d \in D!Usable
      /\ screen' = IF screen[p][d] = None THEN screen ELSE [screen EXCEPT ![p][d] = s]
      /\ UNCHANGED <<players, pool, doomed, draw, selecting, mouse, cancels, at>>
  BY DEF D!SetTextForPlayer, D!selectVars
<1>2. r \in DrawRecord /\ draw' = [draw EXCEPT ![d] = r]
  BY <1>1, DrawUsed DEF DrawRecord
<1>3. s \in DrawSeen /\ s # None /\ s.personal
  BY DrawShows
<1> HIDE DEF s
<1>4. screen \in [Players -> [Things -> DrawSeen \union {None}]]
  BY <1>1, DrawUsed
<1>5. /\ screen' \in [Players -> [Things -> DrawSeen \union {None}]]
      /\ \A q \in Players : \A e \in Things \ {d} : screen'[q][e] = screen[q][e]
      /\ \A q \in Players : screen'[q][d] =
           IF q = p /\ screen[p][d] # None THEN s ELSE screen[q][d]
  BY <1>1, <1>3, <1>4
<1>6. \A q \in Players : IF q \in r.shown THEN SeenAs(screen[q][d], d)
                         ELSE screen[q][d] = None
  BY <1>1, DrawUsed
<1>7. \A q \in Players : IF q \in r.shown
        THEN screen'[q][d] # None /\ (screen'[q][d].personal \/ screen'[q][d].text = r.text)
        ELSE screen'[q][d] = None
  BY <1>3, <1>5, <1>6 DEF SeenAs
<1>8. /\ d \notin doomed /\ r.shown \subseteq players /\ pool' = pool \union {d}
      /\ r.owner \in players \union {Server}
      /\ r.owner # Server => r.shown \subseteq {r.owner}
  BY <1>1, <1>2, DrawUsed
<1> QED BY <1>1, <1>2, <1>5, <1>7, <1>8, DrawSet

\* What is not in the pool.
LEMMA DrawFresh ==
  D!Fresh \in DrawRecord /\ D!Fresh.shown = {} /\ D!Fresh.owner = Server
  BY DEF D!Fresh, DrawRecord, D!Texts

LEMMA DrawsRelease ==
  ASSUME DrawInv, NEW d \in Things, D!Release(d)
  PROVE  DrawInv'
<1>1. /\ d \in D!Usable /\ screen' = D!SentToShown(d, None)
      /\ UNCHANGED <<players, selecting, mouse, cancels, at>>
  BY DEF D!Release, D!Destream, D!selectVars
<1>2. /\ screen' \in [Players -> [Things -> DrawSeen \union {None}]]
      /\ \A p \in Players : \A e \in Things \ {d} : screen'[p][e] = screen[p][e]
      /\ \A p \in Players : screen'[p][d] = None
  BY <1>1, DrawSent
<1>3. draw \in [Things -> DrawRecord] /\ doomed \subseteq pool
  BY DrawTypes DEF DrawInv
<1>4. /\ draw' \in [Things -> DrawRecord] /\ pool' \subseteq pool
      /\ doomed' \subseteq pool' /\ doomed' \subseteq {at}
      /\ D!Usable' = D!Usable \ {d}
      /\ \A e \in Things \ {d} : draw'[e] = draw[e]
      /\ draw'[d] = draw[d] \/ draw'[d] = D!Fresh
  <2>1. CASE d = at
    BY <1>1, <1>3, <2>1 DEF D!Release, D!Usable, DrawInv, DrawDoomed
  <2>2. CASE d # at
    BY <1>1, <1>3, <2>2, DrawFresh DEF D!Release, D!Usable, DrawInv, DrawDoomed
  <2> QED BY <2>1, <2>2
<1>5. D!TypeOK'
  BY <1>1, <1>2, <1>4 DEF DrawInv, D!TypeOK, DrawRecord, DrawSeen
<1>6. \A e \in Things : draw'[e] = draw[e] \/ draw'[e] = D!Fresh
  BY <1>4
<1>7. (D!NoStale /\ DrawOwn /\ DrawSelect /\ DrawDoomed)'
  BY <1>1, <1>4, <1>6, DrawFresh
  DEF DrawInv, D!NoStale, DrawOwn, DrawSelect, DrawDoomed, D!TypeOK
<1>8. ASSUME NEW p \in Players, NEW e \in Things
      PROVE  IF e \in D!Usable' /\ p \in draw'[e].shown
             THEN /\ p \in draw[e].shown /\ draw'[e].text = draw[e].text
                  /\ screen'[p][e] = screen[p][e]
             ELSE screen'[p][e] = None
  BY <1>2, <1>4 DEF DrawInv, DrawViews
<1> QED BY <1>4, <1>5, <1>7, <1>8, DrawsGone

LEMMA DrawsReturn ==
  ASSUME DrawInv, D!Return
  PROVE  DrawInv'
<1>1. draw \in [Things -> DrawRecord] /\ doomed \subseteq pool
  BY DrawTypes DEF DrawInv
<1>2. /\ draw' \in [Things -> DrawRecord] /\ pool' \subseteq pool /\ doomed' = {}
      /\ D!Usable' = D!Usable
      /\ \A e \in pool' : draw'[e] = draw[e]
      /\ UNCHANGED <<players, screen, selecting, mouse, cancels>> /\ at' = None
  BY <1>1, DrawFresh DEF D!Return, D!Usable, D!selectVars, DrawInv, D!TypeOK
<1>3. D!TypeOK'
  BY <1>2 DEF DrawInv, D!TypeOK, DrawRecord, DrawSeen
<1>4. (D!NoStale /\ DrawOwn /\ DrawSelect /\ DrawDoomed)'
  BY <1>2 DEF DrawInv, D!NoStale, DrawOwn, DrawSelect, DrawDoomed
<1>5. ASSUME NEW p \in Players, NEW e \in Things
      PROVE  IF e \in D!Usable' /\ p \in draw'[e].shown
             THEN /\ p \in draw[e].shown /\ draw'[e].text = draw[e].text
                  /\ screen'[p][e] = screen[p][e]
             ELSE screen'[p][e] = None
  <2>1. e \in D!Usable' => draw'[e] = draw[e]
    BY <1>2 DEF D!Usable
  <2> QED BY <1>2, <2>1 DEF DrawInv, DrawViews
<1> QED BY <1>2, <1>3, <1>4, <1>5, DrawsGone

LEMMA DrawsReset ==
  ASSUME DrawInv, D!Reset
  PROVE  DrawInv'
<1>1. doomed = {} /\ at = None
  BY EntitiesAssumption DEF DrawInv, DrawDoomed, D!TypeOK, D!Reset
<1>2. /\ draw' \in [Things -> DrawRecord] /\ pool' = {} /\ doomed' = {}
      /\ \A p \in Players, d \in Things : screen'[p][d] = None
      /\ screen' \in [Players -> [Things -> DrawSeen \union {None}]]
  BY <1>1, DrawFresh DEF D!Reset, D!Blank
<1>3. D!TypeOK'
  BY <1>2 DEF DrawInv, D!TypeOK, DrawRecord, DrawSeen, D!Reset
<1>4. (D!NoStale /\ DrawOwn /\ DrawSelect /\ DrawDoomed)' /\ D!Usable' = {}
  BY <1>2 DEF D!Reset, D!NoStale, DrawOwn, DrawSelect, DrawDoomed, D!Usable
<1> QED BY <1>2, <1>3, <1>4, DrawsGone

\* The actions that change nothing but who selects and what runs.
LEMMA DrawsKept ==
  ASSUME DrawInv, UNCHANGED <<pool, doomed, draw, screen>>, players \subseteq players',
         players' \subseteq Players, selecting' \subseteq players',
         mouse' \subseteq players', cancels' \subseteq players', DrawSelect',
         at' # at => doomed = {} /\ at' \in Things
  PROVE  DrawInv'
<1>1. D!TypeOK'
  BY DEF DrawInv, D!TypeOK
<1>2. (D!NoStale /\ DrawOwn /\ DrawSelect /\ DrawDoomed)'
  BY DEF DrawInv, D!NoStale, DrawOwn, DrawDoomed
<1>3. DrawViews'
  BY DEF DrawInv, DrawViews, D!Usable, SeenAs
<1> QED BY <1>1, <1>2, <1>3 DEF DrawInv

LEMMA DrawsBeginSelection ==
  ASSUME DrawInv, NEW p \in Players, D!BeginSelection(p)
  PROVE  DrawInv'
<1>1. /\ UNCHANGED <<pool, doomed, draw, screen, at>>
      /\ players \subseteq players' /\ players' \subseteq Players
      /\ selecting' \subseteq players' /\ mouse' \subseteq players'
      /\ cancels' \subseteq players'
  BY DEF D!BeginSelection, D!drawVars, DrawInv, D!TypeOK
<1>2. DrawSelect'
  BY DEF D!BeginSelection, D!drawVars, DrawInv, DrawSelect
<1> QED BY <1>1, <1>2, DrawsKept

LEMMA DrawsEndSelection ==
  ASSUME DrawInv, NEW p \in Players, D!EndSelection(p)
  PROVE  DrawInv'
<1>1. /\ UNCHANGED <<pool, doomed, draw, screen, at>>
      /\ players \subseteq players' /\ players' \subseteq Players
      /\ selecting' \subseteq players' /\ mouse' \subseteq players'
      /\ cancels' \subseteq players'
  BY DEF D!EndSelection, D!drawVars, DrawInv, D!TypeOK
<1>2. DrawSelect'
  BY DEF D!EndSelection, D!drawVars, DrawInv, DrawSelect
<1> QED BY <1>1, <1>2, DrawsKept

LEMMA DrawsClientCancels ==
  ASSUME DrawInv, NEW p \in Players, D!ClientCancels(p)
  PROVE  DrawInv'
<1>1. /\ UNCHANGED <<pool, doomed, draw, screen, at>>
      /\ players \subseteq players' /\ players' \subseteq Players
      /\ selecting' \subseteq players' /\ mouse' \subseteq players'
      /\ cancels' \subseteq players'
  BY DEF D!ClientCancels, D!drawVars, DrawInv, D!TypeOK
<1>2. DrawSelect'
  BY DEF D!ClientCancels, D!drawVars, DrawInv, DrawSelect
<1> QED BY <1>1, <1>2, DrawsKept

LEMMA DrawsCancelSelection ==
  ASSUME DrawInv, NEW p \in Players, D!CancelSelection(p)
  PROVE  DrawInv'
<1>1. /\ UNCHANGED <<pool, doomed, draw, screen, at>>
      /\ players \subseteq players' /\ players' \subseteq Players
      /\ selecting' \subseteq players' /\ mouse' \subseteq players'
      /\ cancels' \subseteq players'
  BY DEF D!CancelSelection, D!drawVars, DrawInv, D!TypeOK
<1>2. DrawSelect'
  BY DEF D!CancelSelection, D!drawVars, DrawInv, DrawSelect
<1> QED BY <1>1, <1>2, DrawsKept

LEMMA DrawsClickTextDraw ==
  ASSUME DrawInv, NEW p \in Players, NEW d \in Things, D!ClickTextDraw(p, d)
  PROVE  DrawInv'
<1>1. doomed = {}
  BY EntitiesAssumption DEF DrawInv, DrawDoomed, D!TypeOK, D!ClickTextDraw
<1> QED
  BY <1>1, DrawsKept
  DEF D!ClickTextDraw, D!drawVars, D!selectVars, DrawInv, D!TypeOK, DrawSelect

LEMMA DrawsConnect ==
  ASSUME DrawInv, NEW p \in Players, D!Connect(p)
  PROVE  DrawInv'
<1>1. /\ UNCHANGED <<pool, doomed, draw, screen, at>>
      /\ players \subseteq players' /\ players' \subseteq Players
      /\ selecting' \subseteq players' /\ mouse' \subseteq players'
      /\ cancels' \subseteq players'
  BY DEF D!Connect, D!drawVars, D!selectVars, DrawInv, D!TypeOK
<1>2. DrawSelect'
  BY DEF D!Connect, D!drawVars, D!selectVars, DrawInv, DrawSelect
<1> QED BY <1>1, <1>2, DrawsKept

LEMMA DrawsDisconnect ==
  ASSUME DrawInv, NEW p \in Players, D!Disconnect(p)
  PROVE  DrawInv'
<1>1. doomed = {} /\ at = None /\ p # Server
  BY EntitiesAssumption DEF DrawInv, DrawDoomed, D!TypeOK, D!Disconnect
<1>2. /\ players \subseteq Players /\ pool \subseteq Things
      /\ draw \in [Things -> DrawRecord]
      /\ screen \in [Players -> [Things -> DrawSeen \union {None}]]
  BY DrawTypes DEF DrawInv
<1>3. \A d \in Things : D!RemoveFor(d, p) =
        IF draw[d].owner = p THEN D!Fresh ELSE [draw[d] EXCEPT !.shown = @ \ {p}]
  BY DEF D!RemoveFor
<1>4. /\ draw' \in [Things -> DrawRecord]
      /\ \A d \in Things : draw[d].owner # p =>
           /\ draw'[d].shown = draw[d].shown \ {p}
           /\ draw'[d].text = draw[d].text /\ draw'[d].owner = draw[d].owner
  BY <1>2, <1>3, DrawFresh DEF D!Disconnect, DrawRecord
<1>5. /\ screen' = [screen EXCEPT ![p] = D!Blank]
      /\ screen' \in [Players -> [Things -> DrawSeen \union {None}]]
      /\ pool' = {d \in pool : draw[d].owner # p} /\ players' = players \ {p}
      /\ selecting' = selecting \ {p} /\ mouse' = mouse \ {p} /\ cancels' = cancels \ {p}
      /\ UNCHANGED <<doomed, at>>
  BY <1>2 DEF D!Disconnect, D!Blank
<1>6. D!TypeOK'
  BY <1>1, <1>4, <1>5 DEF DrawInv, D!TypeOK, DrawRecord, DrawSeen
<1>7. (D!NoStale /\ DrawOwn /\ DrawSelect /\ DrawDoomed)'
  BY <1>1, <1>2, <1>4, <1>5
  DEF DrawInv, D!NoStale, DrawOwn, DrawSelect, DrawDoomed
<1>8. ASSUME NEW q \in Players, NEW d \in Things
      PROVE  IF d \in D!Usable' /\ q \in draw'[d].shown
             THEN /\ q \in draw[d].shown /\ draw'[d].text = draw[d].text
                  /\ screen'[q][d] = screen[q][d]
             ELSE screen'[q][d] = None
  <2>1. d \in D!Usable' <=> d \in D!Usable /\ draw[d].owner # p
    BY <1>1, <1>5 DEF D!Usable
  <2>2. screen'[q][d] = IF q = p THEN None ELSE screen[q][d]
    BY <1>2, <1>5 DEF D!Blank
  <2>3. CASE q = p
    BY <1>4, <2>1, <2>2, <2>3
  <2>4. CASE q # p
    <3>1. CASE draw[d].owner = p
      <4>1. q \notin draw[d].shown \/ d \notin D!Usable
        BY <1>1, <2>4, <3>1 DEF DrawInv, DrawOwn, D!Usable
      <4>2. screen[q][d] = None
        BY <4>1 DEF DrawInv, DrawViews
      <4> QED BY <2>1, <2>2, <2>4, <3>1, <4>2
    <3>2. CASE draw[d].owner # p
      <4>1. IF d \in D!Usable /\ q \in draw[d].shown THEN TRUE ELSE screen[q][d] = None
        BY DEF DrawInv, DrawViews
      <4> QED BY <1>4, <2>1, <2>2, <2>4, <3>2, <4>1
    <3> QED BY <3>1, <3>2
  <2> QED BY <2>3, <2>4
<1>9. D!Usable' \subseteq D!Usable
  BY <1>5 DEF D!Usable
<1> QED BY <1>6, <1>7, <1>8, <1>9, DrawsGone

LEMMA DrawsStutter == ASSUME DrawInv, UNCHANGED vars PROVE DrawInv'
  BY DEF vars, DrawInv, D!TypeOK, DrawViews, SeenAs, DrawSelect, D!NoStale,
         DrawOwn, DrawDoomed, D!Usable

LEMMA DrawsInit == ASSUME D!Init PROVE DrawInv
<1>1. /\ players = {} /\ pool = {} /\ doomed = {} /\ at = None
      /\ draw = [d \in Things |-> D!Fresh]
      /\ screen = [p \in Players |-> [d \in Things |-> None]]
      /\ selecting = {} /\ mouse = {} /\ cancels = {}
  BY DEF D!Init, D!Blank
<1>2. D!Fresh \in DrawRecord
  BY DEF D!Fresh, D!Texts, DrawRecord
<1>3. D!TypeOK
  BY <1>1, <1>2 DEF D!TypeOK, DrawRecord
<1> QED
  BY <1>1, <1>3
  DEF DrawInv, DrawViews, DrawSelect, DrawOwn, DrawDoomed, D!NoStale, D!Usable

LEMMA DrawsStep ==
  ASSUME DrawInv, D!Next
  PROVE  DrawInv'
<1>1. CASE D!Return \/ D!Reset
  BY <1>1, DrawsReturn, DrawsReset
<1>2. CASE \E p \in Players :
             \/ D!Connect(p) \/ D!Disconnect(p) \/ D!BeginSelection(p)
             \/ D!EndSelection(p) \/ D!ClientCancels(p) \/ D!CancelSelection(p)
  BY <1>2, DrawsConnect, DrawsDisconnect, DrawsBeginSelection,
     DrawsEndSelection, DrawsClientCancels, DrawsCancelSelection
<1>3. CASE \E d \in Things : D!Restream(d) \/ D!Release(d)
  BY <1>3, DrawsRestream, DrawsRelease
<1>4. CASE \E d \in Things, s \in Players \union {Server} : D!Create(d, s)
  BY <1>4, DrawsCreate
<1>5. CASE \E d \in Things, text \in D!Texts : D!SetText(d, text)
  BY <1>5, DrawsSetText
<1>6. CASE \E d \in Things, p \in Players :
             D!ShowForPlayer(d, p) \/ D!HideForPlayer(d, p) \/ D!ClickTextDraw(p, d)
  BY <1>6, DrawsShowForPlayer, DrawsHideForPlayer, DrawsClickTextDraw
<1>7. CASE \E d \in Things, p \in Players, text \in D!Texts : D!SetTextForPlayer(d, p, text)
  BY <1>7, DrawsSetTextForPlayer
<1> QED BY <1>1, <1>2, <1>3, <1>4, <1>5, <1>6, <1>7 DEF D!Next

\* What the invariant of the text draws says of them.
LEMMA DrawsImply ==
  ASSUME DrawInv
  PROVE  D!TypeOK /\ D!ViewExact /\ D!NoStale
<1>1. D!ViewExact
  BY DEF DrawInv, DrawViews, SeenAs, DrawSelect, D!ViewExact, D!TypeOK
<1> QED BY <1>1 DEF DrawInv

-----------------------------------------------------------------------------
(* Menus                                                                    *)

MenuRecord == [rows : M!Rows, inited : SUBSET Players]

\* ViewExact of every player, also of one that is not there.
MenuViews == \A p \in Players :
    /\ \A m \in Things : p \in menu[m].inited => known[p][m] = menu[m].rows
    /\ open[p] # None => shown[p] \in {open[p], None} /\ p \in players

\* Nobody is taken to know a menu that is not in the pool.
MenuFree == \A m \in Things \ pool : menu[m].inited = {}

MenuInv == M!TypeOK /\ MenuViews /\ M!NoStale /\ MenuFree

-----------------------------------------------------------------------------
\* The parts of the type invariant that the proofs use.
LEMMA MenuTypes ==
  ASSUME MenuInv
  PROVE  /\ players \subseteq Players /\ pool \subseteq Things
         /\ menu \in [Things -> MenuRecord]
         /\ shown \in [Players -> Things \union {None}]
         /\ known \in [Players -> [Things -> M!Rows \union {None}]]
         /\ open \in [Players -> Things \union {None}]
  BY DEF MenuInv, M!TypeOK, MenuRecord

\* A menu that nobody knows, or that is changed in a way that nobody knows.
LEMMA MenuForgotten ==
  ASSUME NEW rows \in M!Rows, NEW l \in MenuRecord
  PROVE  /\ M!Fresh \in MenuRecord /\ M!Fresh.inited = {}
         /\ M!WithRows(l, rows) \in MenuRecord /\ M!WithRows(l, rows).inited = {}
  BY DEF M!Fresh, M!WithRows, MenuRecord, M!Rows

LEMMA MenusCreate ==
  ASSUME MenuInv, NEW m \in Things, M!Create(m)
  PROVE  MenuInv'
  BY DEF M!Create, M!clientVars, MenuInv, M!TypeOK, MenuViews, M!NoStale,
         MenuFree

\* The menu m is made one that nobody knows.
LEMMA MenuRemade ==
  ASSUME MenuInv, NEW m \in Things, NEW l \in MenuRecord, l.inited = {},
         menu' = [menu EXCEPT ![m] = l], pool' \in {pool, pool \ {m}},
         UNCHANGED <<players, shown, known, open, answers>>
  PROVE  MenuInv'
<1>1. /\ menu' \in [Things -> MenuRecord] /\ menu'[m] = l
      /\ \A n \in Things \ {m} : menu'[n] = menu[n]
  BY MenuTypes
<1>2. M!TypeOK'
  BY <1>1 DEF MenuInv, M!TypeOK, MenuRecord
<1>3. MenuViews'
  BY <1>1 DEF MenuInv, MenuViews
<1>4. (M!NoStale /\ MenuFree)'
  BY <1>1, MenuTypes DEF MenuInv, M!NoStale, MenuFree
<1> QED BY <1>2, <1>3, <1>4 DEF MenuInv

LEMMA MenusRelease ==
  ASSUME MenuInv, NEW m \in Things, M!Release(m)
  PROVE  MenuInv'
<1>1. M!Fresh \in MenuRecord /\ M!Fresh.inited = {}
  BY DEF M!Fresh, MenuRecord, M!Rows
<1> QED BY <1>1, MenuRemade DEF M!Release, M!clientVars

LEMMA MenusChangeRows ==
  ASSUME MenuInv, NEW m \in Things, NEW rows \in M!Rows, M!ChangeRows(m, rows)
  PROVE  MenuInv'
<1>1. menu[m] \in MenuRecord
  BY MenuTypes
<1> DEFINE l == M!WithRows(menu[m], rows)
<1>2. l \in MenuRecord /\ l.inited = {}
  BY <1>1, MenuForgotten
<1>3. /\ menu' = [menu EXCEPT ![m] = l] /\ pool' = pool
      /\ UNCHANGED <<players, shown, known, open, answers>>
  BY MenuTypes DEF M!ChangeRows, M!clientVars
<1> HIDE DEF l
<1> QED BY <1>2, <1>3, MenuRemade

LEMMA MenusShowForPlayer ==
  ASSUME MenuInv, NEW m \in Things, NEW p \in Players, M!ShowForPlayer(m, p)
  PROVE  MenuInv'
<1>1. /\ m \in pool /\ p \in players /\ UNCHANGED <<players, pool, answers>>
      /\ shown' = [shown EXCEPT ![p] = m] /\ open' = [open EXCEPT ![p] = m]
  BY DEF M!ShowForPlayer
<1>2. /\ menu' \in [Things -> MenuRecord]
      /\ known' \in [Players -> [Things -> M!Rows \union {None}]]
      /\ \A n \in Things : /\ menu'[n].rows = menu[n].rows
                           /\ menu'[n].inited = IF n = m THEN menu[n].inited \union {p}
                                                ELSE menu[n].inited
      /\ known'[p][m] = menu[m].rows
      /\ \A q \in Players, n \in Things : q # p \/ n # m => known'[q][n] = known[q][n]
  <2>1. CASE p \in menu[m].inited
    <3>1. UNCHANGED <<known, menu>>
      BY <2>1 DEF M!ShowForPlayer
    <3>2. known[p][m] = menu[m].rows
      BY <2>1 DEF MenuInv, MenuViews
    <3> QED BY <2>1, <3>1, <3>2, MenuTypes
  <2>2. CASE p \notin menu[m].inited
    <3>1. /\ known' = [known EXCEPT ![p][m] = menu[m].rows]
          /\ menu' = [menu EXCEPT ![m].inited = @ \union {p}]
      BY <2>2 DEF M!ShowForPlayer, M!InitForPlayer
    <3>2. menu \in [Things -> MenuRecord] /\ menu[m] \in MenuRecord
          /\ known \in [Players -> [Things -> M!Rows \union {None}]]
      BY MenuTypes
    <3>3. known' \in [Players -> [Things -> M!Rows \union {None}]]
          /\ known'[p][m] = menu[m].rows
          /\ \A q \in Players, n \in Things : q # p \/ n # m => known'[q][n] = known[q][n]
      BY <3>1, <3>2 DEF MenuRecord
    <3>4. /\ menu' \in [Things -> MenuRecord]
          /\ \A n \in Things : /\ menu'[n].rows = menu[n].rows
                               /\ menu'[n].inited = IF n = m THEN menu[n].inited \union {p}
                                                    ELSE menu[n].inited
      BY <3>1, <3>2 DEF MenuRecord
    <3> QED BY <3>3, <3>4
  <2> QED BY <2>1, <2>2
<1>3. M!TypeOK'
  BY <1>1, <1>2 DEF MenuInv, M!TypeOK, MenuRecord
<1>4. MenuViews'
  <2>1. \A q \in Players : \A n \in Things :
          q \in menu'[n].inited => known'[q][n] = menu'[n].rows
    BY <1>2 DEF MenuInv, MenuViews
  <2>2. \A q \in Players : open'[q] # None => shown'[q] \in {open'[q], None} /\ q \in players'
    BY <1>1, MenuTypes DEF MenuInv, MenuViews
  <2> QED BY <2>1, <2>2 DEF MenuViews
<1>5. M!NoStale'
  <2>1. ASSUME NEW n \in pool
        PROVE  menu'[n].inited \subseteq players
    <3>1. n \in Things /\ menu[n].inited \subseteq players
      BY MenuTypes DEF MenuInv, M!NoStale
    <3> QED BY <1>1, <1>2, <3>1
  <2> QED BY <1>1, <2>1 DEF M!NoStale
<1>6. MenuFree'
  BY <1>1, <1>2 DEF MenuInv, MenuFree
<1> QED BY <1>3, <1>4, <1>5, <1>6 DEF MenuInv

\* The actions that only change what clients have on their screens.
LEMMA MenuOpened ==
  ASSUME MenuInv, UNCHANGED <<pool, menu, known>>,
         players \subseteq players', players' \subseteq Players, answers' \subseteq players',
         shown' \in [Players -> Things \union {None}],
         open' \in [Players -> Things \union {None}],
         \A p \in Players : open'[p] # None => shown'[p] \in {open'[p], None} /\ p \in players'
  PROVE  MenuInv'
<1>1. M!TypeOK'
  BY DEF MenuInv, M!TypeOK
<1>2. MenuViews'
  BY DEF MenuInv, MenuViews
<1>3. (M!NoStale /\ MenuFree)'
  BY DEF MenuInv, M!NoStale, MenuFree
<1> QED BY <1>1, <1>2, <1>3 DEF MenuInv

LEMMA MenusHideForPlayer ==
  ASSUME MenuInv, NEW m \in Things, NEW p \in Players, M!HideForPlayer(m, p)
  PROVE  MenuInv'
<1>1. /\ UNCHANGED <<pool, menu, known, players, answers>>
      /\ shown' \in [Players -> Things \union {None}]
      /\ open' \in [Players -> Things \union {None}]
      /\ \A q \in Players : open'[q] # None => shown'[q] \in {open'[q], None} /\ q \in players'
  BY MenuTypes DEF M!HideForPlayer, MenuInv, MenuViews
<1> QED BY <1>1, MenuTypes, MenuOpened DEF MenuInv, M!TypeOK

LEMMA MenusClientAnswers ==
  ASSUME MenuInv, NEW p \in Players, M!ClientAnswers(p)
  PROVE  MenuInv'
<1>1. /\ UNCHANGED <<pool, menu, known, players, shown>>
      /\ open' \in [Players -> Things \union {None}]
      /\ \A q \in Players : open'[q] # None => shown'[q] \in {open'[q], None} /\ q \in players'
      /\ answers' = answers \union {p} /\ p \in players
  BY MenuTypes DEF M!ClientAnswers, MenuInv, MenuViews
<1> QED BY <1>1, MenuTypes, MenuOpened DEF MenuInv, M!TypeOK

LEMMA MenusAnswer ==
  ASSUME MenuInv, NEW p \in Players, M!Answer(p)
  PROVE  MenuInv'
<1>1. /\ UNCHANGED <<pool, menu, known, players, open>> /\ answers' \subseteq answers
      /\ shown' \in [Players -> Things \union {None}]
      /\ \A q \in Players : open'[q] # None => shown'[q] \in {open'[q], None} /\ q \in players'
  BY MenuTypes DEF M!Answer, MenuInv, MenuViews
<1> QED BY <1>1, MenuTypes, MenuOpened DEF MenuInv, M!TypeOK

LEMMA MenusConnect ==
  ASSUME MenuInv, NEW p \in Players, M!Connect(p)
  PROVE  MenuInv'
<1>1. /\ UNCHANGED <<pool, menu, known, shown, open, answers>>
      /\ players' = players \union {p}
  BY DEF M!Connect, M!clientVars
<1>2. \A q \in Players : open'[q] # None => shown'[q] \in {open'[q], None} /\ q \in players'
  BY <1>1 DEF MenuInv, MenuViews
<1> QED BY <1>1, <1>2, MenuTypes, MenuOpened DEF MenuInv, M!TypeOK

LEMMA MenusDisconnect ==
  ASSUME MenuInv, NEW p \in Players, M!Disconnect(p)
  PROVE  MenuInv'
<1>1. /\ players' = players \ {p} /\ pool' = pool /\ answers' = answers \ {p}
      /\ shown' = [shown EXCEPT ![p] = None] /\ open' = [open EXCEPT ![p] = None]
      /\ known' = [known EXCEPT ![p] = [m \in Things |-> None]]
      /\ menu' = [m \in Things |-> [menu[m] EXCEPT !.inited = @ \ {p}]]
  BY DEF M!Disconnect, M!RemoveFor
<1>2. /\ menu' \in [Things -> MenuRecord]
      /\ \A m \in Things : /\ menu'[m].rows = menu[m].rows
                           /\ menu'[m].inited = menu[m].inited \ {p}
  BY <1>1, MenuTypes DEF MenuRecord
<1>3. known' \in [Players -> [Things -> M!Rows \union {None}]]
  BY <1>1, MenuTypes
<1>4. M!TypeOK'
  BY <1>1, <1>2, <1>3 DEF MenuInv, M!TypeOK, MenuRecord
<1>5. MenuViews'
  BY <1>1, <1>2, MenuTypes DEF MenuInv, MenuViews
<1>6. M!NoStale' /\ MenuFree'
  BY <1>1, <1>2, MenuTypes DEF MenuInv, M!NoStale, MenuFree
<1> QED BY <1>4, <1>5, <1>6 DEF MenuInv

LEMMA MenusReset ==
  ASSUME MenuInv, M!Reset
  PROVE  MenuInv'
<1>1. /\ menu' \in [Things -> MenuRecord] /\ \A m \in Things : menu'[m].inited = {}
      /\ \A p \in Players : open'[p] = None
  BY DEF M!Reset, M!Fresh, MenuRecord, M!Rows
<1>2. M!TypeOK'
  BY <1>1 DEF MenuInv, M!TypeOK, MenuRecord, M!Reset
<1> QED BY <1>1, <1>2 DEF MenuInv, MenuViews, M!NoStale, MenuFree, M!Reset

LEMMA MenusStutter == ASSUME MenuInv, UNCHANGED vars PROVE MenuInv'
  BY DEF vars, MenuInv, M!TypeOK, MenuViews, M!NoStale, MenuFree

LEMMA MenusInit == ASSUME M!Init PROVE MenuInv
<1>1. /\ players = {} /\ pool = {} /\ answers = {}
      /\ menu = [m \in Things |-> M!Fresh]
      /\ shown = [p \in Players |-> None] /\ open = [p \in Players |-> None]
      /\ known = [p \in Players |-> [m \in Things |-> None]]
  BY DEF M!Init
<1>2. M!Fresh \in MenuRecord /\ M!Fresh.inited = {}
  BY DEF M!Fresh, M!Rows, MenuRecord
<1>3. M!TypeOK
  BY <1>1, <1>2 DEF M!TypeOK, MenuRecord
<1> QED BY <1>1, <1>2, <1>3 DEF MenuInv, MenuViews, MenuFree, M!NoStale

LEMMA MenusStep ==
  ASSUME MenuInv, M!Next
  PROVE  MenuInv'
<1>1. CASE M!Reset
  BY <1>1, MenusReset
<1>2. CASE \E p \in Players :
             M!Connect(p) \/ M!Disconnect(p) \/ M!ClientAnswers(p) \/ M!Answer(p)
  BY <1>2, MenusConnect, MenusDisconnect, MenusClientAnswers, MenusAnswer
<1>3. CASE \E m \in Things : M!Create(m) \/ M!Release(m)
  BY <1>3, MenusCreate, MenusRelease
<1>4. CASE \E m \in Things, rows \in M!Rows : M!ChangeRows(m, rows)
  BY <1>4, MenusChangeRows
<1>5. CASE \E m \in Things, p \in Players : M!ShowForPlayer(m, p) \/ M!HideForPlayer(m, p)
  BY <1>5, MenusShowForPlayer, MenusHideForPlayer
<1> QED BY <1>1, <1>2, <1>3, <1>4, <1>5 DEF M!Next

\* What the invariant of the menus says of them.
LEMMA MenusImply ==
  ASSUME MenuInv
  PROVE  M!TypeOK /\ M!ViewExact /\ M!NoStale
<1>1. M!ViewExact
  BY DEF MenuInv, MenuViews, M!ViewExact, M!TypeOK
<1> QED BY <1>1 DEF MenuInv

-----------------------------------------------------------------------------
(* Objects: global and per-player ones under shared ids                     *)

ObjectRecord == [owner : Players \union {Server}, id : ObjectIds \union {None}]

\* The per-player objects with the id i, and the objects that p's client is to
\* show under it.
Counted(i)  == {o \in O!Usable : object[o].owner # Server /\ object[o].id = i}
There(p, i) == {o \in O!Usable : object[o].id = i /\ object[o].owner \in {Server, p}}

ObjectTypes ==
    /\ streamed \subseteq players /\ players \subseteq Players
    /\ doomed \subseteq pool /\ pool \subseteq Things
    /\ object \in [Things -> ObjectRecord]
    /\ counter \in [ObjectIds -> Int]
    /\ slots \subseteq ObjectIds
    /\ view \in [Players -> [ObjectIds -> Things \union {None}]]
    /\ at \in Things \union {None}

\* What exists has an id; what is released stays while its callback runs.
ObjectLive == /\ \A o \in pool : object[o].id \in ObjectIds
              /\ doomed \subseteq {at}

ObjectCounts ==
    /\ \A i \in ObjectIds : counter[i] = Cardinality(Counted(i))
    /\ \A i \in ObjectIds : counter[i] # 0 => i \in slots
    /\ grouping /\ Careful => \A i \in slots : counter[i] # 0

\* Objects that one client would show under an id are one object.
ObjectOne == \A o1, o2 \in O!Usable :
    /\ object[o1].id = object[o2].id
    /\ object[o1].owner \in {Server, object[o2].owner}
    => o1 = o2

ObjectViews == \A p \in Players, i \in ObjectIds :
    /\ view[p][i] \in There(p, i) \union {None}
    /\ p \notin players => view[p][i] = None
    /\ p \in players => \A o \in There(p, i) : o # view[p][i] =>
         object[o].owner = Server /\ p \notin streamed

ObjectInv == /\ ObjectTypes /\ O!NoStale /\ ObjectLive /\ ObjectCounts
             /\ Careful => ObjectOne /\ ObjectViews

-----------------------------------------------------------------------------
LEMMA ObjectsCardinality == \A S : O!Cardinality(S) = Cardinality(S)
  BY DEF O!Cardinality, Cardinality

LEMMA CountedFinite ==
  ASSUME pool \subseteq Things, NEW i
  PROVE  /\ IsFiniteSet(Counted(i)) /\ Cardinality(Counted(i)) \in Nat
         /\ Cardinality(Counted(i)) <= Cardinality(Things) /\ Cardinality(Things) \in Nat
<1>1. Counted(i) \subseteq Things
  BY DEF Counted, O!Usable
<1> QED BY <1>1, EntitiesAssumption, FS_Subset, FS_CardinalityType

\* The objects of the pool that are not doomed: what scripts can use.
LEMMA ObjectUsed ==
  ASSUME ObjectInv, NEW o \in O!Usable
  PROVE  /\ o \in pool /\ o \in Things /\ o \notin doomed /\ o # None
         /\ object[o].owner \in players \union {Server} /\ object[o].owner # None
         /\ object[o].id \in ObjectIds
  BY EntitiesAssumption DEF ObjectInv, ObjectTypes, O!NoStale, ObjectLive, O!Usable

\* The ids that a new global object may be given, and those of a player's.
LEMMA ObjectGlobalIds ==
  ASSUME ObjectInv, NEW i \in O!GlobalIds
  PROVE  i \in ObjectIds /\ \A o \in O!Usable : object[o].id # i
<1>1. i \in ObjectIds /\ i \notin O!Ids(O!Storage(Server)) /\ counter[i] = 0
  BY DEF O!GlobalIds
<1>2. \A o \in pool : object[o].owner = Server => object[o].id # i
  BY <1>1 DEF O!Ids, O!Storage
<1>3. Counted(i) = {}
  BY <1>1, CountedFinite, FS_EmptySet DEF ObjectInv, ObjectCounts, ObjectTypes
<1> QED BY <1>1, <1>2, <1>3 DEF Counted, O!Usable

LEMMA ObjectPlayerIds ==
  ASSUME ObjectInv, NEW p \in Players, NEW i \in O!SharedIds(p) \union O!OwnIds(p)
  PROVE  /\ i \in ObjectIds
         /\ Careful => \A o \in O!Usable : object[o].id = i => object[o].owner \notin {Server, p}
<1>1. i \in ObjectIds /\ i \notin O!Ids(O!Storage(p))
  BY DEF O!SharedIds, O!OwnIds, ObjectInv, ObjectTypes
<1>2. \A o \in O!Usable : object[o].owner = p => object[o].id # i
  BY <1>1 DEF O!Ids, O!Storage, O!Usable
<1>3. ASSUME Careful, NEW o \in O!Usable, object[o].owner = Server
      PROVE  object[o].id # i
  <2>1. CASE i \in O!OwnIds(p)
    BY <1>3, <2>1 DEF O!OwnIds, O!Ids, O!Storage, O!Usable
  <2>2. CASE i \in O!SharedIds(p)
    <3>1. grouping /\ i \in slots
      BY <2>2 DEF O!SharedIds
    <3>2. counter[i] # 0 /\ counter[i] = Cardinality(Counted(i))
      BY <1>1, <1>3, <3>1 DEF ObjectInv, ObjectCounts
    <3>3. Counted(i) # {}
      BY <3>2, FS_EmptySet
    <3>4. PICK c \in O!Usable : object[c].owner # Server /\ object[c].id = i
      BY <3>3 DEF Counted
    <3> QED BY <1>3, <3>4 DEF ObjectInv, ObjectOne
  <2> QED BY <2>1, <2>2
<1> QED BY <1>1, <1>2, <1>3

\* A new object o of the owner s, under the id i.
LEMMA ObjectPlaced ==
  ASSUME ObjectInv, NEW o \in Things, o \notin pool, NEW s \in players \union {Server},
         NEW i \in ObjectIds, O!Place(o, s, i)
  PROVE  /\ UNCHANGED <<players, streamed, doomed, grouping, at>>
         /\ pool' = pool \union {o} /\ O!Usable' = O!Usable \union {o} /\ o \notin O!Usable
         /\ object' \in [Things -> ObjectRecord]
         /\ object'[o].owner = s /\ object'[o].id = i
         /\ \A c \in pool : object'[c] = object[c]
         /\ view' \in [Players -> [ObjectIds -> Things \union {None}]]
         /\ \A p \in Players, j \in ObjectIds : view'[p][j] =
              IF j = i /\ p \in players /\ s \in {Server, p} THEN o ELSE view[p][j]
<1> DEFINE r == [owner |-> s, id |-> i]
<1>1. /\ pool' = pool \union {o} /\ object' = [object EXCEPT ![o] = r]
      /\ view' = O!Shown(view, IF s = Server THEN players ELSE {s}, i, o)
      /\ UNCHANGED <<players, streamed, doomed, grouping, at>>
  BY DEF O!Place
<1>2. /\ r \in ObjectRecord /\ r.owner = s /\ r.id = i
      /\ object \in [Things -> ObjectRecord]
      /\ players \subseteq Players /\ pool \subseteq Things /\ doomed \subseteq pool
      /\ view \in [Players -> [ObjectIds -> Things \union {None}]]
  BY DEF ObjectRecord, ObjectInv, ObjectTypes
<1> HIDE DEF r
<1>3. /\ object' \in [Things -> ObjectRecord] /\ object'[o] = r
      /\ \A c \in pool : object'[c] = object[c]
  BY <1>1, <1>2
<1>4. O!Usable' = O!Usable \union {o} /\ o \notin O!Usable
  BY <1>1, <1>2 DEF O!Usable
<1>5. /\ view' \in [Players -> [ObjectIds -> Things \union {None}]]
      /\ \A p \in Players, j \in ObjectIds : view'[p][j] =
           IF j = i /\ p \in players /\ s \in {Server, p} THEN o ELSE view[p][j]
  <2>1. CASE s = Server
    BY <1>1, <1>2, <2>1 DEF O!Shown
  <2>2. CASE s # Server
    BY <1>1, <1>2, <2>2 DEF O!Shown
  <2> QED BY <2>1, <2>2
<1> QED BY <1>1, <1>2, <1>3, <1>4, <1>5

\* Its id was free for those who see it: it is the one that they show there.
LEMMA ObjectPlacedOne ==
  ASSUME ObjectInv, NEW o \in Things, o \notin pool, NEW s \in players \union {Server},
         NEW i \in ObjectIds, O!Place(o, s, i), Careful,
         \A c \in O!Usable : object[c].id = i =>
           s # Server /\ object[c].owner \notin {Server, s}
  PROVE  (ObjectOne /\ ObjectViews)'
<1> USE ObjectPlaced
<1>1. ASSUME NEW o1 \in O!Usable', NEW o2 \in O!Usable', object'[o1].id = object'[o2].id,
             object'[o1].owner \in {Server, object'[o2].owner}
      PROVE  o1 = o2
  <2>1. \A c \in O!Usable : object'[c] = object[c]
    BY DEF O!Usable
  <2>2. CASE o1 = o /\ o2 # o
    BY <1>1, <2>1, <2>2
  <2>3. CASE o1 # o /\ o2 = o
    BY <1>1, <2>1, <2>3
  <2>4. CASE o1 # o /\ o2 # o
    BY <1>1, <2>1, <2>4 DEF ObjectInv, ObjectOne
  <2> QED BY <2>2, <2>3, <2>4
<1>2. ObjectOne'
  BY <1>1 DEF ObjectOne
<1>3. ASSUME NEW p \in Players, NEW j \in ObjectIds
      PROVE  (/\ view[p][j] \in There(p, j) \union {None}
              /\ p \notin players => view[p][j] = None
              /\ p \in players => \A c \in There(p, j) : c # view[p][j] =>
                   object[c].owner = Server /\ p \notin streamed)'
  <2>1. /\ view[p][j] \in There(p, j) \union {None}
        /\ p \notin players => view[p][j] = None
        /\ p \in players => \A c \in There(p, j) : c # view[p][j] =>
             object[c].owner = Server /\ p \notin streamed
    BY DEF ObjectInv, ObjectViews
  <2>2. There(p, j)' = IF j = i /\ s \in {Server, p} THEN There(p, j) \union {o} ELSE There(p, j)
    BY DEF There, O!Usable
  <2>3. \A c \in There(p, j) : object'[c] = object[c] /\ c # o
    BY DEF There, O!Usable
  <2>4. CASE j = i /\ s \in {Server, p}
    <3>1. There(p, j) = {}
      BY <2>4 DEF There
    <3> QED BY <2>1, <2>2, <2>4, <3>1
  <2>5. CASE ~(j = i /\ s \in {Server, p})
    BY <2>1, <2>2, <2>3, <2>5
  <2> QED BY <2>4, <2>5
<1>4. ObjectViews'
  BY <1>3 DEF ObjectViews
<1> QED BY <1>2, <1>4

\* What the types of a new object need.
LEMMA ObjectPlacedTypes ==
  ASSUME ObjectInv, NEW o \in Things, o \notin pool, NEW s \in players \union {Server},
         NEW i \in ObjectIds, O!Place(o, s, i),
         counter' \in [ObjectIds -> Int], slots' \subseteq ObjectIds
  PROVE  (ObjectTypes /\ O!NoStale /\ ObjectLive)'
<1>1. ObjectTypes'
  BY ObjectPlaced DEF ObjectInv, ObjectTypes
<1>2. O!NoStale'
  BY ObjectPlaced DEF ObjectInv, O!NoStale
<1>3. ObjectLive'
  BY ObjectPlaced DEF ObjectInv, ObjectLive
<1> QED BY <1>1, <1>2, <1>3

LEMMA ObjectsCreate ==
  ASSUME ObjectInv, NEW o \in Things, O!Create(o)
  PROVE  ObjectInv'
<1> DEFINE i == O!LowestId(O!GlobalIds)
<1>1. /\ o \notin pool /\ O!GlobalIds # {} /\ O!Place(o, Server, i)
      /\ UNCHANGED <<counter, slots>>
  BY DEF O!Create
<1>2. O!GlobalIds \subseteq Nat
  BY EntitiesAssumption DEF O!GlobalIds
<1>3. i \in O!GlobalIds
  BY <1>1, <1>2, LowestOf DEF O!LowestId
<1>4. i \in ObjectIds /\ \A c \in O!Usable : object[c].id # i
  BY <1>3, ObjectGlobalIds
<1> HIDE DEF i
<1>5. (ObjectTypes /\ O!NoStale /\ ObjectLive)'
  BY <1>1, <1>4, ObjectPlacedTypes DEF ObjectInv, ObjectTypes
<1>6. ASSUME NEW j
      PROVE  Counted(j)' = Counted(j)
  BY <1>1, <1>4, ObjectPlaced DEF Counted, O!Usable
<1>7. ObjectCounts'
  BY <1>1, <1>4, <1>6, ObjectPlaced DEF ObjectInv, ObjectCounts
<1>8. Careful => (ObjectOne /\ ObjectViews)'
  BY <1>1, <1>4, ObjectPlacedOne
<1> QED BY <1>5, <1>7, <1>8 DEF ObjectInv

LEMMA ObjectsCreatePlayerObject ==
  ASSUME ObjectInv, NEW o \in Things, NEW p \in Players, O!CreatePlayerObject(o, p)
  PROVE  ObjectInv'
<1>1. /\ o \notin pool /\ p \in players /\ p # Server
      /\ O!SharedIds(p) \union O!OwnIds(p) # {}
  BY EntitiesAssumption DEF O!CreatePlayerObject
<1>2. PICK i \in IF O!SharedIds(p) # {} THEN O!SharedIds(p) ELSE {O!LowestId(O!OwnIds(p))} :
        O!Place(o, p, i) /\ O!IncrementPlayerCounter(i)
  BY DEF O!CreatePlayerObject
<1>3. O!OwnIds(p) \subseteq Nat
  BY EntitiesAssumption DEF O!OwnIds
<1>4. i \in O!SharedIds(p) \union O!OwnIds(p)
  BY <1>1, <1>2, <1>3, LowestOf DEF O!LowestId
<1>5. /\ i \in ObjectIds
      /\ Careful => \A c \in O!Usable : object[c].id = i => object[c].owner \notin {Server, p}
  BY <1>4, ObjectPlayerIds
<1>6. /\ counter \in [ObjectIds -> Int] /\ counter[i] \in Int /\ slots \subseteq ObjectIds
      /\ counter' = [counter EXCEPT ![i] = counter[i] + 1]
      /\ slots' = IF counter[i] = 0 THEN slots \union {i} ELSE slots
  BY <1>2, <1>5 DEF O!IncrementPlayerCounter, ObjectInv, ObjectTypes
<1>7. /\ counter' \in [ObjectIds -> Int] /\ slots' \subseteq ObjectIds
      /\ \A j \in ObjectIds : counter'[j] = IF j = i THEN counter[i] + 1 ELSE counter[j]
  BY <1>5, <1>6
<1>8. (ObjectTypes /\ O!NoStale /\ ObjectLive)'
  BY <1>1, <1>2, <1>5, <1>7, ObjectPlacedTypes
<1>9. /\ \A j : Counted(j)' = IF j = i THEN Counted(j) \union {o} ELSE Counted(j)
      /\ o \notin Counted(i)
  BY <1>1, <1>2, <1>5, ObjectPlaced DEF Counted, O!Usable
<1>10. \A j \in ObjectIds : counter[j] = Cardinality(Counted(j)) /\ counter[j] \in Nat
  BY CountedFinite DEF ObjectInv, ObjectCounts, ObjectTypes
<1>11. \A j \in ObjectIds : counter'[j] = Cardinality(Counted(j)')
  <2>1. Cardinality(Counted(i) \union {o}) = Cardinality(Counted(i)) + 1
    BY <1>9, CountedFinite, CountOneMore DEF ObjectInv, ObjectTypes
  <2> QED BY <1>5, <1>7, <1>9, <1>10, <2>1
<1>12. ObjectCounts'
  <2>1. \A j \in ObjectIds : counter'[j] # 0 => j \in slots'
    BY <1>6, <1>7, <1>10 DEF ObjectInv, ObjectCounts
  <2>2. grouping' = grouping
    BY <1>1, <1>2, <1>5, ObjectPlaced
  <2>3. ASSUME grouping', Careful, NEW j \in slots'
        PROVE  counter'[j] # 0
    <3>1. j = i \/ j \in slots
      BY <1>6
    <3>2. j \in slots => counter[j] # 0
      BY <2>2, <2>3 DEF ObjectInv, ObjectCounts
    <3>3. j \in ObjectIds /\ counter[i] \in Nat
      BY <1>5, <1>6, <1>10, <3>1
    <3> QED BY <1>7, <3>1, <3>2, <3>3
  <2> QED BY <1>11, <2>1, <2>3 DEF ObjectCounts
<1>13. Careful => (ObjectOne /\ ObjectViews)'
  BY <1>1, <1>2, <1>5, ObjectPlacedOne
<1> QED BY <1>8, <1>12, <1>13 DEF ObjectInv

\* What is not in the pool.
LEMMA ObjectFresh == O!Fresh \in ObjectRecord
  BY DEF O!Fresh, ObjectRecord

LEMMA ObjectsRelease ==
  ASSUME ObjectInv, NEW o \in Things, O!Release(o)
  PROVE  ObjectInv'
<1> DEFINE s == object[o].owner
           i == object[o].id
<1>1. /\ o \in O!Usable
      /\ view' = O!Shown(view, IF s = Server THEN players ELSE {s}, i, None)
      /\ IF s = Server THEN UNCHANGED <<counter, slots>> ELSE O!DecrementPlayerCounter(i)
      /\ UNCHANGED <<players, streamed, grouping, at>>
  BY DEF O!Release
<1>2. /\ s \in players \union {Server} /\ i \in ObjectIds /\ o \in pool /\ o \notin doomed
      /\ players \subseteq Players /\ pool \subseteq Things /\ doomed \subseteq pool
      /\ object \in [Things -> ObjectRecord] /\ doomed \subseteq {at}
      /\ counter \in [ObjectIds -> Int] /\ slots \subseteq ObjectIds
      /\ view \in [Players -> [ObjectIds -> Things \union {None}]]
  BY <1>1, ObjectUsed DEF ObjectInv, ObjectTypes, ObjectLive
<1>3. /\ pool' \subseteq pool /\ doomed' \subseteq pool' /\ doomed' \subseteq {at}
      /\ O!Usable' = O!Usable \ {o} /\ object' \in [Things -> ObjectRecord]
      /\ \A c \in pool' : object'[c] = object[c]
  <2>1. CASE o = at
    BY <1>1, <1>2, <2>1 DEF O!Release, O!Usable
  <2>2. CASE o # at
    <3>1. /\ pool' = pool \ {o} /\ object' = [object EXCEPT ![o] = O!Fresh]
          /\ doomed' = doomed
      BY <2>2 DEF O!Release
    <3> QED BY <1>2, <2>2, <3>1, ObjectFresh DEF O!Usable
  <2> QED BY <2>1, <2>2
<1>4. /\ view' \in [Players -> [ObjectIds -> Things \union {None}]]
      /\ \A p \in Players, j \in ObjectIds : view'[p][j] =
           IF j = i /\ p \in players /\ s \in {Server, p} THEN None ELSE view[p][j]
  <2>1. CASE s = Server
    BY <1>1, <1>2, <2>1 DEF O!Shown
  <2>2. CASE s # Server
    BY <1>1, <1>2, <2>2 DEF O!Shown
  <2> QED BY <2>1, <2>2
<1>5. /\ counter' \in [ObjectIds -> Int] /\ slots' \subseteq slots
      /\ \A j \in ObjectIds : counter'[j] = IF j = i /\ s # Server THEN counter[i] - 1
                                            ELSE counter[j]
      /\ \A j \in ObjectIds : j \in slots' <=>
           j \in slots /\ (s # Server /\ j = i => counter[i] # 1)
  <2>1. CASE s = Server
    BY <1>1, <1>2, <2>1
  <2>2. CASE s # Server
    BY <1>1, <1>2, <2>2 DEF O!DecrementPlayerCounter
  <2> QED BY <2>1, <2>2
<1>6. \A c \in O!Usable' : object'[c] = object[c]
  BY <1>3 DEF O!Usable
<1> HIDE DEF s, i
<1>7. (ObjectTypes /\ O!NoStale /\ ObjectLive)'
  BY <1>1, <1>2, <1>3, <1>4, <1>5 DEF ObjectInv, ObjectTypes, O!NoStale, ObjectLive
<1>8. \A j : Counted(j)' = IF j = i /\ s # Server THEN Counted(j) \ {o} ELSE Counted(j)
  BY <1>1, <1>3, <1>6 DEF Counted, s, i
<1>9. s # Server => o \in Counted(i)
  BY <1>1 DEF Counted, s, i
<1>10. \A j \in ObjectIds : counter[j] = Cardinality(Counted(j)) /\ counter[j] \in Nat
  BY CountedFinite DEF ObjectInv, ObjectCounts, ObjectTypes
<1>11. s # Server => Cardinality(Counted(i) \ {o}) = Cardinality(Counted(i)) - 1
  BY <1>2, <1>9, CountedFinite, CountOneLess
<1>12. ObjectCounts'
  <2>1. \A j \in ObjectIds : counter'[j] = Cardinality(Counted(j)')
    BY <1>2, <1>5, <1>8, <1>10, <1>11
  <2>2. \A j \in ObjectIds : counter'[j] # 0 => j \in slots'
    <3>1. \A j \in ObjectIds : counter[j] # 0 => j \in slots
      BY DEF ObjectInv, ObjectCounts
    <3>2. s # Server => counter[i] # 0
      BY <1>2, <1>9, <1>10, CountedFinite, FS_EmptySet
    <3> QED BY <1>2, <1>5, <1>10, <3>1, <3>2
  <2>3. ASSUME grouping', Careful, NEW j \in slots'
        PROVE  counter'[j] # 0
    <3>1. j \in slots /\ j \in ObjectIds /\ counter[j] # 0
      BY <1>1, <1>2, <1>5, <2>3 DEF ObjectInv, ObjectCounts
    <3> QED BY <1>2, <1>5, <1>10, <2>3, <3>1
  <2> QED BY <2>1, <2>2, <2>3 DEF ObjectCounts
<1>13. ASSUME Careful
       PROVE  (ObjectOne /\ ObjectViews)'
  <2>1. ObjectOne'
    BY <1>3, <1>6, <1>13 DEF ObjectInv, ObjectOne
  <2>2. ASSUME NEW p \in Players, NEW j \in ObjectIds
        PROVE  (/\ view[p][j] \in There(p, j) \union {None}
                /\ p \notin players => view[p][j] = None
                /\ p \in players => \A c \in There(p, j) : c # view[p][j] =>
                     object[c].owner = Server /\ p \notin streamed)'
    <3>1. /\ view[p][j] \in There(p, j) \union {None}
          /\ p \notin players => view[p][j] = None
          /\ p \in players => \A c \in There(p, j) : c # view[p][j] =>
               object[c].owner = Server /\ p \notin streamed
      BY <1>13 DEF ObjectInv, ObjectViews
    <3>2. There(p, j)' = There(p, j) \ {o}
      BY <1>3, <1>6 DEF There
    <3>3. \A c \in There(p, j)' : object'[c] = object[c]
      BY <1>6 DEF There
    <3>4. CASE j = i /\ s \in {Server, p}
      <4>1. \A c \in There(p, j) : c = o
        BY <1>1, <1>13, <3>4 DEF ObjectInv, ObjectOne, There, s, i
      <4>2. There(p, j)' = {}
        BY <3>2, <4>1
      <4> QED BY <1>1, <1>4, <3>1, <3>4, <4>2
    <3>5. CASE ~(j = i /\ s \in {Server, p})
      <4>1. o \notin There(p, j)
        BY <3>5 DEF There, s, i
      <4> QED BY <1>1, <1>4, <3>1, <3>2, <3>3, <3>5, <4>1
    <3> QED BY <3>4, <3>5
  <2>3. ObjectViews'
    BY <2>2 DEF ObjectViews
  <2> QED BY <2>1, <2>3
<1> QED BY <1>7, <1>12, <1>13 DEF ObjectInv

\* The objects that scripts can use, their ids and what clients show of them
\* are the same.
LEMMA ObjectsKept ==
  ASSUME ObjectInv, ObjectTypes', (O!NoStale /\ ObjectLive)',
         O!Usable' = O!Usable, \A o \in O!Usable : object'[o] = object[o],
         UNCHANGED <<counter, slots, grouping>>,
         Careful => ObjectViews'
  PROVE  ObjectInv'
<1>1. \A i : Counted(i)' = Counted(i)
  BY DEF Counted
<1>2. ObjectCounts'
  BY <1>1 DEF ObjectInv, ObjectCounts
<1>3. Careful => ObjectOne'
  BY DEF ObjectInv, ObjectOne
<1> QED BY <1>2, <1>3 DEF ObjectInv

LEMMA ObjectsBeginCallback ==
  ASSUME ObjectInv, NEW p \in Players, NEW o \in Things, O!BeginCallback(p, o)
  PROVE  ObjectInv'
<1>1. /\ at = None /\ at' = o
      /\ UNCHANGED <<players, streamed, pool, doomed, object, counter, slots, view, grouping>>
  BY DEF O!BeginCallback
<1>2. doomed = {}
  BY <1>1, EntitiesAssumption DEF ObjectInv, ObjectLive, ObjectTypes
<1>3. (ObjectTypes /\ O!NoStale /\ ObjectLive)' /\ O!Usable' = O!Usable
  BY <1>1, <1>2 DEF ObjectInv, ObjectTypes, O!NoStale, ObjectLive, O!Usable
<1>4. Careful => ObjectViews'
  BY <1>1 DEF ObjectInv, ObjectViews, There, O!Usable
<1> QED BY <1>1, <1>3, <1>4, ObjectsKept

LEMMA ObjectsReturn ==
  ASSUME ObjectInv, O!Return
  PROVE  ObjectInv'
<1>1. /\ at' = None /\ pool' = pool \ doomed /\ doomed' = {}
      /\ object' = [c \in Things |-> IF c \in doomed THEN O!Fresh ELSE object[c]]
      /\ UNCHANGED <<players, streamed, counter, slots, view, grouping>>
  BY DEF O!Return
<1>2. /\ O!Usable' = O!Usable /\ pool \subseteq Things
      /\ object' \in [Things -> ObjectRecord]
      /\ \A c \in pool' : object'[c] = object[c]
  BY <1>1, ObjectFresh DEF O!Usable, ObjectInv, ObjectTypes
<1>3. (ObjectTypes /\ O!NoStale /\ ObjectLive)'
  BY <1>1, <1>2 DEF ObjectInv, ObjectTypes, O!NoStale, ObjectLive
<1>4. \A c \in O!Usable : object'[c] = object[c]
  BY <1>1, <1>2 DEF O!Usable
<1>5. \A p, i : There(p, i)' = There(p, i)
  BY <1>2, <1>4 DEF There
<1>6. \A p, i : \A c \in There(p, i) : object'[c] = object[c]
  BY <1>4 DEF There
<1>7. Careful => ObjectViews'
  BY <1>1, <1>5, <1>6 DEF ObjectInv, ObjectViews
<1> QED BY <1>1, <1>2, <1>3, <1>4, <1>7, ObjectsKept

\* A client that is sent the global objects shows them.
LEMMA ObjectCatalogue ==
  ASSUME ObjectInv, NEW p \in Players, doomed = {},
         UNCHANGED <<pool, doomed, object, counter, slots, grouping, at>>,
         players' = players \union {p}, streamed' = streamed \union {p},
         view' = [view EXCEPT ![p] = O!Catalogue(view[p])]
  PROVE  ObjectInv'
<1> DEFINE G(i) == {o \in O!Storage(Server) \ doomed : object[o].id = i}
           v == O!Catalogue(view[p])
<1>1. /\ view \in [Players -> [ObjectIds -> Things \union {None}]]
      /\ streamed \subseteq players /\ players \subseteq Players /\ pool \subseteq Things
  BY DEF ObjectInv, ObjectTypes
<1>2. \A i \in ObjectIds : v[i] = IF \E o \in G(i) : TRUE THEN v[i] ELSE view[p][i]
  BY DEF O!Catalogue
<1>3. \A i \in ObjectIds : (\E o \in G(i) : TRUE) => v[i] \in G(i)
  BY DEF O!Catalogue
<1>4. \A i : G(i) = {o \in O!Usable : object[o].owner = Server /\ object[o].id = i}
  BY DEF O!Storage, O!Usable
<1>5. v = [i \in ObjectIds |-> v[i]]
  BY DEF O!Catalogue
<1> HIDE DEF v, G
<1>6. v \in [ObjectIds -> Things \union {None}]
  <2>1. \A i \in ObjectIds : v[i] \in Things \union {None}
    BY <1>1, <1>2, <1>3, <1>4 DEF O!Usable
  <2> QED BY <1>5, <2>1
<1>7. view' \in [Players -> [ObjectIds -> Things \union {None}]]
      /\ view'[p] = v /\ \A q \in Players \ {p} : view'[q] = view[q]
  BY <1>1, <1>6 DEF v
<1>8. (ObjectTypes /\ O!NoStale /\ ObjectLive)' /\ O!Usable' = O!Usable
  BY <1>1, <1>7 DEF ObjectInv, ObjectTypes, O!NoStale, ObjectLive, O!Usable
<1>9. \A q, i : There(q, i)' = There(q, i)
  BY <1>8 DEF There
<1>10. ASSUME Careful
       PROVE  ObjectViews'
  <2>1. ASSUME NEW q \in Players, NEW i \in ObjectIds
        PROVE  (/\ view[q][i] \in There(q, i) \union {None}
                /\ q \notin players => view[q][i] = None
                /\ q \in players => \A c \in There(q, i) : c # view[q][i] =>
                     object[c].owner = Server /\ q \notin streamed)'
    <3>1. /\ view[q][i] \in There(q, i) \union {None}
          /\ q \notin players => view[q][i] = None
          /\ q \in players => \A c \in There(q, i) : c # view[q][i] =>
               object[c].owner = Server /\ q \notin streamed
      BY <1>10 DEF ObjectInv, ObjectViews
    <3>2. CASE q # p
      BY <1>7, <1>9, <3>1, <3>2
    <3>3. CASE q = p
      <4>1. CASE \E o \in G(i) : TRUE
        <5>1. v[i] \in G(i)
          BY <1>3, <4>1
        <5>2. v[i] \in There(p, i)
          BY <1>4, <5>1 DEF There
        <5>3. \A c \in There(p, i) : c = v[i]
          BY <1>4, <1>10, <5>1 DEF There, ObjectInv, ObjectOne
        <5> QED BY <1>7, <1>9, <3>3, <5>2, <5>3
      <4>2. CASE ~\E o \in G(i) : TRUE
        <5>1. v[i] = view[p][i]
          BY <1>2, <4>2
        <5>2. \A c \in There(p, i) : object[c].owner = p /\ p # Server
          BY <1>4, <4>2, EntitiesAssumption DEF There
        <5>3. \A c \in There(p, i) : p \in players
          BY <5>2 DEF There, O!Usable, ObjectInv, O!NoStale
        <5> QED BY <1>7, <1>9, <3>1, <3>3, <5>1, <5>2, <5>3
      <4> QED BY <4>1, <4>2
    <3> QED BY <3>2, <3>3
  <2> QED BY <2>1 DEF ObjectViews
<1> QED BY <1>8, <1>10, ObjectsKept

LEMMA ObjectsConnect ==
  ASSUME ObjectInv, NEW p \in Players, NEW downloads \in BOOLEAN, O!Connect(p, downloads)
  PROVE  ObjectInv'
<1>1. /\ at = None /\ p \notin players /\ players' = players \union {p}
      /\ UNCHANGED <<pool, doomed, object, counter, slots, grouping, at>>
  BY DEF O!Connect
<1>2. doomed = {}
  BY <1>1, EntitiesAssumption DEF ObjectInv, ObjectLive, ObjectTypes
<1>3. CASE ~downloads
  <2>1. view \in [Players -> [ObjectIds -> Things \union {None}]]
    BY DEF ObjectInv, ObjectTypes
  <2>2. /\ streamed' = streamed \union {p}
        /\ view' = [view EXCEPT ![p] = O!Catalogue(view[p])]
    BY <1>3, <2>1 DEF O!Connect
  <2> QED BY <1>1, <1>2, <2>2, ObjectCatalogue
<1>4. CASE downloads
  <2>1. UNCHANGED <<streamed, view>>
    BY <1>4 DEF O!Connect
  <2>2. (ObjectTypes /\ O!NoStale /\ ObjectLive)' /\ O!Usable' = O!Usable
    BY <1>1, <2>1 DEF ObjectInv, ObjectTypes, O!NoStale, ObjectLive, O!Usable
  <2>3. \A q, i : There(q, i)' = There(q, i)
    BY <1>1, <2>2 DEF There
  <2>4. \A i : \A c \in There(p, i) : object[c].owner = Server
    BY <1>1 DEF There, O!Usable, ObjectInv, O!NoStale
  <2>5. p \notin streamed
    BY <1>1 DEF ObjectInv, ObjectTypes
  <2>6. Careful => ObjectViews'
    BY <1>1, <2>1, <2>3, <2>4, <2>5 DEF ObjectInv, ObjectViews
  <2> QED BY <1>1, <2>2, <2>6, ObjectsKept
<1> QED BY <1>3, <1>4

LEMMA ObjectsFinishedDownloading ==
  ASSUME ObjectInv, NEW p \in Players, O!FinishedDownloading(p)
  PROVE  ObjectInv'
<1>1. /\ at = None /\ p \in players \ streamed /\ streamed' = streamed \union {p}
      /\ view' = [view EXCEPT ![p] = O!Catalogue(view[p])]
      /\ UNCHANGED <<players, pool, doomed, object, counter, slots, grouping, at>>
  BY DEF O!FinishedDownloading, ObjectInv, ObjectTypes
<1>2. doomed = {} /\ players' = players \union {p}
  BY <1>1, EntitiesAssumption DEF ObjectInv, ObjectLive, ObjectTypes
<1> QED BY <1>1, <1>2, ObjectCatalogue

LEMMA ObjectsDisconnect ==
  ASSUME ObjectInv, NEW p \in Players, O!Disconnect(p)
  PROVE  ObjectInv'
<1> DEFINE own(i) == {o \in O!Storage(p) : object[o].id = i}
           left == [i \in ObjectIds |-> counter[i] - Cardinality(own(i))]
<1>1. /\ at = None /\ p \in players /\ counter' = left
      /\ slots' = {i \in slots : left[i] # 0 \/ i \notin O!Ids(O!Storage(p))}
      /\ players' = players \ {p} /\ streamed' = streamed \ {p}
      /\ pool' = pool \ O!Storage(p)
      /\ object' = [o \in Things |-> IF o \in O!Storage(p) THEN O!Fresh ELSE object[o]]
      /\ view' = [view EXCEPT ![p] = O!NoView]
      /\ UNCHANGED <<doomed, grouping, at>>
  BY ObjectsCardinality DEF O!Disconnect
<1>2. doomed = {} /\ p # Server /\ O!Usable = pool
  BY <1>1, EntitiesAssumption DEF ObjectInv, ObjectLive, ObjectTypes, O!Usable
<1>3. /\ view \in [Players -> [ObjectIds -> Things \union {None}]]
      /\ streamed \subseteq players /\ players \subseteq Players /\ pool \subseteq Things
      /\ counter \in [ObjectIds -> Int] /\ slots \subseteq ObjectIds
      /\ object \in [Things -> ObjectRecord]
  BY DEF ObjectInv, ObjectTypes
<1>4. /\ O!Usable' = {o \in O!Usable : object[o].owner # p} /\ pool' = O!Usable'
      /\ object' \in [Things -> ObjectRecord]
      /\ \A o \in O!Usable' : object'[o] = object[o]
  BY <1>1, <1>2, <1>3, ObjectFresh DEF O!Storage, O!Usable
<1>5. \A i : own(i) = Counted(i) \intersect own(i) /\ Counted(i)' = Counted(i) \ own(i)
  BY <1>2, <1>4 DEF O!Storage, Counted
<1>6. \A i \in ObjectIds : /\ Cardinality(Counted(i)') = Cardinality(Counted(i)) - Cardinality(own(i))
                           /\ Cardinality(own(i)) \in Nat
                           /\ i \notin O!Ids(O!Storage(p)) => Cardinality(own(i)) = 0
  <2>1. ASSUME NEW i \in ObjectIds
        PROVE  /\ Cardinality(Counted(i)') = Cardinality(Counted(i)) - Cardinality(own(i))
               /\ Cardinality(own(i)) \in Nat
               /\ i \notin O!Ids(O!Storage(p)) => Cardinality(own(i)) = 0
    <3>1. IsFiniteSet(Counted(i))
      BY <1>3, CountedFinite
    <3>2. own(i) \subseteq Counted(i)
      BY <1>5
    <3>3. IsFiniteSet(own(i)) /\ Cardinality(own(i)) \in Nat
      BY <3>1, <3>2, FS_Subset, FS_CardinalityType
    <3>4. i \notin O!Ids(O!Storage(p)) => own(i) = {}
      BY DEF O!Ids
    <3> HIDE DEF own
    <3>5. Cardinality(Counted(i) \ own(i)) = Cardinality(Counted(i)) - Cardinality(own(i))
      <4>1. Counted(i) \cap own(i) = own(i)
        BY <3>2
      <4>2. Cardinality(Counted(i) \ own(i))
              = Cardinality(Counted(i)) - Cardinality(Counted(i) \cap own(i))
        BY <3>1, FS_Difference
      <4> QED BY <4>1, <4>2
    <3> QED BY <1>5, <3>3, <3>4, <3>5, FS_EmptySet
  <2> QED BY <2>1
<1>7. \A i \in ObjectIds : left[i] = counter[i] - Cardinality(own(i))
  OBVIOUS
<1>8. left = [i \in ObjectIds |-> left[i]]
  OBVIOUS
<1> HIDE DEF left, own
<1>9. \A i \in ObjectIds : counter[i] = Cardinality(Counted(i)) /\ counter[i] \in Nat
  BY CountedFinite DEF ObjectInv, ObjectCounts, ObjectTypes
<1>10. counter' \in [ObjectIds -> Int] /\ slots' \subseteq ObjectIds
  BY <1>1, <1>3, <1>6, <1>7, <1>8
<1>11. /\ view' \in [Players -> [ObjectIds -> Things \union {None}]]
       /\ \A i \in ObjectIds : view'[p][i] = None
       /\ \A q \in Players \ {p} : view'[q] = view[q]
  BY <1>1, <1>3 DEF O!NoView
<1>12. (ObjectTypes /\ O!NoStale /\ ObjectLive)'
  <2>1. ObjectTypes'
    BY <1>1, <1>2, <1>3, <1>4, <1>10, <1>11 DEF ObjectTypes, ObjectInv, O!Usable
  <2>2. (O!NoStale /\ ObjectLive)'
    BY <1>1, <1>2, <1>4 DEF O!NoStale, ObjectLive, ObjectInv, O!Usable
  <2> QED BY <2>1, <2>2
<1>13. ObjectCounts'
  <2>1. \A i \in ObjectIds : counter'[i] = Cardinality(Counted(i)')
    BY <1>1, <1>6, <1>7, <1>9
  <2>2. ASSUME NEW i \in ObjectIds, counter'[i] # 0
        PROVE  i \in slots'
    <3>1. IsFiniteSet(Counted(i)) /\ Counted(i)' \subseteq Counted(i)
      BY <1>3, <1>5, CountedFinite
    <3>2. Cardinality(Counted(i)') \in Nat
      BY <3>1, FS_Subset, FS_CardinalityType
    <3>3. counter[i] # 0
      BY <1>1, <1>6, <1>7, <1>9, <2>2, <3>2
    <3> QED BY <1>1, <2>2, <3>3 DEF ObjectInv, ObjectCounts
  <2>3. ASSUME grouping', Careful, NEW i \in slots'
        PROVE  counter'[i] # 0
    <3>1. i \in ObjectIds /\ counter[i] # 0
      BY <1>1, <1>3, <2>3 DEF ObjectInv, ObjectCounts
    <3> QED BY <1>1, <1>6, <1>7, <1>9, <2>3, <3>1
  <2> QED BY <2>1, <2>2, <2>3 DEF ObjectCounts
<1>14. ASSUME Careful
       PROVE  (ObjectOne /\ ObjectViews)'
  <2>1. ObjectOne'
    BY <1>4, <1>14 DEF ObjectInv, ObjectOne
  <2>2. ASSUME NEW q \in Players, NEW i \in ObjectIds
        PROVE  (/\ view[q][i] \in There(q, i) \union {None}
                /\ q \notin players => view[q][i] = None
                /\ q \in players => \A c \in There(q, i) : c # view[q][i] =>
                     object[c].owner = Server /\ q \notin streamed)'
    <3>1. CASE q = p
      BY <1>1, <1>11, <3>1
    <3>2. CASE q # p
      <4>1. There(q, i)' = There(q, i)
        BY <1>2, <1>4, <3>2 DEF There
      <4>2. \A c \in There(q, i) : object'[c] = object[c]
        BY <1>4, <4>1 DEF There
      <4> QED BY <1>1, <1>11, <1>14, <3>2, <4>1, <4>2 DEF ObjectInv, ObjectViews
    <3> QED BY <3>1, <3>2
  <2>3. ObjectViews'
    BY <2>2 DEF ObjectViews
  <2> QED BY <2>1, <2>3
<1> QED BY <1>12, <1>13, <1>14 DEF ObjectInv

LEMMA ObjectsReset ==
  ASSUME ObjectInv, O!Reset
  PROVE  ObjectInv'
<1>1. /\ at = None
      /\ Careful => ~grouping \/ slots = {}
      /\ pool' = {} /\ object' = [o \in Things |-> O!Fresh]
      /\ counter' = [i \in ObjectIds |-> 0] /\ streamed' = {}
      /\ view' = [p \in Players |-> O!NoView]
      /\ UNCHANGED <<players, doomed, slots, grouping, at>>
  BY DEF O!Reset
<1>2. doomed = {}
  BY <1>1, EntitiesAssumption DEF ObjectInv, ObjectLive, ObjectTypes
<1>3. O!Usable' = {} /\ \A p, i : There(p, i)' = {} /\ Counted(i)' = {}
  BY <1>1 DEF O!Usable, There, Counted
<1>4. /\ object' \in [Things -> ObjectRecord]
      /\ view' \in [Players -> [ObjectIds -> Things \union {None}]]
      /\ \A p \in Players, i \in ObjectIds : view'[p][i] = None
  BY <1>1, ObjectFresh DEF O!NoView
<1>5. (ObjectTypes /\ O!NoStale /\ ObjectLive)'
  BY <1>1, <1>2, <1>4 DEF ObjectInv, ObjectTypes, O!NoStale, ObjectLive
<1>6. ObjectCounts'
  BY <1>1, <1>3, FS_EmptySet DEF ObjectCounts
<1>7. (ObjectOne /\ ObjectViews)'
  BY <1>3, <1>4 DEF ObjectOne, ObjectViews
<1> QED BY <1>5, <1>6, <1>7 DEF ObjectInv

LEMMA ObjectsStutter == ASSUME ObjectInv, UNCHANGED vars PROVE ObjectInv'
  BY DEF vars, ObjectInv, ObjectTypes, O!NoStale, ObjectLive, ObjectCounts, Counted,
         ObjectOne, ObjectViews, There, O!Usable

LEMMA ObjectsInit == ASSUME O!Init PROVE ObjectInv
<1>1. /\ players = {} /\ streamed = {} /\ pool = {} /\ doomed = {} /\ at = None
      /\ object = [o \in Things |-> O!Fresh]
      /\ counter = [i \in ObjectIds |-> 0] /\ slots = {}
      /\ view = [p \in Players |-> O!NoView]
  BY DEF O!Init
<1>2. O!Fresh \in ObjectRecord /\ O!NoView \in [ObjectIds -> Things \union {None}]
  BY DEF O!Fresh, ObjectRecord, O!NoView
<1>3. ObjectTypes /\ ObjectLive /\ O!NoStale
  BY <1>1, <1>2 DEF ObjectTypes, ObjectLive, O!NoStale
<1>4. \A i : Counted(i) = {} /\ \A p : There(p, i) = {}
  BY <1>1 DEF Counted, There, O!Usable
<1>5. ObjectCounts
  BY <1>1, <1>4, FS_EmptySet DEF ObjectCounts
<1>6. ObjectOne /\ ObjectViews
  BY <1>1, <1>4 DEF ObjectOne, ObjectViews, O!Usable, O!NoView
<1> QED BY <1>3, <1>5, <1>6 DEF ObjectInv

LEMMA ObjectsStep ==
  ASSUME ObjectInv, O!Next
  PROVE  ObjectInv'
<1>1. CASE O!Return \/ O!Reset
  BY <1>1, ObjectsReturn, ObjectsReset
<1>2. CASE \E o \in Things : O!Create(o) \/ O!Release(o)
  BY <1>2, ObjectsCreate, ObjectsRelease
<1>3. CASE \E o \in Things, p \in Players : O!CreatePlayerObject(o, p) \/ O!BeginCallback(p, o)
  BY <1>3, ObjectsCreatePlayerObject, ObjectsBeginCallback
<1>4. CASE \E p \in Players : O!FinishedDownloading(p) \/ O!Disconnect(p)
  BY <1>4, ObjectsFinishedDownloading, ObjectsDisconnect
<1>5. CASE \E p \in Players, b \in BOOLEAN : O!Connect(p, b)
  BY <1>5, ObjectsConnect
<1> QED BY <1>1, <1>2, <1>3, <1>4, <1>5 DEF O!Next

\* What the invariant of the objects says of them.
LEMMA ObjectsImply ==
  ASSUME ObjectInv
  PROVE  /\ O!TypeOK /\ O!NoStale /\ O!CountExact
         /\ Careful => O!IdsApart /\ O!ViewExact
<1>1. \A i \in ObjectIds : counter[i] \in 0 .. O!Cardinality(Things)
  <2>1. ASSUME NEW i \in ObjectIds PROVE counter[i] \in 0 .. Cardinality(Things)
    <3>1. pool \subseteq Things /\ counter[i] = Cardinality(Counted(i))
      BY DEF ObjectInv, ObjectTypes, ObjectCounts
    <3> QED BY <3>1, CountedFinite
  <2> QED BY <2>1, ObjectsCardinality
<1>2. O!TypeOK
  BY <1>1 DEF ObjectInv, ObjectTypes, ObjectRecord, O!TypeOK
<1>3. O!CountExact
  BY ObjectsCardinality DEF ObjectInv, ObjectCounts, Counted, O!CountExact
<1>4. ASSUME Careful PROVE O!IdsApart
  <2>1. SUFFICES ASSUME NEW o \in O!Usable, object[o].owner # Server,
                        object[o].id \in O!Ids(O!Storage(Server) \ doomed)
                 PROVE  FALSE
    BY DEF O!IdsApart
  <2>2. PICK g \in O!Storage(Server) \ doomed : object[g].id = object[o].id
    BY <2>1 DEF O!Ids
  <2>3. g \in O!Usable /\ object[g].owner = Server
    BY <2>2 DEF O!Storage, O!Usable
  <2> QED BY <1>4, <2>1, <2>2, <2>3 DEF ObjectInv, ObjectOne
<1>5. ASSUME Careful PROVE O!ViewExact
  BY <1>5 DEF ObjectInv, ObjectTypes, ObjectViews, There, O!ViewExact
<1> QED BY <1>2, <1>3, <1>4, <1>5 DEF ObjectInv

-----------------------------------------------------------------------------
(* Objects that move                                                        *)

MoveScreens == [Players -> [Things -> {None, "still", "moving"}]]

\* The flag that some bit is set agrees with the bits of what scripts can use,
\* and what is not in the pool has none.
MoveBits == /\ \A o \in V!Usable : o \in any <=> delayed[o] # {}
            /\ \A o \in Things \ pool : delayed[o] = {}

\* No client shows a movement that is over, nor, if it need not be told of it
\* yet, misses one.
MoveSeen(p, o) == screen[p][o] # None =>
    /\ o \in V!Usable
    /\ screen[p][o] = "moving" => o \in moving
    /\ Careful /\ o \in moving /\ p \notin delayed[o] => screen[p][o] = "moving"

MoveViews == \A p \in Players, o \in Things : MoveSeen(p, o)

\* What is released stays while its callback runs.
MoveDoomed == doomed \subseteq {at}

MoveInv == V!TypeOK /\ MoveDoomed /\ MoveBits /\ V!ProcessedExact /\ MoveViews

-----------------------------------------------------------------------------
\* The parts of the type invariant that the proofs use.
LEMMA MoveTypes ==
  ASSUME MoveInv
  PROVE  /\ streamed \subseteq players /\ players \subseteq Players
         /\ doomed \subseteq pool /\ pool \subseteq Things /\ doomed \subseteq {at}
         /\ moving \subseteq pool /\ any \subseteq pool /\ processed \subseteq V!Usable
         /\ delayed \in [Things -> SUBSET Players] /\ screen \in MoveScreens
         /\ at = None => doomed = {}
  BY EntitiesAssumption DEF MoveInv, V!TypeOK, MoveScreens, MoveDoomed

\* One object o of those that scripts can use is changed; the others are as
\* they were, with what clients show of them.
LEMMA MoveOne ==
  ASSUME MoveInv, NEW o \in V!Usable,
         UNCHANGED <<players, streamed, pool, doomed>>,
         delayed' \in [Things -> SUBSET Players], screen' \in MoveScreens,
         moving' \in {moving \union {o}, moving \ {o}},
         any' \in {any, any \ {o}}, o \in any' <=> delayed'[o] # {},
         \A c \in Things \ {o} : delayed'[c] = delayed[c],
         \A c \in Things \ {o} : c \in processed' <=> c \in processed,
         processed' \subseteq processed \union {o},
         o \in processed' <=> o \in moving' \/ delayed'[o] # {},
         \A p \in Players : \A c \in Things \ {o} : screen'[p][c] = screen[p][c],
         \A p \in Players : MoveSeen(p, o)',
         doomed # {} => at' = at, at' \in pool \union {None}
  PROVE  MoveInv'
<1>1. V!TypeOK'
  BY MoveTypes DEF V!TypeOK, V!Usable, MoveScreens
<1>2. MoveDoomed' /\ V!Usable' = V!Usable
  BY MoveTypes DEF MoveDoomed, V!Usable
<1>3. \A c \in Things \ {o} : (c \in moving' <=> c \in moving) /\ (c \in any' <=> c \in any)
  OBVIOUS
<1>4. V!Usable \subseteq Things
  BY MoveTypes DEF V!Usable
<1>5. MoveBits'
  BY <1>2, <1>3, <1>4 DEF MoveInv, MoveBits, V!Usable
<1>6. \A c \in V!Usable : c \in processed' <=> c \in moving' \/ delayed'[c] # {}
  BY <1>3, <1>4 DEF MoveInv, V!ProcessedExact
<1>7. V!ProcessedExact'
  BY <1>2, <1>6, MoveTypes DEF V!ProcessedExact
<1>8. \A p \in Players : \A c \in Things \ {o} : MoveSeen(p, c)'
  BY <1>2, <1>3 DEF MoveInv, MoveViews, MoveSeen
<1>9. MoveViews'
  BY <1>8 DEF MoveViews
<1> QED BY <1>1, <1>2, <1>5, <1>7, <1>9 DEF MoveInv

\* What those that show o are told.
LEMMA MoveBroadcast ==
  ASSUME MoveInv, NEW o \in Things, NEW s \in {None, "still", "moving"}
  PROVE  /\ V!Broadcast(o, s) \in MoveScreens
         /\ \A p \in Players : \A c \in Things \ {o} : V!Broadcast(o, s)[p][c] = screen[p][c]
         /\ \A p \in Players : V!Broadcast(o, s)[p][o] = IF screen[p][o] # None THEN s ELSE None
<1>1. screen \in MoveScreens
  BY MoveTypes
<1> QED BY <1>1 DEF V!Broadcast, MoveScreens

LEMMA MovesCreate ==
  ASSUME MoveInv, NEW o \in Things, V!Create(o)
  PROVE  MoveInv'
<1>1. /\ o \notin pool /\ pool' = pool \union {o}
      /\ screen' = [p \in Players |-> IF p \in players
                      THEN [screen[p] EXCEPT ![o] = "still"] ELSE screen[p]]
      /\ UNCHANGED <<players, streamed, doomed, moving, delayed, any, processed, at>>
  BY DEF V!Create
<1>2. V!Usable' = V!Usable \union {o} /\ o \notin moving /\ o \notin any /\ delayed[o] = {}
  BY <1>1, MoveTypes DEF V!Usable, MoveInv, MoveBits
<1>3. /\ screen' \in MoveScreens
      /\ \A p \in Players : \A c \in Things \ {o} : screen'[p][c] = screen[p][c]
      /\ \A p \in Players : screen'[p][o] \in {"still", screen[p][o]}
  BY <1>1, MoveTypes DEF MoveScreens
<1>4. V!TypeOK'
  BY <1>1, <1>2, <1>3, MoveTypes DEF V!TypeOK, MoveScreens, MoveInv
<1>5. MoveDoomed' /\ MoveBits'
  BY <1>1, <1>2, MoveTypes DEF MoveInv, MoveDoomed, MoveBits
<1>6. V!ProcessedExact'
  BY <1>1, <1>2 DEF MoveInv, V!ProcessedExact
<1>7. \A p \in Players, c \in Things : MoveSeen(p, c)'
  BY <1>1, <1>2, <1>3, EntitiesAssumption DEF MoveInv, MoveViews, MoveSeen
<1> QED BY <1>4, <1>5, <1>6, <1>7 DEF MoveInv, MoveViews

\* What holds of an object that scripts can use.
LEMMA MoveUsed ==
  ASSUME MoveInv, NEW o \in V!Usable
  PROVE  /\ o \in pool /\ o \in Things /\ o \notin doomed
         /\ o \in any <=> delayed[o] # {}
         /\ o \in processed <=> o \in moving \/ delayed[o] # {}
         /\ \A p \in Players : MoveSeen(p, o)
<1>1. o \in pool /\ o \in Things /\ o \notin doomed
  BY MoveTypes DEF V!Usable
<1> QED BY <1>1 DEF MoveInv, MoveBits, V!ProcessedExact, MoveViews

LEMMA MovesMove ==
  ASSUME MoveInv, NEW o \in Things, V!Move(o)
  PROVE  MoveInv'
<1>1. /\ o \in V!Usable /\ moving' = moving \union {o} /\ processed' = processed \union {o}
      /\ screen' = V!Broadcast(o, "moving")
      /\ UNCHANGED <<players, streamed, pool, doomed, delayed, any, at>>
  BY DEF V!Move
<1>2. /\ screen' \in MoveScreens
      /\ \A p \in Players : \A c \in Things \ {o} : screen'[p][c] = screen[p][c]
      /\ \A p \in Players : screen'[p][o] = IF screen[p][o] # None THEN "moving" ELSE None
  BY <1>1, MoveBroadcast
<1>3. \A p \in Players : MoveSeen(p, o)'
  BY <1>1, <1>2, MoveTypes DEF MoveSeen, V!Usable
<1>4. o \in any' <=> delayed'[o] # {}
  BY <1>1, MoveUsed
<1>5. at' \in pool \union {None}
  BY <1>1 DEF MoveInv, V!TypeOK
<1>6. delayed' \in [Things -> SUBSET Players]
  BY <1>1, MoveTypes
<1> QED BY <1>1, <1>2, <1>3, <1>4, <1>5, <1>6, MoveOne

LEMMA MovesStop ==
  ASSUME MoveInv, NEW o \in Things, V!Stop(o)
  PROVE  MoveInv'
<1>1. /\ o \in V!Usable /\ moving' = moving \ {o}
      /\ processed' = V!EraseFromProcessed(o, moving', any)
      /\ screen' = V!Broadcast(o, "still")
      /\ UNCHANGED <<players, streamed, pool, doomed, delayed, any, at>>
  BY DEF V!Stop
<1>2. /\ screen' \in MoveScreens
      /\ \A p \in Players : \A c \in Things \ {o} : screen'[p][c] = screen[p][c]
      /\ \A p \in Players : screen'[p][o] = IF screen[p][o] # None THEN "still" ELSE None
  BY <1>1, MoveBroadcast
<1>3. \A p \in Players : MoveSeen(p, o)'
  BY <1>1, <1>2, MoveTypes DEF MoveSeen, V!Usable
<1>4. /\ o \in any' <=> delayed'[o] # {}
      /\ o \in processed <=> o \in moving \/ delayed[o] # {}
  BY <1>1, MoveUsed
<1>5. /\ processed' = IF o \in any THEN processed ELSE processed \ {o}
      /\ o \in processed' <=> o \in moving' \/ delayed'[o] # {}
  BY <1>1, <1>4 DEF V!EraseFromProcessed
<1>6. at' \in pool \union {None} /\ delayed' \in [Things -> SUBSET Players]
  BY <1>1, MoveTypes DEF MoveInv, V!TypeOK
<1> QED BY <1>1, <1>2, <1>3, <1>4, <1>5, <1>6, MoveOne

LEMMA MovesRestream ==
  ASSUME MoveInv, NEW o \in Things, V!Restream(o)
  PROVE  MoveInv'
<1>1. /\ o \in V!Usable
      /\ screen' = [p \in Players |-> IF p \in players
                      THEN [screen[p] EXCEPT ![o] = "still"] ELSE screen[p]]
      /\ UNCHANGED <<players, streamed, pool, doomed, moving, delayed, any, processed, at>>
  BY DEF V!Restream
<1>2. Careful => o \notin moving
  BY DEF V!Restream
<1>3. /\ screen' \in MoveScreens
      /\ \A p \in Players : \A c \in Things \ {o} : screen'[p][c] = screen[p][c]
      /\ \A p \in Players : screen'[p][o] \in {"still", screen[p][o]}
  BY <1>1, MoveTypes DEF MoveScreens
<1>4. \A p \in Players : MoveSeen(p, o)
  BY <1>1, MoveUsed
<1>5. \A p \in Players : MoveSeen(p, o)'
  BY <1>1, <1>2, <1>3, <1>4 DEF MoveSeen, V!Usable
<1>6. /\ o \in any' <=> delayed'[o] # {}
      /\ o \in processed' <=> o \in moving' \/ delayed'[o] # {}
      /\ moving' \in {moving \union {o}, moving \ {o}}
  BY <1>1, MoveUsed
<1>7. at' \in pool \union {None} /\ delayed' \in [Things -> SUBSET Players]
  BY <1>1, MoveTypes DEF MoveInv, V!TypeOK
<1> QED BY <1>1, <1>3, <1>5, <1>6, <1>7, MoveOne

\* Objects that scripts cannot use any more, or that nobody is shown, are
\* forgotten; those that they can use are as they were.
LEMMA MoveFewer ==
  ASSUME MoveInv, V!TypeOK', MoveDoomed', V!Usable' \subseteq V!Usable,
         \A o \in Things \ pool' : delayed'[o] = {},
         processed' = processed \intersect V!Usable',
         \A o \in V!Usable' : /\ o \in moving' <=> o \in moving
                              /\ o \in any' <=> o \in any
                              /\ delayed'[o] = delayed[o],
         \A p \in Players, o \in Things :
           \/ screen'[p][o] = None
           \/ o \in V!Usable' /\ screen'[p][o] = screen[p][o]
  PROVE  MoveInv'
<1>1. MoveBits'
  BY DEF MoveInv, MoveBits
<1>2. V!ProcessedExact'
  BY DEF MoveInv, V!ProcessedExact
<1>3. \A p \in Players, o \in Things : MoveSeen(p, o)'
  BY DEF MoveInv, MoveViews, MoveSeen
<1> QED BY <1>1, <1>2, <1>3 DEF MoveInv, MoveViews

LEMMA MovesRelease ==
  ASSUME MoveInv, NEW o \in Things, V!Release(o)
  PROVE  MoveInv'
<1>1. /\ o \in V!Usable /\ processed' = processed \ {o}
      /\ screen' = V!Broadcast(o, None) /\ UNCHANGED <<players, streamed, at>>
  BY DEF V!Release
<1>2. /\ screen' \in MoveScreens
      /\ \A p \in Players : \A c \in Things \ {o} : screen'[p][c] = screen[p][c]
      /\ \A p \in Players : screen'[p][o] = None
  BY <1>1, MoveBroadcast
<1>3. /\ pool' \subseteq pool /\ doomed' \subseteq pool' /\ doomed' \subseteq {at}
      /\ moving' \subseteq pool' /\ any' \subseteq pool'
      /\ V!Usable' = V!Usable \ {o}
      /\ delayed' \in [Things -> SUBSET Players]
      /\ \A c \in Things \ {o} : /\ c \in moving' <=> c \in moving
                                 /\ c \in any' <=> c \in any
                                 /\ delayed'[c] = delayed[c]
      /\ \A c \in Things \ pool' : delayed'[c] = {}
      /\ at \in pool' \union {None}
  <2>1. CASE o = at
    <3>1. /\ doomed' = doomed \union {o} /\ delayed' = [delayed EXCEPT ![o] = @ \ players]
          /\ UNCHANGED <<pool, moving, any>>
      BY <2>1 DEF V!Release
    <3> QED BY <1>1, <2>1, <3>1, MoveTypes DEF V!Usable, MoveInv, MoveBits
  <2>2. CASE o # at
    <3>1. /\ pool' = pool \ {o} /\ doomed' = doomed /\ moving' = moving \ {o}
          /\ any' = any \ {o}
          /\ delayed' = [c \in Things |-> IF c \in {o} THEN {} ELSE delayed[c]]
      BY <2>2 DEF V!Release, V!Forget
    <3>2. at \in pool \union {None}
      BY DEF MoveInv, V!TypeOK
    <3> QED BY <1>1, <2>2, <3>1, <3>2, MoveTypes DEF V!Usable, MoveInv, MoveBits
  <2> QED BY <2>1, <2>2
<1>4. V!TypeOK' /\ MoveDoomed'
  BY <1>1, <1>2, <1>3, MoveTypes DEF V!TypeOK, MoveDoomed, MoveScreens
<1>5. \A p \in Players, c \in Things :
        \/ screen'[p][c] = None
        \/ c \in V!Usable' /\ screen'[p][c] = screen[p][c]
  BY <1>2, <1>3 DEF MoveInv, MoveViews, MoveSeen
<1>6. V!Usable' \subseteq Things \ {o} /\ processed' = processed \intersect V!Usable'
  BY <1>1, <1>3, MoveTypes DEF V!Usable
<1> QED BY <1>3, <1>4, <1>5, <1>6, MoveFewer

LEMMA MovesReturn ==
  ASSUME MoveInv, V!Return
  PROVE  MoveInv'
<1>1. /\ at' = None /\ pool' = pool \ doomed /\ processed' = processed \ doomed
      /\ moving' = moving \ doomed /\ any' = any \ doomed /\ doomed' = {}
      /\ delayed' = [c \in Things |-> IF c \in doomed THEN {} ELSE delayed[c]]
      /\ UNCHANGED <<players, streamed, screen>>
  BY DEF V!Return, V!Forget
<1>2. V!Usable' = V!Usable
  BY <1>1 DEF V!Usable
<1>3. delayed' \in [Things -> SUBSET Players] /\ \A c \in Things \ pool' : delayed'[c] = {}
  BY <1>1, MoveTypes DEF MoveInv, MoveBits
<1>4. V!TypeOK' /\ MoveDoomed'
  BY <1>1, <1>2, <1>3, MoveTypes DEF V!TypeOK, MoveDoomed, V!Usable, MoveScreens
<1>5. \A c \in V!Usable' : /\ c \in moving' <=> c \in moving
                           /\ c \in any' <=> c \in any
                           /\ delayed'[c] = delayed[c]
  BY <1>1, MoveTypes DEF V!Usable
<1>6. processed' = processed \intersect V!Usable'
  BY <1>1, <1>2, MoveTypes DEF V!Usable
<1>7. \A p \in Players, c \in Things :
        \/ screen'[p][c] = None
        \/ c \in V!Usable' /\ screen'[p][c] = screen[p][c]
  BY <1>1, <1>2 DEF MoveInv, MoveViews, MoveSeen
<1> QED BY <1>2, <1>3, <1>4, <1>5, <1>6, <1>7, MoveFewer

LEMMA MovesDisconnect ==
  ASSUME MoveInv, NEW p \in Players, V!Disconnect(p)
  PROVE  MoveInv'
<1>1. /\ at = None /\ players' = players \ {p} /\ streamed' = streamed \ {p}
      /\ screen' = [screen EXCEPT ![p] = V!NoView]
      /\ UNCHANGED <<pool, doomed, moving, delayed, any, processed, at>>
  BY DEF V!Disconnect
<1>2. /\ screen' \in MoveScreens
      /\ \A q \in Players, c \in Things :
           screen'[q][c] = IF q = p THEN None ELSE screen[q][c]
  BY <1>1, MoveTypes DEF V!NoView, MoveScreens
<1>3. V!Usable' = V!Usable /\ V!TypeOK' /\ MoveDoomed'
  BY <1>1, <1>2, MoveTypes DEF V!TypeOK, MoveDoomed, V!Usable, MoveScreens
<1>4. \A q \in Players, c \in Things :
        \/ screen'[q][c] = None
        \/ c \in V!Usable' /\ screen'[q][c] = screen[q][c]
  BY <1>2, <1>3 DEF MoveInv, MoveViews, MoveSeen
<1>5. \A c \in Things \ pool' : delayed'[c] = {}
  BY <1>1 DEF MoveInv, MoveBits
<1>6. processed' = processed \intersect V!Usable'
  BY <1>1, <1>3, MoveTypes
<1> QED BY <1>1, <1>3, <1>4, <1>5, <1>6, MoveFewer

LEMMA MovesReset ==
  ASSUME MoveInv, V!Reset
  PROVE  MoveInv'
<1>1. /\ at = None /\ pool' = {} /\ processed' = {} /\ streamed' = {}
      /\ moving' = moving \ Things /\ any' = any \ Things
      /\ delayed' = [c \in Things |-> IF c \in Things THEN {} ELSE delayed[c]]
      /\ screen' = [p \in Players |-> V!NoView]
      /\ UNCHANGED <<players, doomed, at>>
  BY DEF V!Reset, V!Forget
<1>2. /\ screen' \in MoveScreens /\ \A q \in Players, c \in Things : screen'[q][c] = None
      /\ doomed' = {} /\ V!Usable' = {} /\ moving' = {} /\ any' = {}
      /\ delayed' \in [Things -> SUBSET Players] /\ \A c \in Things : delayed'[c] = {}
  BY <1>1, MoveTypes DEF V!NoView, MoveScreens, V!Usable
<1>3. V!TypeOK' /\ MoveDoomed'
  BY <1>1, <1>2, MoveTypes DEF V!TypeOK, MoveDoomed, MoveScreens
<1> QED BY <1>1, <1>2, <1>3, MoveFewer

\* A client is sent the objects of the pool, and has a bit for those that move.
LEMMA MoveSent ==
  ASSUME MoveInv, NEW p \in Players, doomed = {}, V!CreateForPlayer(p, pool),
         UNCHANGED <<pool, doomed, moving, at>>,
         players' = players \union {p}, streamed' = streamed \union {p}
  PROVE  MoveInv'
<1>1. /\ screen' = [screen EXCEPT ![p] =
                      [o \in Things |-> IF o \in pool THEN "still" ELSE @[o]]]
      /\ delayed' = [o \in Things |-> IF o \in pool \intersect moving
                       THEN delayed[o] \union {p} ELSE delayed[o]]
      /\ any' = any \union (pool \intersect moving)
      /\ processed' = processed \union (pool \intersect moving)
  BY DEF V!CreateForPlayer
<1>2. V!Usable = pool /\ V!Usable' = pool /\ moving \subseteq pool
  BY MoveTypes DEF V!Usable
<1>3. /\ screen' \in MoveScreens
      /\ \A q \in Players, c \in Things :
           screen'[q][c] = IF q = p /\ c \in pool THEN "still" ELSE screen[q][c]
  BY <1>1, MoveTypes DEF MoveScreens
<1>4. /\ delayed' \in [Things -> SUBSET Players]
      /\ \A c \in Things : delayed'[c] = IF c \in moving THEN delayed[c] \union {p}
                                         ELSE delayed[c]
  BY <1>1, <1>2, MoveTypes
<1>5. V!TypeOK' /\ MoveDoomed'
  BY <1>1, <1>2, <1>3, <1>4, MoveTypes DEF V!TypeOK, MoveDoomed, MoveScreens, MoveInv
<1>6. MoveBits'
  BY <1>1, <1>2, <1>4, MoveTypes DEF MoveInv, MoveBits
<1>7. V!ProcessedExact'
  <2>1. \A c \in pool : c \in Things /\ (c \in processed <=> c \in moving \/ delayed[c] # {})
    BY <1>2, MoveTypes DEF MoveInv, V!ProcessedExact
  <2>2. \A c \in pool : c \in processed' <=> c \in moving' \/ delayed'[c] # {}
    BY <1>1, <1>4, <2>1
  <2>3. processed' \subseteq pool
    BY <1>1, <1>2, MoveTypes
  <2> QED BY <1>2, <2>2, <2>3 DEF V!ProcessedExact
<1>8. \A q \in Players, c \in Things : MoveSeen(q, c)'
  BY <1>2, <1>3, <1>4 DEF MoveInv, MoveViews, MoveSeen
<1> QED BY <1>5, <1>6, <1>7, <1>8 DEF MoveInv, MoveViews

LEMMA MovesConnect ==
  ASSUME MoveInv, NEW p \in Players, NEW downloads \in BOOLEAN, V!Connect(p, downloads)
  PROVE  MoveInv'
<1>1. /\ at = None /\ players' = players \union {p} /\ doomed = {}
      /\ UNCHANGED <<pool, doomed, moving, at>>
  BY MoveTypes DEF V!Connect
<1>2. CASE ~downloads
  BY <1>1, <1>2, MoveSent DEF V!Connect
<1>3. CASE downloads
  <2>1. UNCHANGED <<streamed, screen, delayed, any, processed>>
    BY <1>3 DEF V!Connect
  <2>2. V!Usable' = V!Usable /\ V!TypeOK' /\ MoveDoomed'
    BY <1>1, <2>1, MoveTypes DEF V!TypeOK, MoveDoomed, V!Usable, MoveScreens
  <2> QED BY <1>1, <2>1, <2>2
          DEF MoveInv, MoveBits, V!ProcessedExact, MoveViews, MoveSeen
<1> QED BY <1>2, <1>3

LEMMA MovesFinishedDownloading ==
  ASSUME MoveInv, NEW p \in Players, V!FinishedDownloading(p)
  PROVE  MoveInv'
<1>1. /\ p \in players /\ at = None /\ doomed = {} /\ V!CreateForPlayer(p, pool)
      /\ streamed' = streamed \union {p} /\ UNCHANGED <<players, pool, doomed, moving, at>>
  BY MoveTypes DEF V!FinishedDownloading
<1>2. players' = players \union {p}
  BY <1>1
<1> QED BY <1>1, <1>2, MoveSent

LEMMA MovesAdvance ==
  ASSUME MoveInv, NEW o \in Things, NEW B \in SUBSET Players, NEW done \in BOOLEAN,
         V!Advance(o, B, done)
  PROVE  MoveInv'
<1>1. /\ at = None /\ o \in processed
      /\ B \subseteq delayed[o] \intersect players
      /\ delayed' = [delayed EXCEPT ![o] = @ \ B]
      /\ any' = IF B # {} /\ B = delayed[o] THEN any \ {o} ELSE any
      /\ moving' = IF done THEN moving \ {o} ELSE moving
      /\ processed' = IF B # {} \/ done
                      THEN V!EraseFromProcessed(o, moving', any') ELSE processed
      /\ at' = IF done THEN o ELSE None
      /\ UNCHANGED <<players, streamed, pool, doomed>>
  BY DEF V!Advance
<1>2. done => o \in moving
  BY DEF V!Advance
<1>3. screen' = [p \in Players |->
         IF screen[p][o] # None /\ (done \/ (p \in B /\ o \in moving))
         THEN [screen[p] EXCEPT ![o] = IF done THEN "still" ELSE "moving"]
         ELSE screen[p]]
  BY DEF V!Advance
<1>4. o \in V!Usable /\ doomed = {} /\ at' \in pool \union {None}
  BY <1>1, MoveTypes DEF V!Usable
<1>5. /\ o \in any <=> delayed[o] # {}
      /\ o \in processed <=> o \in moving \/ delayed[o] # {}
      /\ \A p \in Players : MoveSeen(p, o)
  BY <1>4, MoveUsed
<1>6. /\ delayed' \in [Things -> SUBSET Players] /\ delayed'[o] = delayed[o] \ B
      /\ \A c \in Things \ {o} : delayed'[c] = delayed[c]
  BY <1>1, MoveTypes
<1>7. o \in any' <=> delayed'[o] # {}
  <2>1. B \subseteq delayed[o]
    BY <1>1
  <2>2. B = delayed[o] <=> delayed'[o] = {}
    BY <1>6, <2>1
  <2>3. CASE B = {}
    BY <1>1, <1>5, <1>6, <2>3
  <2>4. CASE B # {} /\ B = delayed[o]
    BY <1>1, <2>2, <2>4
  <2>5. CASE B # {} /\ B # delayed[o]
    BY <1>1, <1>5, <2>1, <2>2, <2>5
  <2> QED BY <2>3, <2>4, <2>5
<1>8. moving' \in {moving \union {o}, moving \ {o}} /\ any' \in {any, any \ {o}}
  <2>1. moving = moving \union {o} \/ moving = moving \ {o}
    OBVIOUS
  <2> QED BY <1>1, <2>1
<1>9. /\ o \in processed' <=> o \in moving' \/ delayed'[o] # {}
      /\ processed' \in {processed, processed \ {o}}
  <2>1. CASE B # {} \/ done
    <3>1. processed' = IF o \in moving' \union any' THEN processed ELSE processed \ {o}
      BY <1>1, <2>1 DEF V!EraseFromProcessed
    <3> QED BY <1>1, <1>7, <3>1
  <2>2. CASE B = {} /\ ~done
    BY <1>1, <1>5, <1>6, <2>2
  <2> QED BY <2>1, <2>2
<1>10. screen \in MoveScreens
  BY MoveTypes
<1>11. ASSUME NEW p \in Players
       PROVE  /\ screen'[p] \in [Things -> {None, "still", "moving"}]
              /\ \A c \in Things \ {o} : screen'[p][c] = screen[p][c]
              /\ MoveSeen(p, o)'
  <2>0. /\ screen[p] \in [Things -> {None, "still", "moving"}]
        /\ None # "still" /\ None # "moving"
    BY <1>10, EntitiesAssumption DEF MoveScreens
  <2>1. CASE screen[p][o] = None
    <3>1. screen'[p] = screen[p]
      BY <1>3, <2>1
    <3> QED BY <2>0, <2>1, <3>1 DEF MoveSeen
  <2>2. CASE screen[p][o] # None /\ done
    <3>1. screen'[p] = [screen[p] EXCEPT ![o] = "still"]
      BY <1>3, <2>2
    <3> QED BY <1>1, <1>4, <2>0, <2>2, <3>1 DEF MoveSeen, V!Usable
  <2>3. CASE screen[p][o] # None /\ ~done /\ p \in B /\ o \in moving
    <3>1. screen'[p] = [screen[p] EXCEPT ![o] = "moving"]
      BY <1>3, <2>3
    <3> QED BY <1>1, <1>4, <2>0, <2>3, <3>1 DEF MoveSeen, V!Usable
  <2>4. CASE screen[p][o] # None /\ ~done /\ ~(p \in B /\ o \in moving)
    <3>1. screen'[p] = screen[p]
      BY <1>3, <2>4
    <3> QED BY <1>1, <1>4, <1>5, <1>6, <2>0, <2>4, <3>1 DEF MoveSeen, V!Usable
  <2> QED BY <2>1, <2>2, <2>3, <2>4
<1>12. screen' \in MoveScreens
  BY <1>3, <1>11 DEF MoveScreens
<1> QED BY <1>1, <1>4, <1>6, <1>7, <1>8, <1>9, <1>11, <1>12, MoveOne

LEMMA MovesStutter == ASSUME MoveInv, UNCHANGED vars PROVE MoveInv'
  BY DEF vars, MoveInv, V!TypeOK, MoveDoomed, MoveBits, V!ProcessedExact, MoveViews,
         MoveSeen, V!Usable

LEMMA MovesInit == ASSUME V!Init PROVE MoveInv
<1>1. /\ players = {} /\ streamed = {} /\ pool = {} /\ doomed = {} /\ moving = {}
      /\ delayed = [o \in Things |-> {}] /\ any = {} /\ processed = {} /\ at = None
      /\ screen = [p \in Players |-> [o \in Things |-> None]]
  BY DEF V!Init, V!NoView
<1>2. V!Usable = {}
  BY <1>1 DEF V!Usable
<1>3. V!TypeOK /\ MoveDoomed /\ V!ProcessedExact
  BY <1>1, <1>2 DEF V!TypeOK, MoveDoomed, V!ProcessedExact
<1> QED BY <1>1, <1>2, <1>3 DEF MoveInv, MoveBits, MoveViews, MoveSeen

LEMMA MovesStep ==
  ASSUME MoveInv, V!Next
  PROVE  MoveInv'
<1>1. CASE V!Return \/ V!Reset
  BY <1>1, MovesReturn, MovesReset
<1>2. CASE \E o \in Things :
             V!Create(o) \/ V!Move(o) \/ V!Stop(o) \/ V!Restream(o) \/ V!Release(o)
  BY <1>2, MovesCreate, MovesMove, MovesStop, MovesRestream, MovesRelease
<1>3. CASE \E o \in Things, B \in SUBSET Players, done \in BOOLEAN : V!Advance(o, B, done)
  BY <1>3, MovesAdvance
<1>4. CASE \E p \in Players : V!FinishedDownloading(p) \/ V!Disconnect(p)
  BY <1>4, MovesFinishedDownloading, MovesDisconnect
<1>5. CASE \E p \in Players, b \in BOOLEAN : V!Connect(p, b)
  BY <1>5, MovesConnect
<1> QED BY <1>1, <1>2, <1>3, <1>4, <1>5 DEF V!Next

\* What the invariant of the moving objects says of them.
LEMMA MovesImply ==
  ASSUME MoveInv
  PROVE  /\ V!TypeOK /\ V!ProcessedExact
         /\ Careful => V!ViewExact
<1>1. ASSUME Careful, NEW p \in players, NEW o \in Things, screen[p][o] # None
      PROVE  /\ o \in V!Usable
             /\ p \notin delayed[o] => (screen[p][o] = "moving" <=> o \in moving)
  <2>1. MoveSeen(p, o)
    BY <1>1, MoveTypes DEF MoveInv, MoveViews
  <2> QED BY <1>1, <2>1 DEF MoveSeen
<1> QED BY <1>1 DEF MoveInv, V!ViewExact

-----------------------------------------------------------------------------
(* Objects that are attached                                                *)

AttachRecord  == [type : {"none", "player", "vehicle"}, id : Players \union {None}]
AttachScreens == [Players -> [Things -> AttachRecord \union {None}]]

\* What p's client, of o's audience, shows of o: ViewExact, of one of each.
AttachSeen(o, p) ==
    /\ T!OnPlayer(o) /\ T!Sees(near, p, attach[o].id) /\ <<o, p>> \notin waiting =>
         screen[p][o] = attach[o]
    /\ ~T!OnPlayer(o) => screen[p][o] = attach[o]
    /\ owner[o] = p =>
         (screen[p][o] = None <=> T!OnPlayer(o) /\ ~T!Sees(near, p, attach[o].id))

AttachViews == \A o \in pool \ skipped : \A p \in T!Audience(o) : AttachSeen(o, p)

\* Storages are of players that are there; what is in none is attached to
\* nothing.
AttachOwned ==
    /\ \A o \in pool : owner[o] \in players \union {Server}
    /\ \A o \in Things \ pool : owner[o] = Server /\ attach[o] = T!Loose

\* Only a global object is told of later; no player is streamed in for itself.
AttachLater == /\ \A o \in Things, p \in Players : <<o, p>> \in waiting => owner[o] = Server
               /\ \A p \in Players : <<p, p>> \notin near

AttachInv == /\ T!TypeOK /\ screen \in AttachScreens /\ AttachOwned /\ AttachLater
             /\ T!IndexExact /\ T!NoStale
             /\ Careful => AttachViews

-----------------------------------------------------------------------------
\* The parts of the type invariant that the proofs use.
LEMMA AttachTypes ==
  ASSUME AttachInv
  PROVE  /\ players \subseteq Players /\ near \subseteq players \X players
         /\ pool \subseteq Things /\ owner \in [Things -> Players \union {Server}]
         /\ attach \in [Things -> AttachRecord] /\ screen \in AttachScreens
         /\ indexed \subseteq pool /\ skipped \subseteq pool
         /\ waiting \subseteq pool \X Players
  BY DEF AttachInv, T!TypeOK, AttachRecord

\* What an object is attached to.
LEMMA AttachRecords ==
  /\ T!Loose \in AttachRecord /\ T!Loose.type = "none"
  /\ \A q \in Players : T!To("player", q) \in AttachRecord /\ T!To("vehicle", q) \in AttachRecord
  /\ \A q \in Players : T!To("player", q).type = "player" /\ T!To("player", q).id = q
  /\ \A q \in Players : T!To("vehicle", q).type = "vehicle"
  /\ None \notin AttachRecord
  BY EntitiesAssumption DEF T!Loose, T!To, AttachRecord

\* Who is to see what becomes of an object is a player that is there.
LEMMA AttachAudience ==
  ASSUME AttachInv, NEW o \in pool
  PROVE  /\ o \in Things /\ T!Audience(o) \subseteq players
         /\ \A p \in T!Audience(o) : owner[o] = p \/ owner[o] = Server
         /\ Server \notin players
  BY AttachTypes, EntitiesAssumption DEF AttachInv, AttachOwned, T!Audience

\* Nothing that matters to p's view of o changed.
LEMMA AttachSame ==
  ASSUME NEW o, NEW p, AttachSeen(o, p), attach'[o] = attach[o], owner'[o] = owner[o],
         screen'[p][o] = screen[p][o],
         T!Sees(near', p, attach[o].id) <=> T!Sees(near, p, attach[o].id),
         <<o, p>> \in waiting => <<o, p>> \in waiting'
  PROVE  AttachSeen(o, p)'
  BY DEF AttachSeen, T!OnPlayer, T!Sees

\* An object of the pool is attached as a.
LEMMA AttachOne ==
  ASSUME AttachInv, NEW o \in pool, NEW a \in AttachRecord,
         UNCHANGED <<players, near, pool, owner, waiting>>,
         attach' = [attach EXCEPT ![o] = a],
         indexed' \subseteq pool, skipped' \subseteq pool,
         \A c \in pool \ {o} : c \in indexed' <=> c \in indexed,
         \A c \in pool \ {o} : c \in skipped' <=> c \in skipped,
         a.type = "player" => o \in indexed',
         Careful => (o \in indexed' => a.type = "player"),
         a.type = "player" => o \in skipped' \/ a.id \in players,
         screen' \in AttachScreens,
         \A p \in Players : \A c \in Things \ {o} : screen'[p][c] = screen[p][c],
         Careful => o \in skipped' \/ \A p \in T!Audience(o) : AttachSeen(o, p)'
  PROVE  AttachInv'
<1>1. /\ attach' \in [Things -> AttachRecord] /\ attach'[o] = a
      /\ \A c \in Things \ {o} : attach'[c] = attach[c]
  BY AttachTypes
<1>2. T!TypeOK'
  BY <1>1 DEF AttachInv, T!TypeOK, AttachRecord
<1>3. AttachOwned' /\ AttachLater'
  BY <1>1 DEF AttachInv, AttachOwned, AttachLater
<1>4. T!IndexExact'
  BY <1>1, AttachTypes DEF AttachInv, T!IndexExact, T!OnPlayer
<1>5. T!NoStale'
  <2>1. ASSUME NEW c \in pool \ skipped'
        PROVE  /\ owner[c] \in players \union {Server}
               /\ attach'[c].type = "player" => attach'[c].id \in players
    BY <1>1, AttachTypes DEF AttachInv, T!NoStale, AttachOwned, T!OnPlayer
  <2> QED BY <2>1 DEF T!NoStale, T!OnPlayer
<1>6. ASSUME Careful, NEW c \in pool \ skipped', NEW p \in T!Audience(c)
      PROVE  AttachSeen(c, p)'
  <2>1. CASE c = o
    BY <1>6, <2>1
  <2>2. CASE c # o
    <3>1. AttachSeen(c, p)
      BY <1>6, <2>2 DEF AttachInv, AttachViews
    <3>2. p \in Players /\ c \in Things
      BY AttachAudience, AttachTypes
    <3> QED BY <1>1, <2>2, <3>1, <3>2, AttachSame
  <2> QED BY <2>1, <2>2
<1>7. Careful => AttachViews'
  BY <1>6 DEF AttachViews, T!Audience
<1> QED BY <1>2, <1>3, <1>4, <1>5, <1>7 DEF AttachInv

\* Its audience is sent an object anew.
LEMMA AttachRestream ==
  ASSUME AttachInv, NEW o \in pool, NEW a \in AttachRecord, screen' = T!Restream(o, a)
  PROVE  /\ screen' \in AttachScreens
         /\ \A p \in Players : \A c \in Things \ {o} : screen'[p][c] = screen[p][c]
         /\ \A p \in T!Audience(o) :
              screen'[p][o] = T!CreateObjectForClient(o, a, near, players, p)
<1> DEFINE s(p) == T!CreateObjectForClient(o, a, near, players, p)
<1>1. screen' = [p \in Players |-> IF p \in T!Audience(o)
                   THEN [screen[p] EXCEPT ![o] = s(p)] ELSE screen[p]]
  BY DEF T!Restream
<1>2. \A p : s(p) \in AttachRecord \union {None}
  BY AttachRecords DEF T!CreateObjectForClient
<1>3. /\ screen \in [Players -> [Things -> AttachRecord \union {None}]] /\ o \in Things
      /\ T!Audience(o) \subseteq Players
  BY AttachTypes, AttachAudience DEF AttachScreens
<1> HIDE DEF s
<1>4. /\ screen' \in AttachScreens
      /\ \A p \in Players : \A c \in Things \ {o} : screen'[p][c] = screen[p][c]
      /\ \A p \in T!Audience(o) : screen'[p][o] = s(p)
  BY <1>1, <1>2, <1>3 DEF AttachScreens
<1> QED BY <1>4 DEF s

\* What the audience of an object that was sent anew shows is right, but for
\* a global object on a player.
LEMMA AttachRestreamed ==
  ASSUME AttachInv, NEW o \in pool, NEW a \in AttachRecord, NEW p \in T!Audience(o),
         attach'[o] = a, UNCHANGED <<near, owner, waiting>>,
         screen'[p][o] = T!CreateObjectForClient(o, a, near, players, p),
         a.type = "player" => owner[o] # Server
  PROVE  AttachSeen(o, p)'
<1>1. p \in players /\ near \subseteq players \X players /\ a # None
  BY AttachTypes, AttachAudience, AttachRecords
<1>2. CASE a.type = "player"
  <2>1. screen'[p][o] = IF a.id \in players /\ T!Sees(near, p, a.id) THEN a ELSE None
    BY <1>2 DEF T!CreateObjectForClient
  <2>2. T!Sees(near, p, a.id) => a.id \in players
    BY <1>1 DEF T!Sees
  <2> QED BY <1>1, <1>2, <2>1, <2>2 DEF AttachSeen, T!OnPlayer, T!Sees
<1>3. CASE a.type # "player"
  <2>1. screen'[p][o] = a
    BY <1>3 DEF T!CreateObjectForClient
  <2> QED BY <1>1, <1>3, <2>1 DEF AttachSeen, T!OnPlayer
<1> QED BY <1>2, <1>3

LEMMA AttachmentsAttachToPlayer ==
  ASSUME AttachInv, NEW o \in Things, NEW q \in Players, T!AttachToPlayer(o, q)
  PROVE  AttachInv'
<1> DEFINE a == T!To("player", q)
<1>1. /\ o \in pool /\ q \in players /\ attach' = [attach EXCEPT ![o] = a]
      /\ indexed' = indexed \union {o} /\ skipped' = skipped \ {o}
      /\ UNCHANGED <<players, near, pool, owner, waiting>>
  BY DEF T!AttachToPlayer
<1>2. a \in AttachRecord /\ a.type = "player" /\ a.id = q /\ a # None
  BY AttachRecords
<1>3. attach'[o] = a
  BY <1>1, AttachTypes
<1>4. CASE owner[o] # Server
  <2>1. screen' = T!Restream(o, a)
    BY <1>4 DEF T!AttachToPlayer
  <2> HIDE DEF a
  <2>2. /\ screen' \in AttachScreens
        /\ \A p \in Players : \A c \in Things \ {o} : screen'[p][c] = screen[p][c]
        /\ \A p \in T!Audience(o) :
             screen'[p][o] = T!CreateObjectForClient(o, a, near, players, p)
    BY <1>1, <1>2, <2>1, AttachRestream
  <2>3. \A p \in T!Audience(o) : AttachSeen(o, p)'
    BY <1>1, <1>2, <1>3, <1>4, <2>2, AttachRestreamed
  <2> QED BY <1>1, <1>2, <2>2, <2>3, AttachTypes, AttachOne
<1>5. CASE owner[o] = Server
  <2>1. screen' = [p \in Players |-> IF p \in players /\ T!Sees(near, p, q)
                     THEN [screen[p] EXCEPT ![o] = a] ELSE screen[p]]
    BY <1>5 DEF T!AttachToPlayer
  <2> HIDE DEF a
  <2>2. /\ screen' \in AttachScreens
        /\ \A p \in Players : \A c \in Things \ {o} : screen'[p][c] = screen[p][c]
        /\ \A p \in players : T!Sees(near, p, q) => screen'[p][o] = a
    BY <1>1, <1>2, <2>1, AttachTypes DEF AttachScreens
  <2>3. ASSUME NEW p \in T!Audience(o)
        PROVE  AttachSeen(o, p)'
    <3>1. p \in players /\ owner'[o] # p
      BY <1>1, <1>5, AttachAudience
    <3>2. T!Sees(near, p, q)' <=> T!Sees(near, p, q)
      BY <1>1 DEF T!Sees
    <3> QED BY <1>2, <1>3, <2>2, <3>1, <3>2 DEF AttachSeen, T!OnPlayer
  <2> QED BY <1>1, <1>2, <2>2, <2>3, AttachTypes, AttachOne
<1> QED BY <1>4, <1>5

LEMMA AttachmentsAttachToVehicle ==
  ASSUME AttachInv, NEW o \in Things, NEW v \in Players, T!AttachToVehicle(o, v)
  PROVE  AttachInv'
<1> DEFINE a == T!To("vehicle", v)
<1>1. /\ o \in pool /\ attach' = [attach EXCEPT ![o] = a]
      /\ skipped' = skipped \ {o} /\ screen' = T!Restream(o, a)
      /\ UNCHANGED <<players, near, pool, owner, indexed, waiting>>
  BY DEF T!AttachToVehicle
<1>2. a \in AttachRecord /\ a.type # "player"
  BY AttachRecords
<1>3. attach'[o] = a
  BY <1>1, AttachTypes
<1>4. Careful => o \notin indexed
  BY DEF T!AttachToVehicle, AttachInv, T!IndexExact, T!OnPlayer
<1> HIDE DEF a
<1>5. /\ screen' \in AttachScreens
      /\ \A p \in Players : \A c \in Things \ {o} : screen'[p][c] = screen[p][c]
      /\ \A p \in T!Audience(o) :
           screen'[p][o] = T!CreateObjectForClient(o, a, near, players, p)
  BY <1>1, <1>2, AttachRestream
<1>6. \A p \in T!Audience(o) : AttachSeen(o, p)'
  BY <1>1, <1>2, <1>3, <1>5, AttachRestreamed
<1> QED BY <1>1, <1>2, <1>4, <1>5, <1>6, AttachTypes, AttachOne

LEMMA AttachmentsResetAttachment ==
  ASSUME AttachInv, NEW o \in Things, T!ResetAttachment(o)
  PROVE  AttachInv'
<1> DEFINE a == T!Loose
<1>1. /\ o \in pool /\ attach' = [attach EXCEPT ![o] = a]
      /\ indexed' = indexed \ {o} /\ skipped' = skipped \ {o} /\ screen' = T!Restream(o, a)
      /\ UNCHANGED <<players, near, pool, owner, waiting>>
  BY DEF T!ResetAttachment
<1>2. a \in AttachRecord /\ a.type # "player"
  BY AttachRecords
<1>3. attach'[o] = a
  BY <1>1, AttachTypes
<1> HIDE DEF a
<1>4. /\ screen' \in AttachScreens
      /\ \A p \in Players : \A c \in Things \ {o} : screen'[p][c] = screen[p][c]
      /\ \A p \in T!Audience(o) :
           screen'[p][o] = T!CreateObjectForClient(o, a, near, players, p)
  BY <1>1, <1>2, AttachRestream
<1>5. \A p \in T!Audience(o) : AttachSeen(o, p)'
  BY <1>1, <1>2, <1>3, <1>4, AttachRestreamed
<1> QED BY <1>1, <1>2, <1>4, <1>5, AttachTypes, AttachOne

LEMMA AttachmentsSetAndRestream ==
  ASSUME AttachInv, NEW o \in Things, T!SetAndRestream(o)
  PROVE  AttachInv'
<1> DEFINE a == attach[o]
<1>1. /\ o \in pool /\ screen' = T!Restream(o, a)
      /\ UNCHANGED <<players, near, pool, owner, attach, indexed, waiting, skipped>>
  BY DEF T!SetAndRestream
<1>2. a \in AttachRecord /\ attach' = [attach EXCEPT ![o] = a]
  BY <1>1, AttachTypes
<1>3. Careful => ~(a.type = "player" /\ owner[o] = Server)
  BY DEF T!SetAndRestream
<1>4. /\ screen' \in AttachScreens
      /\ \A p \in Players : \A c \in Things \ {o} : screen'[p][c] = screen[p][c]
      /\ \A p \in T!Audience(o) :
           screen'[p][o] = T!CreateObjectForClient(o, a, near, players, p)
  BY <1>1, <1>2, AttachRestream
<1>5. Careful => \A p \in T!Audience(o) : AttachSeen(o, p)'
  BY <1>1, <1>2, <1>3, <1>4, AttachRestreamed
<1>6. /\ a.type = "player" => o \in indexed
      /\ Careful => (o \in indexed => a.type = "player")
      /\ a.type = "player" => o \in skipped \/ a.id \in players
  BY <1>1 DEF AttachInv, T!IndexExact, T!NoStale, T!OnPlayer
<1> QED BY <1>1, <1>2, <1>4, <1>5, <1>6, AttachTypes, AttachOne

LEMMA AttachmentsCreate ==
  ASSUME AttachInv, NEW o \in Things, NEW s \in Players \union {Server}, T!Create(o, s)
  PROVE  AttachInv'
<1>1. /\ o \notin pool /\ s \in players \union {Server} /\ pool' = pool \union {o}
      /\ owner' = [owner EXCEPT ![o] = s]
      /\ screen' = [p \in Players |-> IF p \in (IF s = Server THEN players ELSE {s})
                      THEN [screen[p] EXCEPT ![o] = T!Loose] ELSE screen[p]]
      /\ UNCHANGED <<players, near, attach, indexed, waiting, skipped>>
  BY DEF T!Create
<1>2. /\ owner' \in [Things -> Players \union {Server}] /\ owner'[o] = s
      /\ \A c \in Things \ {o} : owner'[c] = owner[c]
  BY <1>1, AttachTypes
<1>3. /\ screen' \in AttachScreens
      /\ \A p \in Players : \A c \in Things \ {o} : screen'[p][c] = screen[p][c]
      /\ \A p \in Players : (s = Server /\ p \in players) \/ s = p => screen'[p][o] = T!Loose
  BY <1>1, AttachTypes, AttachRecords, EntitiesAssumption DEF AttachScreens
<1>4. attach[o] = T!Loose
  BY <1>1 DEF AttachInv, AttachOwned
<1>5. T!TypeOK'
  BY <1>1, <1>2 DEF AttachInv, T!TypeOK
<1>6. AttachOwned' /\ AttachLater'
  BY <1>1, <1>2, AttachTypes DEF AttachInv, AttachOwned, AttachLater
<1>7. T!IndexExact'
  BY <1>1, <1>4, AttachRecords DEF AttachInv, T!IndexExact, T!OnPlayer
<1>8. T!NoStale'
  BY <1>1, <1>2, <1>4, AttachRecords, AttachTypes DEF AttachInv, T!NoStale, T!OnPlayer
<1>9. ASSUME Careful, NEW c \in pool' \ skipped', NEW p \in T!Audience(c)'
      PROVE  AttachSeen(c, p)'
  <2>1. CASE c = o
    <3>1. p \in Players /\ ((s = Server /\ p \in players) \/ s = p)
      BY <1>1, <1>2, <2>1, AttachTypes DEF T!Audience
    <3> QED BY <1>1, <1>3, <1>4, <2>1, <3>1, AttachRecords DEF AttachSeen, T!OnPlayer
  <2>2. CASE c # o
    <3>1. c \in pool \ skipped /\ c \in Things /\ p \in T!Audience(c)
      BY <1>1, <1>2, <2>2, AttachTypes DEF T!Audience
    <3>2. p \in Players /\ AttachSeen(c, p)
      BY <1>9, <3>1, AttachAudience, AttachTypes DEF AttachInv, AttachViews
    <3> QED BY <1>1, <1>2, <1>3, <2>2, <3>1, <3>2, AttachSame
  <2> QED BY <2>1, <2>2
<1>10. Careful => AttachViews'
  BY <1>9 DEF AttachViews
<1> QED BY <1>3, <1>5, <1>6, <1>7, <1>8, <1>10 DEF AttachInv

LEMMA AttachmentsRelease ==
  ASSUME AttachInv, NEW o \in Things, T!Release(o)
  PROVE  AttachInv'
<1>1. /\ o \in pool /\ pool' = pool \ {o} /\ owner' = [owner EXCEPT ![o] = Server]
      /\ attach' = [attach EXCEPT ![o] = T!Loose]
      /\ indexed' = indexed \ {o} /\ skipped' = skipped \ {o}
      /\ waiting' = {w \in waiting : w[1] # o}
      /\ screen' = [p \in Players |-> [screen[p] EXCEPT ![o] = None]]
      /\ UNCHANGED <<players, near>>
  BY DEF T!Release
<1>2. /\ owner' \in [Things -> Players \union {Server}] /\ owner'[o] = Server
      /\ \A c \in Things \ {o} : owner'[c] = owner[c]
      /\ attach' \in [Things -> AttachRecord] /\ attach'[o] = T!Loose
      /\ \A c \in Things \ {o} : attach'[c] = attach[c]
  BY <1>1, AttachTypes, AttachRecords
<1>3. /\ screen' \in AttachScreens
      /\ \A p \in Players : \A c \in Things \ {o} : screen'[p][c] = screen[p][c]
  BY <1>1, AttachTypes DEF AttachScreens
<1>4. /\ \A c \in Things, p \in Players : <<c, p>> \in waiting' <=> <<c, p>> \in waiting /\ c # o
      /\ waiting' \subseteq (pool \ {o}) \X Players
  BY <1>1, AttachTypes
<1>5. T!TypeOK'
  BY <1>1, <1>2, <1>4, AttachTypes DEF T!TypeOK, AttachRecord
<1>6. AttachOwned' /\ AttachLater'
  BY <1>1, <1>2, <1>4, AttachTypes DEF AttachInv, AttachOwned, AttachLater
<1>7. T!IndexExact' /\ T!NoStale'
  BY <1>1, <1>2, AttachTypes DEF AttachInv, T!IndexExact, T!NoStale, T!OnPlayer
<1>8. ASSUME Careful, NEW c \in pool' \ skipped', NEW p \in T!Audience(c)'
      PROVE  AttachSeen(c, p)'
  <2>1. c \in pool \ skipped /\ c \in Things /\ c # o /\ p \in T!Audience(c)
    BY <1>1, <1>2, AttachTypes DEF T!Audience
  <2>2. p \in Players /\ AttachSeen(c, p)
    BY <1>8, <2>1, AttachAudience, AttachTypes DEF AttachInv, AttachViews
  <2>3. /\ attach'[c] = attach[c] /\ owner'[c] = owner[c] /\ screen'[p][c] = screen[p][c]
        /\ T!Sees(near', p, attach[c].id) <=> T!Sees(near, p, attach[c].id)
        /\ <<c, p>> \in waiting => <<c, p>> \in waiting'
    BY <1>1, <1>2, <1>3, <1>4, <2>1, <2>2
  <2> QED BY <2>2, <2>3, AttachSame
<1>9. Careful => AttachViews'
  BY <1>8 DEF AttachViews
<1> QED BY <1>3, <1>5, <1>6, <1>7, <1>9 DEF AttachInv

LEMMA AttachmentsWaitOver ==
  ASSUME AttachInv, NEW o \in Things, NEW q \in Players, T!WaitOver(o, q)
  PROVE  AttachInv'
<1> DEFINE a == attach[o]
<1>1. /\ <<o, q>> \in waiting /\ q \in players /\ waiting' = waiting \ {<<o, q>>}
      /\ screen' = IF a.type = "player" /\ a.id \in players /\ T!Sees(near, q, a.id)
                   THEN [screen EXCEPT ![q][o] = a] ELSE screen
      /\ UNCHANGED <<players, near, pool, owner, attach, indexed, skipped>>
  BY DEF T!WaitOver
<1>2. a \in AttachRecord /\ owner[o] = Server /\ Server \notin Players
  BY <1>1, AttachTypes, EntitiesAssumption DEF AttachInv, AttachLater
<1> HIDE DEF a
<1>3. /\ screen' \in AttachScreens
      /\ \A p \in Players, c \in Things : p # q \/ c # o => screen'[p][c] = screen[p][c]
      /\ screen'[q][o] = IF a.type = "player" /\ a.id \in players /\ T!Sees(near, q, a.id)
                         THEN a ELSE screen[q][o]
  BY <1>1, <1>2, AttachTypes DEF AttachScreens
<1>4. \A p \in Players, c \in Things : p # q \/ c # o =>
        (<<c, p>> \in waiting => <<c, p>> \in waiting')
  BY <1>1
<1>5. T!TypeOK' /\ AttachOwned' /\ AttachLater'
  BY <1>1 DEF AttachInv, T!TypeOK, AttachOwned, AttachLater
<1>6. T!IndexExact' /\ T!NoStale'
  BY <1>1 DEF AttachInv, T!IndexExact, T!NoStale, T!OnPlayer
<1>7. ASSUME Careful, NEW c \in pool' \ skipped', NEW p \in T!Audience(c)'
      PROVE  AttachSeen(c, p)'
  <2>1. /\ c \in pool \ skipped /\ c \in Things /\ p \in T!Audience(c) /\ p \in Players
        /\ p \in players /\ AttachSeen(c, p)
    BY <1>1, <1>7, AttachAudience, AttachTypes DEF T!Audience, AttachInv, AttachViews
  <2>2. T!Sees(near', p, attach[c].id) <=> T!Sees(near, p, attach[c].id)
    BY <1>1
  <2>3. CASE p # q \/ c # o
    BY <1>1, <1>3, <1>4, <2>1, <2>2, <2>3, AttachSame
  <2>4. CASE p = q /\ c = o
    <3>1. attach'[o] = a /\ owner'[o] = Server
      BY <1>1, <1>2 DEF a
    <3>2. T!Sees(near, q, a.id) => a.id \in players
      BY <1>1, AttachTypes DEF T!Sees
    <3>3. T!Sees(near', q, a.id) <=> T!Sees(near, q, a.id)
      BY <1>1
    <3>4. a.type # "player" => screen'[q][o] = a
      BY <1>1, <1>3, <2>1, <2>4 DEF AttachSeen, T!OnPlayer, a
    <3> QED BY <1>2, <1>3, <2>4, <3>1, <3>2, <3>3, <3>4 DEF AttachSeen, T!OnPlayer
  <2> QED BY <2>3, <2>4
<1>8. Careful => AttachViews'
  BY <1>7 DEF AttachViews
<1> QED BY <1>3, <1>5, <1>6, <1>8 DEF AttachInv

\* What is attached to q among what p sees is what the stream handlers look
\* at, while the index holds nothing else.
LEMMA AttachCarried ==
  ASSUME AttachInv, Careful, NEW q \in Players, NEW p \in Players,
         NEW o \in pool, p \in T!Audience(o)
  PROVE  o \in T!Carried(p, q) <=> T!OnPlayer(o) /\ attach[o].id = q
  BY DEF T!Carried, T!Audience, AttachInv, T!IndexExact, T!OnPlayer

\* Only who sees whom changed, and what one client shows.
LEMMA AttachStreamed ==
  ASSUME AttachInv, NEW p \in players, NEW v \in [Things -> AttachRecord \union {None}],
         UNCHANGED <<players, pool, owner, attach, indexed, waiting, skipped>>,
         near' \subseteq players \X players, \A q \in Players : <<q, q>> \notin near',
         \A q, r \in Players : r # p => (<<q, r>> \in near' <=> <<q, r>> \in near),
         screen' = [screen EXCEPT ![p] = v],
         Careful => \A o \in pool \ skipped : p \in T!Audience(o) => AttachSeen(o, p)'
  PROVE  AttachInv'
<1>1. /\ screen' \in AttachScreens /\ p \in Players
      /\ \A r \in Players \ {p} : screen'[r] = screen[r]
  BY AttachTypes DEF AttachScreens
<1>2. T!TypeOK' /\ AttachOwned' /\ AttachLater'
  BY DEF AttachInv, T!TypeOK, AttachOwned, AttachLater
<1>3. T!IndexExact' /\ T!NoStale'
  BY DEF AttachInv, T!IndexExact, T!NoStale, T!OnPlayer
<1>4. ASSUME Careful, NEW o \in pool' \ skipped', NEW r \in T!Audience(o)'
      PROVE  AttachSeen(o, r)'
  <2>1. o \in pool \ skipped /\ o \in Things /\ r \in T!Audience(o) /\ r \in Players
    BY AttachAudience, AttachTypes DEF T!Audience
  <2>2. CASE r = p
    BY <1>4, <2>1, <2>2
  <2>3. CASE r # p
    <3>1. AttachSeen(o, r)
      BY <1>4, <2>1 DEF AttachInv, AttachViews
    <3>2. attach[o].id \in Players \union {None}
      BY <2>1, AttachTypes DEF AttachRecord
    <3>3. T!Sees(near', r, attach[o].id) <=> T!Sees(near, r, attach[o].id)
      BY <2>1, <2>3, <3>2, AttachTypes, EntitiesAssumption DEF T!Sees
    <3>4. screen'[r][o] = screen[r][o]
      BY <1>1, <2>1, <2>3
    <3> QED BY <3>1, <3>3, <3>4, AttachSame
  <2> QED BY <2>2, <2>3
<1>5. Careful => AttachViews'
  BY <1>4 DEF AttachViews
<1> QED BY <1>1, <1>2, <1>3, <1>5 DEF AttachInv

LEMMA AttachmentsOnPlayerStreamIn ==
  ASSUME AttachInv, NEW q \in Players, NEW p \in Players, T!OnPlayerStreamIn(q, p)
  PROVE  AttachInv'
<1> DEFINE new(o) == IF o \notin T!Carried(p, q) THEN screen[p][o]
                     ELSE IF owner[o] = Server THEN attach[o]
                     ELSE T!CreateObjectForClient(o, attach[o], near', players, p)
           v == [o \in Things |-> new(o)]
<1>1. /\ p \in players /\ q \in players /\ p # q /\ near' = near \union {<<q, p>>}
      /\ UNCHANGED <<players, pool, owner, attach, indexed, waiting, skipped>>
  BY DEF T!OnPlayerStreamIn
<1>2. screen' = [screen EXCEPT ![p] = v]
  BY AttachTypes DEF T!OnPlayerStreamIn, AttachScreens
<1>3. \A o \in Things : new(o) \in AttachRecord \union {None}
  BY AttachTypes, AttachRecords DEF T!CreateObjectForClient, AttachScreens
<1>4. v \in [Things -> AttachRecord \union {None}]
  BY <1>3
<1>5. \A o \in Things : screen'[p][o] = new(o)
  BY <1>2, <1>4, AttachTypes DEF AttachScreens
<1>6. near' \subseteq players \X players /\ \A r \in Players : <<r, r>> \notin near'
  BY <1>1, AttachTypes DEF AttachInv, AttachLater
<1>7. \A r, s \in Players : s # p => (<<r, s>> \in near' <=> <<r, s>> \in near)
  BY <1>1
<1> HIDE DEF v
<1>8. ASSUME Careful, NEW o \in pool \ skipped, p \in T!Audience(o)
      PROVE  AttachSeen(o, p)'
  <2>1. o \in Things /\ attach[o] \in AttachRecord /\ attach[o] # None
    BY AttachTypes, AttachRecords
  <2>2. AttachSeen(o, p)
    BY <1>8 DEF AttachInv, AttachViews
  <2>3. o \in T!Carried(p, q) <=> T!OnPlayer(o) /\ attach[o].id = q
    BY <1>8, AttachCarried
  <2>4. CASE o \in T!Carried(p, q)
    <3>1. T!Sees(near', p, q)
      BY <1>1 DEF T!Sees
    <3>2. new(o) = attach[o]
      BY <1>1, <2>3, <2>4, <3>1 DEF T!CreateObjectForClient
    <3> HIDE DEF new
    <3> QED BY <1>1, <1>5, <2>1, <2>3, <2>4, <3>1, <3>2 DEF AttachSeen, T!OnPlayer
  <2>5. CASE o \notin T!Carried(p, q)
    <3>1. screen'[p][o] = screen[p][o]
      BY <1>5, <2>1, <2>5
    <3>2. T!OnPlayer(o) => (T!Sees(near', p, attach[o].id) <=> T!Sees(near, p, attach[o].id))
      BY <1>1, <2>3, <2>5 DEF T!Sees
    <3> QED BY <1>1, <2>2, <3>1, <3>2 DEF AttachSeen, T!OnPlayer
  <2> QED BY <2>4, <2>5
<1> QED BY <1>1, <1>2, <1>4, <1>6, <1>7, <1>8, AttachStreamed

\* A client that forgot a player forgot nothing else that it showed.
LEMMA AttachDropped ==
  ASSUME NEW p \in Players, NEW q \in Players, NEW o \in Things,
         screen[p][o] \in AttachRecord \union {None}
  PROVE  LET d == T!Dropped(screen, p, q)
         IN  /\ d[o] \in AttachRecord \union {None}
             /\ screen[p][o] # T!To("player", q) => d[o] = screen[p][o]
             /\ d[o] = None <=> screen[p][o] = None
  BY AttachRecords DEF T!Dropped

LEMMA AttachmentsOnPlayerStreamOut ==
  ASSUME AttachInv, NEW q \in Players, NEW p \in Players, T!OnPlayerStreamOut(q, p)
  PROVE  AttachInv'
<1> DEFINE new(o) == IF o \in T!Carried(p, q) /\ owner[o] = p THEN None
                     ELSE T!Dropped(screen, p, q)[o]
           v == [o \in Things |-> new(o)]
<1>1. /\ <<q, p>> \in near /\ near' = near \ {<<q, p>>}
      /\ screen' = [screen EXCEPT ![p] = v]
      /\ UNCHANGED <<players, pool, owner, attach, indexed, waiting, skipped>>
  BY DEF T!OnPlayerStreamOut
<1>2. p \in players /\ q \in players /\ p # q
  BY <1>1, AttachTypes DEF AttachInv, AttachLater
<1>3. \A o \in Things : screen[p][o] \in AttachRecord \union {None}
  BY AttachTypes DEF AttachScreens
<1>4. \A o \in Things : new(o) \in AttachRecord \union {None}
  BY <1>3, AttachDropped
<1>5. v \in [Things -> AttachRecord \union {None}]
  BY <1>4
<1>6. \A o \in Things : screen'[p][o] = new(o)
  BY <1>1, <1>5, AttachTypes DEF AttachScreens
<1>7. near' \subseteq players \X players /\ \A r \in Players : <<r, r>> \notin near'
  BY <1>1, AttachTypes DEF AttachInv, AttachLater
<1>8. \A r, s \in Players : s # p => (<<r, s>> \in near' <=> <<r, s>> \in near)
  BY <1>1
<1> HIDE DEF v
<1>9. ASSUME Careful, NEW o \in pool \ skipped, p \in T!Audience(o)
      PROVE  AttachSeen(o, p)'
  <2>1. o \in Things /\ attach[o] \in AttachRecord /\ attach[o] # None
    BY AttachTypes, AttachRecords
  <2>2. AttachSeen(o, p)
    BY <1>9 DEF AttachInv, AttachViews
  <2>3. o \in T!Carried(p, q) <=> T!OnPlayer(o) /\ attach[o].id = q
    BY <1>9, AttachCarried
  <2>4. ~T!Sees(near', p, q) /\ \A r : r # q => (T!Sees(near', p, r) <=> T!Sees(near, p, r))
    BY <1>1, <1>2 DEF T!Sees
  <2>5. CASE o \in T!Carried(p, q) /\ owner[o] = p
    <3>1. screen'[p][o] = None
      BY <1>6, <2>1, <2>5
    <3> QED BY <1>1, <2>1, <2>3, <2>4, <2>5, <3>1 DEF AttachSeen, T!OnPlayer
  <2>6. CASE ~(o \in T!Carried(p, q) /\ owner[o] = p)
    <3>1. /\ screen[p][o] # T!To("player", q) => screen'[p][o] = screen[p][o]
          /\ screen'[p][o] = None <=> screen[p][o] = None
      BY <1>3, <1>6, <2>1, <2>6, AttachDropped
    <3>2. CASE T!OnPlayer(o) /\ attach[o].id = q
      BY <1>1, <2>3, <2>4, <2>6, <3>2 DEF AttachSeen, T!OnPlayer
    <3>3. CASE T!OnPlayer(o) /\ attach[o].id # q
      <4>1. attach[o] # T!To("player", q)
        BY <3>3 DEF T!To
      <4> QED BY <1>1, <2>2, <2>4, <3>1, <3>3, <4>1 DEF AttachSeen, T!OnPlayer
    <3>4. CASE ~T!OnPlayer(o)
      <4>1. attach[o] # T!To("player", q)
        BY <3>4, AttachRecords DEF T!OnPlayer
      <4> QED BY <1>1, <2>2, <3>1, <3>4, <4>1 DEF AttachSeen, T!OnPlayer
    <3> QED BY <3>2, <3>3, <3>4
  <2> QED BY <2>5, <2>6
<1> QED BY <1>1, <1>2, <1>5, <1>7, <1>8, <1>9, AttachStreamed

LEMMA AttachmentsOnPlayerSpawn ==
  ASSUME AttachInv, NEW q \in Players, T!OnPlayerSpawn(q)
  PROVE  AttachInv'
<1> DEFINE W == {o \in pool : owner[o] = Server /\ attach[o] = T!To("player", q)}
<1>1. /\ attach' = [o \in Things |-> IF o \in W THEN T!Loose ELSE attach[o]]
      /\ indexed' = indexed \ W /\ skipped' = skipped \ W
      /\ screen' = [p \in Players |-> IF p \in players
           THEN [o \in Things |-> IF o \in W THEN T!Loose ELSE screen[p][o]]
           ELSE screen[p]]
      /\ UNCHANGED <<players, near, pool, owner, waiting>>
  BY DEF T!OnPlayerSpawn
<1>2. W \subseteq pool /\ \A o \in W : owner[o] = Server
  OBVIOUS
<1> HIDE DEF W
<1>3. /\ attach' \in [Things -> AttachRecord]
      /\ \A o \in Things : attach'[o] = IF o \in W THEN T!Loose ELSE attach[o]
  BY <1>1, AttachTypes, AttachRecords
<1>4. /\ screen' \in AttachScreens
      /\ \A p \in players, o \in Things :
           screen'[p][o] = IF o \in W THEN T!Loose ELSE screen[p][o]
  BY <1>1, AttachTypes, AttachRecords DEF AttachScreens
<1>5. T!TypeOK'
  BY <1>1, <1>3, AttachTypes DEF T!TypeOK, AttachRecord
<1>6. AttachOwned' /\ AttachLater'
  BY <1>1, <1>2, <1>3 DEF AttachInv, AttachOwned, AttachLater
<1>7. T!IndexExact' /\ T!NoStale'
  <2>1. \A o \in Things : attach'[o].type = "player" <=> attach[o].type = "player" /\ o \notin W
    BY <1>3, AttachRecords
  <2>2. \A o \in Things : o \notin W => attach'[o] = attach[o]
    BY <1>3
  <2>3. T!IndexExact'
    BY <1>1, <2>1, AttachTypes DEF AttachInv, T!IndexExact, T!OnPlayer
  <2>4. T!NoStale'
    <3>1. ASSUME NEW o \in pool \ skipped'
          PROVE  /\ owner[o] \in players \union {Server}
                 /\ attach'[o].type = "player" => attach'[o].id \in players
      <4>1. o \in Things /\ owner[o] \in players \union {Server}
        BY AttachTypes DEF AttachInv, AttachOwned
      <4>2. o \notin W => o \notin skipped
        BY <1>1
      <4> QED BY <2>1, <2>2, <4>1, <4>2 DEF AttachInv, T!NoStale, T!OnPlayer
    <3> QED BY <1>1, <3>1 DEF T!NoStale, T!OnPlayer
  <2> QED BY <2>3, <2>4
<1>8. ASSUME Careful, NEW o \in pool' \ skipped', NEW p \in T!Audience(o)'
      PROVE  AttachSeen(o, p)'
  <2>1. o \in pool /\ o \in Things /\ p \in T!Audience(o) /\ p \in players
    BY <1>1, AttachAudience DEF T!Audience
  <2>2. CASE o \in W
    <3>1. attach'[o] = T!Loose /\ screen'[p][o] = T!Loose /\ owner'[o] = Server /\ p # Server
      BY <1>1, <1>2, <1>3, <1>4, <2>1, <2>2, AttachAudience
    <3> QED BY <3>1, AttachRecords DEF AttachSeen, T!OnPlayer
  <2>3. CASE o \notin W
    <3>1. AttachSeen(o, p)
      BY <1>1, <1>8, <2>1, <2>3 DEF AttachInv, AttachViews
    <3>2. T!Sees(near', p, attach[o].id) <=> T!Sees(near, p, attach[o].id)
      BY <1>1
    <3>3. attach'[o] = attach[o] /\ owner'[o] = owner[o] /\ screen'[p][o] = screen[p][o]
      BY <1>1, <1>3, <1>4, <2>1, <2>3
    <3> QED BY <1>1, <3>1, <3>2, <3>3, AttachSame
  <2> QED BY <2>2, <2>3
<1>9. Careful => AttachViews'
  BY <1>8 DEF AttachViews
<1> QED BY <1>4, <1>5, <1>6, <1>7, <1>9 DEF AttachInv

LEMMA AttachmentsConnect ==
  ASSUME AttachInv, NEW p \in Players, T!Connect(p)
  PROVE  AttachInv'
<1> DEFINE G == {o \in pool : owner[o] = Server}
           new(o) == IF o \notin G THEN None
                     ELSE T!CreateObjectForClient(o, attach[o], near, players', p)
           v == [o \in Things |-> new(o)]
<1>1. /\ p \notin players /\ players' = players \union {p}
      /\ screen' = [screen EXCEPT ![p] = v]
      /\ waiting' = waiting \union {<<o, p>> : o \in {g \in G : attach[g].type = "player"}}
      /\ UNCHANGED <<near, pool, owner, attach, indexed, skipped>>
  BY DEF T!Connect
<1>2. \A o \in Things : new(o) \in AttachRecord \union {None}
  BY AttachTypes, AttachRecords DEF T!CreateObjectForClient
<1>3. v \in [Things -> AttachRecord \union {None}] /\ \A o \in Things : v[o] = new(o)
  BY <1>2
<1> HIDE DEF v
<1>4. /\ screen' \in AttachScreens /\ \A o \in Things : screen'[p][o] = new(o)
      /\ \A r \in Players \ {p} : screen'[r] = screen[r]
  BY <1>1, <1>3, AttachTypes DEF AttachScreens
<1>5. /\ \A o, r : <<o, r>> \in waiting => <<o, r>> \in waiting'
      /\ \A o \in G : attach[o].type = "player" => <<o, p>> \in waiting'
      /\ waiting' \subseteq pool \X Players
      /\ \A o \in Things, r \in Players : <<o, r>> \in waiting' => owner[o] = Server
  <2>1. \A o \in Things, r \in Players : <<o, r>> \in waiting => owner[o] = Server
    BY DEF AttachInv, AttachLater
  <2> QED BY <1>1, <2>1, AttachTypes
<1>6. T!TypeOK'
  BY <1>1, <1>5, AttachTypes DEF T!TypeOK, AttachRecord
<1>7. AttachOwned' /\ AttachLater'
  BY <1>1, <1>5 DEF AttachInv, AttachOwned, AttachLater
<1>8. T!IndexExact' /\ T!NoStale'
  BY <1>1 DEF AttachInv, T!IndexExact, T!NoStale, T!OnPlayer
<1>9. ASSUME Careful, NEW o \in pool' \ skipped', NEW r \in T!Audience(o)'
      PROVE  AttachSeen(o, r)'
  <2>1. o \in pool /\ o \in Things /\ owner[o] \in players \union {Server}
    BY <1>1, AttachTypes DEF AttachInv, AttachOwned
  <2>2. CASE r = p
    <3>1. owner[o] = Server /\ o \in G /\ owner'[o] # r
      BY <1>1, <2>1, <2>2, EntitiesAssumption DEF T!Audience
    <3>2. new(o) = IF attach[o].type = "player" THEN T!Loose ELSE attach[o]
      BY <3>1 DEF T!CreateObjectForClient
    <3> HIDE DEF new, G
    <3> QED BY <1>1, <1>4, <1>5, <2>1, <2>2, <3>1, <3>2 DEF AttachSeen, T!OnPlayer
  <2>3. CASE r # p
    <3>1. r \in T!Audience(o) /\ r \in Players
      BY <1>1, <2>1, <2>3, AttachTypes DEF T!Audience
    <3>2. AttachSeen(o, r)
      BY <1>1, <1>9, <3>1 DEF AttachInv, AttachViews
    <3>3. T!Sees(near', r, attach[o].id) <=> T!Sees(near, r, attach[o].id)
      BY <1>1
    <3>4. screen'[r][o] = screen[r][o]
      BY <1>4, <2>3, <3>1
    <3> QED BY <1>1, <1>5, <3>2, <3>3, <3>4, AttachSame
  <2> QED BY <2>2, <2>3
<1>10. Careful => AttachViews'
  BY <1>9 DEF AttachViews
<1> QED BY <1>4, <1>6, <1>7, <1>8, <1>10 DEF AttachInv

LEMMA AttachmentsDisconnect ==
  ASSUME AttachInv, NEW q \in Players, T!Disconnect(q)
  PROVE  AttachInv'
<1> DEFINE own == {o \in pool : owner[o] = q}
<1>1. PICK R \in SUBSET T!Fallen(q) :
        /\ attach' = [o \in Things |-> IF o \in R \union own THEN T!Loose ELSE attach[o]]
        /\ indexed' = indexed \ (R \union own)
        /\ skipped' = (skipped \union T!Fallen(q)) \ (R \union own)
        /\ screen' = [p \in Players |->
             IF p = q THEN [o \in Things |-> None]
             ELSE [o \in Things |-> IF o \in R /\ p \in T!Audience(o) THEN T!Loose
                                    ELSE T!Dropped(screen, p, q)[o]]]
        /\ pool' = pool \ own
        /\ owner' = [o \in Things |-> IF o \in own THEN Server ELSE owner[o]]
        /\ near' = {pair \in near : q \notin {pair[1], pair[2]}}
  BY DEF T!Disconnect
<1>2. q \in players /\ players' = players \ {q} /\ waiting' = waiting /\ q # Server
  BY EntitiesAssumption DEF T!Disconnect
<1>3. /\ T!Fallen(q) \subseteq pool \ own /\ R \subseteq pool \ own
      /\ \A o \in indexed \ own : attach[o].id = q => o \in T!Fallen(q)
      /\ \A o \in Things \ own : owner[o] # q
  <2>1. \A o \in indexed : o \in pool
    BY AttachTypes
  <2>2. T!Fallen(q) = {o \in indexed : attach[o].id = q /\ owner[o] # q}
    BY DEF T!Fallen
  <2>3. \A o \in Things \ own : owner[o] # q
    BY <1>2 DEF AttachInv, AttachOwned
  <2>4. T!Fallen(q) \subseteq pool \ own
    BY <2>1, <2>2
  <2> QED BY <2>1, <2>2, <2>3, <2>4
<1> HIDE DEF own
<1>4. /\ attach' \in [Things -> AttachRecord]
      /\ \A o \in Things : attach'[o] = IF o \in R \union own THEN T!Loose ELSE attach[o]
      /\ owner' \in [Things -> Players \union {Server}]
      /\ \A o \in Things : owner'[o] = IF o \in own THEN Server ELSE owner[o]
  BY <1>1, AttachTypes, AttachRecords
<1>5. /\ near' \subseteq players' \X players'
      /\ \A r, s : r # q /\ s # q => (<<r, s>> \in near' <=> <<r, s>> \in near)
      /\ \A r : <<r, r>> \in near' => <<r, r>> \in near
  BY <1>1, <1>2, AttachTypes
<1>6. \A p \in Players, o \in Things : screen[p][o] \in AttachRecord \union {None}
  BY AttachTypes DEF AttachScreens
<1>7. \A p \in Players, o \in Things :
        T!Dropped(screen, p, q)[o] \in AttachRecord \union {None}
  BY <1>6, AttachDropped
<1>8. \A p \in Players, o \in Things : screen'[p][o] =
        IF p = q THEN None
        ELSE IF o \in R /\ p \in T!Audience(o) THEN T!Loose ELSE T!Dropped(screen, p, q)[o]
  BY <1>1
<1>9. screen' \in AttachScreens
  BY <1>1, <1>7, AttachRecords DEF AttachScreens
<1>10. waiting' \subseteq pool' \X Players
  <2>1. \A o \in pool, p \in Players : <<o, p>> \in waiting => o \notin own
    BY <1>2, AttachTypes DEF AttachInv, AttachLater, own
  <2> QED BY <1>1, <1>2, <2>1, AttachTypes
<1>11. T!TypeOK'
  BY <1>1, <1>2, <1>3, <1>4, <1>5, <1>10, AttachTypes DEF T!TypeOK, AttachRecord
<1>12. AttachOwned'
  BY <1>1, <1>2, <1>3, <1>4, AttachTypes DEF AttachInv, AttachOwned
<1>13. AttachLater'
  BY <1>2, <1>4, <1>5 DEF AttachInv, AttachLater
<1>14. T!IndexExact'
  BY <1>1, <1>3, <1>4, AttachTypes, AttachRecords DEF AttachInv, T!IndexExact, T!OnPlayer
<1>15. ASSUME NEW o \in pool' \ skipped'
       PROVE  /\ o \in Things /\ o \notin own /\ o \in pool
              /\ o \notin R => o \notin skipped /\ (T!OnPlayer(o) => attach[o].id # q)
  BY <1>1, <1>3, AttachTypes DEF AttachInv, T!IndexExact, T!OnPlayer
<1>16. T!NoStale'
  <2>1. ASSUME NEW o \in pool' \ skipped'
        PROVE  /\ owner'[o] \in players' \union {Server}
               /\ attach'[o].type = "player" => attach'[o].id \in players'
    <3>1. owner'[o] \in players' \union {Server}
      BY <1>12 DEF AttachOwned
    <3>2. CASE o \in R
      BY <1>4, <1>15, <3>1, <3>2, AttachRecords
    <3>3. CASE o \notin R
      BY <1>2, <1>4, <1>15, <3>1, <3>3 DEF AttachInv, T!NoStale, T!OnPlayer
    <3> QED BY <3>2, <3>3
  <2> QED BY <2>1 DEF T!NoStale, T!OnPlayer
<1>17. ASSUME Careful, NEW o \in pool' \ skipped', NEW p \in T!Audience(o)'
       PROVE  AttachSeen(o, p)'
  <2>1. o \in Things /\ o \notin own /\ o \in pool /\ owner'[o] = owner[o]
    BY <1>4, <1>15
  <2>2. p \in Players /\ p # q /\ p \in T!Audience(o)
    BY <1>2, <1>3, <2>1, AttachTypes, AttachAudience DEF T!Audience
  <2>3. CASE o \in R
    <3>1. attach'[o] = T!Loose /\ screen'[p][o] = T!Loose
      BY <1>4, <1>8, <2>1, <2>2, <2>3
    <3> QED BY <3>1, AttachRecords DEF AttachSeen, T!OnPlayer
  <2>4. CASE o \notin R
    <3>1. AttachSeen(o, p) /\ attach'[o] = attach[o]
      BY <1>4, <1>15, <1>17, <2>1, <2>2, <2>4 DEF AttachInv, AttachViews
    <3>2. attach[o] # T!To("player", q)
      BY <1>15, <2>4, AttachRecords DEF T!OnPlayer
    <3>3. /\ screen[p][o] # T!To("player", q) => screen'[p][o] = screen[p][o]
          /\ screen'[p][o] = None <=> screen[p][o] = None
      BY <1>6, <1>8, <2>1, <2>2, <2>4, AttachDropped
    <3>4. T!OnPlayer(o) => (T!Sees(near', p, attach[o].id) <=> T!Sees(near, p, attach[o].id))
      BY <1>5, <1>15, <2>2, <2>4 DEF T!Sees
    <3> QED BY <1>2, <2>1, <3>1, <3>2, <3>3, <3>4 DEF AttachSeen, T!OnPlayer
  <2> QED BY <2>3, <2>4
<1>18. Careful => AttachViews'
  BY <1>17 DEF AttachViews
<1> QED BY <1>9, <1>11, <1>12, <1>13, <1>14, <1>16, <1>18 DEF AttachInv

LEMMA AttachmentsStutter == ASSUME AttachInv, UNCHANGED vars PROVE AttachInv'
  BY DEF vars, AttachInv, T!TypeOK, AttachOwned, AttachLater, T!IndexExact, T!NoStale,
         AttachViews, AttachSeen, T!OnPlayer, T!Audience, T!Sees

LEMMA AttachmentsInit == ASSUME T!Init PROVE AttachInv
<1>1. /\ players = {} /\ near = {} /\ pool = {} /\ indexed = {} /\ waiting = {}
      /\ skipped = {} /\ owner = [o \in Things |-> Server]
      /\ attach = [o \in Things |-> T!Loose]
      /\ screen = [p \in Players |-> [o \in Things |-> None]]
  BY DEF T!Init
<1>2. T!Loose \in AttachRecord /\ screen \in AttachScreens
  BY <1>1 DEF T!Loose, AttachRecord, AttachScreens
<1>3. T!TypeOK /\ AttachOwned /\ AttachLater
  BY <1>1, <1>2 DEF T!TypeOK, AttachRecord, AttachOwned, AttachLater
<1> QED BY <1>1, <1>2, <1>3 DEF AttachInv, AttachViews, T!IndexExact, T!NoStale

LEMMA AttachmentsStep ==
  ASSUME AttachInv, T!Next
  PROVE  AttachInv'
<1>1. CASE \E o \in Things : T!Release(o) \/ T!ResetAttachment(o) \/ T!SetAndRestream(o)
  BY <1>1, AttachmentsRelease, AttachmentsResetAttachment, AttachmentsSetAndRestream
<1>2. CASE \E o \in Things, s \in Players \union {Server} : T!Create(o, s)
  BY <1>2, AttachmentsCreate
<1>3. CASE \E o \in Things, q \in Players :
             T!AttachToPlayer(o, q) \/ T!AttachToVehicle(o, q) \/ T!WaitOver(o, q)
  BY <1>3, AttachmentsAttachToPlayer, AttachmentsAttachToVehicle, AttachmentsWaitOver
<1>4. CASE \E q \in Players : T!Connect(q) \/ T!Disconnect(q) \/ T!OnPlayerSpawn(q)
  BY <1>4, AttachmentsConnect, AttachmentsDisconnect, AttachmentsOnPlayerSpawn
<1>5. CASE \E q, p \in Players : T!OnPlayerStreamIn(q, p) \/ T!OnPlayerStreamOut(q, p)
  BY <1>5, AttachmentsOnPlayerStreamIn, AttachmentsOnPlayerStreamOut
<1> QED BY <1>1, <1>2, <1>3, <1>4, <1>5 DEF T!Next

\* What the invariant of the attached objects says of them.
LEMMA AttachmentsImply ==
  ASSUME AttachInv
  PROVE  /\ T!TypeOK /\ T!NoStale /\ T!IndexExact
         /\ Careful => T!ViewExact
<1>1. ASSUME Careful, NEW o \in pool \ skipped, NEW p \in T!Audience(o)
      PROVE  AttachSeen(o, p)
  BY <1>1 DEF AttachInv, AttachViews
<1>2. Careful => T!ViewExact
  BY <1>1 DEF AttachSeen, T!ViewExact
<1> QED BY <1>2 DEF AttachInv

-----------------------------------------------------------------------------
(* The run: one component at a time                                         *)

\* The inductive invariant: the one of the component that the behaviour is of.
Inv ==
    /\ component \in {"zones", "pickups", "labels", "actors", "draws",
                      "menus", "objects", "moves", "attachments"}
    /\ component = "zones" => ZoneInv
    /\ component = "pickups" => PickupInv
    /\ component = "labels" => LabelInv
    /\ component = "actors" => ActorInv
    /\ component = "draws" => DrawInv
    /\ component = "menus" => MenuInv
    /\ component = "objects" => ObjectInv
    /\ component = "moves" => MoveInv
    /\ component = "attachments" => AttachInv

LEMMA InitInv == Init => Inv
  BY ZonesInit, PickupsInit, LabelsInit, ActorsInit, DrawsInit, MenusInit,
     ObjectsInit, MovesInit, AttachmentsInit DEF Init, Inv

LEMMA NextInv == Inv /\ [Next]_vars => Inv'
<1> SUFFICES ASSUME Inv, [Next]_vars PROVE Inv'
  OBVIOUS
<1>1. CASE UNCHANGED vars
  <2>1. component' = component
    BY <1>1 DEF vars
  <2> QED BY <1>1, <2>1, ZonesStutter, PickupsStutter, LabelsStutter, ActorsStutter,
             DrawsStutter, MenusStutter, ObjectsStutter, MovesStutter,
             AttachmentsStutter DEF Inv
<1>2. CASE component = "zones" /\ Z!Next /\ component' = component
  BY <1>2, ZonesStep DEF Inv
<1>3. CASE component = "pickups" /\ P!Next /\ component' = component
  BY <1>3, PickupsStep DEF Inv
<1>4. CASE component = "labels" /\ L!Next /\ component' = component
  BY <1>4, LabelsStep DEF Inv
<1>5. CASE component = "actors" /\ A!Next /\ component' = component
  BY <1>5, ActorsStep DEF Inv
<1>6. CASE component = "draws" /\ D!Next /\ component' = component
  BY <1>6, DrawsStep DEF Inv
<1>7. CASE component = "menus" /\ M!Next /\ component' = component
  BY <1>7, MenusStep DEF Inv
<1>8. CASE component = "objects" /\ O!Next /\ component' = component
  BY <1>8, ObjectsStep DEF Inv
<1>9. CASE component = "moves" /\ V!Next /\ component' = component
  BY <1>9, MovesStep DEF Inv
<1>10. CASE component = "attachments" /\ T!Next /\ component' = component
  BY <1>10, AttachmentsStep DEF Inv
<1> QED BY <1>1, <1>2, <1>3, <1>4, <1>5, <1>6, <1>7, <1>8, <1>9, <1>10 DEF Next

\* Inv is an invariant of every behaviour, scripts careful or not.
THEOREM EntitiesInvariant == Spec => []Inv
  BY InitInv, NextInv, PTL DEF Spec

\* Every component is well typed: the ids of a client are free or of things,
\* what a handler will visit next is there, and the per-player counts of a
\* global object's id stay within the number of objects.
THEOREM EntitiesTyped == Spec => []TypeOK
<1>1. Inv => TypeOK
  BY ZonesImply, PickupsImply, ObjectsImply DEF Inv, TypeOK, LabelInv, ActorInv, DrawInv, MenuInv,
     MoveInv, AttachInv
<1> QED BY <1>1, EntitiesInvariant, PTL

\* No component keeps anything of a player that left the pool, in whatever
\* order it leaves, its callbacks return and what it owned is released; the
\* attachments that the loop of a leaving player passes over apart.
THEOREM NobodyStale == Spec => []NoStale
<1>1. Inv => NoStale
  BY DEF Inv, NoStale, ZoneInv, PickupInv, LabelInv, ActorInv, DrawInv, MenuInv,
     ObjectInv, AttachInv
<1> QED BY <1>1, EntitiesInvariant, PTL

\* What a component keeps beside its entities agrees with them: the counters
\* that the streaming limit and the object slots go by, the objects that the
\* tick advances and those that are attached to players.
THEOREM CountsExact == Spec => []CountExact
<1>1. Inv => CountExact
  BY ActorsImply, ObjectsImply, MovesImply, AttachmentsImply DEF Inv, CountExact
<1> QED BY <1>1, EntitiesInvariant, PTL

\* Of the components whose scripts need no care, a client shows exactly what
\* the server has it down for.
THEOREM ViewsExactAnyhow ==
  Spec => [](component \notin {"objects", "moves", "attachments"} => ViewExact)
<1>1. Inv => (component \notin {"objects", "moves", "attachments"} => ViewExact)
  BY ZonesImply, PickupsImply, LabelsImply, ActorsImply, DrawsImply, MenusImply
  DEF Inv, ViewExact
<1> QED BY <1>1, EntitiesInvariant, PTL

\* With scripts that keep off the ids of others' objects, and do not change
\* what is being sent, that is so of every component.
THEOREM ViewsExact == Careful /\ Spec => []ViewExact
<1>1. CASE Careful
  <2>1. Inv => ViewExact
    BY <1>1, ZonesImply, PickupsImply, LabelsImply, ActorsImply, DrawsImply, MenusImply,
       ObjectsImply, MovesImply, AttachmentsImply DEF Inv, ViewExact
  <2> QED BY <2>1, EntitiesInvariant, PTL
<1>2. CASE ~Careful
  BY <1>2
<1> QED BY <1>1, <1>2

\* A legacy id leads to one zone or pickup of its owner's that was not
\* released, and all that scripts can use have one, whatever scripts do.
THEOREM LegacyIdsExact == Spec => [](component # "objects" => IdsExact)
<1>1. Inv => (component # "objects" => IdsExact)
  BY ZonesImply, PickupsImply DEF Inv, IdsExact
<1> QED BY <1>1, EntitiesInvariant, PTL

\* No client is shown two objects under one id, with careful scripts.
THEOREM IdsAreExact == Careful /\ Spec => []IdsExact
<1>1. CASE Careful
  <2>1. Inv => IdsExact
    BY <1>1, ZonesImply, PickupsImply, ObjectsImply DEF Inv, IdsExact
  <2> QED BY <2>1, EntitiesInvariant, PTL
<1>2. CASE ~Careful
  BY <1>2
<1> QED BY <1>1, <1>2
=============================================================================
