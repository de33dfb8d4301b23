--------------------------- MODULE VehiclesProofs ---------------------------
(***************************************************************************)
(* What the run vehicles checks for two players and two vehicles, for any  *)
(* number of both: the pointers between players and vehicles agree and     *)
(* lead to players and vehicles that exist, as long as no vehicle is       *)
(* released by a callback whose handler goes on to use it.                 *)
(*                                                                         *)
(* The invariant IInv adds to TypeOK, OccupantsKnown and VehicleAlive that *)
(* only the vehicle of the handler in progress is doomed, and in no data   *)
(* of a player, and that the handler works on a player that is connected   *)
(* and a vehicle that is in the pool.                                      *)
(***************************************************************************)
EXTENDS Vehicles, FiniteSetTheorems, TLAPS

Occupants == [driver : Players \union {None}, passengers : SUBSET Players,
              been : BOOLEAN]
Links     == [trailer : Objects \union {None}, cab : Objects \union {None},
              detaching : BOOLEAN]
Rides     == [vehicle : Objects \union {None}, seat : Seats]

\* Occupants, data and pool, and how they agree.
Seated ==
    /\ pool \subseteq Objects
    /\ doomed \subseteq Objects
    /\ players \subseteq Players
    /\ occ \in [Objects -> Occupants]
    /\ ride \in [Players -> Rides]
    /\ OccupantsKnown
    /\ VehicleAlive
    /\ \A p \in Players : ride[p].vehicle \notin doomed

\* The rest of the state.
RestOK ==
    /\ doomed \subseteq pool
    /\ link \in [Objects -> Links]
    /\ death \in [Objects -> {"alive", "dying", "dead"}]
    /\ respawning \subseteq pool
    /\ streamedFor \in [Objects -> SUBSET players]
    /\ numStreamed \in [Players -> Int]
    /\ state \in [Players -> States]

\* The handler in progress works on what exists.
AtOK ==
    /\ at \in Positions
    /\ at.op \in {"siren", "keys", "update", "stream", "death"} =>
         at.who \in players
    /\ at.op \in {"siren", "killed", "unoccupied"} => at.veh \in pool
    /\ at.trailer # None => at.op = "siren"
    /\ doomed \subseteq {at.veh}
    /\ doomed # {} => at.op \in {"rpc", "keys", "update", "stream"}

IInv == Seated /\ RestOK /\ AtOK

\* No vehicle is released by a callback of the siren or of an unoccupied
\* vehicle's packet, after which the handler seats a driver in it or takes it
\* off its cab, or by the callback of its death, after which the tick reads it.
Spared == ReleaseIn \intersect {"siren", "unoccupied", "killed"} = {}

-----------------------------------------------------------------------------
(* Operators                                                                *)

\* unoccupy takes a player out of every vehicle: no other has it.
LEMMA LeaveEverywhere ==
  ASSUME Seated, NEW p \in players
  PROVE  /\ Leave(occ, p) \in [Objects -> Occupants]
         /\ \A v \in Objects \ doomed :
              /\ Leave(occ, p)[v].driver =
                   IF occ[v].driver = p THEN None ELSE occ[v].driver
              /\ Leave(occ, p)[v].passengers = occ[v].passengers \ {p}
<1> USE VehiclesAssumption DEF Seated
<1>1. p \in Players /\ p # None
  OBVIOUS
<1>2. \A v \in Objects \ (doomed \union {ride[p].vehicle}) :
        occ[v].driver # p /\ p \notin occ[v].passengers
  BY DEF OccupantsKnown
<1>3. CASE ride[p].vehicle = None
  BY <1>1, <1>2, <1>3 DEF Leave, Occupants
<1>4. CASE ride[p].vehicle # None
  <2> DEFINE u == ride[p].vehicle
             o == occ[u]
             n == IF o.driver = p THEN [o EXCEPT !.driver = None, !.been = TRUE]
                  ELSE [o EXCEPT !.passengers = @ \ {p}, !.been = TRUE]
  <2>1. u \in Objects \ doomed
    BY <1>1, <1>4 DEF Rides
  <2>2. o \in Occupants
    BY <2>1
  <2>3. Leave(occ, p) = [occ EXCEPT ![u] = n]
    BY <1>4 DEF Leave
  <2>4. /\ n \in Occupants
        /\ n.driver = IF o.driver = p THEN None ELSE o.driver
    BY <1>1, <2>2 DEF Occupants
  <2>5. n.passengers = o.passengers \ {p}
    <3>1. o.driver = p => p \notin o.passengers
      BY <2>1 DEF OccupantsKnown
    <3> QED BY <2>2, <3>1 DEF Occupants
  <2> HIDE DEF n
  <2>6. \A v \in Objects :
          Leave(occ, p)[v] = IF v = u THEN n ELSE occ[v]
    BY <2>1, <2>3
  <2>7. Leave(occ, p) \in [Objects -> Occupants]
    BY <2>1, <2>3, <2>4
  <2> QED BY <1>2, <2>4, <2>5, <2>6, <2>7
<1> QED BY <1>3, <1>4

\* A player that steps out sits nowhere.
LEMMA StepOutOK ==
  ASSUME Seated, NEW p \in players, StepOut(p), UNCHANGED <<pool, doomed>>,
         players' = players \/ players' = players \ {p}
  PROVE  Seated'
<1> USE VehiclesAssumption
<1>1. /\ occ' \in [Objects -> Occupants]
      /\ \A v \in Objects \ doomed :
           /\ occ'[v].driver = IF occ[v].driver = p THEN None ELSE occ[v].driver
           /\ occ'[v].passengers = occ[v].passengers \ {p}
  BY LeaveEverywhere DEF StepOut
<1>2. /\ ride' \in [Players -> Rides]
      /\ \A q \in Players : ride'[q] = IF q = p THEN NoRide ELSE ride[q]
  BY DEF StepOut, Seated, Rides, NoRide, Seats, NoSeat
<1>3. OccupantsKnown'
  <2> SUFFICES ASSUME NEW v \in Objects \ doomed
               PROVE  /\ occ'[v].driver # None => ride'[occ'[v].driver].vehicle = v
                      /\ \A q \in occ'[v].passengers : ride'[q].vehicle = v
                      /\ occ'[v].driver \notin occ'[v].passengers
                      /\ ({occ'[v].driver} \ {None}) \union occ'[v].passengers
                           \subseteq players'
    BY DEF OccupantsKnown
  <2>1. /\ occ[v].driver # None => ride[occ[v].driver].vehicle = v
        /\ \A q \in occ[v].passengers : ride[q].vehicle = v
        /\ occ[v].driver \notin occ[v].passengers
        /\ ({occ[v].driver} \ {None}) \union occ[v].passengers \subseteq players
    BY DEF Seated, OccupantsKnown
  <2>2. players \subseteq Players
    BY DEF Seated
  <2> QED BY <1>1, <1>2, <2>1, <2>2
<1>4. VehicleAlive'
  BY <1>2 DEF Seated, VehicleAlive, NoRide
<1>5. players' \subseteq Players
  BY DEF Seated
<1>6. \A q \in Players : ride'[q].vehicle \notin doomed'
  <2>1. None \notin doomed
    BY DEF Seated
  <2> QED BY <1>2, <2>1 DEF Seated, NoRide
<1> QED BY <1>1, <1>2, <1>3, <1>4, <1>5, <1>6 DEF Seated

\* A player that is out of every vehicle and takes the wheel of one.
LEMMA TakeWheelOK ==
  ASSUME Seated, NEW p \in players, NEW v \in pool \ doomed,
         occ' = TakeWheel(v, p),
         ride' = [ride EXCEPT ![p] = [vehicle |-> v, seat |-> 0]],
         UNCHANGED <<pool, doomed, players>>
  PROVE  Seated'
<1> USE VehiclesAssumption
<1> DEFINE L == Leave(occ, p)
<1>1. /\ L \in [Objects -> Occupants]
      /\ \A u \in Objects \ doomed :
           /\ L[u].driver = IF occ[u].driver = p THEN None ELSE occ[u].driver
           /\ L[u].passengers = occ[u].passengers \ {p}
  BY LeaveEverywhere
<1>2. p \in Players /\ p # None /\ v \in Objects /\ v # None
  BY DEF Seated
<1>3. occ' = [L EXCEPT ![v].driver = p, ![v].been = TRUE]
  BY DEF TakeWheel
<1> HIDE DEF L
<1>4. occ' \in [Objects -> Occupants]
  <2>1. L \in [Objects -> Occupants] /\ p \in Players /\ v \in Objects
    BY <1>1, <1>2
  <2> QED BY ONLY <1>3, <2>1 DEF Occupants
<1>5. \A u \in Objects \ doomed :
        /\ occ'[u].driver = IF u = v THEN p
                            ELSE IF occ[u].driver = p THEN None ELSE occ[u].driver
        /\ occ'[u].passengers = occ[u].passengers \ {p}
  BY <1>1, <1>2, <1>3 DEF Occupants
<1>6. /\ ride' \in [Players -> Rides]
      /\ \A q \in Players : ride'[q].vehicle = IF q = p THEN v ELSE ride[q].vehicle
  BY <1>2 DEF Seated, Rides, Seats, NoSeat
<1>7. OccupantsKnown'
  BY <1>2, <1>5, <1>6 DEF Seated, OccupantsKnown
<1>8. VehicleAlive'
  BY <1>6 DEF Seated, VehicleAlive
<1> QED BY <1>4, <1>6, <1>7, <1>8 DEF Seated

\* A player put in a passenger's seat leaves where it was and joins nobody.
LEMMA PutBackOK ==
  ASSUME Seated, NEW p \in players, NEW v \in pool \ doomed, NEW s \in Seats,
         occ' = Leave(occ, p),
         ride' = [ride EXCEPT ![p] = [vehicle |-> v, seat |-> s]],
         UNCHANGED <<pool, doomed, players>>
  PROVE  Seated'
<1> USE VehiclesAssumption
<1>1. /\ occ' \in [Objects -> Occupants]
      /\ \A u \in Objects \ doomed :
           /\ occ'[u].driver = IF occ[u].driver = p THEN None ELSE occ[u].driver
           /\ occ'[u].passengers = occ[u].passengers \ {p}
  BY LeaveEverywhere
<1>2. p \in Players /\ v \in Objects
  BY DEF Seated
<1>3. /\ ride' \in [Players -> Rides]
      /\ \A q \in Players : ride'[q].vehicle = IF q = p THEN v ELSE ride[q].vehicle
  BY <1>2 DEF Seated, Rides
<1>4. OccupantsKnown'
  BY <1>1, <1>2, <1>3 DEF Seated, OccupantsKnown
<1>5. VehicleAlive'
  BY <1>3 DEF Seated, VehicleAlive
<1> QED BY <1>1, <1>3, <1>4, <1>5 DEF Seated

\* Once the occupants agree with what is said here, p sits in v.
LEMMA JoinedOK ==
  ASSUME Seated, NEW p \in players, NEW v \in pool \ doomed,
         NEW L \in [Objects -> Occupants],
         \A w \in Objects \ doomed :
           /\ L[w].driver = IF occ[w].driver = p THEN None ELSE occ[w].driver
           /\ L[w].passengers = IF w = v THEN occ[v].passengers \union {p}
                                ELSE occ[w].passengers \ {p},
         occ' = [L EXCEPT ![v].been = TRUE],
         ride' = [ride EXCEPT ![p] = [vehicle |-> v, seat |-> 1]],
         UNCHANGED <<pool, doomed, players>>
  PROVE  Seated'
<1> USE VehiclesAssumption
<1>1. p \in Players /\ p # None /\ v \in Objects /\ v # None
  BY DEF Seated
<1>2. /\ occ' \in [Objects -> Occupants]
      /\ \A w \in Objects \ doomed :
           /\ occ'[w].driver = IF occ[w].driver = p THEN None ELSE occ[w].driver
           /\ occ'[w].passengers = IF w = v THEN occ[v].passengers \union {p}
                                   ELSE occ[w].passengers \ {p}
  BY <1>1 DEF Occupants
<1>3. /\ ride' \in [Players -> Rides]
      /\ \A q \in Players : ride'[q].vehicle = IF q = p THEN v ELSE ride[q].vehicle
  BY <1>1 DEF Seated, Rides, Seats, NoSeat
<1>4. OccupantsKnown'
  <2> SUFFICES ASSUME NEW w \in Objects \ doomed
               PROVE  /\ occ'[w].driver # None => ride'[occ'[w].driver].vehicle = w
                      /\ \A q \in occ'[w].passengers : ride'[q].vehicle = w
                      /\ occ'[w].driver \notin occ'[w].passengers
                      /\ ({occ'[w].driver} \ {None}) \union occ'[w].passengers
                           \subseteq players'
    BY DEF OccupantsKnown
  <2>1. /\ occ[w].driver # None => ride[occ[w].driver].vehicle = w
        /\ \A q \in occ[w].passengers : ride[q].vehicle = w
        /\ occ[w].driver \notin occ[w].passengers
        /\ ({occ[w].driver} \ {None}) \union occ[w].passengers \subseteq players
    BY DEF Seated, OccupantsKnown
  <2>2. players \subseteq Players
    BY DEF Seated
  <2>3. /\ occ'[w].driver = IF occ[w].driver = p THEN None ELSE occ[w].driver
        /\ occ'[w].passengers = IF w = v THEN occ[w].passengers \union {p}
                                ELSE occ[w].passengers \ {p}
    BY <1>2
  <2> QED BY <1>1, <1>3, <2>1, <2>2, <2>3
<1>5. VehicleAlive'
  BY <1>3 DEF Seated, VehicleAlive
<1> QED BY <1>2, <1>3, <1>4, <1>5 DEF Seated

\* A player that joins the passengers of a vehicle and then leaves where it
\* was, which may be the wheel of that vehicle, ends as a passenger.
Joined(p, v) == [occ EXCEPT ![v].passengers = @ \union {p}]

LEMMA JoinedIs ==
  ASSUME Seated, NEW p \in players, NEW v \in pool \ doomed
  PROVE  /\ Joined(p, v) \in [Objects -> Occupants]
         /\ \A w \in Objects :
              /\ Joined(p, v)[w].driver = occ[w].driver
              /\ Joined(p, v)[w].passengers =
                   IF w = v THEN occ[v].passengers \union {p}
                   ELSE occ[w].passengers
BY DEF Seated, Occupants, Joined

LEMMA LeaveJoined ==
  ASSUME Seated, NEW p \in players, NEW v \in pool \ doomed,
         ride[p].vehicle # v \/ occ[v].driver = p
  PROVE  /\ Leave(Joined(p, v), p) \in [Objects -> Occupants]
         /\ \A w \in Objects \ doomed :
              /\ Leave(Joined(p, v), p)[w].driver =
                   IF occ[w].driver = p THEN None ELSE occ[w].driver
              /\ Leave(Joined(p, v), p)[w].passengers =
                   IF w = v THEN occ[v].passengers \union {p}
                   ELSE occ[w].passengers \ {p}
<1> USE VehiclesAssumption
<1> DEFINE J == Joined(p, v)
           u == ride[p].vehicle
           o == J[u]
           n == IF o.driver = p THEN [o EXCEPT !.driver = None, !.been = TRUE]
                ELSE [o EXCEPT !.passengers = @ \ {p}, !.been = TRUE]
<1>1. p \in Players /\ p # None /\ v \in Objects
  BY DEF Seated
<1>2. \A w \in Objects \ (doomed \union {u}) : occ[w].driver # p /\ p \notin occ[w].passengers
  BY <1>1 DEF Seated, OccupantsKnown
<1>3. /\ J \in [Objects -> Occupants]
      /\ \A w \in Objects :
           /\ J[w].driver = occ[w].driver
           /\ J[w].passengers = IF w = v THEN occ[v].passengers \union {p}
                                ELSE occ[w].passengers
  BY JoinedIs
<1>4. CASE u = None
  <2>1. Leave(J, p) = J
    BY <1>4 DEF Leave
  <2>2. \A w \in Objects \ doomed : occ[w].driver # p /\ p \notin occ[w].passengers
    BY <1>2, <1>4
  <2> QED BY <1>3, <2>1, <2>2
<1>5. CASE u # None
  <2>1. u \in Objects \ doomed /\ o \in Occupants
    BY <1>1, <1>3, <1>5 DEF Seated, Rides
  <2>2. Leave(J, p) = [J EXCEPT ![u] = n]
    BY <1>5 DEF Leave
  <2>3. /\ n \in Occupants
        /\ n.driver = IF o.driver = p THEN None ELSE o.driver
        /\ n.passengers = IF o.driver = p THEN o.passengers
                          ELSE o.passengers \ {p}
    BY <1>1, <2>1 DEF Occupants
  <2>4. occ[u].driver = p => p \notin occ[u].passengers
    BY <2>1 DEF Seated, OccupantsKnown
  <2>5. u = v => occ[u].driver = p
    OBVIOUS
  <2>6. /\ o.driver = occ[u].driver
        /\ o.passengers = IF u = v THEN occ[v].passengers \union {p}
                          ELSE occ[u].passengers
    BY <1>3, <2>1
  <2> HIDE DEF n, o
  <2>7. Leave(J, p) \in [Objects -> Occupants]
    BY <1>3, <2>1, <2>2, <2>3
  <2>8. \A w \in Objects : Leave(J, p)[w] = IF w = u THEN n ELSE J[w]
    BY <1>3, <2>1, <2>2
  <2>9. /\ n.driver = IF occ[u].driver = p THEN None ELSE occ[u].driver
        /\ n.passengers = IF u = v THEN occ[v].passengers \union {p}
                          ELSE occ[u].passengers \ {p}
    BY <2>3, <2>4, <2>5, <2>6
  <2>10. ASSUME NEW w \in Objects \ doomed
         PROVE  /\ Leave(J, p)[w].driver =
                     IF occ[w].driver = p THEN None ELSE occ[w].driver
                /\ Leave(J, p)[w].passengers =
                     IF w = v THEN occ[v].passengers \union {p}
                     ELSE occ[w].passengers \ {p}
    <3>1. CASE w = u
      BY <2>1, <2>8, <2>9, <3>1
    <3>2. CASE w # u
      <4>1. occ[w].driver # p /\ occ[w].passengers = occ[w].passengers \ {p}
        BY <1>2, <3>2
      <4>2. Leave(J, p)[w] = J[w]
        BY <2>8, <3>2
      <4>3. /\ J[w].driver = occ[w].driver
            /\ J[w].passengers = IF w = v THEN occ[v].passengers \union {p}
                                 ELSE occ[w].passengers
        BY <1>3
      <4> QED BY <4>1, <4>2, <4>3
    <3> QED BY <3>1, <3>2
  <2> QED BY <2>7, <2>10
<1> QED BY <1>4, <1>5

LEMMA JoinOK ==
  ASSUME Seated, NEW p \in players, NEW v \in pool \ doomed,
         ride[p].vehicle # v \/ occ[v].driver = p,
         occ' = [Leave(Joined(p, v), p) EXCEPT ![v].been = TRUE],
         ride' = [ride EXCEPT ![p] = [vehicle |-> v, seat |-> 1]],
         UNCHANGED <<pool, doomed, players>>
  PROVE  Seated'
<1> USE VehiclesAssumption
<1> DEFINE L == Leave(Joined(p, v), p)
<1>1. p \in Players /\ p # None /\ v \in Objects /\ v # None
  BY DEF Seated
<1>2. /\ L \in [Objects -> Occupants]
      /\ \A w \in Objects \ doomed :
           /\ L[w].driver = IF occ[w].driver = p THEN None ELSE occ[w].driver
           /\ L[w].passengers = IF w = v THEN occ[v].passengers \union {p}
                                ELSE occ[w].passengers \ {p}
  BY LeaveJoined
<1>3. occ' = [L EXCEPT ![v].been = TRUE]
  OBVIOUS
<1> HIDE DEF L
<1>4. /\ occ' \in [Objects -> Occupants]
      /\ \A w \in Objects \ doomed :
           /\ occ'[w].driver = IF occ[w].driver = p THEN None ELSE occ[w].driver
           /\ occ'[w].passengers = IF w = v THEN occ[v].passengers \union {p}
                                   ELSE occ[w].passengers \ {p}
  <2>1. occ' \in [Objects -> Occupants]
    BY <1>1, <1>2, <1>3 DEF Occupants
  <2>2. \A w \in Objects \ doomed : /\ occ'[w].driver = L[w].driver
                           /\ occ'[w].passengers = L[w].passengers
    BY <1>1, <1>2, <1>3 DEF Occupants
  <2> QED BY <1>2, <2>1, <2>2
<1>5. /\ ride' \in [Players -> Rides]
      /\ \A q \in Players : ride'[q].vehicle = IF q = p THEN v ELSE ride[q].vehicle
  BY <1>1 DEF Seated, Rides, Seats, NoSeat
<1>6. OccupantsKnown'
  <2> SUFFICES ASSUME NEW w \in Objects \ doomed
               PROVE  /\ occ'[w].driver # None => ride'[occ'[w].driver].vehicle = w
                      /\ \A q \in occ'[w].passengers : ride'[q].vehicle = w
                      /\ occ'[w].driver \notin occ'[w].passengers
                      /\ ({occ'[w].driver} \ {None}) \union occ'[w].passengers
                           \subseteq players'
    BY DEF OccupantsKnown
  <2>1. /\ occ[w].driver # None => ride[occ[w].driver].vehicle = w
        /\ \A q \in occ[w].passengers : ride[q].vehicle = w
        /\ occ[w].driver \notin occ[w].passengers
        /\ ({occ[w].driver} \ {None}) \union occ[w].passengers \subseteq players
    BY DEF Seated, OccupantsKnown
  <2>2. players \subseteq Players
    BY DEF Seated
  <2>3. /\ occ'[w].driver = IF occ[w].driver = p THEN None ELSE occ[w].driver
        /\ occ'[w].passengers = IF w = v THEN occ[w].passengers \union {p}
                                ELSE occ[w].passengers \ {p}
    BY <1>4
  <2> QED BY <1>1, <1>5, <2>1, <2>2, <2>3
<1>7. VehicleAlive'
  BY <1>5 DEF Seated, VehicleAlive
<1> QED BY <1>4, <1>5, <1>6, <1>7 DEF Seated

\* Occupancy depends on nothing but four variables, and the pool may grow.
LEMMA SeatedStays ==
  ASSUME Seated, UNCHANGED <<players, occ, ride, doomed>>,
         pool \subseteq pool', pool' \subseteq Objects
  PROVE  Seated'
BY DEF Seated, OccupantsKnown, VehicleAlive

\* A detachment keeps pointers that lead to vehicles or nowhere.
LEMMA DetachedOK ==
  ASSUME NEW L \in [Objects -> Links], NEW c \in Objects
  PROVE  Detached(L, c) \in [Objects -> Links]
<1>1. CASE L[c].trailer = None
  BY <1>1 DEF Detached
<1>2. CASE L[c].trailer # None
  <2>1. L[c].trailer \in Objects
    BY <1>2 DEF Links
  <2>2. [L EXCEPT ![L[c].trailer].cab = None] \in [Objects -> Links]
    BY <2>1 DEF Links
  <2>3. \A K \in [Objects -> Links] :
          [K EXCEPT ![c].trailer = None, ![c].detaching = TRUE]
            \in [Objects -> Links]
    BY DEF Links
  <2> QED BY <1>2, <2>1, <2>2, <2>3 DEF Detached
<1> QED BY <1>1, <1>2

LEMMA OffCabOK ==
  ASSUME NEW L \in [Objects -> Links], NEW v \in Objects
  PROVE  OffCab(L, v) \in [Objects -> Links]
<1>1. CASE L[v].cab = None
  BY <1>1 DEF OffCab
<1>2. CASE L[v].cab # None
  <2>1. L[v].cab \in Objects
    BY <1>2 DEF Links
  <2>2. Detached(L, L[v].cab) \in [Objects -> Links]
    BY <2>1, DetachedOK
  <2> HIDE DEF Detached
  <2> QED BY <1>2, <2>2 DEF OffCab, Links
<1> QED BY <1>1, <1>2

\* Streaming a vehicle in keeps the types of what it touches.
LEMMA StreamInOK ==
  ASSUME RestOK, NEW p \in players, NEW v \in Objects, players \subseteq Players,
         StreamIn(v, p)
  PROVE  /\ streamedFor' \in [Objects -> SUBSET players]
         /\ numStreamed' \in [Players -> Int]
         /\ respawning' \subseteq respawning
<1>1. CASE p \in streamedFor[v] \/ numStreamed[p] >= MaxStreamed
  BY <1>1 DEF StreamIn, streamVars, RestOK
<1>2. CASE ~(p \in streamedFor[v] \/ numStreamed[p] >= MaxStreamed)
  BY <1>2 DEF StreamIn, RestOK
<1> QED BY <1>1, <1>2

\* Taking the count back from everyone who is shown v.
LEMMA UncountedOK ==
  ASSUME RestOK, NEW v \in Objects
  PROVE  Uncounted(v) \in [Players -> Int]
BY DEF RestOK, Uncounted

\* A respawn leaves the vehicle without a driver, and its passengers stay.
LEMMA RespawnedOK ==
  ASSUME Seated, RestOK, NEW v \in pool, Respawned(v),
         UNCHANGED <<pool, doomed, playerVars>>
  PROVE  Seated' /\ RestOK'
<1> USE VehiclesAssumption
<1>1. v \in Objects
  BY DEF Seated
<1>2. /\ occ' \in [Objects -> Occupants]
      /\ \A w \in Objects :
           /\ occ'[w].driver = IF w = v THEN None ELSE occ[w].driver
           /\ occ'[w].passengers = occ[w].passengers
  BY <1>1 DEF Seated, Respawned, Occupants
<1>3. OccupantsKnown'
  BY <1>2 DEF Seated, OccupantsKnown, playerVars
<1>4. Seated'
  BY <1>2, <1>3 DEF Seated, VehicleAlive, playerVars
<1>5. RestOK'
  BY <1>1, UncountedOK DEF RestOK, Respawned, Alone, Links, playerVars
<1> QED BY <1>4, <1>5

\* A vehicle that is destreamed and destroyed is in nobody's data.
LEMMA ReleasedOK ==
  ASSUME Seated, RestOK, NEW v \in pool, Destream(v), Destroy(v),
         UNCHANGED <<players, state>>
  PROVE  Seated' /\ RestOK'
<1> USE VehiclesAssumption
<1>1. v \in Objects
  BY DEF Seated
<1>2. /\ occ' \in [Objects -> Occupants]
      /\ \A w \in Objects :
           /\ occ'[w].driver = IF w = v THEN None ELSE occ[w].driver
           /\ occ'[w].passengers = IF w = v THEN {} ELSE occ[w].passengers
  BY <1>1 DEF Seated, Destroy, Occupants, Empty
<1>3. /\ ride' \in [Players -> Rides]
      /\ \A q \in Players :
           ride'[q].vehicle = IF ride[q].vehicle = v THEN None ELSE ride[q].vehicle
  BY DEF Seated, Destream, Rides, Seats, NoSeat
<1>4. OccupantsKnown'
  <2> SUFFICES ASSUME NEW w \in Objects \ doomed'
               PROVE  /\ occ'[w].driver # None => ride'[occ'[w].driver].vehicle = w
                      /\ \A q \in occ'[w].passengers : ride'[q].vehicle = w
                      /\ occ'[w].driver \notin occ'[w].passengers
                      /\ ({occ'[w].driver} \ {None}) \union occ'[w].passengers
                           \subseteq players'
    BY DEF OccupantsKnown
  <2>0. w = v \/ w \in Objects \ doomed
    BY DEF Destroy
  <2>3. CASE w = v
    BY <1>1, <1>2, <2>3
  <2>2. players \subseteq Players
    BY DEF Seated
  <2>4. CASE w # v
    <3>7. w \in Objects \ doomed
      BY <2>0, <2>4
    <3>8. /\ occ[w].driver # None => ride[occ[w].driver].vehicle = w
          /\ \A q \in occ[w].passengers : ride[q].vehicle = w
          /\ occ[w].driver \notin occ[w].passengers
          /\ ({occ[w].driver} \ {None}) \union occ[w].passengers \subseteq players
      BY <3>7 DEF Seated, OccupantsKnown
    <3>1. occ'[w].driver = occ[w].driver /\ occ'[w].passengers = occ[w].passengers
      BY <1>2, <2>4
    <3>2. ASSUME NEW q \in Players, ride[q].vehicle = w
          PROVE  ride'[q].vehicle = w
      BY <1>3, <2>4, <3>2
    <3>3. players' = players
      OBVIOUS
    <3>4. \A q : q \in occ[w].passengers \/ (q = occ[w].driver /\ q # None)
                  => ride'[q].vehicle = w
      BY <3>2, <3>8, <2>2
    <3>5. /\ occ'[w].driver # None => ride'[occ'[w].driver].vehicle = w
          /\ \A q \in occ'[w].passengers : ride'[q].vehicle = w
      BY <3>1, <3>2, <3>4
    <3>6. /\ occ'[w].driver \notin occ'[w].passengers
          /\ ({occ'[w].driver} \ {None}) \union occ'[w].passengers \subseteq players'
      BY <3>8, <2>4, <3>1, <3>3
    <3> QED BY <3>5, <3>6
  <2> QED BY <2>3, <2>4
<1>5. VehicleAlive'
  BY <1>3 DEF Seated, VehicleAlive, Destroy
<1>6. Seated'
  <2>1. \A q \in Players : ride'[q].vehicle \notin doomed'
    BY <1>3, VehiclesAssumption DEF Seated, Destroy
  <2> QED BY <1>2, <1>3, <1>4, <1>5, <2>1 DEF Seated, Destroy
<1>7. link' \in [Objects -> Links]
  BY <1>1, DetachedOK, OffCabOK DEF RestOK, Destroy
<1>8. RestOK'
  BY <1>1, <1>7, UncountedOK DEF RestOK, Destroy, Destream
<1> QED BY <1>6, <1>8

\* A vehicle that is released while locked is destreamed and waits, with its
\* occupants' pointers, for the end of the handler.
LEMMA DoomedOK ==
  ASSUME Seated, RestOK, NEW v \in pool, Destream(v),
         doomed' = doomed \union {v},
         UNCHANGED <<pool, occ, link, death, respawning, streamedFor, players, state>>
  PROVE  Seated' /\ RestOK'
<1> USE VehiclesAssumption
<1>1. v \in Objects
  BY DEF Seated
<1>2. /\ ride' \in [Players -> Rides]
      /\ \A q \in Players :
           ride'[q].vehicle = IF ride[q].vehicle = v THEN None ELSE ride[q].vehicle
  BY DEF Seated, Destream, Rides, Seats, NoSeat
<1>3. OccupantsKnown'
  BY <1>2 DEF Seated, OccupantsKnown
<1>4. Seated'
  BY <1>1, <1>2, <1>3 DEF Seated, VehicleAlive
<1>5. RestOK'
  BY <1>1, UncountedOK DEF RestOK, Destream
<1> QED BY <1>4, <1>5

\* A doomed vehicle is in nobody's data when it is freed.
LEMMA FreedOK ==
  ASSUME Seated, RestOK, NEW v \in doomed, Destroy(v),
         UNCHANGED <<numStreamed, playerVars>>
  PROVE  Seated' /\ RestOK'
<1> USE VehiclesAssumption
<1>1. v \in pool /\ v \in Objects
  BY DEF Seated, RestOK
<1>2. /\ occ' \in [Objects -> Occupants]
      /\ occ'[v] = Empty
      /\ \A w \in Objects \ {v} : occ'[w] = occ[w]
  BY <1>1 DEF Seated, Destroy, Occupants, Empty
<1>3. OccupantsKnown'
  <2>1. \A w \in Objects \ doomed' : w = v \/ w \in Objects \ doomed
    BY DEF Destroy
  <2>2. Empty.driver = None /\ Empty.passengers = {}
    BY DEF Empty
  <2> QED BY <1>2, <2>1, <2>2 DEF Seated, OccupantsKnown, playerVars
<1>4. Seated'
  BY <1>1, <1>2, <1>3 DEF Seated, VehicleAlive, Destroy, playerVars
<1>5. link' \in [Objects -> Links]
  BY <1>1, DetachedOK, OffCabOK DEF RestOK, Destroy
<1>6. RestOK'
  BY <1>1, <1>5 DEF RestOK, Destroy, playerVars
<1> QED BY <1>4, <1>6

\* Positions are well formed.
LEMMA PositionOK ==
  ASSUME NEW op \in {"idle", "rpc", "siren", "keys", "update", "stream", "death",
                     "unoccupied", "tick", "killed"},
         NEW p \in Players \union {None}, NEW v \in Objects \union {None}
  PROVE  /\ Position(op, p, v) \in Positions
         /\ Position(op, p, v).op = op
         /\ Position(op, p, v).who = p
         /\ Position(op, p, v).veh = v
         /\ Position(op, p, v).trailer = None
BY DEF Position, Positions, Seats, NoSeat

\* Between handlers nothing is doomed.
LEMMA IdleFree ==
  ASSUME AtOK, at = Idle
  PROVE  doomed = {}
BY PositionOK DEF AtOK, Idle

\* Finish stops the handler and frees what was doomed.
LEMMA FinishOK ==
  ASSUME IInv, Finish, UNCHANGED <<numStreamed, playerVars>>
  PROVE  IInv'
<1>1. at' = Idle
  BY DEF Finish
<1>2. CASE at.veh \in doomed
  <2>1. Destroy(at.veh)
    BY <1>2 DEF Finish
  <2>2. Seated' /\ RestOK'
    BY <1>2, <2>1, FreedOK DEF IInv
  <2>3. doomed' = {}
    BY <2>1 DEF IInv, AtOK, Destroy
  <2>4. AtOK'
    BY <1>1, <2>3, PositionOK DEF AtOK, Idle
  <2> QED BY <2>2, <2>4 DEF IInv
<1>3. CASE at.veh \notin doomed
  <2>1. UNCHANGED <<vehicleVars, streamedFor>> /\ doomed = {}
    BY <1>3 DEF Finish, IInv, AtOK
  <2>2. Seated'
    BY <2>1, SeatedStays DEF IInv, Seated, vehicleVars, playerVars
  <2>3. RestOK'
    BY <2>1 DEF IInv, RestOK, vehicleVars, playerVars
  <2>4. AtOK'
    BY <1>1, <2>1, PositionOK DEF AtOK, Idle, vehicleVars
  <2> QED BY <2>2, <2>3, <2>4 DEF IInv
<1> QED BY <1>2, <1>3

-----------------------------------------------------------------------------
(* The invariant                                                            *)

\* The initial states satisfy the invariant.
LEMMA InitOK == Init => IInv
<1> SUFFICES ASSUME Init PROVE IInv
  OBVIOUS
<1> USE VehiclesAssumption
<1>1. Seated
  BY DEF Init, Seated, OccupantsKnown, VehicleAlive, Occupants, Rides, Empty,
         NoRide, Seats, NoSeat
<1>2. RestOK
  BY DEF Init, RestOK, Links, Alone, States
<1>3. AtOK
  BY PositionOK DEF Init, AtOK, Idle
<1> QED BY <1>1, <1>2, <1>3 DEF IInv

\* What a packet or a connection does keeps the invariant.
LEMMA NetworkOK == IInv /\ Network => IInv'
<1> SUFFICES ASSUME IInv, NEW p \in Players,
                    \/ Connect(p) \/ Disconnect(p) \/ FootSync(p) \/ PlayerDeath(p)
                    \/ \E v \in Objects :
                         \/ VehicleRPC(p, v) \/ PassengerSync(p, v)
                         \/ VehicleDeath(p, v) \/ TrailerSync(p, v)
                         \/ \E t \in Objects \union {None} : DriverSync(p, v, t)
                         \/ \E seat \in {0, 1} : UnoccupiedSync(p, v, seat)
             PROVE  IInv'
  BY DEF Network
<1> USE VehiclesAssumption
<1>0. doomed = {} /\ UNCHANGED doomed
  BY IdleFree
     DEF IInv, Connect, Disconnect, FootSync, PlayerDeath, VehicleRPC,
         PassengerSync, VehicleDeath, TrailerSync, DriverSync, UnoccupiedSync,
         vehicleVars
<1>1. CASE Connect(p)
  <2>1. Seated'
    BY <1>1 DEF Connect, IInv, Seated, OccupantsKnown, VehicleAlive, vehicleVars
  <2>2. RestOK'
    BY <1>1 DEF Connect, IInv, RestOK, vehicleVars, streamVars
  <2>3. AtOK'
    BY <1>0, <1>1 DEF Connect, IInv, AtOK, vehicleVars
  <2> QED BY <2>1, <2>2, <2>3 DEF IInv
<1>2. CASE Disconnect(p)
  <2>1. Seated'
    BY <1>2, StepOutOK DEF Disconnect, IInv
  <2>2. RestOK'
    BY <1>2 DEF Disconnect, IInv, RestOK, States
  <2>3. AtOK'
    BY <1>0, <1>2, PositionOK DEF Disconnect, IInv, AtOK, Idle
  <2> QED BY <2>1, <2>2, <2>3 DEF IInv
<1>3. CASE FootSync(p)
  <2>1. Seated'
    BY <1>3, StepOutOK, SeatedStays DEF FootSync, StateOther, IInv, Seated
  <2>2. RestOK'
    BY <1>3 DEF FootSync, StateOther, IInv, RestOK, States, streamVars
  <2>3. AtOK'
    BY <1>0, <1>3, PositionOK DEF FootSync, IInv, AtOK
  <2> QED BY <2>1, <2>2, <2>3 DEF IInv
<1>4. CASE PlayerDeath(p)
  <2>1. Seated'
    BY <1>4, SeatedStays DEF PlayerDeath, IInv, Seated, vehicleVars
  <2>2. RestOK'
    BY <1>4 DEF PlayerDeath, IInv, RestOK, States, vehicleVars, streamVars
  <2>3. AtOK'
    BY <1>0, <1>4, PositionOK DEF PlayerDeath, IInv, AtOK
  <2> QED BY <2>1, <2>2, <2>3 DEF IInv
<1>5. ASSUME NEW v \in Objects, VehicleRPC(p, v)
      PROVE  IInv'
  <2>1. Seated'
    BY <1>5, SeatedStays DEF VehicleRPC, IInv, Seated, vehicleVars, playerVars
  <2>2. RestOK'
    BY <1>5 DEF VehicleRPC, IInv, RestOK, vehicleVars, streamVars, playerVars
  <2>3. AtOK'
    BY <1>0, <1>5, PositionOK DEF VehicleRPC, IInv, AtOK
  <2> QED BY <2>1, <2>2, <2>3 DEF IInv
<1>6. ASSUME NEW v \in Objects, PassengerSync(p, v)
      PROVE  IInv'
  <2> DEFINE joins == /\ ride[p].vehicle # v \/ occ[v].driver = p
                      /\ p \notin occ[v].passengers
             moves == ride[p].seat # 1
  <2>1. /\ occ' = IF joins THEN [Leave(Joined(p, v), p) EXCEPT ![v].been = TRUE]
                  ELSE IF moves THEN [occ EXCEPT ![v].been = TRUE] ELSE occ
        /\ ride' = IF joins \/ moves
                   THEN [ride EXCEPT ![p] = [vehicle |-> v, seat |-> 1]] ELSE ride
        /\ p \in players
        /\ v \in pool \ doomed
        /\ UNCHANGED <<pool, doomed, players>>
    BY <1>0, <1>6 DEF PassengerSync, Joined
  <2>2. ASSUME joins PROVE Seated'
    <3>1. occ' = [Leave(Joined(p, v), p) EXCEPT ![v].been = TRUE]
      BY <2>1, <2>2
    <3>2. ride' = [ride EXCEPT ![p] = [vehicle |-> v, seat |-> 1]]
      BY <2>1, <2>2
    <3>3. Seated /\ (ride[p].vehicle # v \/ occ[v].driver = p)
      BY <2>2 DEF IInv
    <3> HIDE DEF joins, moves
    <3> QED BY <2>1, <3>1, <3>2, <3>3, JoinOK
  <2>3. ASSUME ~joins, moves PROVE Seated'
    <3>1. ride[p].vehicle = v
      BY <2>1, <2>3 DEF IInv, Seated, OccupantsKnown
    <3>2. occ' = [occ EXCEPT ![v].been = TRUE]
      BY <2>1, <2>3
    <3>3. ride' = [ride EXCEPT ![p] = [vehicle |-> v, seat |-> 1]]
      BY <2>1, <2>3
    <3>4. /\ occ' \in [Objects -> Occupants]
          /\ \A w \in Objects : /\ occ'[w].driver = occ[w].driver
                                 /\ occ'[w].passengers = occ[w].passengers
      BY <3>2 DEF IInv, Seated, Occupants
    <3>5. /\ ride' \in [Players -> Rides]
          /\ \A q \in Players : ride'[q].vehicle = ride[q].vehicle
      BY <3>1, <3>3 DEF IInv, Seated, Rides, Seats, NoSeat
    <3>6. Seated
      BY DEF IInv
    <3>7. pool' = pool /\ players' = players /\ doomed' = doomed
      BY <2>1
    <3> HIDE DEF joins, moves
    <3>8. OccupantsKnown'
      BY <3>4, <3>5, <3>6, <3>7 DEF Seated, OccupantsKnown
    <3> QED BY <3>4, <3>5, <3>6, <3>7, <3>8 DEF Seated, VehicleAlive
  <2>4. ASSUME ~joins, ~moves PROVE Seated'
    <3>1. UNCHANGED <<pool, doomed, players, occ, ride>>
      BY <2>1, <2>4
    <3>2. Seated /\ pool \subseteq Objects
      BY DEF IInv, Seated
    <3> HIDE DEF joins, moves
    <3> QED BY <3>1, <3>2, SeatedStays
  <2>5. Seated'
    <3> HIDE DEF joins, moves
    <3> QED BY <2>2, <2>3, <2>4
  <2>6. RestOK'
    BY <1>6 DEF PassengerSync, IInv, RestOK, States, streamVars
  <2>7. /\ at' \in Positions
        /\ at'.op = "keys" /\ at'.who = p /\ at'.trailer = None
    BY <1>6, <2>1, PositionOK DEF PassengerSync, Positions, Seats
  <2>8. AtOK'
    BY <1>0, <2>1, <2>7 DEF AtOK
  <2> QED BY <2>5, <2>6, <2>8 DEF IInv
<1>7. ASSUME NEW v \in Objects, VehicleDeath(p, v)
      PROVE  IInv'
  <2>1. Seated'
    BY <1>7, SeatedStays DEF VehicleDeath, IInv, Seated, playerVars
  <2>2. RestOK'
    BY <1>7 DEF VehicleDeath, IInv, RestOK, streamVars, playerVars
  <2>3. AtOK'
    BY <1>0, <1>7 DEF VehicleDeath, IInv, AtOK, playerVars
  <2> QED BY <2>1, <2>2, <2>3 DEF IInv
<1>8. ASSUME NEW v \in Objects, TrailerSync(p, v)
      PROVE  IInv'
  <2>1. /\ occ' \in [Objects -> Occupants]
        /\ \A w \in Objects : /\ occ'[w].driver = occ[w].driver
                               /\ occ'[w].passengers = occ[w].passengers
    BY <1>8 DEF TrailerSync, IInv, Seated, Occupants
  <2>2. OccupantsKnown'
    BY <1>8, <2>1 DEF TrailerSync, IInv, Seated, OccupantsKnown, playerVars
  <2>3. Seated'
    BY <1>8, <2>1, <2>2
       DEF TrailerSync, IInv, Seated, VehicleAlive, playerVars
  <2>4. link' \in [Objects -> Links]
    <3> DEFINE u == ride[p].vehicle
               c == link[v].cab
               L == IF c # None /\ link[c].trailer = v
                    THEN [link EXCEPT ![c].trailer = None] ELSE link
    <3>1. u \in Objects
      BY <1>8 DEF TrailerSync, IInv, Seated, Rides
    <3>2. c \in Objects \union {None} /\ link \in [Objects -> Links]
      BY DEF IInv, RestOK, Links
    <3>3. L \in [Objects -> Links]
      BY <3>2 DEF Links
    <3>4. link' = IF link[u].detaching \/ c = u THEN link
                  ELSE [L EXCEPT ![u].trailer = v, ![v].cab = u]
      BY <1>8 DEF TrailerSync
    <3> HIDE DEF L, u, c
    <3>5. [L EXCEPT ![u].trailer = v, ![v].cab = u] \in [Objects -> Links]
      BY <3>1, <3>3 DEF Links
    <3> QED BY <3>2, <3>4, <3>5
  <2>5. RestOK'
    BY <1>8, <2>4 DEF TrailerSync, IInv, RestOK, streamVars, playerVars
  <2>6. AtOK'
    BY <1>0, <1>8 DEF TrailerSync, IInv, AtOK, playerVars
  <2> QED BY <2>3, <2>5, <2>6 DEF IInv
<1>9. ASSUME NEW v \in Objects, NEW t \in Objects \union {None},
             DriverSync(p, v, t)
      PROVE  IInv'
  <2>1. Seated'
    BY <1>9, SeatedStays DEF DriverSync, IInv, Seated, playerVars
  <2>2. RestOK'
    BY <1>9 DEF DriverSync, IInv, RestOK, streamVars, playerVars
  <2>3. Position("siren", p, v) \in Positions /\ p \in players /\ v \in pool
    BY <1>9, PositionOK DEF DriverSync
  <2>4. /\ at' \in Positions
        /\ at'.op = "siren" /\ at'.who = p /\ at'.veh = v
    BY <1>9, <2>3, PositionOK DEF DriverSync, Positions
  <2>5. AtOK'
    BY <1>0, <1>9, <2>3, <2>4 DEF DriverSync, AtOK, playerVars
  <2> QED BY <2>1, <2>2, <2>5 DEF IInv
<1>10. ASSUME NEW v \in Objects, NEW seat \in {0, 1}, UnoccupiedSync(p, v, seat)
       PROVE  IInv'
  <2>1. Seated'
    BY <1>10, SeatedStays DEF UnoccupiedSync, IInv, Seated, vehicleVars, playerVars
  <2>2. RestOK'
    BY <1>10
       DEF UnoccupiedSync, IInv, RestOK, vehicleVars, streamVars, playerVars
  <2>3. Position("unoccupied", None, v) \in Positions /\ v \in pool
    BY <1>10, PositionOK DEF UnoccupiedSync
  <2>4. /\ at' \in Positions
        /\ at'.op = "unoccupied" /\ at'.veh = v /\ at'.trailer = None
    BY <1>10, <2>3, PositionOK DEF UnoccupiedSync, Positions, Seats
  <2>5. AtOK'
    BY <1>0, <1>10, <2>3, <2>4 DEF UnoccupiedSync, AtOK, vehicleVars
  <2> QED BY <2>1, <2>2, <2>5 DEF IInv
<1> QED BY <1>1, <1>2, <1>3, <1>4, <1>5, <1>6, <1>7, <1>8, <1>9, <1>10

\* The rest of a handler, the streaming pass and the tick keep the invariant.
LEMMA ContinueOK == IInv /\ Continue => IInv'
<1> SUFFICES ASSUME IInv, Continue PROVE IInv'
  OBVIOUS
<1> USE VehiclesAssumption
<1>1. CASE EndRPC
  BY <1>1, FinishOK DEF EndRPC
<1>2. CASE DriverSeat
  <2> DEFINE p == at.who
             v == at.veh
  <2>1. p \in players /\ v \in pool \ doomed /\ doomed = {}
    BY <1>2 DEF DriverSeat, IInv, AtOK
  <2>2. p \in Players /\ v \in Objects /\ Seated
    BY <2>1 DEF IInv, Seated
  <2>3. /\ IF occ[v].driver # p
           THEN /\ occ' = TakeWheel(v, p)
                /\ ride' = [ride EXCEPT ![p] = [vehicle |-> v, seat |-> 0]]
           ELSE UNCHANGED <<occ, ride>>
        /\ IF at.trailer # None THEN Hitch(v, at.trailer, p) ELSE Unhitch(v)
        /\ at' = [Position("keys", p, v) EXCEPT !.seat = 0]
        /\ UNCHANGED <<pool, doomed, death, respawning, streamVars, players, state>>
    BY <1>2 DEF DriverSeat
  <2> HIDE DEF p, v
  <2>4. Seated'
    <3>1. CASE occ[v].driver # p
      BY <2>1, <2>2, <2>3, <3>1, TakeWheelOK
    <3>2. CASE occ[v].driver = p
      BY <2>2, <2>3, <3>2, SeatedStays DEF Seated
    <3> QED BY <3>1, <3>2
  <2>5. link' \in [Objects -> Links]
    <3>1. link \in [Objects -> Links] /\ at.trailer \in Objects \union {None}
      BY DEF IInv, RestOK, AtOK, Positions
    <3>2. CASE at.trailer # None
      BY <2>2, <2>3, <3>1, <3>2 DEF Hitch, Links
    <3>3. CASE at.trailer = None
      <4> DEFINE L == [link EXCEPT ![v].detaching = FALSE]
      <4>1. L \in [Objects -> Links]
        BY <2>2, <3>1 DEF Links
      <4>2. \/ link' = L
            \/ /\ L[v].trailer # None
               /\ link' = [L EXCEPT ![L[v].trailer].cab = None,
                                    ![v].trailer = None]
        BY <2>3, <3>3 DEF Unhitch
      <4> HIDE DEF L
      <4>3. L[v].trailer \in Objects \union {None}
        BY <2>2, <4>1 DEF Links
      <4> QED BY <2>2, <4>1, <4>2, <4>3 DEF Links
    <3> QED BY <3>2, <3>3
  <2>6. RestOK'
    BY <2>2, <2>3, <2>5 DEF IInv, RestOK, streamVars
  <2>7. /\ at' \in Positions
        /\ at'.op = "keys" /\ at'.who = p /\ at'.trailer = None
    BY <2>2, <2>3, PositionOK DEF Positions, Seats
  <2>8. AtOK'
    BY <2>1, <2>3, <2>7 DEF AtOK
  <2> QED BY <2>4, <2>6, <2>8 DEF IInv
<1>12. CASE StateInVehicle
  <2> DEFINE s == IF at.seat = 0 THEN "Driver" ELSE "Passenger"
  <2>1. at.who \in players /\ at.veh \in Objects \union {None} /\ s \in States
    BY <1>12 DEF StateInVehicle, IInv, AtOK, Positions, States
  <2>2. Seated'
    BY <1>12, SeatedStays DEF StateInVehicle, IInv, Seated, vehicleVars
  <2>3. RestOK'
    BY <1>12, <2>1 DEF StateInVehicle, IInv, RestOK, vehicleVars, streamVars
  <2>4. /\ at' \in Positions
        /\ at'.op = "update" /\ at'.who = at.who /\ at'.veh = at.veh
        /\ at'.trailer = None
    BY <1>12, <2>1, PositionOK DEF StateInVehicle, IInv, Seated
  <2>5. AtOK'
    BY <1>12, <2>1, <2>4 DEF StateInVehicle, IInv, AtOK, vehicleVars
  <2> QED BY <2>2, <2>3, <2>5 DEF IInv
<1>3. CASE PlayerUpdate
  <2> DEFINE p == at.who
  <2>1. /\ p \in players
        /\ UNCHANGED <<pool, doomed, link, death, respawning, streamVars, players,
                      state>>
        /\ StepOut(p) \/ UNCHANGED <<occ, ride>>
    BY <1>3 DEF PlayerUpdate, IInv, AtOK
  <2>2. Seated /\ pool \subseteq Objects
    BY DEF IInv, Seated
  <2>3. Seated'
    BY <2>1, <2>2, StepOutOK, SeatedStays
  <2>4. RestOK'
    BY <2>1 DEF IInv, RestOK, streamVars
  <2>5. \E due \in SUBSET Objects :
          at' = [[at EXCEPT !.op = "stream", !.calls = FALSE] EXCEPT !.todo = due]
    <3> DEFINE stream == [at EXCEPT !.op = "stream", !.calls = FALSE]
    <3>1. stream \in Positions
      BY DEF IInv, AtOK, Positions
    <3>2. stream = [stream EXCEPT !.todo = stream.todo]
      BY <3>1 DEF Positions
    <3>3. stream.todo \in SUBSET Objects
      BY <3>1 DEF Positions
    <3>4. at' = stream \/ \E due \in {{}, pool} : at' = [stream EXCEPT !.todo = due]
      BY <1>3 DEF PlayerUpdate
    <3> HIDE DEF stream
    <3>5. \E due \in SUBSET Objects : at' = [stream EXCEPT !.todo = due]
      BY <2>2, <3>2, <3>3, <3>4
    <3> QED BY <3>5 DEF stream
  <2>6. /\ at' \in Positions /\ at'.op = "stream" /\ at'.who = p
        /\ at'.trailer = at.trailer /\ at'.veh = at.veh
    BY <2>5 DEF IInv, AtOK, Positions
  <2>7. at.trailer = None
    BY <1>3 DEF PlayerUpdate, IInv, AtOK
  <2>8. AtOK'
    BY <2>1, <2>6, <2>7 DEF IInv, AtOK
  <2> QED BY <2>3, <2>4, <2>8 DEF IInv
<1>4. CASE EndUpdate
  BY <1>4, FinishOK DEF EndUpdate
<1>5. CASE OnPlayerDeath
  <2>1. at.who \in players
    BY <1>5 DEF OnPlayerDeath, IInv, AtOK
  <2>2. Seated'
    BY <1>5, <2>1, StepOutOK DEF OnPlayerDeath, IInv
  <2>3. RestOK'
    BY <1>5 DEF OnPlayerDeath, IInv, RestOK, streamVars
  <2>4. AtOK'
    BY <1>5, PositionOK DEF OnPlayerDeath, IInv, AtOK, Idle
  <2> QED BY <2>2, <2>3, <2>4 DEF IInv
<1>6. CASE EndUnoccupied
  <2>1. at.veh \in pool /\ at.veh \in Objects
    BY <1>6 DEF EndUnoccupied, IInv, AtOK, Seated
  <2>2. Seated'
    BY <1>6, SeatedStays DEF EndUnoccupied, IInv, Seated, playerVars
  <2>3. link' \in [Objects -> Links]
    BY <1>6, <2>1, OffCabOK DEF EndUnoccupied, IInv, RestOK
  <2>4. RestOK'
    BY <1>6, <2>1, <2>3 DEF EndUnoccupied, IInv, RestOK, streamVars, playerVars
  <2>5. AtOK'
    BY <1>6, PositionOK DEF EndUnoccupied, IInv, AtOK, Idle
  <2> QED BY <2>2, <2>4, <2>5 DEF IInv
<1>7. CASE BeginTick
  <2>1. Seated' /\ RestOK'
    BY <1>7, SeatedStays
       DEF BeginTick, IInv, Seated, RestOK, vehicleVars, streamVars, playerVars
  <2>2. pool \subseteq Objects
    BY DEF IInv, Seated
  <2>3. /\ at' \in Positions
        /\ at'.op = "tick" /\ at'.trailer = None
    <3> DEFINE start == Position("tick", None, None)
    <3>1. start \in Positions /\ start.op = "tick" /\ start.trailer = None
      BY PositionOK
    <3>2. at' = [start EXCEPT !.todo = pool, !.calls = FALSE]
      BY <1>7 DEF BeginTick
    <3> HIDE DEF start
    <3> QED BY <2>2, <3>1, <3>2 DEF Positions
  <2>4. AtOK'
    BY <1>7, <2>3, IdleFree DEF BeginTick, IInv, AtOK, vehicleVars
  <2> QED BY <2>1, <2>4 DEF IInv
<1>8. CASE EndKilled
  <2>1. at.veh \in pool /\ doomed = {}
    BY <1>8 DEF EndKilled, IInv, AtOK
  <2>2. /\ \/ Respawned(at.veh)
           \/ UNCHANGED <<occ, link, death, respawning, streamVars>>
        /\ UNCHANGED <<pool, doomed, playerVars>>
    BY <1>8, <2>1 DEF EndKilled
  <2>3. Seated' /\ RestOK'
    BY <2>1, <2>2, RespawnedOK, SeatedStays
       DEF IInv, RestOK, Seated, playerVars, streamVars
  <2>4. /\ at' \in Positions
        /\ at'.op = "tick" /\ at'.trailer = None
    BY <1>8 DEF EndKilled, IInv, AtOK, Positions
  <2>5. AtOK'
    BY <2>1, <2>2, <2>4 DEF AtOK
  <2> QED BY <2>3, <2>5 DEF IInv
<1>9. CASE EndTick
  <2>1. Seated' /\ RestOK'
    BY <1>9, SeatedStays
       DEF EndTick, IInv, Seated, RestOK, vehicleVars, streamVars, playerVars
  <2>2. AtOK'
    BY <1>9, PositionOK DEF EndTick, IInv, AtOK, Idle, vehicleVars
  <2> QED BY <2>1, <2>2 DEF IInv
<1>10. ASSUME NEW v \in Objects, StreamVehicle(v)
       PROVE  IInv'
  <2>1. at.who \in players
    BY <1>10 DEF StreamVehicle, IInv, AtOK
  <2>2. Seated'
    BY <1>10, SeatedStays DEF StreamVehicle, IInv, Seated, playerVars
  <2>3. players \subseteq Players /\ RestOK
    BY DEF IInv, Seated
  <2>4. /\ streamedFor' \in [Objects -> SUBSET players]
        /\ numStreamed' \in [Players -> Int]
        /\ respawning' \subseteq respawning
    <3>1. \/ UNCHANGED <<streamVars, respawning>>
          \/ StreamIn(v, at.who)
          \/ StreamOut(v, at.who) /\ UNCHANGED respawning
      BY <1>10 DEF StreamVehicle
    <3>2. CASE UNCHANGED <<streamVars, respawning>>
      BY <2>3, <3>2 DEF RestOK, streamVars
    <3>3. CASE StreamIn(v, at.who)
      BY <2>1, <2>3, <3>3, StreamInOK
    <3>4. CASE StreamOut(v, at.who) /\ UNCHANGED respawning
      BY <2>1, <2>3, <3>4 DEF RestOK, StreamOut
    <3> QED BY <3>1, <3>2, <3>3, <3>4
  <2>5. RestOK'
    BY <1>10, <2>3, <2>4 DEF StreamVehicle, RestOK, playerVars
  <2>6. /\ at' \in Positions
        /\ at'.op = "stream" /\ at'.who = at.who /\ at'.trailer = at.trailer
        /\ at'.veh = at.veh
    <3>1. \E b \in BOOLEAN : at' = [at EXCEPT !.todo = @ \ {v}, !.calls = b]
      <4> DEFINE b == (streamedFor' # streamedFor)
      <4>1. at' = [at EXCEPT !.todo = @ \ {v}, !.calls = b] /\ b \in BOOLEAN
        BY <1>10 DEF StreamVehicle
      <4> HIDE DEF b
      <4> QED BY <4>1
    <3>2. at \in Positions /\ at.op = "stream"
      BY <1>10 DEF StreamVehicle, IInv, AtOK
    <3> QED BY <3>1, <3>2 DEF Positions
  <2>7. at.trailer = None
    BY <1>10 DEF StreamVehicle, IInv, AtOK
  <2>8. AtOK'
    BY <1>10, <2>1, <2>6, <2>7 DEF StreamVehicle, IInv, AtOK, playerVars
  <2> QED BY <2>2, <2>5, <2>8 DEF IInv
<1>11. ASSUME NEW v \in Objects, VisitVehicle(v)
       PROVE  IInv'
  <2>1. at \in Positions /\ at.op = "tick" /\ at.trailer = None /\ doomed = {}
    BY <1>11 DEF VisitVehicle, IInv, AtOK
  <2>2. CASE v \in pool /\ ~Occupied(v) /\ death[v] = "dying"
    <3>1. /\ death' = [death EXCEPT ![v] = "dead"]
          /\ at' = [at EXCEPT !.op = "killed", !.veh = v, !.todo = @ \ {v},
                              !.calls = TRUE]
          /\ UNCHANGED <<pool, doomed, playerVars, occ, link, respawning,
                         streamVars>>
      BY <1>11, <2>2 DEF VisitVehicle
    <3>2. Seated'
      BY <3>1, SeatedStays DEF IInv, Seated, playerVars
    <3>3. RestOK'
      BY <3>1 DEF IInv, RestOK, playerVars, streamVars
    <3>4. /\ at' \in Positions
          /\ at'.op = "killed" /\ at'.veh = v /\ at'.trailer = None
      BY <2>1, <3>1 DEF Positions
    <3>5. AtOK'
      BY <2>1, <2>2, <3>1, <3>4 DEF AtOK
    <3> QED BY <3>2, <3>3, <3>5 DEF IInv
  <2>3. CASE ~(v \in pool /\ ~Occupied(v) /\ death[v] = "dying")
    <3>1. PICK due \in BOOLEAN :
            /\ due => v \in pool
            /\ IF due THEN Respawned(v)
               ELSE UNCHANGED <<occ, link, death, respawning, streamVars>>
            /\ at' = [at EXCEPT !.todo = @ \ {v}, !.calls = due]
            /\ UNCHANGED <<pool, doomed, playerVars>>
      BY <1>11, <2>3 DEF VisitVehicle
    <3>3. Seated' /\ RestOK'
      <4>1. CASE due
        BY <3>1, <4>1, RespawnedOK DEF IInv
      <4>2. CASE ~due
        BY <3>1, <4>2, SeatedStays
           DEF IInv, Seated, RestOK, playerVars, streamVars
      <4> QED BY <4>1, <4>2
    <3>4. /\ at' \in Positions
          /\ at'.op = "tick" /\ at'.trailer = None
      BY <2>1, <3>1 DEF Positions
    <3>5. AtOK'
      BY <2>1, <3>1, <3>4 DEF AtOK
    <3> QED BY <3>3, <3>5 DEF IInv
  <2> QED BY <2>2, <2>3
<1> QED
  BY <1>1, <1>2, <1>3, <1>4, <1>5, <1>6, <1>7, <1>8, <1>9, <1>10, <1>11,
     <1>12
     DEF Continue

\* What scripts do between handlers and from callbacks keeps the invariant.
LEMMA ScriptsOK == Spared /\ IInv /\ Scripts => IInv'
<1> SUFFICES ASSUME Spared, IInv, Scripts PROVE IInv'
  OBVIOUS
<1> USE VehiclesAssumption
<1>1. CASE ResetAll
  <2>0. doomed = {} /\ doomed' = {}
    BY <1>1, IdleFree DEF ResetAll, IInv
  <2>1. Seated'
    BY <1>1, <2>0 DEF ResetAll, IInv, Seated, OccupantsKnown, VehicleAlive, Occupants,
                Rides, Empty, NoRide, Seats, NoSeat
  <2>2. RestOK'
    BY <1>1, <2>0 DEF ResetAll, IInv, RestOK, Links, Alone, States
  <2>3. AtOK'
    BY <1>1, <2>0, PositionOK DEF ResetAll, AtOK, Idle
  <2> QED BY <2>1, <2>2, <2>3 DEF IInv
<1>2. ASSUME NEW v \in Objects, Create(v)
      PROVE  IInv'
  <2>1. Seated'
    BY <1>2, SeatedStays DEF Create, IInv, Seated, playerVars
  <2>2. RestOK'
    BY <1>2 DEF Create, IInv, RestOK, Links, Alone, streamVars, playerVars
  <2>3. AtOK'
    BY <1>2 DEF Create, IInv, AtOK, playerVars
  <2> QED BY <2>1, <2>2, <2>3 DEF IInv
<1>3. ASSUME NEW v \in Objects, Release(v)
      PROVE  IInv'
  <2>1. /\ v \in pool \ doomed
        /\ Destream(v)
        /\ UNCHANGED <<players, state, at>>
    BY <1>3 DEF Release, Usable
  <2>2. CASE v # at.veh
    <3>1. Destroy(v)
      BY <1>3, <2>2 DEF Release, Held
    <3>2. Seated' /\ RestOK'
      BY <2>1, <3>1, ReleasedOK DEF IInv
    <3>3. AtOK'
      BY <2>1, <2>2, <3>1 DEF IInv, AtOK, Destroy
    <3> QED BY <3>2, <3>3 DEF IInv
  <2>3. CASE v = at.veh
    <3>1. /\ at.op \in {"rpc", "keys", "update", "stream"}
          /\ doomed' = doomed \union {v}
          /\ UNCHANGED <<pool, occ, link, death, respawning, streamedFor>>
      BY <1>3, <2>3 DEF Release, Held, Spared
    <3>2. Seated' /\ RestOK'
      BY <2>1, <3>1, DoomedOK DEF IInv
    <3>3. AtOK'
      BY <2>1, <2>3, <3>1 DEF IInv, AtOK
    <3> QED BY <3>2, <3>3 DEF IInv
  <2> QED BY <2>2, <2>3
<1>4. ASSUME NEW v \in Objects, Respawn(v)
      PROVE  IInv'
  <2>1. Seated' /\ RestOK'
    BY <1>4, RespawnedOK DEF Respawn, Usable, IInv
  <2>2. AtOK'
    BY <1>4 DEF Respawn, IInv, AtOK, playerVars
  <2> QED BY <2>1, <2>2 DEF IInv
<1>5. ASSUME NEW v \in Objects, DetachTrailer(v)
      PROVE  IInv'
  <2>1. Seated'
    BY <1>5, SeatedStays DEF DetachTrailer, IInv, Seated, playerVars
  <2>2. link' \in [Objects -> Links]
    BY <1>5, DetachedOK DEF DetachTrailer, IInv, RestOK
  <2>3. RestOK'
    BY <1>5, <2>2 DEF DetachTrailer, IInv, RestOK, streamVars, playerVars
  <2>4. AtOK'
    BY <1>5 DEF DetachTrailer, IInv, AtOK, playerVars
  <2> QED BY <2>1, <2>3, <2>4 DEF IInv
<1>6. ASSUME NEW c \in Objects, NEW t \in Objects, AttachTrailer(c, t)
      PROVE  IInv'
  <2>1. Seated'
    BY <1>6, SeatedStays DEF AttachTrailer, IInv, Seated, playerVars
  <2>2. link' \in [Objects -> Links]
    BY <1>6 DEF AttachTrailer, IInv, RestOK, Links
  <2>3. RestOK'
    BY <1>6, <2>2 DEF AttachTrailer, IInv, RestOK, streamVars, playerVars
  <2>4. AtOK'
    BY <1>6 DEF AttachTrailer, IInv, AtOK, playerVars
  <2> QED BY <2>1, <2>3, <2>4 DEF IInv
<1>7. ASSUME NEW v \in Objects, NEW p \in Players, SpectateVehicle(p, v)
      PROVE  IInv'
  <2>1. /\ p \in players /\ players \subseteq Players
        /\ pool \subseteq Objects /\ Seated /\ RestOK
    BY <1>7 DEF SpectateVehicle, IInv, Seated
  <2>2. Seated'
    BY <1>7, <2>1, StepOutOK, SeatedStays DEF SpectateVehicle, StateOther
  <2>3. /\ streamedFor' \in [Objects -> SUBSET players]
        /\ numStreamed' \in [Players -> Int]
        /\ respawning' \subseteq respawning
    BY <1>7, <2>1, StreamInOK DEF SpectateVehicle
  <2>4. RestOK'
    BY <1>7, <2>1, <2>3 DEF SpectateVehicle, StateOther, RestOK, States
  <2>5. AtOK'
    BY <1>7 DEF SpectateVehicle, IInv, AtOK
  <2> QED BY <2>2, <2>4, <2>5 DEF IInv
<1>8. ASSUME NEW v \in Objects, NEW p \in Players, NEW seat \in {0, 1},
             PutPlayer(p, v, seat)
      PROVE  IInv'
  <2>1. /\ p \in players /\ players \subseteq Players /\ v \in pool \ doomed
        /\ Seated /\ RestOK /\ seat \in Seats
    BY <1>8 DEF PutPlayer, Usable, IInv, Seated, Seats
  <2>2. Seated'
    <3>1. CASE seat = 0
      BY <1>8, <2>1, <3>1, TakeWheelOK DEF PutPlayer
    <3>2. CASE seat # 0
      BY <1>8, <2>1, <3>2, PutBackOK DEF PutPlayer
    <3> QED BY <3>1, <3>2
  <2>3. /\ streamedFor' \in [Objects -> SUBSET players]
        /\ numStreamed' \in [Players -> Int]
        /\ respawning' \subseteq respawning
    BY <1>8, <2>1, StreamInOK DEF PutPlayer
  <2>4. RestOK'
    BY <1>8, <2>1, <2>3 DEF PutPlayer, RestOK
  <2>5. AtOK'
    BY <1>8 DEF PutPlayer, IInv, AtOK
  <2> QED BY <2>2, <2>4, <2>5 DEF IInv
<1>9. ASSUME NEW p \in Players, ResetVehicle(p)
      PROVE  IInv'
  <2>1. Seated'
    BY <1>9, StepOutOK DEF ResetVehicle, IInv
  <2>2. RestOK'
    BY <1>9 DEF ResetVehicle, IInv, RestOK, streamVars
  <2>3. AtOK'
    BY <1>9 DEF ResetVehicle, IInv, AtOK
  <2> QED BY <2>1, <2>2, <2>3 DEF IInv
<1> QED BY <1>1, <1>2, <1>3, <1>4, <1>5, <1>6, <1>7, <1>8, <1>9 DEF Scripts

\* Every step keeps the invariant.
LEMMA NextOK == Spared /\ IInv /\ [Next]_vars => IInv'
<1> SUFFICES ASSUME Spared, IInv, [Next]_vars PROVE IInv'
  OBVIOUS
<1>1. CASE Next
  BY <1>1, NetworkOK, ContinueOK, ScriptsOK DEF Next
<1>2. CASE UNCHANGED vars
  BY <1>2 DEF vars, vehicleVars, streamVars, playerVars, IInv, Seated,
              OccupantsKnown, VehicleAlive, RestOK, AtOK
<1> QED BY <1>1, <1>2

-----------------------------------------------------------------------------
(* Theorems                                                                 *)

\* The invariant holds in every state of a server whose callbacks release no
\* vehicle that the handler calling them goes on to use.
THEOREM Invariant == Spared /\ Spec => []IInv
<1>1. CASE Spared
  <2>1. IInv /\ [Next]_vars => IInv'
    BY <1>1, NextOK
  <2>2. Spec => []IInv
    BY <2>1, InitOK, PTL DEF Spec
  <2> QED BY <2>2
<1>2. CASE ~Spared
  BY <1>2
<1> QED BY <1>1, <1>2

\* Types, for any number of players and vehicles: in particular a vehicle is
\* streamed in for connected players only, and only a vehicle of the pool is
\* waiting to be shown anew.
THEOREM TypeCorrect == Spared /\ Spec => []TypeOK
<1>1. IInv => TypeOK
  BY DEF IInv, Seated, RestOK, AtOK, TypeOK, Occupants, Links, Rides
<1> QED BY <1>1, Invariant, PTL

\* Whoever a vehicle names as driver or passenger is a connected player whose
\* own data names that vehicle, and is named once: whatever scripts do from any
\* callback, except for a release by the three callbacks of Spared.
THEOREM OccupantsAgree == Spared /\ Spec => []OccupantsKnown
<1>1. IInv => OccupantsKnown
  BY DEF IInv, Seated
<1> QED BY <1>1, Invariant, PTL

\* getVehicle of a player never leads to a vehicle that was destroyed, with
\* the same exception: the siren's callback may release the vehicle in which
\* the handler then seats the player.
THEOREM VehiclesAlive == Spared /\ Spec => []VehicleAlive
<1>1. IInv => VehicleAlive
  BY DEF IInv, Seated
<1> QED BY <1>1, Invariant, PTL
-----------------------------------------------------------------------------
(* Streaming: what each kind of step does to the sets and the counters.  A  *)
(* released vehicle that is still locked keeps its set and is not counted;  *)
(* no streaming pass meets one, if only the callbacks of RPCs release the   *)
(* vehicle of their handler.                                                *)

Reserved == ReleaseIn \subseteq {"rpc"}

Shown(p) == {v \in Objects \ doomed : p \in streamedFor[v]}

CountOK ==
    /\ doomed # {} => at.op = "rpc"
    /\ \A v \in Objects :
         v \notin pool \/ v \in respawning => streamedFor[v] = {}
    /\ \A p \in Players :
         /\ numStreamed[p] = Cardinality(Shown(p))
         /\ numStreamed[p] <= MaxStreamed

\* Nothing is streamed; what enters the pool or respawns was not seen.
Steady ==
    /\ UNCHANGED <<streamedFor, numStreamed, doomed>>
    /\ \A v \in Objects :
         v \notin pool' \/ v \in respawning' => v \notin pool \/ v \in respawning

Shows(v, p) ==
    /\ v \in pool \ doomed
    /\ p \in Players
    /\ p \notin streamedFor[v]
    /\ numStreamed[p] < MaxStreamed
    /\ streamedFor' = [streamedFor EXCEPT ![v] = @ \union {p}]
    /\ numStreamed' = [numStreamed EXCEPT ![p] = @ + 1]
    /\ respawning' = respawning \ {v}
    /\ UNCHANGED <<pool, doomed>>

Hides(v, p) ==
    /\ p \in Players
    /\ p \in streamedFor[v]
    /\ v \notin doomed
    /\ StreamOut(v, p)
    /\ UNCHANGED <<pool, doomed, respawning>>

Clears(v) ==
    /\ v \notin doomed
    /\ UNCHANGED doomed
    /\ streamedFor' = [streamedFor EXCEPT ![v] = {}]
    /\ numStreamed' = Uncounted(v)
    /\ pool \ {v} \subseteq pool'
    /\ respawning' \subseteq respawning \union {v}

\* v is released while it is locked, and freed once it is not.
Dooms(v) ==
    /\ at.op = "rpc"
    /\ v \in Objects \ doomed
    /\ numStreamed' = Uncounted(v)
    /\ doomed' = doomed \union {v}
    /\ UNCHANGED <<streamedFor, pool, respawning>>

Frees(v) ==
    /\ v \in doomed
    /\ doomed' = doomed \ {v}
    /\ streamedFor' = [streamedFor EXCEPT ![v] = {}]
    /\ pool' = pool \ {v}
    /\ respawning' = respawning \ {v}
    /\ UNCHANGED numStreamed

Forgets(p) ==
    /\ p \in Players
    /\ streamedFor' = [v \in Objects |-> streamedFor[v] \ {p}]
    /\ numStreamed' = [numStreamed EXCEPT ![p] = 0]
    /\ UNCHANGED <<pool, doomed, respawning>>

Empties ==
    /\ UNCHANGED doomed
    /\ streamedFor' = [v \in Objects |-> {}]
    /\ numStreamed' = [p \in Players |-> 0]

\* The method streams the vehicle in, or it was in, or the limit is reached.
LEMMA StreamInKind ==
  ASSUME IInv, NEW v \in pool \ doomed, NEW p \in players, StreamIn(v, p),
         UNCHANGED <<pool, doomed>>
  PROVE  Steady \/ Shows(v, p)
<1>1. CASE p \in streamedFor[v] \/ numStreamed[p] >= MaxStreamed
  BY <1>1 DEF StreamIn, Steady, streamVars
<1>2. CASE ~(p \in streamedFor[v] \/ numStreamed[p] >= MaxStreamed)
  <2>1. p \in Players /\ numStreamed[p] \in Int /\ MaxStreamed \in Nat
    BY VehiclesAssumption DEF IInv, Seated, RestOK
  <2> QED BY <1>2, <2>1 DEF StreamIn, Shows
<1> QED BY <1>1, <1>2

LEMMA RespawnedKind ==
  ASSUME NEW v, v \notin doomed, Respawned(v), UNCHANGED <<pool, doomed>>
  PROVE  Clears(v)
  BY DEF Respawned, Clears

\* With its lock dropped, a handler leaves nothing to be freed.
LEMMA FinishKind ==
  ASSUME IInv, Finish, UNCHANGED numStreamed
  PROVE  Steady \/ \E v \in Objects : Frees(v)
<1>1. CASE at.veh \in doomed
  BY <1>1 DEF IInv, Seated, RestOK, Finish, Destroy, Frees
<1>2. CASE at.veh \notin doomed
  BY <1>2 DEF Finish, Steady, vehicleVars
<1> QED BY <1>1, <1>2

LEMMA StreamKinds ==
  ASSUME IInv, CountOK, Reserved, [Next]_vars
  PROVE  \/ Steady \/ Empties
         \/ \E v \in Objects, p \in Players : Shows(v, p) \/ Hides(v, p)
         \/ \E v \in Objects : Clears(v) \/ Dooms(v) \/ Frees(v)
         \/ \E p \in Players : Forgets(p)
<1>0. pool \subseteq Objects /\ players \subseteq Players
  BY DEF IInv, Seated, RestOK
<1>a. at.op # "rpc" => doomed = {}
  BY DEF CountOK
<1>1. ASSUME NEW p \in Players,
             Connect(p) \/ FootSync(p) \/ PlayerDeath(p) \/ ResetVehicle(p)
      PROVE  Steady
  BY <1>1 DEF Connect, FootSync, PlayerDeath, ResetVehicle, Steady, vehicleVars, streamVars
<1>2. ASSUME NEW p \in Players, NEW v \in Objects,
             \/ VehicleRPC(p, v) \/ PassengerSync(p, v) \/ VehicleDeath(p, v)
             \/ TrailerSync(p, v)
             \/ \E t \in Objects \union {None} : DriverSync(p, v, t)
             \/ \E seat \in {0, 1} : UnoccupiedSync(p, v, seat)
      PROVE  Steady
  BY <1>2 DEF VehicleRPC, PassengerSync, VehicleDeath, TrailerSync, DriverSync,
              UnoccupiedSync, Steady, vehicleVars, streamVars
<1>3. CASE \/ DriverSeat \/ StateInVehicle \/ PlayerUpdate \/ OnPlayerDeath \/ EndUnoccupied
           \/ BeginTick \/ EndTick \/ UNCHANGED vars
  BY <1>3 DEF DriverSeat, StateInVehicle, PlayerUpdate, OnPlayerDeath, EndUnoccupied,
              BeginTick, EndTick, vars, Steady, vehicleVars, streamVars
<1>4. CASE EndRPC \/ EndUpdate
  BY <1>4, FinishKind DEF EndRPC, EndUpdate
<1>5. ASSUME NEW v \in Objects, Create(v) \/ DetachTrailer(v)
                                \/ \E t \in Objects : AttachTrailer(v, t)
      PROVE  Steady
  BY <1>5 DEF Create, DetachTrailer, AttachTrailer, Steady, streamVars
<1>6. ASSUME NEW p \in Players, Disconnect(p)
      PROVE  Forgets(p)
  BY <1>6 DEF Disconnect, Forgets
<1>7. ASSUME NEW v \in Objects, StreamVehicle(v)
      PROVE  Steady \/ Shows(v, at.who) \/ Hides(v, at.who)
  <2>1. at.who \in players /\ UNCHANGED <<pool, doomed>> /\ doomed = {}
    BY <1>a, <1>7 DEF StreamVehicle, IInv, AtOK
  <2>2. \/ UNCHANGED <<streamVars, respawning>>
        \/ v \in pool /\ StreamIn(v, at.who)
        \/ at.who \in streamedFor[v] /\ StreamOut(v, at.who) /\ UNCHANGED respawning
    BY <1>7 DEF StreamVehicle
  <2>3. CASE UNCHANGED <<streamVars, respawning>>
    BY <2>1, <2>3 DEF Steady, streamVars
  <2>4. CASE v \in pool /\ StreamIn(v, at.who)
    BY <2>1, <2>4, StreamInKind
  <2>5. CASE at.who \in streamedFor[v] /\ StreamOut(v, at.who) /\ UNCHANGED respawning
    BY <1>0, <2>1, <2>5 DEF Hides
  <2> QED BY <2>2, <2>3, <2>4, <2>5
<1>8. ASSUME NEW v \in Objects, VisitVehicle(v)
      PROVE  Steady \/ Clears(v)
  <2>1. UNCHANGED <<pool, doomed>> /\ doomed = {}
    BY <1>a, <1>8 DEF VisitVehicle
  <2>2. UNCHANGED <<respawning, streamVars>> \/ Respawned(v)
    BY <1>8 DEF VisitVehicle
  <2> QED BY <2>1, <2>2, RespawnedKind DEF Steady, streamVars
<1>9. CASE EndKilled
  <2>1. at.veh \in Objects /\ UNCHANGED <<pool, doomed>> /\ doomed = {}
    BY <1>0, <1>a, <1>9 DEF EndKilled, IInv, AtOK
  <2>2. UNCHANGED <<respawning, streamVars>> \/ Respawned(at.veh)
    BY <2>1, <1>9 DEF EndKilled
  <2> QED BY <2>1, <2>2, RespawnedKind DEF Steady, streamVars
<1>10. CASE ResetAll
  BY <1>10 DEF ResetAll, Empties
<1>11. ASSUME NEW v \in Objects, Release(v)
       PROVE  Clears(v) \/ Dooms(v)
  <2>1. CASE v # at.veh
    BY <1>11, <2>1 DEF Release, Usable, Held, Destream, Destroy, Clears
  <2>2. CASE v = at.veh
    <3>1. at.op = "rpc"
      BY <1>11, <2>2 DEF Release, Held, Reserved
    <3> QED BY <1>11, <2>2, <3>1 DEF Release, Usable, Held, Destream, Dooms
  <2> QED BY <2>1, <2>2
<1>12. ASSUME NEW v \in Objects, Respawn(v)
       PROVE  Clears(v)
  BY <1>12, RespawnedKind DEF Respawn, Usable
<1>13. ASSUME NEW v \in Objects, NEW p \in Players,
              SpectateVehicle(p, v) \/ \E seat \in {0, 1} : PutPlayer(p, v, seat)
       PROVE  Steady \/ Shows(v, p)
  <2>1. v \in pool \ doomed /\ p \in players /\ StreamIn(v, p) /\ UNCHANGED <<pool, doomed>>
    BY <1>13 DEF SpectateVehicle, PutPlayer, Usable
  <2> QED BY <2>1, StreamInKind
<1>14. at.who \in players => at.who \in Players
  BY <1>0
<1>15. ASSUME NEW v \in Objects, StreamVehicle(v)
       PROVE  at.who \in Players
  BY <1>0, <1>15 DEF StreamVehicle, IInv, AtOK
<1>16. at.op = "killed" => at.veh \in Objects
  BY <1>0 DEF IInv, AtOK
<1>17. CASE Network
  BY <1>1, <1>2, <1>6, <1>17 DEF Network
<1>18. CASE Continue
  <2>1. CASE \E v \in Objects : StreamVehicle(v)
    BY <1>7, <1>15, <2>1
  <2>2. CASE \E v \in Objects : VisitVehicle(v)
    BY <1>8, <2>2
  <2>3. CASE EndKilled
    BY <1>9, <2>3
  <2> QED BY <1>3, <1>4, <1>18, <2>1, <2>2, <2>3 DEF Continue
<1>19. CASE Scripts
  BY <1>1, <1>5, <1>10, <1>11, <1>12, <1>13, <1>19 DEF Scripts
<1> QED BY <1>3, <1>17, <1>18, <1>19 DEF Next

\* A count is natural, of a finite set; one vehicle more or less counts one.
LEMMA Counting ==
  ASSUME NEW p \in Players
  PROVE  /\ IsFiniteSet(Shown(p)) /\ Cardinality(Shown(p)) \in Nat
         /\ \A v \in Objects \ doomed :
              /\ p \notin streamedFor[v] =>
                   Cardinality(Shown(p) \union {v}) = Cardinality(Shown(p)) + 1
              /\ p \in streamedFor[v] =>
                   Cardinality(Shown(p) \ {v}) = Cardinality(Shown(p)) - 1
<1>1. IsFiniteSet(Shown(p))
  BY VehiclesAssumption, FS_Subset DEF Shown
<1>2. Cardinality(Shown(p)) \in Nat
  BY <1>1, FS_CardinalityType
<1>3. \A v \in Objects \ doomed : v \in Shown(p) <=> p \in streamedFor[v]
  BY DEF Shown
<1> QED BY <1>1, <1>2, <1>3, FS_AddElement, FS_RemoveElement

LEMMA CountInit == Init => CountOK
<1> SUFFICES ASSUME Init PROVE CountOK
  OBVIOUS
<1>1. \A p \in Players : Shown(p) = {}
  BY DEF Init, Shown
<1> QED BY <1>1, VehiclesAssumption, FS_EmptySet DEF Init, CountOK

LEMMA CountNext ==
  ASSUME IInv, CountOK, Reserved, [Next]_vars
  PROVE  CountOK'
<1> USE VehiclesAssumption
<1>0. /\ pool \subseteq Objects /\ respawning \subseteq pool
      /\ streamedFor \in [Objects -> SUBSET players] /\ players \subseteq Players
      /\ numStreamed \in [Players -> Int]
  BY DEF IInv, Seated, RestOK
<1>9. doomed' # {} => at'.op = "rpc"
  <2>1. IInv'
    BY NextOK DEF Reserved, Spared
  <2>2. at'.op \in {"rpc", "keys", "update", "stream"} \/ doomed' = {}
    BY <2>1 DEF IInv, AtOK
  <2>3. CASE at.op = "rpc" /\ Next
    <3>1. at = Idle => at.op = "idle"
      BY DEF Idle, Position
    <3>5. Network => FALSE
      <4>1. at # Idle
        BY <2>3, <3>1
      <4>2. \A p \in Players : ~(Connect(p) \/ Disconnect(p) \/ FootSync(p)
                                 \/ PlayerDeath(p))
        BY <4>1 DEF Connect, Disconnect, FootSync, PlayerDeath
      <4>3. \A p \in Players, v \in Objects :
              ~(VehicleRPC(p, v) \/ PassengerSync(p, v) \/ VehicleDeath(p, v)
                \/ TrailerSync(p, v))
        BY <4>1 DEF VehicleRPC, PassengerSync, VehicleDeath, TrailerSync
      <4>4. \A p \in Players, v \in Objects, t \in Objects \union {None} :
              ~DriverSync(p, v, t)
        BY <4>1 DEF DriverSync
      <4>5. \A p \in Players, v \in Objects, seat \in {0, 1} :
              ~UnoccupiedSync(p, v, seat)
        BY <4>1 DEF UnoccupiedSync
      <4> QED BY <4>2, <4>3, <4>4, <4>5 DEF Network
    <3>6. Continue => EndRPC
      BY <2>3, <3>1
         DEF Continue, DriverSeat, StateInVehicle, PlayerUpdate, EndUpdate,
             OnPlayerDeath, EndUnoccupied, BeginTick, EndKilled, EndTick,
             StreamVehicle, VisitVehicle
    <3>7. Scripts => UNCHANGED at
      BY <2>3, <3>1
         DEF Scripts, ResetAll, Create, Release, Respawn, DetachTrailer,
             AttachTrailer, SpectateVehicle, PutPlayer, ResetVehicle
    <3>3. EndRPC => at' = Idle
      BY DEF EndRPC, Finish
    <3>4. at' = Idle => at'.op = "idle"
      BY DEF Idle, Position
    <3>8. EndRPC \/ UNCHANGED at
      BY <2>3, <3>5, <3>6, <3>7 DEF Next
    <3> QED BY <2>2, <2>3, <3>3, <3>4, <3>8
  <2>4. CASE UNCHANGED vars
    BY <2>4 DEF vars, vehicleVars, CountOK
  <2>5. CASE at.op # "rpc"
    <3>1. doomed = {} /\ doomed' = {}
      BY <2>5, StreamKinds
         DEF CountOK, Steady, Empties, Shows, Hides, Clears, Dooms, Frees, Forgets
    <3> QED BY <3>1
  <2> QED BY <2>3, <2>4, <2>5
<1>1. CASE Steady
  <2>1. \A p \in Players : Shown(p)' = Shown(p)
    BY <1>1 DEF Steady, Shown
  <2> QED BY <1>1, <1>9, <2>1 DEF Steady, CountOK
<1>2. CASE Empties
  <2>1. \A p \in Players : Shown(p)' = {}
    BY <1>2 DEF Empties, Shown
  <2>2. /\ \A v \in Objects : streamedFor'[v] = {}
        /\ \A p \in Players : numStreamed'[p] = 0
    BY <1>2 DEF Empties
  <2>3. Cardinality({}) = 0 /\ 0 <= MaxStreamed
    BY FS_EmptySet
  <2>4. \A p \in Players : /\ numStreamed'[p] = Cardinality(Shown(p)')
                           /\ numStreamed'[p] <= MaxStreamed
    BY <2>1, <2>2, <2>3
  <2> QED BY <1>9, <2>2, <2>4 DEF CountOK
<1>3. ASSUME NEW v \in Objects, NEW p \in Players, Shows(v, p) PROVE CountOK'
  <2>1. \A u \in Objects : streamedFor'[u] = IF u = v THEN streamedFor[v] \union {p} ELSE streamedFor[u]
    BY <1>0, <1>3 DEF Shows
  <2>2. \A q \in Players : Shown(q)' = IF q = p THEN Shown(p) \union {v} ELSE Shown(q)
    BY <1>3, <2>1 DEF Shown, Shows
  <2>3. \A q \in Players : numStreamed'[q] = IF q = p THEN numStreamed[p] + 1 ELSE numStreamed[q]
    BY <1>0, <1>3 DEF Shows
  <2>4. Cardinality(Shown(p)') = numStreamed[p] + 1 /\ numStreamed[p] + 1 <= MaxStreamed
    <3>1. Cardinality(Shown(p) \union {v}) = Cardinality(Shown(p)) + 1
      BY <1>3, Counting DEF Shows
    <3>2. numStreamed[p] \in Int /\ numStreamed[p] = Cardinality(Shown(p)) /\ numStreamed[p] < MaxStreamed
      BY <1>0, <1>3 DEF Shows, CountOK
    <3> QED BY <2>2, <3>1, <3>2
  <2>5. \A q \in Players : /\ numStreamed'[q] = Cardinality(Shown(q)')
                           /\ numStreamed'[q] <= MaxStreamed
    BY <2>2, <2>3, <2>4 DEF CountOK
  <2>6. \A u \in Objects : u \notin pool' \/ u \in respawning' => streamedFor'[u] = {}
    BY <1>3, <2>1 DEF Shows, CountOK
  <2> QED BY <1>9, <2>5, <2>6 DEF CountOK
<1>4. ASSUME NEW v \in Objects, NEW p \in Players, Hides(v, p) PROVE CountOK'
  <2>1. \A u \in Objects : streamedFor'[u] = IF u = v THEN streamedFor[v] \ {p} ELSE streamedFor[u]
    BY <1>0, <1>4 DEF Hides, StreamOut
  <2>2. \A q \in Players : Shown(q)' = IF q = p THEN Shown(p) \ {v} ELSE Shown(q)
    BY <1>4, <2>1 DEF Shown, Hides
  <2>3. \A q \in Players : numStreamed'[q] = IF q = p THEN numStreamed[p] - 1 ELSE numStreamed[q]
    BY <1>0, <1>4 DEF Hides, StreamOut
  <2>4. Cardinality(Shown(p)') = numStreamed[p] - 1 /\ numStreamed[p] - 1 <= MaxStreamed
    <3>1. Cardinality(Shown(p) \ {v}) = Cardinality(Shown(p)) - 1
      BY <1>4, Counting DEF Hides
    <3>2. numStreamed[p] \in Int /\ numStreamed[p] = Cardinality(Shown(p)) /\ numStreamed[p] <= MaxStreamed
      BY <1>0 DEF CountOK
    <3> QED BY <2>2, <3>1, <3>2
  <2>5. \A q \in Players : /\ numStreamed'[q] = Cardinality(Shown(q)')
                           /\ numStreamed'[q] <= MaxStreamed
    BY <2>2, <2>3, <2>4 DEF CountOK
  <2>6. \A u \in Objects : u \notin pool' \/ u \in respawning' => streamedFor'[u] = {}
    BY <1>4, <2>1 DEF Hides, CountOK
  <2> QED BY <1>9, <2>5, <2>6 DEF CountOK
<1>5. ASSUME NEW v \in Objects, Clears(v) PROVE CountOK'
  <2>1. \A u \in Objects : streamedFor'[u] = IF u = v THEN {} ELSE streamedFor[u]
    BY <1>0, <1>5 DEF Clears
  <2>2. \A q \in Players : Shown(q)' = IF q \in streamedFor[v] THEN Shown(q) \ {v} ELSE Shown(q)
    BY <1>5, <2>1 DEF Shown, Clears
  <2>3. \A q \in Players : numStreamed'[q] = IF q \in streamedFor[v] THEN numStreamed[q] - 1 ELSE numStreamed[q]
    BY <1>5 DEF Clears, Uncounted
  <2>4. ASSUME NEW q \in Players
        PROVE  numStreamed'[q] = Cardinality(Shown(q)') /\ numStreamed'[q] <= MaxStreamed
    <3>1. q \in streamedFor[v] => Cardinality(Shown(q) \ {v}) = Cardinality(Shown(q)) - 1
      BY <1>5, Counting DEF Clears
    <3>2. numStreamed[q] \in Int /\ numStreamed[q] = Cardinality(Shown(q)) /\ numStreamed[q] <= MaxStreamed
      BY <1>0 DEF CountOK
    <3>3. CASE q \in streamedFor[v]
      <4>1. Cardinality(Shown(q)') = Cardinality(Shown(q)) - 1
        BY <2>2, <3>1, <3>3
      <4>2. numStreamed'[q] = numStreamed[q] - 1
        BY <2>3, <3>3
      <4> QED BY <3>2, <4>1, <4>2
    <3>4. CASE q \notin streamedFor[v]
      BY <2>2, <2>3, <3>2, <3>4
    <3> QED BY <3>3, <3>4
  <2>5. \A u \in Objects : u \notin pool' \/ u \in respawning' => streamedFor'[u] = {}
    BY <1>5, <2>1 DEF Clears, CountOK
  <2> QED BY <1>9, <2>4, <2>5 DEF CountOK
<1>6. ASSUME NEW p \in Players, Forgets(p) PROVE CountOK'
  <2>1. \A u \in Objects : streamedFor'[u] = streamedFor[u] \ {p}
    BY <1>6 DEF Forgets
  <2>2. \A q \in Players : Shown(q)' = IF q = p THEN {} ELSE Shown(q)
    BY <1>6, <2>1 DEF Shown, Forgets
  <2>3. \A q \in Players : numStreamed'[q] = IF q = p THEN 0 ELSE numStreamed[q]
    BY <1>0, <1>6 DEF Forgets
  <2>4. \A q \in Players : numStreamed'[q] = Cardinality(Shown(q)') /\ numStreamed'[q] <= MaxStreamed
    BY <2>2, <2>3, FS_EmptySet DEF CountOK
  <2>5. \A u \in Objects : u \notin pool' \/ u \in respawning' => streamedFor'[u] = {}
    BY <1>6, <2>1 DEF Forgets, CountOK
  <2> QED BY <1>9, <2>4, <2>5 DEF CountOK
<1>7. ASSUME NEW v \in Objects, Dooms(v) PROVE CountOK'
  <2>1. \A q \in Players : Shown(q)' = IF q \in streamedFor[v] THEN Shown(q) \ {v} ELSE Shown(q)
    BY <1>7 DEF Dooms, Shown
  <2>2. \A q \in Players : numStreamed'[q] = IF q \in streamedFor[v] THEN numStreamed[q] - 1 ELSE numStreamed[q]
    BY <1>7 DEF Dooms, Uncounted
  <2>3. ASSUME NEW q \in Players
        PROVE  numStreamed'[q] = Cardinality(Shown(q)') /\ numStreamed'[q] <= MaxStreamed
    <3>1. q \in streamedFor[v] => Cardinality(Shown(q) \ {v}) = Cardinality(Shown(q)) - 1
      BY <1>7, Counting DEF Dooms
    <3>2. numStreamed[q] \in Int /\ numStreamed[q] = Cardinality(Shown(q)) /\ numStreamed[q] <= MaxStreamed
      BY <1>0 DEF CountOK
    <3>3. CASE q \in streamedFor[v]
      <4>1. Cardinality(Shown(q)') = Cardinality(Shown(q)) - 1
        BY <2>1, <3>1, <3>3
      <4>2. numStreamed'[q] = numStreamed[q] - 1
        BY <2>2, <3>3
      <4> QED BY <3>2, <4>1, <4>2
    <3>4. CASE q \notin streamedFor[v]
      BY <2>1, <2>2, <3>2, <3>4
    <3> QED BY <3>3, <3>4
  <2>4. \A u \in Objects : u \notin pool' \/ u \in respawning' => streamedFor'[u] = {}
    BY <1>7 DEF Dooms, CountOK
  <2> QED BY <1>9, <2>3, <2>4 DEF CountOK
<1>8. ASSUME NEW v \in Objects, Frees(v) PROVE CountOK'
  <2>1. \A u \in Objects : streamedFor'[u] = IF u = v THEN {} ELSE streamedFor[u]
    BY <1>0, <1>8 DEF Frees
  <2>2. \A q \in Players : Shown(q)' = Shown(q)
    BY <1>8, <2>1 DEF Frees, Shown
  <2>3. \A u \in Objects : u \notin pool' \/ u \in respawning' => streamedFor'[u] = {}
    BY <1>8, <2>1 DEF Frees, CountOK
  <2> QED BY <1>8, <1>9, <2>2, <2>3 DEF Frees, CountOK
<1> QED BY <1>1, <1>2, <1>3, <1>4, <1>5, <1>6, <1>7, <1>8, StreamKinds

\* The counters, too, are inductive on top of IInv.
LEMMA CountsHold == Reserved /\ Spec => [](IInv /\ CountOK)
<1>1. CASE Reserved
  <2>1. (IInv /\ CountOK) /\ [Next]_vars => (IInv /\ CountOK)'
    BY <1>1, NextOK, CountNext DEF Reserved, Spared
  <2>2. Spec => [](IInv /\ CountOK)
    BY <2>1, InitOK, CountInit, PTL DEF Spec
  <2> QED BY <2>2
<1>2. CASE ~Reserved
  BY <1>2
<1> QED BY <1>1, <1>2

\* numStreamed is the number of vehicles streamed in for a player, and within
\* the limit, for any number of players and vehicles.
THEOREM CountersExact == Reserved /\ Spec => []StreamedExact
<1>1. IInv /\ CountOK => StreamedExact
  <2> SUFFICES ASSUME IInv, CountOK PROVE StreamedExact
    OBVIOUS
  <2>1. \A p \in Players : Shown(p) = {v \in Usable : p \in streamedFor[v]}
    BY DEF IInv, Seated, CountOK, Shown, Usable
  <2> QED BY <2>1 DEF IInv, Seated, CountOK, StreamedExact
<1> QED BY <1>1, CountsHold, PTL

\* A vehicle that respawned is streamed in for nobody until it is shown anew.
THEOREM UnseenOnRespawn == Reserved /\ Spec => []RespawnedUnseen
<1>1. IInv /\ CountOK => RespawnedUnseen
  BY DEF IInv, Seated, RestOK, CountOK, RespawnedUnseen
<1> QED BY <1>1, CountsHold, PTL

-----------------------------------------------------------------------------
(* Towing: what each kind of step does to the pointers of the pool.         *)

\* A detachment clears the cab's pointer and its trailer's.
LEMMA DetachedReads ==
  ASSUME NEW L \in [Objects -> Links], NEW c \in Objects
  PROVE  \A u \in Objects :
           /\ Detached(L, c)[u].trailer = IF u = c THEN None ELSE L[u].trailer
           /\ Detached(L, c)[u].cab = IF u = L[c].trailer THEN None ELSE L[u].cab
<1> USE VehiclesAssumption
<1>1. CASE L[c].trailer = None
  BY <1>1 DEF Detached
<1>2. CASE L[c].trailer # None
  <2> DEFINE K == [L EXCEPT ![L[c].trailer].cab = None]
  <2>1. L[c].trailer \in Objects
    BY <1>2 DEF Links
  <2>2. /\ K \in [Objects -> Links]
        /\ \A u \in Objects : /\ K[u].trailer = L[u].trailer
                              /\ K[u].cab = IF u = L[c].trailer THEN None ELSE L[u].cab
    BY <2>1 DEF Links
  <2>3. Detached(L, c) = [K EXCEPT ![c].trailer = None, ![c].detaching = TRUE]
    BY <1>2 DEF Detached
  <2> HIDE DEF K
  <2>4. \A u \in Objects :
          /\ [K EXCEPT ![c].trailer = None, ![c].detaching = TRUE][u].trailer
               = IF u = c THEN None ELSE K[u].trailer
          /\ [K EXCEPT ![c].trailer = None, ![c].detaching = TRUE][u].cab = K[u].cab
    BY <2>2 DEF Links
  <2> QED BY <2>2, <2>3, <2>4
<1> QED BY <1>1, <1>2

\* A vehicle taken off its cab: the cab's trailer loses its cab as well.
LEMMA OffCabReads ==
  ASSUME NEW L \in [Objects -> Links], NEW v \in Objects
  PROVE  \A u \in Objects :
           /\ OffCab(L, v)[u].trailer = IF u = L[v].cab THEN None ELSE L[u].trailer
           /\ OffCab(L, v)[u].cab =
                IF u = v \/ (L[v].cab # None /\ u = L[L[v].cab].trailer)
                THEN None ELSE L[u].cab
<1> USE VehiclesAssumption
<1>1. CASE L[v].cab = None
  BY <1>1 DEF OffCab
<1>2. CASE L[v].cab # None
  <2> DEFINE D == Detached(L, L[v].cab)
  <2>1. L[v].cab \in Objects
    BY <1>2 DEF Links
  <2>2. /\ D \in [Objects -> Links]
        /\ \A u \in Objects :
             /\ D[u].trailer = IF u = L[v].cab THEN None ELSE L[u].trailer
             /\ D[u].cab = IF u = L[L[v].cab].trailer THEN None ELSE L[u].cab
    BY <2>1, DetachedOK, DetachedReads
  <2>3. OffCab(L, v) = [D EXCEPT ![v].cab = None]
    BY <1>2 DEF OffCab
  <2> HIDE DEF D
  <2>4. \A u \in Objects :
          /\ [D EXCEPT ![v].cab = None][u].trailer = D[u].trailer
          /\ [D EXCEPT ![v].cab = None][u].cab = IF u = v THEN None ELSE D[u].cab
    BY <2>2 DEF Links
  <2> QED BY <1>2, <2>2, <2>3, <2>4
<1> QED BY <1>1, <1>2

\* The pointers of the pool are as before.
Kept ==
    /\ UNCHANGED pool
    /\ \A u \in pool : /\ link'[u].trailer = link[u].trailer
                       /\ link'[u].cab = link[u].cab

\* The cab c lets its trailer go.
Cut(c) ==
    /\ UNCHANGED pool
    /\ \A u \in pool :
         /\ link'[u].trailer = IF u = c THEN None ELSE link[u].trailer
         /\ link'[u].cab = IF link[u].cab = c THEN None ELSE link[u].cab

\* The vehicle c, which has no trailer, takes t, which has no cab.
Tie(c, t) ==
    /\ UNCHANGED pool
    /\ c \in pool /\ t \in pool
    /\ link[c].trailer = None /\ link[t].cab = None
    /\ \A u \in pool :
         /\ link'[u].trailer = IF u = c THEN t ELSE link[u].trailer
         /\ link'[u].cab = IF u = t THEN c ELSE link[u].cab

\* The vehicle v is freed; nothing in the pool names it.
Freed(v) ==
    /\ pool' = pool \ {v}
    /\ \A u \in pool \ {v} :
         /\ link'[u].trailer = IF link[u].trailer = v THEN None ELSE link[u].trailer
         /\ link'[u].cab = IF link[u].cab = v THEN None ELSE link[u].cab

Made(v) ==
    /\ v \notin pool
    /\ pool' = pool \union {v}
    /\ link'[v].trailer = None /\ link'[v].cab = None
    /\ \A u \in pool : /\ link'[u].trailer = link[u].trailer
                       /\ link'[u].cab = link[u].cab

Tears == \E v \in pool : RespawnsLinked(v) \/ GivenAnother(v)

\* None of these makes one-sided what was mutual.
LEMMA StaysMutual ==
  ASSUME Mutual, pool \subseteq Objects,
         \/ Kept \/ pool' = {}
         \/ \E v \in pool : Cut(v) \/ Freed(v)
         \/ \E c, t \in pool : Tie(c, t)
         \/ \E v : Made(v)
  PROVE  Mutual'
<1>1. CASE Kept
  BY <1>1 DEF Kept, Mutual
<1>2. CASE pool' = {}
  BY <1>2 DEF Mutual
<1>3. ASSUME NEW v \in pool, Cut(v) PROVE Mutual'
  BY <1>3 DEF Cut, Mutual
<1>4. ASSUME NEW v \in pool, Freed(v) PROVE Mutual'
  BY <1>4 DEF Freed, Mutual
<1>5. ASSUME NEW c \in pool, NEW t \in pool, Tie(c, t) PROVE Mutual'
  <2>1. None \notin pool
    BY VehiclesAssumption
  <2> SUFFICES ASSUME NEW u \in pool
               PROVE  /\ link'[u].trailer # None =>
                           link'[u].trailer \in pool /\ link'[link'[u].trailer].cab = u
                      /\ link'[u].cab # None =>
                           link'[u].cab \in pool /\ link'[link'[u].cab].trailer = u
    BY <1>5 DEF Tie, Mutual
  <2>2. /\ link[u].trailer # None =>
             link[u].trailer \in pool /\ link[link[u].trailer].cab = u
        /\ link[u].cab # None =>
             link[u].cab \in pool /\ link[link[u].cab].trailer = u
    BY DEF Mutual
  <2>3. CASE u = c
    BY <1>5, <2>1, <2>2, <2>3 DEF Tie
  <2>4. CASE u # c
    BY <1>5, <2>1, <2>2, <2>4 DEF Tie
  <2> QED BY <2>3, <2>4
<1>6. ASSUME NEW v, Made(v) PROVE Mutual'
  BY <1>6 DEF Made, Mutual
<1> QED BY <1>1, <1>2, <1>3, <1>4, <1>5, <1>6

LEMMA RespawnTears ==
  ASSUME RestOK, Mutual, NEW v \in pool, pool \subseteq Objects, Respawned(v),
         UNCHANGED pool
  PROVE  Kept \/ Tears
<1>1. CASE link[v] = Alone
  BY <1>1 DEF Respawned, RestOK, Kept
<1>2. CASE link[v] # Alone
  BY <1>2 DEF Respawned, RestOK, Tears, RespawnsLinked
<1> QED BY <1>1, <1>2

\* A cab given a trailer: a tie, unless one of the two had another.
LEMMA HitchTears ==
  ASSUME RestOK, Mutual, pool \subseteq Objects, NEW c \in pool, NEW t \in pool,
         link' = [link EXCEPT ![c].trailer = t, ![t].cab = c], UNCHANGED pool
  PROVE  Kept \/ Tie(c, t) \/ Tears
<1>1. c \in Objects /\ t \in Objects /\ c # None /\ t # None
  BY VehiclesAssumption
<1>2. \A u \in Objects :
        /\ link'[u].trailer = IF u = c THEN t ELSE link[u].trailer
        /\ link'[u].cab = IF u = t THEN c ELSE link[u].cab
  BY <1>1 DEF RestOK, Links
<1>3. CASE link[c].trailer \notin {None, t} \/ link[t].cab \notin {None, c}
  BY <1>1, <1>2, <1>3 DEF Tears, GivenAnother
<1>4. CASE link[c].trailer = t \/ link[t].cab = c
  <2>1. link[c].trailer = t /\ link[t].cab = c
    BY <1>1, <1>4 DEF Mutual
  <2> QED BY <1>2, <2>1 DEF Kept
<1>5. CASE link[c].trailer = None /\ link[t].cab = None
  BY <1>1, <1>2, <1>5 DEF Tie
<1> QED BY <1>3, <1>4, <1>5

LEMMA DetachCuts ==
  ASSUME RestOK, Mutual, pool \subseteq Objects, NEW c \in pool,
         link' = Detached(link, c), UNCHANGED pool
  PROVE  Cut(c)
<1>1. \A u \in Objects :
        /\ link'[u].trailer = IF u = c THEN None ELSE link[u].trailer
        /\ link'[u].cab = IF u = link[c].trailer THEN None ELSE link[u].cab
  BY DetachedReads DEF RestOK
<1>2. \A u \in pool : u = link[c].trailer <=> link[u].cab = c
  BY VehiclesAssumption DEF Mutual
<1> QED BY <1>1, <1>2 DEF Cut

LEMMA OffCabCuts ==
  ASSUME RestOK, Mutual, pool \subseteq Objects, NEW v \in pool,
         link' = OffCab(link, v), UNCHANGED pool
  PROVE  Kept \/ \E c \in pool : Cut(c)
<1>1. CASE link[v].cab = None
  BY <1>1 DEF OffCab, Kept
<1>2. CASE link[v].cab # None
  <2> DEFINE c == link[v].cab
  <2>1. c \in pool /\ link[c].trailer = v
    BY <1>2 DEF Mutual
  <2>2. \A u \in Objects :
          /\ link'[u].trailer = IF u = c THEN None ELSE link[u].trailer
          /\ link'[u].cab = IF u = v THEN None ELSE link[u].cab
    BY <1>2, <2>1, OffCabReads DEF RestOK
  <2>3. \A u \in pool : u = v <=> link[u].cab = c
    BY <2>1, VehiclesAssumption DEF Mutual
  <2> QED BY <2>1, <2>2, <2>3 DEF Cut
<1> QED BY <1>1, <1>2

\* ~Vehicle clears what names it: its cab and its trailer are all that do.
LEMMA DestroyFrees ==
  ASSUME RestOK, Mutual, pool \subseteq Objects, NEW v \in pool, Destroy(v)
  PROVE  Freed(v)
<1> DEFINE D == Detached(link, v)
<1>0. v \in Objects /\ v # None
  BY VehiclesAssumption
<1>1. /\ D \in [Objects -> Links]
      /\ \A u \in Objects :
           /\ D[u].trailer = IF u = v THEN None ELSE link[u].trailer
           /\ D[u].cab = IF u = link[v].trailer THEN None ELSE link[u].cab
  BY <1>0, DetachedOK, DetachedReads DEF RestOK
<1>2. pool' = pool \ {v} /\ link' = OffCab(D, v)
  BY DEF Destroy
<1> HIDE DEF D
<1>3. \A u \in Objects :
        /\ link'[u].trailer = IF u = D[v].cab THEN None ELSE D[u].trailer
        /\ link'[u].cab = IF u = v \/ (D[v].cab # None /\ u = D[D[v].cab].trailer)
                          THEN None ELSE D[u].cab
  BY <1>0, <1>1, <1>2, OffCabReads
<1>4. \A u \in pool \ {v} : /\ u = link[v].trailer <=> link[u].cab = v
                            /\ u = link[v].cab <=> link[u].trailer = v
  BY <1>0, VehiclesAssumption DEF Mutual
<1>5. ASSUME NEW u \in pool \ {v}
      PROVE  link'[u].trailer = IF link[u].trailer = v THEN None ELSE link[u].trailer
  <2>1. D[u].trailer = link[u].trailer /\ link'[u].trailer = IF u = D[v].cab THEN None ELSE D[u].trailer
    BY <1>1, <1>3
  <2>2. D[v].cab = IF v = link[v].trailer THEN None ELSE link[v].cab
    BY <1>0, <1>1
  <2>3. v = link[v].trailer => link[v].cab = v
    BY <1>0 DEF Mutual
  <2>4. u # None
    BY VehiclesAssumption
  <2> QED BY <1>4, <2>1, <2>2, <2>3, <2>4
<1>6. ASSUME NEW u \in pool \ {v}
      PROVE  link'[u].cab = IF link[u].cab = v THEN None ELSE link[u].cab
  <2>1. D[u].cab = IF link[u].cab = v THEN None ELSE link[u].cab
    BY <1>1, <1>4
  <2>2. D[v].cab # None => D[D[v].cab].trailer # u
    <3>1. D[v].cab # None => D[v].cab = link[v].cab /\ link[v].cab \in pool /\ link[link[v].cab].trailer = v
      BY <1>0, <1>1 DEF Mutual
    <3>2. D[v].cab # None => D[D[v].cab].trailer \in {None, v}
      BY <1>1, <3>1
    <3>3. u # None
      BY VehiclesAssumption
    <3> QED BY <3>2, <3>3
  <2> QED BY <1>3, <2>1, <2>2
<1> QED BY <1>2, <1>5, <1>6 DEF Freed

\* Hitching and unhitching by the driver's packet.
LEMMA DriverTears ==
  ASSUME IInv, Mutual, DriverSeat
  PROVE  Kept \/ Tears \/ \E c \in pool : Cut(c) \/ \E t \in pool : Tie(c, t)
<1> DEFINE v == at.veh
<1>0. /\ pool \subseteq Objects /\ RestOK /\ v \in pool /\ v \in Objects
      /\ UNCHANGED pool /\ link \in [Objects -> Links]
  BY DEF IInv, Seated, RestOK, AtOK, DriverSeat
<1>1. CASE Hitch(v, at.trailer, at.who)
  <2>1. CASE UNCHANGED link
    BY <1>0, <2>1 DEF Kept
  <2>2. CASE at.trailer \in pool /\ link' = [link EXCEPT ![v].trailer = at.trailer, ![at.trailer].cab = v]
    BY <1>0, <2>2, HitchTears
  <2> QED BY <1>1, <2>1, <2>2 DEF Hitch
<1>2. CASE Unhitch(v)
  <2> DEFINE L == [link EXCEPT ![v].detaching = FALSE]
  <2>1. /\ L \in [Objects -> Links]
        /\ \A u \in Objects : L[u].trailer = link[u].trailer /\ L[u].cab = link[u].cab
    BY <1>0 DEF Links
  <2>2. \/ link' = L
        \/ /\ L[v].trailer # None
           /\ link' = [L EXCEPT ![L[v].trailer].cab = None, ![v].trailer = None]
    BY <1>2 DEF Unhitch
  <2> HIDE DEF L
  <2>3. CASE link' = L
    BY <1>0, <2>1, <2>3 DEF Kept
  <2>4. CASE /\ L[v].trailer # None
             /\ link' = [L EXCEPT ![L[v].trailer].cab = None, ![v].trailer = None]
    <3>1. L[v].trailer = link[v].trailer /\ link[v].trailer \in pool /\ link[v].trailer \in Objects
      BY <1>0, <2>1, <2>4 DEF Mutual
    <3>2. \A u \in Objects :
            /\ link'[u].trailer = IF u = v THEN None ELSE link[u].trailer
            /\ link'[u].cab = IF u = link[v].trailer THEN None ELSE link[u].cab
      BY <1>0, <2>1, <2>4, <3>1 DEF Links
    <3>3. \A u \in pool : u = link[v].trailer <=> link[u].cab = v
      BY <1>0, VehiclesAssumption DEF Mutual
    <3> QED BY <1>0, <3>2, <3>3 DEF Cut
  <2> QED BY <2>2, <2>3, <2>4
<1> QED BY <1>1, <1>2 DEF DriverSeat

\* A trailer's packet takes it off another cab only to give it one: torn, or
\* it had none.
LEMMA TrailerTears ==
  ASSUME IInv, Mutual, NEW p \in Players, NEW v \in Objects, TrailerSync(p, v)
  PROVE  Kept \/ Tears \/ \E c \in pool : Tie(c, v)
<1> DEFINE u == ride[p].vehicle
<1>0. /\ pool \subseteq Objects /\ RestOK /\ v \in pool /\ u \in pool
      /\ UNCHANGED pool /\ link \in [Objects -> Links]
  BY DEF IInv, Seated, RestOK, VehicleAlive, TrailerSync
<1>1. CASE link' = link
  BY <1>0, <1>1 DEF Kept
<1>2. CASE link[v].cab = None /\ link' = [link EXCEPT ![u].trailer = v, ![v].cab = u]
  BY <1>0, <1>2, HitchTears
<1>3. CASE link[v].cab \notin {None, u} /\ link' # link
  <2>1. link'[v].cab = u
    <3> DEFINE L == IF link[v].cab # None /\ link[link[v].cab].trailer = v
                    THEN [link EXCEPT ![link[v].cab].trailer = None] ELSE link
    <3>1. L \in [Objects -> Links]
      BY <1>0 DEF Links
    <3>2. link' = [L EXCEPT ![u].trailer = v, ![v].cab = u]
      BY <1>3 DEF TrailerSync
    <3> HIDE DEF L
    <3> QED BY <1>0, <3>1, <3>2 DEF Links
  <2>2. u # None
    BY <1>0, VehiclesAssumption
  <2> QED BY <1>0, <1>3, <2>1, <2>2 DEF Tears, GivenAnother
<1>4. \/ link' = link
      \/ link[v].cab \notin {None, u}
      \/ link[v].cab = None /\ link' = [link EXCEPT ![u].trailer = v, ![v].cab = u]
  BY DEF TrailerSync
<1> QED BY <1>1, <1>2, <1>3, <1>4

LEMMA MutualNext ==
  ASSUME IInv, Spared, Mutual, [Next]_vars
  PROVE  Mutual' \/ Tears
<1>0. pool \subseteq Objects /\ doomed \subseteq pool /\ RestOK /\ link \in [Objects -> Links]
  BY DEF IInv, Seated, RestOK
<1>1. ASSUME NEW p \in Players,
             \/ Connect(p) \/ Disconnect(p) \/ FootSync(p) \/ PlayerDeath(p)
             \/ ResetVehicle(p)
      PROVE  Kept
  BY <1>1 DEF Connect, Disconnect, FootSync, PlayerDeath, ResetVehicle, Kept, vehicleVars
<1>2. ASSUME NEW p \in Players, NEW v \in Objects,
             \/ VehicleRPC(p, v) \/ PassengerSync(p, v) \/ VehicleDeath(p, v)
             \/ \E t \in Objects \union {None} : DriverSync(p, v, t)
             \/ \E seat \in {0, 1} : UnoccupiedSync(p, v, seat) \/ PutPlayer(p, v, seat)
             \/ SpectateVehicle(p, v)
      PROVE  Kept
  BY <1>2 DEF VehicleRPC, PassengerSync, VehicleDeath, DriverSync, UnoccupiedSync,
              PutPlayer, SpectateVehicle, Kept, vehicleVars
<1>3. CASE \/ StateInVehicle \/ PlayerUpdate \/ OnPlayerDeath \/ BeginTick \/ EndTick \/ UNCHANGED vars
           \/ \E v \in Objects : StreamVehicle(v)
  BY <1>3, StaysMutual, <1>0
     DEF StateInVehicle, PlayerUpdate, OnPlayerDeath, BeginTick, EndTick, StreamVehicle, vars, Kept, vehicleVars
<1>4. CASE EndRPC \/ EndUpdate
  <2>1. CASE at.veh \in doomed
    <3>1. at.veh \in pool /\ Destroy(at.veh)
      BY <1>0, <1>4, <2>1 DEF EndRPC, EndUpdate, Finish
    <3> QED BY <1>0, <3>1, DestroyFrees, StaysMutual
  <2>2. CASE at.veh \notin doomed
    <3>1. Kept
      BY <1>4, <2>2 DEF EndRPC, EndUpdate, Finish, Kept, vehicleVars
    <3> QED BY <1>0, <3>1, StaysMutual
  <2> QED BY <2>1, <2>2
<1>5. CASE DriverSeat
  BY <1>0, <1>5, DriverTears, StaysMutual
<1>6. CASE EndUnoccupied
  <2>1. at.veh \in pool /\ UNCHANGED pool /\ link' = OffCab(link, at.veh)
    BY <1>6 DEF EndUnoccupied, IInv, AtOK
  <2> QED BY <1>0, <2>1, OffCabCuts, StaysMutual
<1>7. ASSUME NEW v \in Objects, VisitVehicle(v) PROVE Kept \/ Tears
  <2>1. UNCHANGED pool /\ (UNCHANGED link \/ (v \in pool /\ Respawned(v)))
    BY <1>7 DEF VisitVehicle
  <2> QED BY <1>0, <2>1, RespawnTears DEF Kept
<1>8. CASE EndKilled
  <2>1. at.veh \in pool /\ UNCHANGED pool /\ at.veh \notin doomed
    BY <1>0, <1>8 DEF EndKilled, IInv, AtOK
  <2>2. UNCHANGED link \/ Respawned(at.veh)
    BY <2>1, <1>8 DEF EndKilled
  <2>3. Kept \/ Tears
    BY <1>0, <2>1, <2>2, RespawnTears DEF Kept
  <2> QED BY <1>0, <2>3, StaysMutual
<1>9. CASE ResetAll
  BY <1>0, <1>9, StaysMutual DEF ResetAll
<1>10. ASSUME NEW v \in Objects, Create(v) PROVE Made(v)
  BY <1>0, <1>10 DEF Create, Made, Alone
<1>11. ASSUME NEW v \in Objects, Release(v) PROVE Kept \/ (v \in pool /\ Freed(v))
  <2>1. v \in pool /\ (Destroy(v) \/ UNCHANGED <<pool, link>>)
    BY <1>11 DEF Release, Usable
  <2> QED BY <1>0, <2>1, DestroyFrees DEF Kept
<1>12. ASSUME NEW v \in Objects, Respawn(v) PROVE Kept \/ Tears
  BY <1>0, <1>12, RespawnTears DEF Respawn, Usable
<1>13. ASSUME NEW v \in Objects, DetachTrailer(v) PROVE v \in pool /\ Cut(v)
  <2>1. v \in pool /\ link' = Detached(link, v) /\ UNCHANGED pool
    BY <1>13 DEF DetachTrailer, Usable
  <2> QED BY <1>0, <2>1, DetachCuts
<1>14. ASSUME NEW c \in Objects, NEW t \in Objects, AttachTrailer(c, t)
       PROVE  c \in pool /\ t \in pool /\ (Kept \/ Tie(c, t) \/ Tears)
  <2>1. /\ c \in pool /\ t \in pool /\ UNCHANGED pool
        /\ link' = [link EXCEPT ![c].trailer = t, ![t].cab = c]
    BY <1>14 DEF AttachTrailer, Usable
  <2> QED BY <1>0, <2>1, HitchTears
<1>15. ASSUME NEW p \in Players, NEW v \in Objects, TrailerSync(p, v)
       PROVE  v \in pool /\ (Kept \/ Tears \/ \E c \in pool : Tie(c, v))
  BY <1>15, TrailerTears DEF TrailerSync
<1>16. Kept => Mutual'
  BY <1>0, StaysMutual
<1>17. CASE Network
  <2>1. ASSUME NEW p \in Players, NEW v \in Objects, TrailerSync(p, v) PROVE Mutual' \/ Tears
    BY <1>0, <1>15, <2>1, StaysMutual
  <2> QED BY <1>1, <1>2, <1>16, <1>17, <2>1 DEF Network
<1>18. CASE Continue
  BY <1>3, <1>4, <1>5, <1>6, <1>7, <1>8, <1>16, <1>18 DEF Continue
<1>19. CASE Scripts
  <2>1. ASSUME NEW v \in Objects, Create(v) \/ Release(v) \/ Respawn(v) \/ DetachTrailer(v)
        PROVE  Mutual' \/ Tears
    BY <1>0, <1>10, <1>11, <1>12, <1>13, <1>16, <2>1, StaysMutual
  <2>2. ASSUME NEW c \in Objects, NEW t \in Objects, AttachTrailer(c, t)
        PROVE  Mutual' \/ Tears
    BY <1>0, <1>14, <2>2, StaysMutual
  <2> QED BY <1>1, <1>2, <1>9, <1>16, <1>19, <2>1, <2>2 DEF Scripts
<1> QED BY <1>3, <1>17, <1>18, <1>19 DEF Next

\* Cab and trailer point to each other until one of them respawns, or one that
\* has the other is given a third.
THEOREM PointersTear == Spared /\ Spec => LinksTear
<1>1. CASE Spared
  <2>1. IInv /\ [Next]_vars =>
          [Mutual => \/ Mutual'
                     \/ \E v \in pool : RespawnsLinked(v) \/ GivenAnother(v)]_vars
    BY <1>1, MutualNext DEF Tears
  <2>2. IInv /\ [Next]_vars => IInv'
    BY <1>1, NextOK
  <2>3. Spec => LinksTear
    BY <2>1, <2>2, InitOK, PTL DEF Spec, LinksTear
  <2> QED BY <2>3
<1>2. CASE ~Spared
  BY <1>2
<1> QED BY <1>1, <1>2
=============================================================================
