------------------------- MODULE PlayerStreamProofs -------------------------
(***************************************************************************)
(* Theorems about PlayerStream, for any number of players, any limit and   *)
(* any depth of nested callbacks.  Where LateOps is FALSE the callbacks of *)
(* onPlayerDisconnect do not put the leaver back into what others keep.    *)
(***************************************************************************)
EXTENDS PlayerStream, FiniteSetTheorems, SequenceTheorems, TLAPS

\* The operations in progress only concern players that stay in the pool.
StayingFrames == {f \in Frames :
    /\ f.who \in Staying
    /\ f.todo \subseteq Staying \ {f.who}
    /\ f.op \in {"spectate", "streamed"} => f.target \in Staying}

FramesOK == stack \in Seq(StayingFrames)

\* The two copies of the streaming relation: well formed, and in agreement.
RelationOK ==
    /\ streamedFor \in [Slots -> SUBSET Slots]
    /\ numStreamed \in [Slots -> 0 .. CounterSize - 1]
    /\ \A p \in Staying : /\ p \in streamedFor[p]
                          /\ streamedFor[p] \subseteq Staying
    /\ NumStreamedExact
    /\ \A p \in Staying : numStreamed[p] <= MaxStreamed + 1

ColoursOK == \A p \in Staying : colours[p] \subseteq Staying

IInv == TypeOK /\ FramesOK /\ RelationOK /\ ColoursOK

-----------------------------------------------------------------------------
(* Lemmas                                                                   *)

\* INVALID_PLAYER_ID is the id of no player.
LEMMA NoneNotSlot == None \notin Slots
  BY StreamAssumption

\* The players that stay have ids of the pool.
LEMMA StayingSlots == TypeOK => Staying \subseteq Slots /\ None \notin Staying
  BY NoneNotSlot DEF TypeOK, Staying

\* What the stack operations do to a sequence of frames of any set.
LEMMA StackOps ==
  ASSUME NEW S, stack \in Seq(S), stack # << >>
  PROVE  /\ Top \in S
         /\ Pop \in Seq(S)
         /\ \A f \in S : SetTop(f) \in Seq(S)
<1>1. Len(stack) \in Nat \ {0} /\ Len(stack) \in 1 .. Len(stack)
  BY EmptySeq, LenProperties
<1>2. Top \in S
  BY <1>1, ElementOfSeq DEF Top
<1>3. Pop \in Seq(S)
  <2>1. \A i \in 1 .. Len(stack) - 1 : stack[i] \in S
    BY <1>1, ElementOfSeq
  <2> QED BY <1>1, <2>1, SubSeqProperties DEF Pop
<1>4. \A f \in S : SetTop(f) \in Seq(S)
  BY <1>1, ExceptSeq DEF SetTop
<1> QED BY <1>2, <1>3, <1>4

\* The empty stack holds frames of any kind.
LEMMA EmptyStack == \A S : << >> \in Seq(S)
  BY EmptySeq

\* The players streamed in for a player are finitely many, and can be counted.
LEMMA StreamedToFinite ==
  ASSUME TypeOK, NEW p \in Slots
  PROVE  IsFiniteSet(StreamedTo(p))
<1>1. StreamedTo(p) \subseteq Slots
  BY StayingSlots DEF StreamedTo
<1> QED BY <1>1, FS_Subset, StreamAssumption

\* The counters do not wrap around at the values they take.
LEMMA IncValue == \A n \in 0 .. CounterSize - 2 : Inc(n) = n + 1
  BY StreamAssumption DEF Inc

\* Nor does a decrement of a counter that is not zero.
LEMMA DecValue == \A n \in 1 .. CounterSize - 1 : Dec(n) = n - 1
  BY StreamAssumption DEF Dec

\* streamInForPlayer between two players that stay keeps the copies agreed.
LEMMA StreamInOK ==
  ASSUME TypeOK, RelationOK, UNCHANGED <<inPool, leaving>>,
         NEW q \in Staying, NEW p \in Staying, StreamIn(q, p)
  PROVE  RelationOK'
<1> USE StayingSlots
<1>0. Staying' = Staying
  BY DEF Staying
<1>1. CASE p \notin streamedFor[q] /\ numStreamed[p] <= MaxStreamed
  <2>1. streamedFor' = [streamedFor EXCEPT ![q] = @ \union {p}]
    BY <1>1 DEF StreamIn
  <2>2. numStreamed' = [numStreamed EXCEPT ![p] = Inc(@)]
    BY <1>1 DEF StreamIn
  <2>3. p # q
    BY <1>1 DEF RelationOK
  <2>4. numStreamed[p] \in 0 .. CounterSize - 2 /\ Inc(numStreamed[p]) = numStreamed[p] + 1
    BY <1>1, IncValue, StreamAssumption DEF RelationOK
  <2>5. ASSUME NEW r \in Staying
        PROVE  numStreamed'[r] = Cardinality(StreamedTo(r)')
    <3>1. CASE r = p
      <4>1. StreamedTo(p)' = StreamedTo(p) \union {q}
        BY <1>0, <2>1, <2>3 DEF StreamedTo, RelationOK
      <4>2. q \notin StreamedTo(p)
        BY <1>1 DEF StreamedTo
      <4>3. Cardinality(StreamedTo(p) \union {q}) = Cardinality(StreamedTo(p)) + 1
        BY <4>2, StreamedToFinite, FS_AddElement
      <4>4. numStreamed'[p] = Cardinality(StreamedTo(p)) + 1
        BY <2>2, <2>4 DEF RelationOK, NumStreamedExact
      <4> QED BY <3>1, <4>1, <4>3, <4>4
    <3>2. CASE r # p
      <4>1. StreamedTo(r)' = StreamedTo(r)
        BY <1>0, <2>1, <3>2 DEF StreamedTo, RelationOK
      <4>2. numStreamed'[r] = numStreamed[r]
        BY <2>2, <3>2 DEF RelationOK
      <4> QED BY <4>1, <4>2 DEF RelationOK, NumStreamedExact
    <3> QED BY <3>1, <3>2
  <2>6. streamedFor' \in [Slots -> SUBSET Slots]
    BY <2>1 DEF RelationOK
  <2>7. numStreamed' \in [Slots -> 0 .. CounterSize - 1]
    <3>1. Inc(numStreamed[p]) \in 0 .. CounterSize - 1
      BY <2>4, StreamAssumption
    <3> QED BY <2>2, <3>1 DEF RelationOK
  <2>8. \A r \in Staying : r \in streamedFor'[r] /\ streamedFor'[r] \subseteq Staying
    BY <2>1 DEF RelationOK
  <2>9. \A r \in Staying : numStreamed'[r] <= MaxStreamed + 1
    <3>1. numStreamed'[p] = numStreamed[p] + 1
      BY <2>2, <2>4 DEF RelationOK
    <3>2. numStreamed'[p] <= MaxStreamed + 1
      BY <1>1, <2>4, <3>1, StreamAssumption
    <3>3. \A r \in Staying \ {p} : numStreamed'[r] = numStreamed[r]
      BY <2>2 DEF RelationOK
    <3> QED BY <3>2, <3>3 DEF RelationOK
  <2> QED BY <1>0, <2>5, <2>6, <2>7, <2>8, <2>9 DEF RelationOK, NumStreamedExact
<1>2. CASE ~(p \notin streamedFor[q] /\ numStreamed[p] <= MaxStreamed)
  <2>1. UNCHANGED <<streamedFor, numStreamed>>
    BY <1>2 DEF StreamIn
  <2>2. \A r \in Slots : StreamedTo(r)' = StreamedTo(r)
    BY <1>0, <2>1 DEF StreamedTo
  <2> QED BY <1>0, <2>1, <2>2 DEF RelationOK, NumStreamedExact
<1> QED BY <1>1, <1>2

\* So does streamOutForPlayer, between two different players.
LEMMA StreamOutOK ==
  ASSUME TypeOK, RelationOK, UNCHANGED <<inPool, leaving>>,
         NEW q \in Staying, NEW p \in Staying, p # q, StreamOut(q, p)
  PROVE  RelationOK'
<1> USE StayingSlots
<1>0. Staying' = Staying
  BY DEF Staying
<1>1. CASE p \in streamedFor[q]
  <2>1. streamedFor' = [streamedFor EXCEPT ![q] = @ \ {p}]
    BY <1>1 DEF StreamOut
  <2>2. numStreamed' = [numStreamed EXCEPT ![p] = Dec(@)]
    BY <1>1 DEF StreamOut
  <2>3. q \in StreamedTo(p)
    BY <1>1 DEF StreamedTo
  <2>4. /\ Cardinality(StreamedTo(p) \ {q}) = Cardinality(StreamedTo(p)) - 1
        /\ Cardinality(StreamedTo(p)) \in Nat
        /\ Cardinality(StreamedTo(p)) - 1 \in Nat
    <3>1. IsFiniteSet(StreamedTo(p) \ {q})
      BY StreamedToFinite, FS_RemoveElement
    <3> QED BY <2>3, <3>1, StreamedToFinite, FS_RemoveElement, FS_CardinalityType
  <2>5. /\ numStreamed[p] \in 1 .. CounterSize - 1
        /\ Dec(numStreamed[p]) = Cardinality(StreamedTo(p)) - 1
    BY <2>4, DecValue DEF RelationOK, NumStreamedExact
  <2>6. ASSUME NEW r \in Staying
        PROVE  numStreamed'[r] = Cardinality(StreamedTo(r)')
    <3>1. CASE r = p
      <4>1. StreamedTo(p)' = StreamedTo(p) \ {q}
        BY <1>0, <2>1 DEF StreamedTo, RelationOK
      <4>2. numStreamed'[p] = Dec(numStreamed[p])
        BY <2>2 DEF RelationOK
      <4> QED BY <2>4, <2>5, <3>1, <4>1, <4>2
    <3>2. CASE r # p
      <4>1. StreamedTo(r)' = StreamedTo(r)
        BY <1>0, <2>1, <3>2 DEF StreamedTo, RelationOK
      <4>2. numStreamed'[r] = numStreamed[r]
        BY <2>2, <3>2 DEF RelationOK
      <4> QED BY <4>1, <4>2 DEF RelationOK, NumStreamedExact
    <3> QED BY <3>1, <3>2
  <2>7. streamedFor' \in [Slots -> SUBSET Slots]
    BY <2>1 DEF RelationOK
  <2>8. numStreamed' \in [Slots -> 0 .. CounterSize - 1]
    <3>1. Dec(numStreamed[p]) = numStreamed[p] - 1
      BY <2>5, DecValue
    <3>2. Dec(numStreamed[p]) \in 0 .. CounterSize - 1
      BY <2>5, <3>1, StreamAssumption
    <3> QED BY <2>2, <3>2 DEF RelationOK
  <2>9. \A r \in Staying : r \in streamedFor'[r] /\ streamedFor'[r] \subseteq Staying
    BY <2>1 DEF RelationOK
  <2>10. \A r \in Staying : numStreamed'[r] <= MaxStreamed + 1
    <3>1. numStreamed'[p] <= numStreamed[p]
      BY <2>2, <2>4, <2>5 DEF RelationOK, NumStreamedExact
    <3>2. numStreamed'[p] \in Int /\ numStreamed[p] \in Int /\ MaxStreamed + 1 \in Int
      BY <2>8, StreamAssumption DEF RelationOK
    <3> QED BY <2>2, <3>1, <3>2 DEF RelationOK
  <2> QED BY <1>0, <2>6, <2>7, <2>8, <2>9, <2>10 DEF RelationOK, NumStreamedExact
<1>2. CASE p \notin streamedFor[q]
  <2>1. UNCHANGED <<streamedFor, numStreamed>>
    BY <1>2 DEF StreamOut
  <2>2. \A r \in Slots : StreamedTo(r)' = StreamedTo(r)
    BY <1>0, <2>1 DEF StreamedTo
  <2> QED BY <1>0, <2>1, <2>2 DEF RelationOK, NumStreamedExact
<1> QED BY <1>1, <1>2
-----------------------------------------------------------------------------
(* The invariant                                                            *)

\* Nothing the other invariants are about changes.
LEMMA RelationUnchanged ==
  ASSUME TypeOK, RelationOK,
         UNCHANGED <<inPool, leaving, streamedFor, numStreamed>>
  PROVE  RelationOK'
<1>1. Staying' = Staying
  BY DEF Staying
<1>2. \A r \in Slots : StreamedTo(r)' = StreamedTo(r)
  BY <1>1 DEF StreamedTo
<1> QED BY <1>1, <1>2, StayingSlots DEF RelationOK, NumStreamedExact

\* The inductive invariant holds of the empty pool.
THEOREM InitOK == Init => IInv
<1> SUFFICES ASSUME Init PROVE IInv
  OBVIOUS
<1>1. Staying = {}
  BY DEF Init, Staying
<1>2. TypeOK
  BY NoneNotSlot, EmptyStack, StreamAssumption DEF Init, TypeOK, PlayerStates
<1>3. FramesOK
  BY EmptyStack DEF Init, FramesOK
<1>4. RelationOK
  BY <1>1, StreamAssumption DEF Init, RelationOK, NumStreamedExact
<1>5. ColoursOK
  BY <1>1 DEF ColoursOK
<1> QED BY <1>2, <1>3, <1>4, <1>5 DEF IInv

\* While nobody comes or goes, the frames that are allowed are the same.
LEMMA FramesSame ==
  ASSUME UNCHANGED <<inPool, leaving>>
  PROVE  Staying' = Staying /\ StayingFrames' = StayingFrames
  BY DEF Staying, StayingFrames

\* Colours and player states are plain data here.
LEMMA ColoursUnchanged ==
  ASSUME ColoursOK, UNCHANGED <<inPool, leaving, colours>>
  PROVE  ColoursOK'
  BY DEF ColoursOK, Staying

-----------------------------------------------------------------------------
(* The operations: one lemma for each group that changes the same state     *)

\* A streaming step, and the stream-in of spectatePlayer.
LEMMA StreamNextOK ==
  ASSUME IInv, NEW q \in Slots, StreamNext(q)
  PROVE  IInv'
<1> USE DEF IInv
<1>0. UNCHANGED <<inPool, leaving, state, spectating, spectateID, colours>>
  BY DEF StreamNext
<1>1. Staying' = Staying /\ StayingFrames' = StayingFrames
  BY <1>0, FramesSame
<1>2. /\ Top \in StayingFrames
      /\ \A f \in StayingFrames : SetTop(f) \in Seq(StayingFrames)
  BY StackOps DEF FramesOK, StreamNext
<1>3. q \in Staying /\ Top.who \in Staying /\ Top.who # q
  BY <1>2 DEF StreamNext, StayingFrames
<1>4. RelationOK'
  <2>1. StreamIn(q, Top.who) \/ StreamOut(q, Top.who)
    BY DEF StreamNext
  <2> QED BY <1>0, <1>3, <2>1, StreamInOK, StreamOutOK
<1>5. FramesOK'
  <2>1. [Top EXCEPT !.todo = @ \ {q}, !.calls = (streamedFor' # streamedFor)]
          \in StayingFrames
    BY <1>2 DEF StayingFrames, Frames
  <2> QED BY <1>1, <1>2, <2>1 DEF StreamNext, FramesOK
<1>6. TypeOK'
  <2>1. stack' \in Seq(Frames)
    BY <1>1, <1>5, SeqMonotonic DEF FramesOK, StayingFrames
  <2> QED BY <1>0, <1>4, <2>1 DEF TypeOK, RelationOK
<1> QED BY <1>0, <1>4, <1>5, <1>6, ColoursUnchanged

\* A step of the restreaming after a spawn preserves the invariant.
LEMMA RestreamNextOK ==
  ASSUME IInv, NEW q \in Slots, RestreamNext(q)
  PROVE  IInv'
<1> USE DEF IInv
<1>0. UNCHANGED <<inPool, leaving, state, spectating, spectateID, colours>>
  BY DEF RestreamNext
<1>1. Staying' = Staying /\ StayingFrames' = StayingFrames
  BY <1>0, FramesSame
<1>2. /\ Top \in StayingFrames
      /\ \A f \in StayingFrames : SetTop(f) \in Seq(StayingFrames)
  BY StackOps DEF FramesOK, RestreamNext
<1>3. q \in Staying /\ Top.who \in Staying /\ Top.who # q
  BY <1>2 DEF RestreamNext, StayingFrames
<1>4. RelationOK'
  BY <1>0, <1>3, StreamOutOK DEF RestreamNext
<1>5. FramesOK'
  <2>1. [Top EXCEPT !.todo = @ \ {q}, !.calls = (streamedFor' # streamedFor)]
          \in StayingFrames
    BY <1>2 DEF StayingFrames, Frames
  <2> QED BY <1>1, <1>2, <2>1 DEF RestreamNext, FramesOK
<1>6. TypeOK'
  <2>1. stack' \in Seq(Frames)
    BY <1>1, <1>5, SeqMonotonic DEF FramesOK, StayingFrames
  <2> QED BY <1>0, <1>4, <2>1 DEF TypeOK, RelationOK
<1> QED BY <1>0, <1>4, <1>5, <1>6, ColoursUnchanged

\* So does the stream-in of spectatePlayer.
LEMMA SpectateStreamInOK ==
  ASSUME IInv, SpectateStreamIn
  PROVE  IInv'
<1> USE DEF IInv
<1>0. UNCHANGED <<inPool, leaving, state, spectating, spectateID, colours>>
  BY DEF SpectateStreamIn
<1>1. Staying' = Staying /\ StayingFrames' = StayingFrames
  BY <1>0, FramesSame
<1>2. /\ Top \in StayingFrames
      /\ \A f \in StayingFrames : SetTop(f) \in Seq(StayingFrames)
  BY StackOps DEF FramesOK, SpectateStreamIn
<1>3. Top.target \in Staying /\ Top.who \in Staying
  BY <1>2 DEF SpectateStreamIn, StayingFrames
<1>4. RelationOK'
  BY <1>0, <1>3, StreamInOK DEF SpectateStreamIn
<1>5. FramesOK'
  <2>1. [Top EXCEPT !.op = "streamed", !.calls = (streamedFor' # streamedFor)]
          \in StayingFrames
    BY <1>2, <1>3 DEF StayingFrames, Frames
  <2> QED BY <1>1, <1>2, <2>1 DEF SpectateStreamIn, FramesOK
<1>6. TypeOK'
  <2>1. stack' \in Seq(Frames)
    BY <1>1, <1>5, SeqMonotonic DEF FramesOK, StayingFrames
  <2> QED BY <1>0, <1>4, <2>1 DEF TypeOK, RelationOK
<1> QED BY <1>0, <1>4, <1>5, <1>6, ColoursUnchanged

\* The end of an operation.
LEMMA PopOK ==
  ASSUME IInv, EndPass \/ SpectateSetTarget
  PROVE  IInv'
<1> USE DEF IInv
<1>0. UNCHANGED <<inPool, leaving, state, streamedFor, numStreamed,
                  spectating, colours>>
  BY DEF EndPass, SpectateSetTarget, playerVars
<1>1. Staying' = Staying /\ StayingFrames' = StayingFrames
  BY <1>0, FramesSame
<1>2. Top \in StayingFrames /\ Pop \in Seq(StayingFrames)
  BY StackOps DEF FramesOK, EndPass, SpectateSetTarget
<1>3. FramesOK'
  BY <1>1, <1>2 DEF FramesOK, EndPass, SpectateSetTarget
<1>4. spectateID' \in [Slots -> Slots \union {None}]
  BY <1>2 DEF TypeOK, EndPass, SpectateSetTarget, StayingFrames, Frames, playerVars
<1>5. TypeOK'
  <2>1. stack' \in Seq(Frames)
    BY <1>1, <1>3, SeqMonotonic DEF FramesOK, StayingFrames
  <2> QED BY <1>0, <1>4, <2>1 DEF TypeOK
<1>6. RelationOK'
  BY <1>0, RelationUnchanged
<1> QED BY <1>0, <1>3, <1>5, <1>6, ColoursUnchanged

\* The packets that start a pass: they come when nothing is in progress, and
\* the pass is over players of the pool.
LEMMA PacketOK ==
  ASSUME IInv, NEW p \in Slots, Sync(p) \/ SpectatorSync(p) \/ PlayerSpawn(p)
  PROVE  IInv'
<1> USE DEF IInv
<1>0. /\ UNCHANGED <<inPool, leaving, streamedFor, numStreamed, spectating,
                     spectateID, colours>>
      /\ leaving = None /\ stack = << >> /\ p \in inPool
  BY DEF Sync, SpectatorSync, PlayerSpawn, Idle
<1>1. Staying' = Staying /\ StayingFrames' = StayingFrames
  BY <1>0, FramesSame
<1>2. Staying = inPool
  BY <1>0, NoneNotSlot DEF Staying, TypeOK
<1>3. FramesOK'
  <2>1. \A op \in {"stream", "restream"} :
          Pass(op, p, inPool \ {p}) \in StayingFrames
    BY <1>0, <1>2, StayingSlots DEF Pass, StayingFrames, Frames, TypeOK
  <2>2. \A f \in StayingFrames : <<f>> \in Seq(StayingFrames)
    OBVIOUS
  <2>3. \/ stack' = stack
        \/ \E op \in {"stream", "restream"} : stack' = <<Pass(op, p, inPool \ {p})>>
    BY DEF Sync, SpectatorSync, PlayerSpawn, PlayerUpdate
  <2> QED BY <1>1, <2>1, <2>2, <2>3 DEF FramesOK
<1>4. state' \in [Slots -> PlayerStates]
  BY DEF Sync, SpectatorSync, PlayerSpawn, TypeOK, PlayerStates
<1>5. TypeOK'
  <2>1. stack' \in Seq(Frames)
    BY <1>1, <1>3, SeqMonotonic DEF FramesOK, StayingFrames
  <2> QED BY <1>0, <1>4, <2>1 DEF TypeOK
<1>6. RelationOK'
  BY <1>0, RelationUnchanged
<1> QED BY <1>0, <1>3, <1>5, <1>6, ColoursUnchanged

\* Scripts that only change spectator mode.
LEMMA ModeOK ==
  ASSUME IInv, NEW p \in Slots,
         Spawn(p) \/ \E on \in BOOLEAN : SetSpectating(p, on)
  PROVE  IInv'
<1> USE DEF IInv
<1>0. UNCHANGED <<inPool, leaving, state, streamedFor, numStreamed, colours, stack>>
  BY DEF Spawn, SetSpectating
<1>1. Staying' = Staying /\ StayingFrames' = StayingFrames
  BY <1>0, FramesSame
<1>2. /\ spectating' \in [Slots -> BOOLEAN]
      /\ spectateID' \in [Slots -> Slots \union {None}]
  BY DEF Spawn, SetSpectating, TypeOK
<1>3. TypeOK'
  BY <1>0, <1>2 DEF TypeOK
<1>4. FramesOK'
  BY <1>0, <1>1 DEF FramesOK
<1>5. RelationOK'
  BY <1>0, RelationUnchanged
<1> QED BY <1>0, <1>3, <1>4, <1>5, ColoursUnchanged

\* spectatePlayer of and by players that stay: this is where LateOps matters.
LEMMA SpectatePlayerOK ==
  ASSUME IInv, LateOps = FALSE, NEW p \in Slots, NEW t \in Slots,
         SpectatePlayer(p, t)
  PROVE  IInv'
<1> USE DEF IInv
<1>0. UNCHANGED <<inPool, leaving, streamedFor, numStreamed, spectateID, colours>>
  BY DEF SpectatePlayer
<1>1. Staying' = Staying /\ StayingFrames' = StayingFrames
  BY <1>0, FramesSame
<1>2. p \in Staying /\ t \in Staying
  BY DEF SpectatePlayer, Usable, Remembered, Staying
<1>3. FramesOK'
  <2>1. Spectate(p, t) \in StayingFrames
    BY <1>2 DEF Spectate, StayingFrames, Frames
  <2>2. Append(stack, Spectate(p, t)) \in Seq(StayingFrames)
    BY <2>1 DEF FramesOK
  <2> QED BY <1>1, <2>2 DEF FramesOK, SpectatePlayer
<1>4. /\ spectating' \in [Slots -> BOOLEAN]
      /\ state' \in [Slots -> PlayerStates]
  BY DEF SpectatePlayer, TypeOK, PlayerStates
<1>5. TypeOK'
  <2>1. stack' \in Seq(Frames)
    BY <1>1, <1>3, SeqMonotonic DEF FramesOK, StayingFrames
  <2> QED BY <1>0, <1>4, <2>1 DEF TypeOK
<1>6. RelationOK'
  BY <1>0, RelationUnchanged
<1> QED BY <1>0, <1>3, <1>5, <1>6, ColoursUnchanged

\* Per-player colours.
LEMMA ColourOpsOK ==
  ASSUME IInv, LateOps = FALSE, NEW p \in Slots,
         SetColour(p) \/ \E t \in Slots : SetOtherColour(p, t)
  PROVE  IInv'
<1> USE DEF IInv
<1>0. UNCHANGED <<inPool, leaving, state, streamedFor, numStreamed, spectating,
                  spectateID, stack>>
  BY DEF SetColour, SetOtherColour
<1>1. Staying' = Staying /\ StayingFrames' = StayingFrames
  BY <1>0, FramesSame
<1>2. colours' \in [Slots -> SUBSET Slots]
  <2>1. CASE SetColour(p)
    BY <2>1 DEF SetColour, TypeOK
  <2>2. CASE \E t \in Slots : SetOtherColour(p, t)
    BY <2>2 DEF SetOtherColour, TypeOK
  <2> QED BY <2>1, <2>2
<1>3. ColoursOK'
  <2>1. CASE SetColour(p)
    BY <1>1, <2>1 DEF SetColour, ColoursOK, Staying, TypeOK
  <2>2. CASE \E t \in Slots : SetOtherColour(p, t)
    <3>1. PICK t \in Slots : SetOtherColour(p, t)
      BY <2>2
    <3>2. t \in Staying
      BY <3>1 DEF SetOtherColour, Usable, Remembered, Staying
    <3> QED BY <1>1, <3>1, <3>2 DEF SetOtherColour, ColoursOK, TypeOK
  <2> QED BY <2>1, <2>2
<1>4. TypeOK'
  BY <1>0, <1>2 DEF TypeOK
<1>5. FramesOK'
  BY <1>0, <1>1 DEF FramesOK
<1>6. RelationOK'
  BY <1>0, RelationUnchanged
<1> QED BY <1>3, <1>4, <1>5, <1>6

-----------------------------------------------------------------------------
(* Players that come and go: nothing else is in progress                    *)

\* With no operation in progress the frames are fine whoever is in the pool.
LEMMA NoFrames ==
  ASSUME stack' = << >>
  PROVE  FramesOK' /\ stack' \in Seq(Frames)
  BY EmptyStack DEF FramesOK

\* The constructor and reset give well-typed values.
LEMMA FreshType ==
  ASSUME TypeOK, NEW ps \in SUBSET Slots, Fresh(ps)
  PROVE  /\ state' \in [Slots -> PlayerStates]
         /\ streamedFor' \in [Slots -> SUBSET Slots]
         /\ numStreamed' \in [Slots -> 0 .. CounterSize - 1]
         /\ spectating' \in [Slots -> BOOLEAN]
         /\ spectateID' \in [Slots -> Slots \union {None}]
         /\ colours' \in [Slots -> SUBSET Slots]
<1>1. 0 \in 0 .. CounterSize - 1
  BY StreamAssumption
<1>2. /\ state' \in [Slots -> PlayerStates]
      /\ streamedFor' \in [Slots -> SUBSET Slots]
  BY DEF Fresh, TypeOK, PlayerStates
<1>3. numStreamed' \in [Slots -> 0 .. CounterSize - 1]
  BY <1>1 DEF Fresh, TypeOK
<1>4. spectating' \in [Slots -> BOOLEAN]
  BY DEF Fresh, TypeOK
<1>5. spectateID' \in [Slots -> Slots \union {None}]
  BY DEF Fresh, TypeOK
<1>6. colours' \in [Slots -> SUBSET Slots]
  BY DEF Fresh, TypeOK
<1> QED BY <1>2, <1>3, <1>4, <1>5, <1>6

\* A new player starts with no relation to anybody.
LEMMA JoinOK ==
  ASSUME IInv, NEW p \in Slots, Join(p)
  PROVE  IInv'
<1> USE DEF IInv
<1>0. /\ leaving = None /\ leaving' = None /\ stack = << >> /\ stack' = << >>
      /\ p \notin inPool /\ inPool' = inPool \union {p} /\ Fresh({p})
  BY DEF Join, Idle
<1>1. Staying = inPool /\ Staying' = inPool \union {p}
  BY <1>0, NoneNotSlot DEF Staying, TypeOK
<1>2. TypeOK'
  BY <1>0, FreshType, NoFrames DEF TypeOK
<1>3. ASSUME NEW r \in inPool
      PROVE  /\ streamedFor'[r] = streamedFor[r]
             /\ numStreamed'[r] = numStreamed[r]
             /\ colours'[r] = colours[r]
             /\ r # p /\ r \in Slots
  BY <1>0 DEF Fresh, TypeOK
<1>4. streamedFor'[p] = {p} /\ numStreamed'[p] = 0 /\ colours'[p] = {}
  BY <1>0 DEF Fresh
<1>5. StreamedTo(p)' = {}
  <2>1. \A q \in inPool : p \notin streamedFor'[q]
    BY <1>0, <1>1, <1>3 DEF RelationOK
  <2> QED BY <1>1, <2>1 DEF StreamedTo
<1>6. \A r \in inPool : StreamedTo(r)' = StreamedTo(r)
  BY <1>1, <1>3, <1>4 DEF StreamedTo
<1>7. NumStreamedExact'
  BY <1>1, <1>3, <1>4, <1>5, <1>6, FS_EmptySet DEF RelationOK, NumStreamedExact
<1>8. RelationOK'
  <2>1. \A r \in Staying' : r \in streamedFor'[r] /\ streamedFor'[r] \subseteq Staying'
    BY <1>1, <1>3, <1>4 DEF RelationOK
  <2>2. \A r \in Staying' : numStreamed'[r] <= MaxStreamed + 1
    BY <1>1, <1>3, <1>4, StreamAssumption DEF RelationOK
  <2> QED BY <1>2, <1>7, <2>1, <2>2 DEF RelationOK, TypeOK
<1>9. ColoursOK'
  BY <1>1, <1>3, <1>4 DEF ColoursOK
<1> QED BY <1>0, <1>2, <1>8, <1>9, NoFrames

\* The leaver is forgotten before onPlayerDisconnect runs.
LEMMA BeginLeaveOK ==
  ASSUME IInv, NEW l \in Slots, BeginLeave(l)
  PROVE  IInv'
<1> USE DEF IInv
<1> DEFINE others == inPool \ {l}
           seers  == others \intersect streamedFor[l]
<1>0. /\ leaving = None /\ leaving' = l /\ stack = << >> /\ stack' = << >>
      /\ l \in inPool /\ inPool' = inPool /\ state' = state
  BY DEF BeginLeave, Idle
<1>1. Staying = inPool /\ Staying' = others /\ others \subseteq Slots
  BY <1>0, NoneNotSlot DEF Staying, TypeOK
<1>2. /\ numStreamed' = [p \in Slots |->
             IF p \in seers THEN Dec(numStreamed[p]) ELSE numStreamed[p]]
      /\ streamedFor' = [p \in Slots |->
             IF p \in others THEN streamedFor[p] \ {l} ELSE streamedFor[p]]
      /\ colours' = [p \in Slots |->
             IF p \in others THEN colours[p] \ {l} ELSE colours[p]]
  BY DEF BeginLeave, Forget
<1>3. /\ spectating' \in [Slots -> BOOLEAN]
      /\ spectateID' \in [Slots -> Slots \union {None}]
  BY DEF BeginLeave, TypeOK
<1>4. /\ streamedFor' \in [Slots -> SUBSET Slots]
      /\ colours' \in [Slots -> SUBSET Slots]
  <2>1. streamedFor' \in [Slots -> SUBSET Slots]
    BY <1>2 DEF TypeOK
  <2>2. colours' \in [Slots -> SUBSET Slots]
    BY <1>2 DEF TypeOK
  <2> QED BY <2>1, <2>2
<1>5. ASSUME NEW r \in others
      PROVE  /\ StreamedTo(r)' = StreamedTo(r) \ {l}
             /\ l \in StreamedTo(r) <=> r \in seers
  BY <1>0, <1>1, <1>2 DEF StreamedTo
<1>6. ASSUME NEW r \in others
      PROVE  /\ numStreamed'[r] = Cardinality(StreamedTo(r)')
             /\ numStreamed'[r] \in 0 .. CounterSize - 1
             /\ numStreamed'[r] <= MaxStreamed + 1
  <2>0. /\ r \in Slots /\ r \in Staying
        /\ numStreamed[r] = Cardinality(StreamedTo(r))
        /\ numStreamed[r] \in 0 .. CounterSize - 1
        /\ numStreamed[r] <= MaxStreamed + 1
    BY <1>1 DEF RelationOK, NumStreamedExact
  <2>1. CASE r \in seers
    <3>1. /\ Cardinality(StreamedTo(r) \ {l}) = Cardinality(StreamedTo(r)) - 1
          /\ Cardinality(StreamedTo(r) \ {l}) \in Nat
      <4>1. IsFiniteSet(StreamedTo(r) \ {l})
        BY <2>0, StreamedToFinite, FS_RemoveElement
      <4>2. l \in StreamedTo(r)
        BY <1>5, <2>1
      <4> QED BY <2>0, <4>1, <4>2, StreamedToFinite, FS_RemoveElement,
                 FS_CardinalityType
    <3>2. numStreamed[r] \in 1 .. CounterSize - 1
      BY <2>0, <3>1
    <3>3. numStreamed'[r] = Dec(numStreamed[r])
      BY <1>2, <2>0, <2>1
    <3>4. Dec(numStreamed[r]) = numStreamed[r] - 1
      BY <3>2, DecValue
    <3>5. Cardinality(StreamedTo(r)') = Cardinality(StreamedTo(r)) - 1
      BY <1>5, <3>1
    <3> QED BY <2>0, <3>2, <3>3, <3>4, <3>5, StreamAssumption
  <2>2. CASE r \notin seers
    <3>1. StreamedTo(r)' = StreamedTo(r)
      BY <1>5, <2>2
    <3>2. numStreamed'[r] = numStreamed[r]
      BY <1>2, <2>0, <2>2
    <3> QED BY <2>0, <3>1, <3>2
  <2> QED BY <2>1, <2>2
<1>7. numStreamed' \in [Slots -> 0 .. CounterSize - 1]
  <2>1. \A r \in Slots : numStreamed'[r] \in 0 .. CounterSize - 1
    <3>1. ASSUME NEW r \in Slots \ others
          PROVE  numStreamed'[r] \in 0 .. CounterSize - 1
      BY <1>2 DEF TypeOK
    <3> QED BY <1>6, <3>1
  <2> QED BY <1>2, <2>1
<1>8. TypeOK'
  BY <1>0, <1>3, <1>4, <1>7, NoFrames DEF TypeOK
<1>9. RelationOK'
  <2>1. \A r \in others : r \in streamedFor'[r] /\ streamedFor'[r] \subseteq others
    BY <1>1, <1>2 DEF RelationOK
  <2>2. NumStreamedExact'
    BY <1>1, <1>6 DEF NumStreamedExact
  <2> QED BY <1>1, <1>4, <1>6, <1>7, <2>1, <2>2 DEF RelationOK
<1>10. ColoursOK'
  BY <1>1, <1>2 DEF ColoursOK
<1> QED BY <1>0, <1>8, <1>9, <1>10, NoFrames

\* Removing the leaver changes nothing for those that stay.
LEMMA EndLeaveOK ==
  ASSUME IInv, EndLeave
  PROVE  IInv'
<1> USE DEF IInv
<1>0. /\ leaving # None /\ leaving' = None /\ stack = << >> /\ stack' = << >>
      /\ leaving \in Slots /\ inPool' = inPool \ {leaving} /\ Fresh({leaving})
  BY DEF EndLeave, TypeOK
<1>1. Staying' = Staying /\ Staying \subseteq Slots
  BY <1>0, NoneNotSlot DEF Staying, TypeOK
<1>2. TypeOK'
  BY <1>0, FreshType, NoFrames DEF TypeOK
<1>3. ASSUME NEW r \in Staying
      PROVE  /\ streamedFor'[r] = streamedFor[r]
             /\ numStreamed'[r] = numStreamed[r]
             /\ colours'[r] = colours[r]
  BY <1>0, <1>1 DEF Fresh, Staying
<1>4. \A r \in Staying : StreamedTo(r)' = StreamedTo(r)
  BY <1>1, <1>3 DEF StreamedTo
<1>5. RelationOK'
  BY <1>1, <1>2, <1>3, <1>4 DEF RelationOK, NumStreamedExact, TypeOK
<1>6. ColoursOK'
  BY <1>1, <1>3 DEF ColoursOK
<1> QED BY <1>0, <1>2, <1>5, <1>6, NoFrames

\* Everybody is reset at once when the gamemode changes.
LEMMA ResetAllOK ==
  ASSUME IInv, ResetAll
  PROVE  IInv'
<1> USE DEF IInv
<1>0. /\ leaving = None /\ leaving' = None /\ stack = << >> /\ stack' = << >>
      /\ inPool' = inPool /\ Fresh(inPool) /\ inPool \subseteq Slots
  BY DEF ResetAll, Idle, TypeOK
<1>1. Staying' = inPool
  BY <1>0, NoneNotSlot DEF Staying
<1>2. TypeOK'
  BY <1>0, FreshType, NoFrames DEF TypeOK
<1>3. \A r \in inPool : streamedFor'[r] = {r} /\ numStreamed'[r] = 0 /\ colours'[r] = {}
  BY <1>0 DEF Fresh
<1>4. \A r \in inPool : StreamedTo(r)' = {}
  BY <1>1, <1>3 DEF StreamedTo
<1>5. NumStreamedExact'
  BY <1>1, <1>3, <1>4, FS_EmptySet DEF NumStreamedExact
<1>6. RelationOK'
  BY <1>1, <1>2, <1>3, <1>5, StreamAssumption DEF RelationOK, TypeOK
<1>7. ColoursOK'
  BY <1>1, <1>3 DEF ColoursOK
<1> QED BY <1>0, <1>2, <1>6, <1>7, NoFrames

-----------------------------------------------------------------------------
(* The theorems                                                             *)

\* IInv is inductive.
THEOREM NextOK ==
  ASSUME LateOps = FALSE
  PROVE  IInv /\ [Next]_vars => IInv'
<1> SUFFICES ASSUME IInv, [Next]_vars PROVE IInv'
  OBVIOUS
<1>1. CASE Continue
  <2>1. ASSUME NEW q \in Slots, StreamNext(q) \/ RestreamNext(q)
        PROVE  IInv'
    BY <2>1, StreamNextOK, RestreamNextOK
  <2> QED BY <1>1, <2>1, PopOK, SpectateStreamInOK, EndLeaveOK
          DEF Continue, StreamStep
<1>2. CASE ResetAll
  BY <1>2, ResetAllOK
<1>3. ASSUME NEW p \in Slots,
             Sync(p) \/ SpectatorSync(p) \/ PlayerSpawn(p)
      PROVE  IInv'
  BY <1>3, PacketOK
<1>4. ASSUME NEW p \in Slots, \E on \in BOOLEAN : SetSpectating(p, on)
      PROVE  IInv'
  BY <1>4, ModeOK
<1>5. ASSUME NEW p \in Slots, Spawn(p) PROVE IInv'
  BY <1>5, ModeOK
<1>6. ASSUME NEW p \in Slots, NEW t \in Slots, SpectatePlayer(p, t)
      PROVE  IInv'
  BY <1>6, SpectatePlayerOK
<1>7. ASSUME NEW p \in Slots,
             SetColour(p) \/ \E t \in Slots : SetOtherColour(p, t)
      PROVE  IInv'
  BY <1>7, ColourOpsOK
<1>8. ASSUME NEW p \in Slots, Join(p) PROVE IInv'
  BY <1>8, JoinOK
<1>9. ASSUME NEW p \in Slots, BeginLeave(p) PROVE IInv'
  BY <1>9, BeginLeaveOK
<1>10. CASE UNCHANGED vars
  BY <1>10 DEF vars, playerVars, IInv, TypeOK, FramesOK, StayingFrames, Staying,
               RelationOK, NumStreamedExact, StreamedTo, ColoursOK
<1> QED
  BY <1>1, <1>2, <1>3, <1>4, <1>5, <1>6, <1>7, <1>8, <1>9, <1>10 DEF Next

\* Every reachable state satisfies the inductive invariant.
THEOREM Invariant == ASSUME LateOps = FALSE PROVE Spec => []IInv
  BY InitOK, NextOK, PTL DEF Spec

\* The variables keep their types; no counter leaves the range of a uint16_t.
THEOREM TypeCorrect == ASSUME LateOps = FALSE PROVE Spec => []TypeOK
<1>1. IInv => TypeOK
  BY DEF IInv
<1> QED BY Invariant, <1>1, PTL

\* numStreamed_ always counts exactly the players streamed in for a player,
\* for any number of players and any nesting of callbacks.
THEOREM CountersExact == ASSUME LateOps = FALSE PROVE Spec => []NumStreamedExact
<1>1. IInv => NumStreamedExact
  BY DEF IInv, RelationOK
<1> QED BY Invariant, <1>1, PTL

\* No client is ever shown more than MAX_STREAMED_PLAYERS + 1 players.
THEOREM StreamBounded == ASSUME LateOps = FALSE PROVE Spec => []StreamLimit
<1>1. IInv => StreamLimit
  BY DEF IInv, RelationOK, NumStreamedExact, StreamLimit
<1> QED BY Invariant, <1>1, PTL

\* A freed id leaves no streaming state and no colour behind.
THEOREM NothingStale == ASSUME LateOps = FALSE PROVE Spec => []NoStaleReferences
<1>1. IInv => NoStaleReferences
  BY DEF IInv, RelationOK, ColoursOK, NoStaleReferences
<1> QED BY Invariant, <1>1, PTL

-----------------------------------------------------------------------------
(* Stale references, whatever the callbacks do                              *)

\* The operations in progress, of and between players of the pool.
PoolFrames == {f \in Frames :
    /\ f.who \in inPool
    /\ f.op \in {"spectate", "streamed"} => f.target \in inPool}

\* What a step needs in order to keep track of stale references.
WInv ==
    /\ inPool \subseteq Slots
    /\ streamedFor \in [Slots -> SUBSET Slots]
    /\ colours \in [Slots -> SUBSET Slots]
    /\ stack \in Seq(PoolFrames)

\* What StaleFromDispatchOnly says of a step.
StaleStep ==
    \A p \in Staying' : Stale(p)' \subseteq Stale(p) \union ({leaving} \ {None})

\* The effect of most steps: nobody comes or goes, and what players keep gains
\* at most one name, that of a player in the pool.
OneName ==
    /\ UNCHANGED <<inPool, leaving>>
    /\ streamedFor' \in [Slots -> SUBSET Slots]
    /\ colours' \in [Slots -> SUBSET Slots]
    /\ \E t \in inPool : \A p \in inPool :
         /\ streamedFor'[p] \subseteq streamedFor[p] \union {t}
         /\ colours'[p] \subseteq colours[p] \union {t}

\* The name gained is stale only if it is the leaver's.
LEMMA OneNameOK ==
  ASSUME WInv, OneName
  PROVE  StaleStep
<1>1. Staying' = Staying /\ Staying \subseteq inPool
  BY DEF OneName, Staying
<1>2. PICK t \in inPool : \A p \in inPool :
         /\ streamedFor'[p] \subseteq streamedFor[p] \union {t}
         /\ colours'[p] \subseteq colours[p] \union {t}
  BY DEF OneName
<1>3. t \in Staying \/ t \in {leaving} \ {None}
  BY NoneNotSlot DEF Staying, WInv
<1> QED BY <1>1, <1>2, <1>3 DEF Stale, StaleStep

\* Streaming in gains the name of the player it is for, streaming out none.
LEMMA StreamNames ==
  ASSUME WInv, UNCHANGED <<inPool, leaving, colours>>, NEW q \in Slots,
         \/ \E p \in inPool : StreamIn(q, p) \/ StreamOut(q, p)
         \/ inPool # {} /\ \E p \in Slots : StreamOut(q, p)
  PROVE  OneName
<1>1. CASE streamedFor' = streamedFor /\ inPool # {}
  BY <1>1 DEF OneName, WInv
<1>2. ASSUME NEW p \in inPool, streamedFor' = [streamedFor EXCEPT ![q] = @ \union {p}]
      PROVE  OneName
  BY <1>2 DEF OneName, WInv
<1>3. ASSUME NEW p \in Slots, inPool # {},
             streamedFor' = [streamedFor EXCEPT ![q] = @ \ {p}]
      PROVE  OneName
  BY <1>3 DEF OneName, WInv
<1> QED BY <1>1, <1>2, <1>3 DEF StreamIn, StreamOut, WInv

\* The frame on top of the stack goes on.
LEMMA TopGoesOn ==
  ASSUME WInv, OneName, stack # << >>, NEW f \in PoolFrames, stack' = SetTop(f)
  PROVE  WInv'
<1>1. stack' \in Seq(PoolFrames)
  BY StackOps DEF WInv
<1>2. PoolFrames' = PoolFrames
  BY DEF OneName, PoolFrames
<1> QED BY <1>1, <1>2 DEF WInv, OneName

\* The steps of operations in progress that stream.
LEMMA StaleInPass ==
  ASSUME WInv, StreamStep \/ SpectateStreamIn
  PROVE  WInv' /\ StaleStep
<1>0. UNCHANGED <<inPool, leaving, colours>> /\ stack # << >>
  BY DEF StreamStep, StreamNext, RestreamNext, SpectateStreamIn
<1>1. Top \in PoolFrames /\ Top.who \in inPool /\ Top.who \in Slots
  BY <1>0, StackOps DEF WInv, PoolFrames, Frames
<1>2. \A q \in Slots :
        [Top EXCEPT !.todo = @ \ {q}, !.calls = (streamedFor' # streamedFor)]
          \in PoolFrames
  BY <1>1 DEF PoolFrames, Frames
<1>3. ASSUME NEW q \in Slots, StreamNext(q) \/ RestreamNext(q)
      PROVE  WInv' /\ OneName
  <2>1. OneName
    <3>1. \/ StreamIn(q, Top.who) \/ StreamOut(q, Top.who)
          \/ StreamOut(Top.who, q)
      BY <1>3 DEF StreamNext, RestreamNext
    <3> QED BY <1>0, <1>1, <3>1, StreamNames
  <2>2. stack' = SetTop([Top EXCEPT !.todo = @ \ {q},
                                    !.calls = (streamedFor' # streamedFor)])
    BY <1>3 DEF StreamNext, RestreamNext
  <2> QED BY <1>0, <1>2, <2>1, <2>2, TopGoesOn
<1>4. CASE SpectateStreamIn
  <2>1. Top.target \in Slots /\ StreamIn(Top.target, Top.who)
    BY <1>1, <1>4 DEF SpectateStreamIn, PoolFrames, WInv
  <2>2. OneName
    BY <1>0, <1>1, <2>1, StreamNames
  <2>3. [Top EXCEPT !.op = "streamed", !.calls = (streamedFor' # streamedFor)]
          \in PoolFrames
    BY <1>1, <1>4 DEF SpectateStreamIn, PoolFrames, Frames
  <2>4. WInv'
    BY <1>0, <1>4, <2>2, <2>3, TopGoesOn DEF SpectateStreamIn
  <2> QED BY <2>2, <2>4, OneNameOK
<1> QED BY <1>3, <1>4, OneNameOK DEF StreamStep

\* The other steps while nobody comes or goes.
LEMMA StaleInPlace ==
  ASSUME WInv,
         \/ EndPass \/ SpectateSetTarget
         \/ \E p \in Slots :
              \/ Sync(p) \/ SpectatorSync(p) \/ PlayerSpawn(p)
              \/ \E on \in BOOLEAN : SetSpectating(p, on)
              \/ Spawn(p)
              \/ \E t \in Slots : SpectatePlayer(p, t)
  PROVE  WInv' /\ StaleStep
<1>0. UNCHANGED <<inPool, leaving, streamedFor, colours>>
  BY DEF EndPass, SpectateSetTarget, Sync, SpectatorSync, PlayerSpawn,
         SetSpectating, Spawn, SpectatePlayer, playerVars
<1>1. PoolFrames' = PoolFrames
  BY <1>0 DEF PoolFrames
<1>2. stack' \in Seq(PoolFrames)
  <2>1. CASE stack' = stack
    BY <2>1 DEF WInv
  <2>2. CASE EndPass \/ SpectateSetTarget
    BY <2>2, StackOps DEF EndPass, SpectateSetTarget, WInv
  <2>3. ASSUME NEW p \in inPool, NEW op \in {"stream", "restream"},
               stack' = <<Pass(op, p, inPool \ {p})>>
        PROVE  stack' \in Seq(PoolFrames)
    <3>1. Pass(op, p, inPool \ {p}) \in PoolFrames
      BY <2>3 DEF Pass, PoolFrames, Frames, WInv
    <3>2. \A f \in PoolFrames : <<f>> \in Seq(PoolFrames)
      OBVIOUS
    <3> QED BY <2>3, <3>1, <3>2
  <2>4. ASSUME NEW p \in Slots, NEW t \in Slots, SpectatePlayer(p, t)
        PROVE  stack' \in Seq(PoolFrames)
    <3>1. Spectate(p, t) \in PoolFrames
      BY <2>4 DEF SpectatePlayer, Usable, Spectate, PoolFrames, Frames
    <3> QED BY <2>4, <3>1 DEF SpectatePlayer, WInv
  <2>5. ASSUME NEW p \in Slots, Sync(p) \/ SpectatorSync(p) \/ PlayerSpawn(p)
        PROVE  \/ stack' = stack
               \/ /\ p \in inPool
                  /\ \E op \in {"stream", "restream"} :
                       stack' = <<Pass(op, p, inPool \ {p})>>
    BY <2>5 DEF Sync, SpectatorSync, PlayerSpawn, PlayerUpdate
  <2>6. ASSUME NEW p \in Slots, Spawn(p) \/ \E on \in BOOLEAN : SetSpectating(p, on)
        PROVE  stack' = stack
    BY <2>6 DEF Spawn, SetSpectating
  <2> QED BY <2>1, <2>2, <2>3, <2>4, <2>5, <2>6
<1>3. WInv'
  BY <1>0, <1>1, <1>2 DEF WInv
<1>4. StaleStep
  BY <1>0 DEF StaleStep, Stale, Staying
<1> QED BY <1>3, <1>4

\* Per-player colours: a name of the pool, or one less.
LEMMA StaleInColours ==
  ASSUME WInv, NEW p \in Slots,
         SetColour(p) \/ \E t \in Slots : SetOtherColour(p, t)
  PROVE  WInv' /\ StaleStep
<1>0. UNCHANGED <<inPool, leaving, streamedFor, stack>> /\ p \in inPool
  BY DEF SetColour, SetOtherColour, Usable
<1>1. OneName
  <2>1. CASE SetColour(p)
    BY <1>0, <2>1 DEF SetColour, OneName, WInv
  <2>2. ASSUME NEW t \in Slots, SetOtherColour(p, t)
        PROVE  OneName
    BY <1>0, <2>2 DEF SetOtherColour, Usable, OneName, WInv
  <2> QED BY <2>1, <2>2
<1>2. WInv'
  BY <1>0, <1>1 DEF WInv, OneName, PoolFrames
<1> QED BY <1>1, <1>2, OneNameOK

\* Players come and go when no operation is in progress; a leaver is forgotten
\* by all the others before it stops being one of those that stay.
LEMMA StaleInPool ==
  ASSUME WInv,
         ResetAll \/ EndLeave \/ \E p \in Slots : Join(p) \/ BeginLeave(p)
  PROVE  WInv' /\ StaleStep
<1>1. stack' = << >> /\ stack' \in Seq(PoolFrames')
  BY EmptyStack DEF ResetAll, EndLeave, Join, BeginLeave, Idle
<1>2. CASE ResetAll
  BY <1>1, <1>2 DEF ResetAll, Fresh, WInv, StaleStep, Stale, Staying
<1>3. CASE EndLeave
  <2>1. Staying' = Staying /\ leaving \notin Staying
    BY <1>3, NoneNotSlot DEF EndLeave, Staying, WInv
  <2>2. \A p \in Staying : streamedFor'[p] = streamedFor[p] /\ colours'[p] = colours[p]
    BY <1>3, <2>1 DEF EndLeave, Fresh, WInv, Staying
  <2>3. WInv'
    BY <1>1, <1>3 DEF EndLeave, Fresh, WInv
  <2> QED BY <2>1, <2>2, <2>3 DEF StaleStep, Stale
<1>4. ASSUME NEW p \in Slots, Join(p) PROVE WInv' /\ StaleStep
  <2>1. Staying' = Staying \union {p} /\ p \notin Staying /\ Staying \subseteq Slots
    BY <1>4, NoneNotSlot DEF Join, Idle, Staying, WInv
  <2>2. \A r \in Staying : streamedFor'[r] = streamedFor[r] /\ colours'[r] = colours[r]
    BY <1>4, <2>1 DEF Join, Fresh
  <2>3. streamedFor'[p] = {p} /\ colours'[p] = {}
    BY <1>4 DEF Join, Fresh
  <2>4. WInv'
    BY <1>1, <1>4 DEF Join, Fresh, WInv
  <2> QED BY <2>1, <2>2, <2>3, <2>4 DEF StaleStep, Stale
<1>5. ASSUME NEW l \in Slots, BeginLeave(l) PROVE WInv' /\ StaleStep
  <2>1. Staying' = Staying \ {l} /\ Staying \subseteq Slots
    BY <1>5, NoneNotSlot DEF BeginLeave, Idle, Staying, WInv
  <2>2. \A r \in Staying \ {l} : /\ streamedFor'[r] = streamedFor[r] \ {l}
                                 /\ colours'[r] = colours[r] \ {l}
    BY <1>5, <2>1 DEF BeginLeave, Forget, Staying
  <2>3. WInv'
    BY <1>1, <1>5 DEF BeginLeave, Forget, WInv
  <2> QED BY <2>1, <2>2, <2>3 DEF StaleStep, Stale
<1> QED BY <1>2, <1>3, <1>4, <1>5

\* Whatever scripts do in whatever callback, onPlayerDisconnect's included: an
\* entry for a player that is not there, in what another player keeps, is only
\* ever made while that player's own onPlayerDisconnect is dispatched.
THEOREM StaleFromDispatch == Spec => StaleFromDispatchOnly
<1>1. Init => WInv
  BY EmptyStack DEF Init, WInv
<1>2. WInv /\ [Next]_vars => WInv' /\ StaleStep
  <2> SUFFICES ASSUME WInv, [Next]_vars PROVE WInv' /\ StaleStep
    OBVIOUS
  <2>1. CASE Continue
    BY <2>1, StaleInPass, StaleInPlace, StaleInPool DEF Continue
  <2>2. CASE ResetAll
    BY <2>2, StaleInPool
  <2>3. ASSUME NEW p \in Slots,
               \/ Sync(p) \/ SpectatorSync(p) \/ PlayerSpawn(p)
               \/ \E on \in BOOLEAN : SetSpectating(p, on)
               \/ Spawn(p)
               \/ \E t \in Slots : SpectatePlayer(p, t)
        PROVE  WInv' /\ StaleStep
    BY <2>3, StaleInPlace
  <2>4. ASSUME NEW p \in Slots,
               SetColour(p) \/ \E t \in Slots : SetOtherColour(p, t)
        PROVE  WInv' /\ StaleStep
    BY <2>4, StaleInColours
  <2>5. ASSUME NEW p \in Slots, Join(p) \/ BeginLeave(p) PROVE WInv' /\ StaleStep
    BY <2>5, StaleInPool
  <2>6. CASE UNCHANGED vars
    BY <2>6 DEF vars, playerVars, WInv, PoolFrames, StaleStep, Stale, Staying
  <2> QED BY <2>1, <2>2, <2>3, <2>4, <2>5, <2>6 DEF Next
<1>3. StaleStep => \A p \in Staying' :
                     Stale(p)' \subseteq Stale(p) \union ({leaving} \ {None})
  BY DEF StaleStep
<1> QED BY <1>1, <1>2, <1>3, PTL DEF Spec, StaleFromDispatchOnly

-----------------------------------------------------------------------------
(* Spectate data, when the callbacks of spectatePlayer do not end the       *)
(* spectating: without that assumption the run StaleSpectate refutes it.    *)

\* The operations in progress that spectate do so for a player in the mode.
SpectatingFrames == {f \in StayingFrames :
    f.op \in {"spectate", "streamed"} => spectating[f.who]}

SpectateOK ==
    /\ stack \in Seq(SpectatingFrames)
    /\ NoStaleSpectate
    /\ TargetNeedsMode

SInv == IInv /\ SpectateOK

\* While nobody comes or goes and nobody's mode changes, so do the frames.
LEMMA SpectatingFramesSame ==
  ASSUME UNCHANGED <<inPool, leaving, spectating>>
  PROVE  Staying' = Staying /\ SpectatingFrames' = SpectatingFrames
  BY FramesSame DEF SpectatingFrames

\* A stack is a sequence over any set that holds each of its frames.
LEMMA StackIn ==
  ASSUME NEW S, TypeOK, \A k \in DOMAIN stack : stack[k] \in S
  PROVE  stack \in Seq(S)
<1>1. Len(stack) \in Nat /\ DOMAIN stack = 1 .. Len(stack)
  BY LenProperties DEF TypeOK
<1>2. stack \in [1 .. Len(stack) -> S]
  <2>1. stack = [k \in DOMAIN stack |-> stack[k]]
    BY LenProperties DEF TypeOK
  <2> QED BY <1>1, <2>1
<1> QED BY <1>1, <1>2, SeqDef

\* The steps of operations in progress, except those that spectate.
LEMMA SpectateInPass ==
  ASSUME SInv, StreamStep \/ SpectateStreamIn \/ EndPass
  PROVE  SpectateOK'
<1> USE DEF SInv, SpectateOK
<1>0. /\ UNCHANGED <<inPool, leaving, spectating, spectateID>>
      /\ stack # << >>
  BY DEF StreamStep, StreamNext, RestreamNext, SpectateStreamIn, EndPass, playerVars
<1>1. Staying' = Staying /\ SpectatingFrames' = SpectatingFrames
  BY <1>0, SpectatingFramesSame
<1>2. /\ Top \in SpectatingFrames
      /\ Pop \in Seq(SpectatingFrames)
      /\ \A f \in SpectatingFrames : SetTop(f) \in Seq(SpectatingFrames)
  BY <1>0, StackOps
<1>3. stack' \in Seq(SpectatingFrames)
  <2>1. CASE EndPass
    BY <1>2, <2>1 DEF EndPass
  <2>2. CASE SpectateStreamIn
    <3>1. [Top EXCEPT !.op = "streamed", !.calls = (streamedFor' # streamedFor)]
            \in SpectatingFrames
      BY <1>2, <2>2 DEF SpectateStreamIn, SpectatingFrames, StayingFrames, Frames
    <3> QED BY <1>2, <2>2, <3>1 DEF SpectateStreamIn
  <2>3. CASE StreamStep
    <3>1. PICK q \in Slots : StreamNext(q) \/ RestreamNext(q)
      BY <2>3 DEF StreamStep
    <3>2. [Top EXCEPT !.todo = @ \ {q}, !.calls = (streamedFor' # streamedFor)]
            \in SpectatingFrames
      BY <1>2 DEF SpectatingFrames, StayingFrames, Frames
    <3> QED BY <1>2, <3>1, <3>2 DEF StreamNext, RestreamNext
  <2> QED BY <2>1, <2>2, <2>3
<1> QED BY <1>0, <1>1, <1>3 DEF NoStaleSpectate, TargetNeedsMode

\* The last step of spectatePlayer: its frame is for a player in the mode.
LEMMA SpectateSetTargetOK ==
  ASSUME SInv, SpectateSetTarget
  PROVE  SpectateOK'
<1> USE DEF SInv, SpectateOK
<1>0. /\ UNCHANGED <<inPool, leaving, spectating>>
      /\ stack # << >> /\ stack' = Pop /\ Top.op = "streamed"
      /\ spectateID' = [spectateID EXCEPT ![Top.who] = Top.target]
  BY DEF SpectateSetTarget
<1>1. Staying' = Staying /\ SpectatingFrames' = SpectatingFrames
  BY <1>0, SpectatingFramesSame
<1>2. Top \in SpectatingFrames /\ Pop \in Seq(SpectatingFrames)
  BY <1>0, StackOps
<1>3. spectating[Top.who] /\ Top.target \in Staying /\ Top.who \in Slots
  BY <1>0, <1>2 DEF SpectatingFrames, StayingFrames, Frames
<1>4. \A p \in Staying : spectateID'[p] = IF p = Top.who THEN Top.target
                                          ELSE spectateID[p]
  BY <1>0, <1>3, StayingSlots DEF IInv, TypeOK
<1> QED BY <1>0, <1>1, <1>2, <1>3, <1>4 DEF NoStaleSpectate, TargetNeedsMode

\* Packets and colours do not touch the spectate data.
LEMMA SpectateInPacket ==
  ASSUME SInv, NEW p \in Slots,
         \/ Sync(p) \/ SpectatorSync(p) \/ PlayerSpawn(p)
         \/ SetColour(p) \/ \E t \in Slots : SetOtherColour(p, t)
  PROVE  SpectateOK'
<1> USE DEF SInv, SpectateOK
<1>0. UNCHANGED <<inPool, leaving, spectating, spectateID>>
  BY DEF Sync, SpectatorSync, PlayerSpawn, SetColour, SetOtherColour
<1>1. Staying' = Staying /\ SpectatingFrames' = SpectatingFrames
  BY <1>0, SpectatingFramesSame
<1>2. stack' \in Seq(SpectatingFrames)
  <2>1. CASE stack' = stack
    BY <2>1
  <2>2. CASE stack' # stack
    <3>1. /\ leaving = None /\ p \in inPool
          /\ \E op \in {"stream", "restream"} :
               stack' = <<Pass(op, p, inPool \ {p})>>
      BY <2>2 DEF Sync, SpectatorSync, PlayerSpawn, PlayerUpdate, SetColour,
                  SetOtherColour, Idle
    <3>2. \A op \in {"stream", "restream"} :
            Pass(op, p, inPool \ {p}) \in SpectatingFrames
      <4>1. Staying = inPool
        BY <3>1, NoneNotSlot DEF Staying, IInv, TypeOK
      <4> QED BY <3>1, <4>1 DEF Pass, SpectatingFrames, StayingFrames, Frames,
                               IInv, TypeOK
    <3>3. \A f \in SpectatingFrames : <<f>> \in Seq(SpectatingFrames)
      OBVIOUS
    <3> QED BY <3>1, <3>2, <3>3
  <2> QED BY <2>1, <2>2
<1> QED BY <1>0, <1>1, <1>2 DEF NoStaleSpectate, TargetNeedsMode

\* Leaving the mode clears the target, and spares the spectating frames.
LEMMA SpectateInMode ==
  ASSUME SInv, NestedToggle = FALSE, NEW p \in Slots,
         Spawn(p) \/ \E on \in BOOLEAN : SetSpectating(p, on)
  PROVE  SpectateOK'
<1> USE DEF SInv, SpectateOK
<1>0. UNCHANGED <<inPool, leaving, stack>> /\ MayToggle(p)
  BY DEF Spawn, SetSpectating
<1>1. Staying' = Staying /\ StayingFrames' = StayingFrames
  BY <1>0, FramesSame
<1>2. \A r \in Slots \ {p} : spectating'[r] = spectating[r]
                             /\ spectateID'[r] = spectateID[r]
  BY DEF Spawn, SetSpectating, IInv, TypeOK
<1>3. \/ spectating'[p] /\ spectateID'[p] = spectateID[p]
      \/ spectateID'[p] = None
  BY DEF Spawn, SetSpectating, IInv, TypeOK
<1>4. stack' \in Seq(SpectatingFrames')
  <2>1. ASSUME NEW k \in DOMAIN stack
        PROVE  stack[k] \in SpectatingFrames'
    <3>1. stack[k] \in SpectatingFrames
      BY LenProperties, ElementOfSeq
    <3>2. stack[k].op \in {"spectate", "streamed"} => stack[k].who # p
      BY <1>0 DEF MayToggle
    <3>3. stack[k].who \in Slots
      BY <3>1 DEF SpectatingFrames, StayingFrames, Frames
    <3> QED BY <1>1, <1>2, <3>1, <3>2, <3>3 DEF SpectatingFrames
  <2>2. stack \in Seq(SpectatingFrames')
    BY <2>1, StackIn DEF IInv
  <2> QED BY <1>0, <2>2
<1>5. NoStaleSpectate'
  BY <1>1, <1>2, <1>3, StayingSlots DEF NoStaleSpectate, IInv
<1>6. TargetNeedsMode'
  BY <1>1, <1>2, <1>3, StayingSlots DEF TargetNeedsMode, IInv
<1> QED BY <1>4, <1>5, <1>6

\* spectatePlayer sets the mode before anything is dispatched.
LEMMA SpectatePlayerBegins ==
  ASSUME SInv, LateOps = FALSE, NEW p \in Slots, NEW t \in Slots,
         SpectatePlayer(p, t)
  PROVE  SpectateOK'
<1> USE DEF SInv, SpectateOK
<1>0. /\ UNCHANGED <<inPool, leaving, spectateID>>
      /\ spectating' = [spectating EXCEPT ![p] = TRUE]
      /\ stack' = Append(stack, Spectate(p, t))
  BY DEF SpectatePlayer
<1>1. Staying' = Staying /\ StayingFrames' = StayingFrames
  BY <1>0, FramesSame
<1>2. p \in Staying /\ t \in Staying
  BY DEF SpectatePlayer, Usable, Remembered, Staying
<1>3. \A r \in Slots : spectating'[r] <=> (r = p \/ spectating[r])
  BY <1>0 DEF IInv, TypeOK
<1>4. SpectatingFrames \subseteq SpectatingFrames'
  BY <1>1, <1>3 DEF SpectatingFrames, StayingFrames, Frames
<1>5. Spectate(p, t) \in SpectatingFrames'
  <2>1. Spectate(p, t) \in StayingFrames
    BY <1>2 DEF Spectate, StayingFrames, Frames
  <2>2. Spectate(p, t).who = p
    BY DEF Spectate
  <2> QED BY <1>1, <1>3, <2>1, <2>2 DEF SpectatingFrames
<1>6. stack' \in Seq(SpectatingFrames')
  <2>1. stack \in Seq(SpectatingFrames')
    BY <1>4, SeqMonotonic
  <2> QED BY <1>0, <1>5, <2>1
<1> QED BY <1>0, <1>1, <1>3, <1>6, StayingSlots DEF NoStaleSpectate, TargetNeedsMode, IInv

\* Players that come, go or are reset.
LEMMA SpectateInPool ==
  ASSUME SInv,
         ResetAll \/ EndLeave \/ \E p \in Slots : Join(p) \/ BeginLeave(p)
  PROVE  SpectateOK'
<1> USE DEF SInv, SpectateOK
<1>0. stack' = << >>
  BY DEF ResetAll, EndLeave, Join, BeginLeave, Idle
<1>1. stack' \in Seq(SpectatingFrames')
  BY <1>0, EmptyStack
<1>2. CASE ResetAll
  BY <1>1, <1>2 DEF ResetAll, Fresh, Staying, IInv, TypeOK, NoStaleSpectate,
                    TargetNeedsMode
<1>3. CASE EndLeave
  <2>1. Staying' = Staying /\ leaving \notin Staying
    BY <1>3, NoneNotSlot DEF EndLeave, Staying, IInv, TypeOK
  <2>2. \A r \in Staying : spectateID'[r] = spectateID[r]
                           /\ spectating'[r] = spectating[r]
    BY <1>3, <2>1, StayingSlots DEF EndLeave, Fresh, IInv, TypeOK
  <2> QED BY <1>1, <2>1, <2>2 DEF NoStaleSpectate, TargetNeedsMode
<1>4. ASSUME NEW p \in Slots, Join(p) PROVE SpectateOK'
  <2>1. /\ Staying = inPool /\ Staying' = inPool \union {p}
        /\ p \notin inPool /\ inPool \subseteq Slots
    BY <1>4, NoneNotSlot DEF Join, Idle, Staying, IInv, TypeOK
  <2>2. \A r \in inPool : spectateID'[r] = spectateID[r]
                          /\ spectating'[r] = spectating[r]
    BY <1>4, <2>1 DEF Join, Fresh, IInv, TypeOK
  <2>3. spectateID'[p] = None
    BY <1>4 DEF Join, Fresh
  <2> QED BY <1>1, <2>1, <2>2, <2>3 DEF NoStaleSpectate, TargetNeedsMode
<1>5. ASSUME NEW p \in Slots, BeginLeave(p) PROVE SpectateOK'
  <2>1. /\ Staying = inPool /\ Staying' = inPool \ {p} /\ inPool \subseteq Slots
    BY <1>5, NoneNotSlot DEF BeginLeave, Idle, Staying, IInv, TypeOK
  <2>2. ASSUME NEW r \in inPool \ {p}
        PROVE  \/ spectateID'[r] = None
               \/ /\ spectateID'[r] = spectateID[r] /\ spectateID[r] # p
                  /\ spectating'[r] = spectating[r]
    <3>1. r \in Slots /\ (spectateID[r] # None => spectating[r])
      BY <2>1 DEF TargetNeedsMode
    <3>2. CASE r \in Watchers(p)
      BY <1>5, <3>1, <3>2 DEF BeginLeave
    <3>3. CASE r \notin Watchers(p)
      <4>1. spectateID[r] # p
        BY <3>1, <3>3, NoneNotSlot DEF Watchers
      <4>2. spectateID'[r] = spectateID[r] /\ spectating'[r] = (spectating[r] /\ TRUE)
        BY <1>5, <3>1, <3>3 DEF BeginLeave
      <4>3. spectating[r] \in BOOLEAN
        BY <3>1 DEF IInv, TypeOK
      <4> QED BY <4>1, <4>2, <4>3
    <3> QED BY <3>2, <3>3
  <2> QED BY <1>1, <2>1, <2>2 DEF NoStaleSpectate, TargetNeedsMode
<1> QED BY <1>2, <1>3, <1>4, <1>5

\* SInv is inductive.
THEOREM SpectateNext ==
  ASSUME LateOps = FALSE, NestedToggle = FALSE
  PROVE  SInv /\ [Next]_vars => SInv'
<1> SUFFICES ASSUME SInv, [Next]_vars PROVE SInv'
  OBVIOUS
<1>1. IInv'
  BY NextOK DEF SInv
<1>2. SpectateOK'
  <2>1. CASE Continue
    BY <2>1, SpectateInPass, SpectateSetTargetOK, SpectateInPool DEF Continue
  <2>2. CASE ResetAll
    BY <2>2, SpectateInPool
  <2>3. ASSUME NEW p \in Slots,
               \/ Sync(p) \/ SpectatorSync(p) \/ PlayerSpawn(p)
               \/ SetColour(p) \/ \E t \in Slots : SetOtherColour(p, t)
        PROVE  SpectateOK'
    BY <2>3, SpectateInPacket
  <2>4. ASSUME NEW p \in Slots,
               Spawn(p) \/ \E on \in BOOLEAN : SetSpectating(p, on)
        PROVE  SpectateOK'
    BY <2>4, SpectateInMode
  <2>5. ASSUME NEW p \in Slots, NEW t \in Slots, SpectatePlayer(p, t)
        PROVE  SpectateOK'
    BY <2>5, SpectatePlayerBegins
  <2>6. ASSUME NEW p \in Slots, Join(p) \/ BeginLeave(p) PROVE SpectateOK'
    BY <2>6, SpectateInPool
  <2>7. CASE UNCHANGED vars
    <3>1. UNCHANGED <<inPool, leaving, spectating, spectateID, stack>>
      BY <2>7 DEF vars, playerVars
    <3> QED BY <3>1, SpectatingFramesSame
            DEF SInv, SpectateOK, NoStaleSpectate, TargetNeedsMode
  <2> QED BY <2>1, <2>2, <2>3, <2>4, <2>5, <2>6, <2>7 DEF Next
<1> QED BY <1>1, <1>2 DEF SInv

\* Nobody's spectate data names a player that has left, and only players in
\* the mode have any: the leaver's clearPlayer finds all of them.
THEOREM SpectateAccurate ==
  ASSUME LateOps = FALSE, NestedToggle = FALSE
  PROVE  Spec => [](NoStaleSpectate /\ TargetNeedsMode)
<1>1. Init => SInv
  <2> SUFFICES ASSUME Init PROVE SInv
    OBVIOUS
  <2>1. Staying = {} /\ stack = << >>
    BY DEF Init, Staying
  <2> QED BY <2>1, InitOK, EmptyStack DEF SInv, SpectateOK, NoStaleSpectate, TargetNeedsMode
<1>2. SInv => NoStaleSpectate /\ TargetNeedsMode
  BY DEF SInv, SpectateOK
<1> QED BY <1>1, <1>2, SpectateNext, PTL DEF Spec

\* Only a player that setSpectating put in the mode has a target.
THEOREM TargetsInMode ==
  ASSUME LateOps = FALSE, NestedToggle = FALSE
  PROVE  Spec => []TargetNeedsMode
<1>1. Spec => [](NoStaleSpectate /\ TargetNeedsMode)
  BY SpectateAccurate
<1> QED BY <1>1, PTL
=============================================================================
