----------------------- MODULE PlayerConnectionProofs -----------------------
(***************************************************************************)
(* Theorems about PlayerConnection, for any number of peers, indices and   *)
(* slots, any names and addresses, and any number of packets unread.       *)
(***************************************************************************)
EXTENDS PlayerConnection, FiniteSetTheorems, SequenceTheorems, TLAPS

Unread == 1 .. Len(queue)

\* The peers that never had a player in the pool.
Newcomers == {p \in Peers : /\ \A s \in Slots : owner[s] # p
                            /\ p \notin met
                            /\ quits[p] = 0}

\* RakNet has one index for each peer it has not dropped, and none for others.
NetOK ==
    /\ \A i, j \in Indices : remote[i] = remote[j] /\ remote[i] # Nobody => i = j
    /\ \A i \in Indices : remote[i] # Nobody => peer[remote[i]] \in {"up", "closing"}
    /\ \A p \in Peers : peer[p] \in {"up", "closing"} => \E i \in Indices : remote[i] = p

\* What is unread at an index is, for one peer after the other, its connect
\* and what it sent after it: another peer's packets follow its connect, and
\* the peer at the index now is the last.
OrderOK ==
    /\ \A k \in Unread : \A j \in Indices :
         remote[j] = queue[k].from => j = queue[k].idx
    /\ \A k, l \in Unread :
         queue[k].from = queue[l].from => queue[k].idx = queue[l].idx
    /\ \A k, l \in Unread :
         (k < l /\ queue[k].idx = queue[l].idx /\ queue[k].from # queue[l].from)
         => \E m \in Unread : /\ k < m /\ m <= l
                              /\ queue[m].kind = "connect"
                              /\ queue[m].from = queue[l].from
    /\ \A k \in Unread :
         (remote[queue[k].idx] # Nobody /\ remote[queue[k].idx] # queue[k].from)
         => \E m \in Unread : /\ k < m
                              /\ queue[m].kind = "connect"
                              /\ queue[m].from = remote[queue[k].idx]

\* A peer connects once, and sends nothing after its leave.
UnreadOK ==
    /\ \A k, l \in Unread :
         (queue[k].kind = "connect" /\ queue[l].kind = "connect"
            /\ queue[k].from = queue[l].from) => k = l
    /\ \A k \in Unread :
         /\ peer[queue[k].from] # "away"
         /\ queue[k].kind = "leave" => peer[queue[k].from] = "gone"
         /\ queue[k].kind = "connect" => queue[k].from \in Newcomers
    /\ \A p \in Peers : peer[p] = "away" => p \in Newcomers

\* The pool: who is in it, what was dispatched of whom, under which name.
PoolOK ==
    /\ \A s, t \in Slots : owner[s] = owner[t] /\ owner[s] # Nobody => s = t
    /\ kicked \subseteq Live
    /\ at.op \in {"incoming", "connect", "left", "kicked"} => at.slot \in Live
    /\ at.op = "incoming" => owner[at.slot] \notin met
    /\ \A s \in Live : quits[owner[s]] = IF Leaving(s) THEN 1 ELSE 0
    /\ \A p \in Peers : (p \in met /\ \A s \in Slots : owner[s] # p) => quits[p] = 1

\* What the clients were told, for everybody that was ever announced.
RosterOK ==
    /\ \A p \in Peers : known[p] \subseteq Live
    /\ \A s, t \in Live :
         (s # t /\ owner[s] \in met /\ owner[t] \in met) => t \in known[owner[s]]

IInv == TypeOK /\ NetOK /\ OrderOK /\ UnreadOK /\ PoolOK /\ RosterOK /\ NamesUnique

-----------------------------------------------------------------------------
(* Lemmas                                                                   *)

\* A null pointer is no slot and no index.
LEMMA NoneApart == None \notin Slots /\ None \notin Indices
  BY LimitsAssumption DEF None, Slots, Indices

\* The index of a peer RakNet has not dropped is its own.
LEMMA IndexOfPeer ==
  ASSUME NetOK, NEW p \in Peers, peer[p] \in {"up", "closing"}
  PROVE  /\ IndexOf(p) \in Indices
         /\ remote[IndexOf(p)] = p
         /\ \A j \in Indices : remote[j] = p => j = IndexOf(p)
<1>1. PICK i \in Indices : remote[i] = p
  BY DEF NetOK
<1>2. p # Nobody
  BY PeersAssumption
<1> QED BY <1>1, <1>2 DEF NetOK, IndexOf

\* The packets unread are the elements of the queue.
LEMMA QueueElements ==
  ASSUME TypeOK
  PROVE  /\ Len(queue) \in Nat
         /\ DOMAIN queue = Unread
         /\ \A k \in Unread : queue[k] \in Packets
         /\ queue # << >> => 1 \in Unread /\ Head(queue) = queue[1]
  BY DEF TypeOK, Unread

\* After the first is read.
LEMMA ReadFirst ==
  ASSUME TypeOK, queue # << >>, queue' = Tail(queue)
  PROVE  /\ queue' \in Seq(Packets)
         /\ Len(queue)' = Len(queue) - 1
         /\ \A k \in Unread' : k + 1 \in Unread /\ queue'[k] = queue[k + 1]
         /\ \A k \in Unread : k # 1 => k - 1 \in Unread' /\ queue'[k - 1] = queue[k]
  BY DEF TypeOK, Unread

\* After another arrives.
LEMMA OneMore ==
  ASSUME TypeOK, NEW pkt \in Packets, queue' = Append(queue, pkt)
  PROVE  /\ queue' \in Seq(Packets)
         /\ Unread' = Unread \union {Len(queue) + 1}
         /\ \A k \in Unread : k < Len(queue) + 1 /\ queue'[k] = queue[k]
         /\ queue'[Len(queue) + 1] = pkt
  BY DEF TypeOK, Unread

\* A set of slots that is not empty has a least and a greatest: by the strict
\* inclusion of the slots below or above each.
LEMMA Extremes ==
  ASSUME NEW S \in SUBSET Slots, S # {}
  PROVE  Lowest(S) \in S /\ Highest(S) \in S
<1> DEFINE All   == FiniteSubsetsOf(Slots)
           Order == StrictSubsetOrdering(Slots)
           Below == {0 .. s : s \in S}
           Above == {s .. MaxPlayers - 1 : s \in S}
<1>1. MaxPlayers \in Nat /\ Slots = 0 .. MaxPlayers - 1
  BY LimitsAssumption DEF Slots
<1>2. All = SUBSET Slots
  <2>1. IsFiniteSet(Slots)
    BY <1>1, FS_Interval
  <2> QED BY <2>1, FS_FiniteSubsetsOfFinite
<1>3. IsWellFoundedOn(Order, All)
  BY FS_StrictSubsetOrderingWellFounded
<1>4. \E s \in S : \A t \in S : s <= t
  <2>1. Below \subseteq All /\ Below # {}
    <3>1. \A s \in S : 0 .. s \in All
      <4>1. \A s \in S : 0 .. s \in SUBSET Slots
        BY <1>1
      <4> HIDE DEF All
      <4> QED BY <1>2, <4>1
    <3>2. PICK s \in S : TRUE
      OBVIOUS
    <3>3. 0 .. s \in Below
      BY <3>2
    <3> HIDE DEF All
    <3> QED BY <3>1, <3>3
  <2>2. PICK X \in Below : \A Y \in Below : <<Y, X>> \notin Order
    <3> HIDE DEF All, Order, Below
    <3> QED BY <1>3, <2>1, WFMin
  <2>3. PICK s \in S : X = 0 .. s
    BY <2>2
  <2>4. ASSUME NEW t \in S, t < s PROVE FALSE
    <3>1. 0 .. t \in Below
      BY <2>4
    <3>2. 0 .. t \subseteq 0 .. s /\ 0 .. t # 0 .. s
      <4>1. s \in 0 .. s /\ s \notin 0 .. t
        BY <1>1, <2>4
      <4> QED BY <1>1, <2>4, <4>1
    <3>3. 0 .. t \subseteq Slots /\ 0 .. s \subseteq Slots
      BY <1>1
    <3>4. <<0 .. t, 0 .. s>> \in Order
      BY <3>2, <3>3 DEF StrictSubsetOrdering
    <3> QED BY <2>2, <2>3, <3>1, <3>4
  <2> QED BY <1>1, <2>4
<1>5. \E s \in S : \A t \in S : t <= s
  <2>1. Above \subseteq All /\ Above # {}
    <3>1. \A s \in S : s .. MaxPlayers - 1 \in All
      <4>1. \A s \in S : s .. MaxPlayers - 1 \in SUBSET Slots
        BY <1>1
      <4> HIDE DEF All
      <4> QED BY <1>2, <4>1
    <3>2. PICK s \in S : TRUE
      OBVIOUS
    <3>3. s .. MaxPlayers - 1 \in Above
      BY <3>2
    <3> HIDE DEF All
    <3> QED BY <3>1, <3>3
  <2>2. PICK X \in Above : \A Y \in Above : <<Y, X>> \notin Order
    <3> HIDE DEF All, Order, Above
    <3> QED BY <1>3, <2>1, WFMin
  <2>3. PICK s \in S : X = s .. MaxPlayers - 1
    BY <2>2
  <2>4. ASSUME NEW t \in S, s < t PROVE FALSE
    <3>1. t .. MaxPlayers - 1 \in Above
      BY <2>4
    <3>2. t .. MaxPlayers - 1 \subseteq s .. MaxPlayers - 1 /\ t .. MaxPlayers - 1 # s .. MaxPlayers - 1
      <4>1. s \in s .. MaxPlayers - 1 /\ s \notin t .. MaxPlayers - 1
        BY <1>1, <2>4
      <4> QED BY <1>1, <2>4, <4>1
    <3>3. t .. MaxPlayers - 1 \subseteq Slots /\ s .. MaxPlayers - 1 \subseteq Slots
      BY <1>1
    <3>4. <<t .. MaxPlayers - 1, s .. MaxPlayers - 1>> \in Order
      BY <3>2, <3>3 DEF StrictSubsetOrdering
    <3> QED BY <2>2, <2>3, <3>1, <3>4
  <2> QED BY <1>1, <2>4
<1> QED BY <1>4, <1>5 DEF Lowest, Highest

\* A player that is asked for gets a slot that is free, under a free name.
LEMMA RequestedSlot ==
  ASSUME NEW p \in Peers, RequestPlayer(p) # None
  PROVE  /\ RequestPlayer(p) \in Slots
         /\ RequestPlayer(p) \notin Live
         /\ \A s \in Live : nick[s] # NickOf[p]
<1>1. Slots \ Live # {} /\ ~NameTaken(NickOf[p], None)
  BY DEF RequestPlayer
<1>2. \A s \in Live : nick[s] # NickOf[p]
  BY <1>1, NoneApart DEF NameTaken, Live
<1>3. Lowest(Slots \ Live) \in Slots \ Live /\ Highest(Slots \ Live) \in Slots \ Live
  BY <1>1, Extremes
<1> QED BY <1>1, <1>2, <1>3 DEF RequestPlayer

\* A peer that RakNet admits, and what closing some does to the peers.
LEMMA ClosingType ==
  ASSUME TypeOK, NEW S
  PROVE  /\ Closing(S) \in [Peers -> {"away", "up", "closing", "gone"}]
         /\ \A p \in Peers : Closing(S)[p] = IF p \in S /\ peer[p] = "up"
                                               THEN "closing" ELSE peer[p]
  BY DEF TypeOK, Closing

\* The positions the steps below go to.
LEMMA PositionTypes ==
  ASSUME NEW s \in Slots, NEW i \in Indices, NEW T \in SUBSET Slots
  PROVE  /\ \A op \in {"packet", "incoming", "left"} : Position(op, s, i, {}) \in Positions
         /\ Position("kicked", s, None, T) \in Positions
  BY DEF Position, Positions
LEMMA IdleTypes ==
  ASSUME NEW T \in SUBSET Slots
  PROVE  {Receive, Ticks, PoolTick(T)} \subseteq Positions
  BY DEF Position, Positions, Receive, Ticks, PoolTick

LEMMA TypeInit == Init => TypeOK
<1> SUFFICES ASSUME Init PROVE TypeOK
  OBVIOUS
<1>1. at \in Positions
  BY IdleTypes DEF Init
<1>2. queue \in Seq(Packets)
  BY DEF Init
<1>3. (CHOOSE n \in Nicks : TRUE) \in Nicks
  BY PeersAssumption
<1>4. nick \in [Slots -> Nicks]
  BY <1>3 DEF Init
<1>5. /\ peer \in [Peers -> {"away", "up", "closing", "gone"}]
      /\ remote \in [Indices -> Peers \union {Nobody}]
      /\ playerFromRakIndex \in [Indices -> Slots \union {None}]
      /\ playerRemoteSystem \in [Slots -> Indices \union {None}]
      /\ owner \in [Slots -> Peers \union {Nobody}]
  BY DEF Init
<1>6. /\ known \in [Peers -> SUBSET Slots]
      /\ quits \in [Peers -> 0 .. 1]
  BY DEF Init
<1>7. banned \subseteq Addrs /\ kicked \subseteq Slots /\ met \subseteq Peers /\ late \in BOOLEAN
  BY DEF Init
<1> QED BY <1>1, <1>2, <1>4, <1>5, <1>6, <1>7 DEF TypeOK

\* Every step keeps the types; that a departure is dispatched at most once
\* comes from PoolOK.
LEMMA TypeNext ==
  ASSUME TypeOK, NetOK, PoolOK, [Next]_vars
  PROVE  TypeOK'
<1> USE NoneApart
<1>1. ASSUME NEW p \in Peers, PeerArrives(p) PROVE TypeOK'
  <2>1. PICK i \in Indices : /\ remote' = [remote EXCEPT ![i] = p]
                             /\ queue' = Append(queue, Packet("connect", i, p))
    BY <1>1 DEF PeerArrives
  <2>2. Packet("connect", i, p) \in Packets
    BY DEF Packet, Packets
  <2>3. queue' \in Seq(Packets)
    BY <2>1, <2>2, OneMore
  <2> QED BY <1>1, <2>1, <2>3 DEF PeerArrives, TypeOK, mapVars, poolVars, toldVars
<1>2. ASSUME NEW p \in Peers, PeerSends(p) PROVE TypeOK'
  <2>1. IndexOf(p) \in Indices
    BY <1>2, IndexOfPeer DEF PeerSends
  <2>2. PICK kind \in {"packet", "rpc"} : queue' = Append(queue, Packet(kind, IndexOf(p), p))
    BY <1>2 DEF PeerSends
  <2>3. Packet(kind, IndexOf(p), p) \in Packets
    BY <2>1 DEF Packet, Packets
  <2>4. queue' \in Seq(Packets)
    BY <2>2, <2>3, OneMore
  <2> QED BY <1>2, <2>4 DEF PeerSends, TypeOK, mapVars, poolVars, toldVars
<1>3. ASSUME NEW p \in Peers, PeerDrops(p) PROVE TypeOK'
  <2>1. IndexOf(p) \in Indices
    BY <1>3, IndexOfPeer DEF PeerDrops
  <2>2. Packet("leave", IndexOf(p), p) \in Packets
    BY <2>1 DEF Packet, Packets
  <2>3. queue' \in Seq(Packets)
    BY <1>3, <2>2, OneMore DEF PeerDrops
  <2> QED BY <1>3, <2>3 DEF PeerDrops, TypeOK, mapVars, poolVars
<1>4. ASSUME NEW p \in Peers, PeerCloses(p) PROVE TypeOK'
  BY <1>4 DEF PeerCloses, TypeOK, mapVars, poolVars, toldVars
<1>5. ASSUME queue # << >> PROVE Tail(queue) \in Seq(Packets) /\ Head(queue) \in Packets
  BY <1>5 DEF TypeOK
<1>6. CASE RefuseConnect
  BY <1>5, <1>6, ClosingType DEF RefuseConnect, Reading, TypeOK, mapVars, poolVars, toldVars
<1>7. CASE OnPlayerConnect
  <2> DEFINE p == Head(queue).from
             i == Head(queue).idx
             s == RequestPlayer(p)
  <2>1. /\ p \in Peers /\ i \in Indices /\ Tail(queue) \in Seq(Packets)
        /\ s \in Slots
    BY <1>5, <1>7, RequestedSlot DEF OnPlayerConnect, Reading, Packets, Accepted
  <2>2. /\ playerFromRakIndex' = [playerFromRakIndex EXCEPT ![i] = s]
        /\ owner' = [owner EXCEPT ![s] = p]
        /\ nick' = [nick EXCEPT ![s] = NickOf[p]]
        /\ at' \in {Receive, Position("incoming", s, i, {})}
        /\ queue' = Tail(queue)
        /\ UNCHANGED <<peer, remote, banned, playerRemoteSystem, kicked, toldVars>>
    BY <1>7 DEF OnPlayerConnect
  <2>3. at' \in Positions
    BY <2>1, <2>2, PositionTypes, IdleTypes
  <2>4. NickOf[p] \in Nicks
    BY <2>1, PeersAssumption
  <2> QED BY <2>1, <2>2, <2>3, <2>4 DEF TypeOK, toldVars
<1>8. CASE Announce
  <2>1. at.slot \in Live /\ owner[at.slot] \in Peers
    BY <1>8 DEF Announce, PoolOK, Live, TypeOK
  <2>2. [at EXCEPT !.op = "connect"] \in Positions
    BY DEF TypeOK, Positions
  <2>3. at.idx \in Indices \union {None}
    BY DEF TypeOK, Positions
  <2>4. known' \in [Peers -> SUBSET Slots] /\ met' \subseteq Peers
    BY <1>8, <2>1 DEF Announce, TypeOK, toldVars, Live
  <2>5. playerRemoteSystem' \in [Slots -> Indices \union {None}]
    BY <1>8, <2>3 DEF Announce, Connected, TypeOK
  <2>6. at' \in Positions
    BY <1>8, <2>2, IdleTypes DEF Announce, Connected
  <2>7. UNCHANGED <<quits, late, netVars, playerFromRakIndex, poolVars>>
    BY <1>8 DEF Announce, toldVars
  <2> QED BY <2>4, <2>5, <2>6, <2>7 DEF TypeOK, netVars, poolVars
<1>9. CASE EndConnect
  <2>1. at.idx \in Indices \union {None}
    BY DEF TypeOK, Positions
  <2> QED BY <1>9, <2>1, IdleTypes
          DEF EndConnect, Connected, TypeOK, netVars, poolVars, toldVars
<1>10. CASE DropFreedPlayer
  BY <1>5, <1>10, ClosingType DEF DropFreedPlayer, TypeOK, poolVars, toldVars
<1>11. CASE HandlePacket \/ RPCHook
  <2>1. queue # << >> /\ Handle /\ UNCHANGED <<peer, remote, banned, mapVars, poolVars, toldVars>>
    BY <1>11 DEF HandlePacket, RPCHook, Reading
  <2>2. Head(queue).idx \in Indices /\ Addressee \in Slots \union {None}
    BY <1>5, <2>1 DEF Packets, Addressee, TypeOK
  <2>3. at' \in Positions
    BY <2>1, <2>2, PositionTypes, IdleTypes DEF Handle
  <2> QED BY <1>5, <2>1, <2>3 DEF Handle, TypeOK, mapVars, poolVars, toldVars
<1>12. CASE EndPacket \/ ReceiveDone \/ EndTick
  BY <1>12, IdleTypes
     DEF EndPacket, ReceiveDone, EndTick, TypeOK, netVars, mapVars, poolVars, toldVars
<1>13. CASE OnRakNetDisconnect
  <2>1. /\ queue # << >> /\ at.op = "receive" /\ queue' = Tail(queue)
        /\ Head(queue).idx \in Indices
        /\ UNCHANGED <<peer, remote, banned, poolVars, known, met, late>>
    BY <1>5, <1>13 DEF OnRakNetDisconnect, Reading, Receive, Position, Packets
  <2>2. CASE Addressee = None
    BY <1>5, <1>13, <2>1, <2>2 DEF OnRakNetDisconnect, TypeOK, mapVars, poolVars
  <2>3. CASE Addressee # None
    <3>1. Addressee \in Live /\ Addressee \in Slots
      BY <1>13, <2>1, <2>3 DEF OnRakNetDisconnect, AddresseeFreed, Live, TypeOK
    <3>2. quits[owner[Addressee]] = 0
      BY <2>1, <3>1 DEF PoolOK, Leaving
    <3>3. Position("left", Addressee, Head(queue).idx, {}) \in Positions
      BY <2>1, <3>1, PositionTypes
    <3>4. /\ playerFromRakIndex' = [playerFromRakIndex EXCEPT ![Head(queue).idx] = None]
          /\ playerRemoteSystem' = [playerRemoteSystem EXCEPT ![Addressee] = None]
          /\ quits' = [quits EXCEPT ![owner[Addressee]] = @ + 1]
          /\ at' = Position("left", Addressee, Head(queue).idx, {})
      BY <1>13, <2>3 DEF OnRakNetDisconnect, ClearPlayer
    <3>5. quits' \in [Peers -> 0 .. 1]
      <4>1. \A p \in Peers : quits[p] = 0 => [quits EXCEPT ![p] = quits[p] + 1] \in [Peers -> 0 .. 1]
        BY DEF TypeOK
      <4>2. owner[Addressee] \in Peers
        BY <3>1 DEF TypeOK, Live
      <4> QED BY <3>2, <3>4, <4>1, <4>2
    <3> QED BY <1>5, <2>1, <3>1, <3>3, <3>4, <3>5 DEF TypeOK, poolVars
  <2> QED BY <2>2, <2>3
<1>14. CASE EndDisconnect
  BY <1>14, IdleTypes DEF EndDisconnect, RemovePlayer, TypeOK, netVars, mapVars
<1>15. CASE BeginPoolTick
  <2>1. Live \in SUBSET Slots
    BY DEF Live
  <2> QED BY <1>15, <2>1, IdleTypes DEF BeginPoolTick, TypeOK, netVars, mapVars, poolVars, toldVars
<1>16. CASE EndKicked
  <2>1. at.todo \in SUBSET Slots
    BY DEF TypeOK, Positions
  <2> QED BY <1>16, <2>1, IdleTypes DEF EndKicked, RemovePlayer, TypeOK, netVars, mapVars
<1>17. ASSUME NEW s \in Slots, VisitPlayer(s) PROVE TypeOK'
  <2>1. at.todo \ {s} \in SUBSET Slots
    BY DEF TypeOK, Positions
  <2>2. CASE s \in kicked
    <3>1. s \in Live
      BY <2>2 DEF PoolOK
    <3>2. quits[owner[s]] = 0
      BY <1>17, <3>1 DEF PoolOK, Leaving, VisitPlayer
    <3>3. Position("kicked", s, None, at.todo \ {s}) \in Positions
      BY <2>1, LimitsAssumption DEF Position, Positions
    <3> QED BY <1>17, <2>2, <3>1, <3>2, <3>3
            DEF VisitPlayer, ClearPlayer, TypeOK, netVars, mapVars, poolVars, Live
  <2>3. CASE s \notin kicked
    BY <1>17, <2>1, <2>3, IdleTypes DEF VisitPlayer, TypeOK, netVars, mapVars, poolVars
  <2> QED BY <2>2, <2>3
<1>18. ASSUME NEW S \in SUBSET Slots, KickAll(S),
              UNCHANGED <<remote, queue, owner, nick, toldVars, at>>,
              banned' \subseteq Addrs
       PROVE  TypeOK'
  BY <1>18, ClosingType DEF KickAll, TypeOK, toldVars
<1>19. ASSUME NEW s \in Slots, Kick(s) PROVE TypeOK'
  <2>1. banned' \subseteq Addrs
    BY <1>19 DEF Kick, TypeOK
  <2> QED BY <1>18, <1>19, <2>1 DEF Kick
<1>20. ASSUME NEW s \in Slots, Ban(s) PROVE TypeOK'
  <2>1. banned' \subseteq Addrs
    BY <1>20 DEF Ban, TypeOK, Live, Addrs
  <2>2. \E S \in SUBSET Slots : KickAll(S)
    BY <1>20 DEF Ban, Live
  <2> QED BY <1>18, <1>20, <2>1, <2>2 DEF Ban
<1>21. ASSUME NEW s \in Slots, NEW n \in Nicks, SetName(s, n) PROVE TypeOK'
  BY <1>21 DEF SetName, TypeOK, netVars, mapVars, toldVars
<1>22. CASE UNCHANGED vars
  BY <1>22 DEF vars, TypeOK, netVars, mapVars, poolVars, toldVars
<1> QED
  BY <1>1, <1>2, <1>3, <1>4, <1>6, <1>7, <1>8, <1>9, <1>10, <1>11, <1>12, <1>13,
     <1>14, <1>15, <1>16, <1>17, <1>19, <1>20, <1>21, <1>22
     DEF Next, RakNet, ReceiveLoop, RestOfTick, Scripts

-----------------------------------------------------------------------------
(* RakNet and the queue                                                     *)

\* What the main thread does to the queue and to the peers: it takes at most
\* the first packet, and only starts to close connections.
Main == ReceiveLoop \/ RestOfTick \/ Scripts
LEMMA MainThread ==
  ASSUME TypeOK, Main \/ UNCHANGED vars
  PROVE  /\ UNCHANGED remote
         /\ \A p \in Peers : \/ peer'[p] = peer[p]
                             \/ peer[p] = "up" /\ peer'[p] = "closing"
         /\ UNCHANGED queue \/ (queue # << >> /\ queue' = Tail(queue))
<1>1. CASE ReceiveLoop
  <2>1. CASE RefuseConnect
    BY <2>1, ClosingType DEF RefuseConnect, Reading
  <2>2. CASE DropFreedPlayer
    BY <2>2, ClosingType DEF DropFreedPlayer
  <2>3. CASE OnPlayerConnect
    BY <2>3 DEF OnPlayerConnect, Reading
  <2>4. CASE Announce \/ EndConnect \/ EndPacket \/ EndDisconnect \/ ReceiveDone
    BY <2>4 DEF Announce, EndConnect, EndPacket, EndDisconnect, ReceiveDone, netVars
  <2>5. CASE HandlePacket \/ RPCHook
    BY <2>5 DEF HandlePacket, RPCHook, Reading, Handle
  <2>6. CASE OnRakNetDisconnect
    BY <2>6 DEF OnRakNetDisconnect, Reading
  <2> QED BY <1>1, <2>1, <2>2, <2>3, <2>4, <2>5, <2>6 DEF ReceiveLoop
<1>2. CASE RestOfTick
  BY <1>2 DEF RestOfTick, BeginPoolTick, EndKicked, EndTick, VisitPlayer, netVars
<1>3. CASE Scripts
  <2>1. ASSUME NEW S, KickAll(S)
        PROVE  \A p \in Peers : \/ peer'[p] = peer[p]
                                \/ peer[p] = "up" /\ peer'[p] = "closing"
    BY <2>1, ClosingType DEF KickAll
  <2>2. PICK s \in Slots : Kick(s) \/ Ban(s) \/ \E n \in Nicks : SetName(s, n)
    BY <1>3 DEF Scripts
  <2>3. CASE Kick(s)
    BY <2>1, <2>3 DEF Kick
  <2>4. CASE Ban(s)
    BY <2>1, <2>4 DEF Ban
  <2>5. CASE \E n \in Nicks : SetName(s, n)
    BY <2>5 DEF SetName, netVars
  <2> QED BY <2>2, <2>3, <2>4, <2>5
<1>4. CASE UNCHANGED vars
  BY <1>4 DEF vars, netVars
<1> QED BY <1>1, <1>2, <1>3, <1>4 DEF Main

LEMMA NetNext ==
  ASSUME TypeOK, NetOK, [Next]_vars
  PROVE  NetOK'
<1>1. ASSUME NEW p \in Peers, PeerArrives(p) PROVE NetOK'
  <2>1. PICK i \in Indices : remote[i] = Nobody /\ remote' = [remote EXCEPT ![i] = p]
    BY <1>1 DEF PeerArrives
  <2>2. peer[p] = "away" /\ peer' = [peer EXCEPT ![p] = "up"]
    BY <1>1 DEF PeerArrives
  <2>3. \A j \in Indices : remote[j] # p
    BY <2>2, PeersAssumption DEF NetOK
  <2>4. \A j \in Indices : remote'[j] = IF j = i THEN p ELSE remote[j]
    BY <2>1 DEF TypeOK
  <2>5. \A q \in Peers : peer'[q] = IF q = p THEN "up" ELSE peer[q]
    BY <2>2 DEF TypeOK
  <2>6. \A j \in Indices : remote[j] \in Peers \union {Nobody}
    BY DEF TypeOK
  <2>7. \A j \in Indices : remote'[j] # Nobody => peer'[remote'[j]] \in {"up", "closing"}
    BY <2>4, <2>5, <2>6 DEF NetOK
  <2>8. \A q \in Peers : peer'[q] \in {"up", "closing"} => \E j \in Indices : remote'[j] = q
    <3>1. ASSUME NEW q \in Peers, q # p, peer'[q] \in {"up", "closing"}
          PROVE  \E j \in Indices : remote'[j] = q
      <4>1. PICK j \in Indices : remote[j] = q
        BY <2>5, <3>1 DEF NetOK
      <4> QED BY <2>1, <2>4, <4>1, PeersAssumption
    <3> QED BY <2>4, <3>1
  <2> QED BY <2>3, <2>4, <2>7, <2>8 DEF NetOK
<1>2. ASSUME NEW p \in Peers, PeerSends(p) PROVE NetOK'
  BY <1>2 DEF PeerSends, NetOK
<1>3. ASSUME NEW p \in Peers, PeerDrops(p) \/ PeerCloses(p) PROVE NetOK'
  <2>1. peer[p] \in {"up", "closing"}
    BY <1>3 DEF PeerDrops, PeerCloses
  <2>2. /\ IndexOf(p) \in Indices /\ remote[IndexOf(p)] = p
        /\ \A j \in Indices : remote[j] = p => j = IndexOf(p)
    BY <2>1, IndexOfPeer
  <2>3. peer' = [peer EXCEPT ![p] = "gone"] /\ remote' = [remote EXCEPT ![IndexOf(p)] = Nobody]
    BY <1>3 DEF PeerDrops, PeerCloses
  <2> QED BY <2>2, <2>3 DEF NetOK, TypeOK
<1>4. CASE Main \/ UNCHANGED vars
  <2>1. UNCHANGED remote
    BY <1>4, MainThread
  <2>2. \A p \in Peers : \/ peer'[p] = peer[p]
                         \/ peer[p] = "up" /\ peer'[p] = "closing"
    BY <1>4, MainThread
  <2> QED BY <2>1, <2>2 DEF NetOK, TypeOK
<1> QED BY <1>1, <1>2, <1>3, <1>4 DEF Next, RakNet, Main

\* Reading keeps the order, and so does a peer that arrives at an index, which
\* follows all that is unread of it, and one that sends or leaves.
LEMMA OrderNext ==
  ASSUME TypeOK, NetOK, OrderOK, UnreadOK, [Next]_vars
  PROVE  OrderOK'
<1> DEFINE L == Len(queue)
<1>0. L \in Nat /\ \A k \in Unread : queue[k] \in Packets /\ queue[k].from \in Peers
  BY QueueElements DEF Packets
<1>1. ASSUME NEW p \in Peers, PeerArrives(p) PROVE OrderOK'
  <2>1. PICK i \in Indices : /\ remote[i] = Nobody
                             /\ remote' = [remote EXCEPT ![i] = p]
                             /\ queue' = Append(queue, Packet("connect", i, p))
    BY <1>1 DEF PeerArrives
  <2>2. peer[p] = "away"
    BY <1>1 DEF PeerArrives
  <2>3. \A j \in Indices : remote[j] # p
    BY <2>2, PeersAssumption DEF NetOK
  <2>4. \A k \in Unread : queue[k].from # p
    BY <2>2 DEF UnreadOK
  <2>5. Packet("connect", i, p) \in Packets
    BY DEF Packet, Packets
  <2>6. /\ Unread' = Unread \union {L + 1}
        /\ \A k \in Unread : k < L + 1 /\ queue'[k] = queue[k]
        /\ queue'[L + 1] = Packet("connect", i, p)
    BY <2>1, <2>5, OneMore
  <2>7. /\ queue'[L + 1].kind = "connect" /\ queue'[L + 1].idx = i /\ queue'[L + 1].from = p
    BY <2>6 DEF Packet
  <2>8. \A j \in Indices : remote'[j] = IF j = i THEN p ELSE remote[j]
    BY <2>1 DEF TypeOK
  <2>9. ASSUME NEW k \in Unread', NEW j \in Indices, remote'[j] = queue'[k].from
        PROVE  j = queue'[k].idx
    BY <2>3, <2>4, <2>6, <2>7, <2>8, <2>9 DEF OrderOK
  <2>10. ASSUME NEW k \in Unread', NEW l \in Unread', queue'[k].from = queue'[l].from
         PROVE  queue'[k].idx = queue'[l].idx
    BY <2>4, <2>6, <2>7, <2>10 DEF OrderOK
  <2>11. ASSUME NEW k \in Unread', NEW l \in Unread', k < l,
                queue'[k].idx = queue'[l].idx, queue'[k].from # queue'[l].from
         PROVE  \E m \in Unread' : /\ k < m /\ m <= l
                                   /\ queue'[m].kind = "connect"
                                   /\ queue'[m].from = queue'[l].from
    <3>1. CASE l = L + 1
      BY <1>0, <2>6, <2>7, <2>11, <3>1
    <3>2. CASE l \in Unread
      <4>1. k \in Unread
        BY <1>0, <2>6, <2>11, <3>2 DEF Unread
      <4> QED BY <2>6, <2>11, <3>2, <4>1 DEF OrderOK
    <3> QED BY <2>6, <3>1, <3>2
  <2>12. ASSUME NEW k \in Unread',
                remote'[queue'[k].idx] # Nobody, remote'[queue'[k].idx] # queue'[k].from
         PROVE  \E m \in Unread' : /\ k < m
                                   /\ queue'[m].kind = "connect"
                                   /\ queue'[m].from = remote'[queue'[k].idx]
    <3>1. k \in Unread /\ queue'[k] = queue[k] /\ queue[k].idx \in Indices
      BY <1>0, <2>6, <2>7, <2>8, <2>12 DEF Packets
    <3>2. CASE queue[k].idx = i
      BY <2>6, <2>7, <2>8, <3>1, <3>2
    <3>3. CASE queue[k].idx # i
      BY <2>6, <2>8, <2>12, <3>1, <3>3 DEF OrderOK
    <3> QED BY <3>2, <3>3
  <2> QED BY <2>9, <2>10, <2>11, <2>12 DEF OrderOK
<1>2. ASSUME NEW p \in Peers, PeerSends(p) \/ PeerDrops(p) PROVE OrderOK'
  <2>1. peer[p] = "up"
    BY <1>2 DEF PeerSends, PeerDrops
  <2> DEFINE i == IndexOf(p)
  <2>2. i \in Indices /\ remote[i] = p /\ p # Nobody
    BY <2>1, IndexOfPeer, PeersAssumption
  <2>3. PICK kind \in {"packet", "rpc", "leave"} : queue' = Append(queue, Packet(kind, i, p))
    BY <1>2 DEF PeerSends, PeerDrops
  <2>4. remote' = remote \/ remote' = [remote EXCEPT ![i] = Nobody]
    BY <1>2 DEF PeerSends, PeerDrops
  <2>5. Packet(kind, i, p) \in Packets
    BY <2>2 DEF Packet, Packets
  <2>6. /\ Unread' = Unread \union {L + 1}
        /\ \A k \in Unread : k < L + 1 /\ queue'[k] = queue[k]
        /\ queue'[L + 1] = Packet(kind, i, p)
    BY <2>3, <2>5, OneMore
  <2>7. /\ queue'[L + 1].kind = kind /\ queue'[L + 1].idx = i /\ queue'[L + 1].from = p
    BY <2>6 DEF Packet
  <2> HIDE DEF i
  <2>8. \A j \in Indices : remote'[j] = remote[j] \/ remote'[j] = Nobody
    BY <2>4 DEF TypeOK
  <2>81. \A j \in Indices : remote[j] = p => j = i
    BY <2>1, IndexOfPeer DEF i
  <2>82. \A k \in Unread : queue[k].from = p => queue[k].idx = i
    BY <2>2 DEF OrderOK
  <2>83. \A k \in Unread' : queue'[k].from \in Peers
    BY <1>0, <2>6, <2>7
  <2>9. ASSUME NEW k \in Unread', NEW j \in Indices, remote'[j] = queue'[k].from
        PROVE  j = queue'[k].idx
    <3>1. remote[j] = queue'[k].from
      BY <2>8, <2>83, <2>9, PeersAssumption
    <3> QED BY <2>6, <2>7, <2>81, <3>1 DEF OrderOK
  <2>10. ASSUME NEW k \in Unread', NEW l \in Unread', queue'[k].from = queue'[l].from
         PROVE  queue'[k].idx = queue'[l].idx
    BY <2>82, <2>6, <2>7, <2>10 DEF OrderOK
  <2>11. ASSUME NEW k \in Unread', NEW l \in Unread', k < l,
                queue'[k].idx = queue'[l].idx, queue'[k].from # queue'[l].from
         PROVE  \E m \in Unread' : /\ k < m /\ m <= l
                                   /\ queue'[m].kind = "connect"
                                   /\ queue'[m].from = queue'[l].from
    <3>0. k \in Unread
      BY <1>0, <2>6, <2>11 DEF Unread
    <3>1. CASE l = L + 1
      <4>1. queue[k].idx = i /\ queue[k].from # p
        BY <2>6, <2>7, <2>11, <3>0, <3>1
      <4>2. PICK m \in Unread : k < m /\ queue[m].kind = "connect" /\ queue[m].from = p
        BY <2>2, <3>0, <4>1 DEF OrderOK
      <4>3. m <= L + 1
        BY <1>0 DEF Unread
      <4> QED BY <2>6, <2>7, <3>1, <4>2, <4>3
    <3>2. CASE l \in Unread
      BY <2>6, <2>11, <3>0, <3>2 DEF OrderOK
    <3> QED BY <2>6, <3>1, <3>2
  <2>12. ASSUME NEW k \in Unread',
                remote'[queue'[k].idx] # Nobody, remote'[queue'[k].idx] # queue'[k].from
         PROVE  \E m \in Unread' : /\ k < m
                                   /\ queue'[m].kind = "connect"
                                   /\ queue'[m].from = remote'[queue'[k].idx]
    <3>1. queue'[k].idx \in Indices
      BY <1>0, <2>2, <2>6, <2>7 DEF Packets
    <3>2. remote'[queue'[k].idx] = remote[queue'[k].idx]
      BY <2>8, <2>12, <3>1
    <3>3. k \in Unread /\ queue'[k] = queue[k]
      BY <2>2, <2>6, <2>7, <2>12, <3>2
    <3> QED BY <2>6, <2>12, <3>2, <3>3 DEF OrderOK
  <2> QED BY <2>9, <2>10, <2>11, <2>12 DEF OrderOK
<1>3. ASSUME NEW p \in Peers, PeerCloses(p) PROVE OrderOK'
  <2>1. peer[p] = "closing" /\ queue' = queue /\ remote' = [remote EXCEPT ![IndexOf(p)] = Nobody]
    BY <1>3 DEF PeerCloses
  <2>2. \A j \in Indices : remote'[j] = remote[j] \/ remote'[j] = Nobody
    BY <2>1 DEF TypeOK
  <2>3. Unread' = Unread /\ \A k \in Unread : queue[k].idx \in Indices
    BY <1>0, <2>1 DEF Unread, Packets
  <2> QED BY <1>0, <2>1, <2>2, <2>3, PeersAssumption DEF OrderOK
<1>4. CASE Main \/ UNCHANGED vars
  <2>1. UNCHANGED remote
    BY <1>4, MainThread
  <2>2. CASE UNCHANGED queue
    BY <2>1, <2>2 DEF OrderOK, Unread
  <2>3. CASE queue # << >> /\ queue' = Tail(queue)
    <3>1. /\ \A k \in Unread' : k + 1 \in Unread /\ queue'[k] = queue[k + 1]
          /\ \A k \in Unread : k # 1 => k - 1 \in Unread' /\ queue'[k - 1] = queue[k]
      BY <2>3, ReadFirst
    <3>2. Unread \subseteq Nat \ {0} /\ Unread' \subseteq Nat \ {0}
      BY DEF Unread
    <3>3. ASSUME NEW k \in Unread', NEW j \in Indices, remote'[j] = queue'[k].from
          PROVE  j = queue'[k].idx
      BY <2>1, <3>1, <3>3 DEF OrderOK
    <3>4. ASSUME NEW k \in Unread', NEW l \in Unread', queue'[k].from = queue'[l].from
          PROVE  queue'[k].idx = queue'[l].idx
      BY <3>1, <3>4 DEF OrderOK
    <3>5. ASSUME NEW k \in Unread', NEW l \in Unread', k < l,
                 queue'[k].idx = queue'[l].idx, queue'[k].from # queue'[l].from
          PROVE  \E m \in Unread' : /\ k < m /\ m <= l
                                    /\ queue'[m].kind = "connect"
                                    /\ queue'[m].from = queue'[l].from
      <4>1. k + 1 < l + 1 /\ k + 1 \in Unread /\ l + 1 \in Unread
        BY <3>1, <3>2, <3>5
      <4>2. PICK m \in Unread : /\ k + 1 < m /\ m <= l + 1
                                /\ queue[m].kind = "connect"
                                /\ queue[m].from = queue[l + 1].from
        BY <3>1, <3>5, <4>1 DEF OrderOK
      <4>3. m - 1 \in Unread' /\ queue'[m - 1] = queue[m]
        BY <3>1, <3>2, <4>2
      <4>4. k < m - 1 /\ m - 1 <= l
        BY <3>2, <4>2
      <4> QED BY <3>1, <4>2, <4>3, <4>4
    <3>6. ASSUME NEW k \in Unread',
                 remote'[queue'[k].idx] # Nobody, remote'[queue'[k].idx] # queue'[k].from
          PROVE  \E m \in Unread' : /\ k < m
                                    /\ queue'[m].kind = "connect"
                                    /\ queue'[m].from = remote'[queue'[k].idx]
      <4>1. PICK m \in Unread : /\ k + 1 < m
                                /\ queue[m].kind = "connect"
                                /\ queue[m].from = remote[queue[k + 1].idx]
        BY <2>1, <3>1, <3>6 DEF OrderOK
      <4>2. m - 1 \in Unread' /\ queue'[m - 1] = queue[m] /\ k < m - 1
        BY <3>1, <3>2, <4>1
      <4> QED BY <2>1, <3>1, <4>1, <4>2
    <3> QED BY <3>3, <3>4, <3>5, <3>6 DEF OrderOK
  <2> QED BY <1>4, <2>2, <2>3, MainThread
<1> QED BY <1>1, <1>2, <1>3, <1>4 DEF Next, RakNet, Main

-----------------------------------------------------------------------------
(* The pool.  Of every step only what it does to the pool matters here: a   *)
(* peer's player enters, is announced, is kicked with others, is renamed,   *)
(* starts to depart, departs, or the pool is left aside.                    *)

Enters(s, p) ==
    /\ s \in Slots /\ s \notin Live /\ p \in Peers
    /\ queue # << >> /\ Head(queue).kind = "connect" /\ Head(queue).from = p
    /\ queue' = Tail(queue) /\ peer[p] = "up"
    /\ \A t \in Live : nick[t] # NickOf[p]
    /\ owner' = [owner EXCEPT ![s] = p]
    /\ nick' = [nick EXCEPT ![s] = NickOf[p]]
    /\ at.op = "receive"
    /\ at'.op \in {"receive", "incoming"}
    /\ at'.op = "incoming" => at'.slot = s /\ at'.idx = Head(queue).idx
    /\ UNCHANGED <<kicked, known, met, quits>>

Announces(s) ==
    /\ s \in Live \ kicked
    /\ at.op = "incoming" /\ at.slot = s
    /\ at'.op = "connect" /\ at'.slot = s /\ at'.idx = at.idx
    /\ met' = met \union {owner[s]}
    /\ known' = [q \in Peers |->
                   IF q = owner[s] THEN known[q] \union (Live \ {s})
                   ELSE IF PlayersOf(q) # {} THEN known[q] \union {s}
                   ELSE known[q]]
    /\ UNCHANGED <<poolVars, quits>>

Marks(S) ==
    /\ S \subseteq Live
    /\ kicked' = kicked \union S
    /\ UNCHANGED <<owner, nick, known, met, quits, at>>

Renames(s, n) ==
    /\ s \in Live /\ n \in Nicks
    /\ \A t \in Live \ {s} : nick[t] # n
    /\ nick' = [nick EXCEPT ![s] = n]
    /\ UNCHANGED <<owner, kicked, known, met, quits, at>>

Departing(s) ==
    /\ s \in Live
    /\ at.op \in {"receive", "pool"}
    /\ at'.op \in {"left", "kicked"} /\ at'.slot = s
    /\ quits' = [quits EXCEPT ![owner[s]] = quits[owner[s]] + 1]
    /\ UNCHANGED <<poolVars, known, met>>

Departs(s) ==
    /\ at.op \in {"left", "kicked"} /\ at.slot = s
    /\ at'.op \in {"receive", "pool"}
    /\ RemovePlayer(s)
    /\ UNCHANGED <<nick, met, quits>>

Aside ==
    /\ UNCHANGED <<poolVars, known, met, quits>>
    /\ \/ UNCHANGED at
       \/ /\ at.op \notin {"left", "kicked"}
          /\ at'.op \in {"receive", "packet", "ticks", "pool"}

LEMMA StepCases ==
  ASSUME TypeOK, PoolOK, [Next]_vars
  PROVE  \/ \E s \in Slots, p \in Peers : Enters(s, p)
         \/ \E s \in Slots : Announces(s)
         \/ \E S \in SUBSET Slots : Marks(S)
         \/ \E s \in Slots, n \in Nicks : Renames(s, n)
         \/ \E s \in Slots : Departing(s)
         \/ \E s \in Slots : Departs(s)
         \/ Aside
<1> USE DEF Position, Receive, Ticks, PoolTick
<1>1. ASSUME NEW p \in Peers, PeerArrives(p) \/ PeerSends(p) \/ PeerDrops(p) \/ PeerCloses(p)
      PROVE  Aside
  BY <1>1 DEF PeerArrives, PeerSends, PeerDrops, PeerCloses, Aside, poolVars, toldVars
<1>2. CASE \/ RefuseConnect \/ EndConnect \/ DropFreedPlayer \/ HandlePacket \/ RPCHook
           \/ EndPacket \/ ReceiveDone \/ BeginPoolTick \/ EndTick \/ UNCHANGED vars
  <2>1. UNCHANGED <<poolVars, known, met, quits>>
    BY <1>2 DEF RefuseConnect, EndConnect, DropFreedPlayer, HandlePacket, RPCHook, EndPacket,
                ReceiveDone, BeginPoolTick, EndTick, vars, toldVars
  <2>2. \/ UNCHANGED at
        \/ /\ at.op \notin {"left", "kicked"}
           /\ at'.op \in {"receive", "packet", "ticks", "pool"}
    BY <1>2 DEF RefuseConnect, EndConnect, DropFreedPlayer, HandlePacket, RPCHook, EndPacket,
                ReceiveDone, BeginPoolTick, EndTick, vars, Reading, Handle, Connected
  <2> QED BY <2>1, <2>2 DEF Aside
<1>3. CASE OnPlayerConnect
  <2> DEFINE p == Head(queue).from
             s == RequestPlayer(p)
  <2>0. at.op = "receive" /\ queue # << >> /\ Head(queue).kind = "connect"
    BY <1>3 DEF OnPlayerConnect, Reading
  <2>1. p \in Peers
    <3>1. Head(queue) \in Packets
      BY <2>0 DEF TypeOK
    <3> QED BY <3>1 DEF Packets
  <2>2. s # None
    BY <1>3 DEF OnPlayerConnect, Accepted
  <2>3. s \in Slots /\ s \notin Live /\ \A t \in Live : nick[t] # NickOf[p]
    BY <2>1, <2>2, RequestedSlot
  <2> HIDE DEF s
  <2>4. /\ queue' = Tail(queue) /\ peer[p] = "up"
        /\ owner' = [owner EXCEPT ![s] = p]
        /\ nick' = [nick EXCEPT ![s] = NickOf[p]]
        /\ UNCHANGED <<kicked, known, met, quits>>
    BY <1>3 DEF OnPlayerConnect, toldVars, s
  <2>5. /\ at'.op \in {"receive", "incoming"}
        /\ at'.op = "incoming" => at'.slot = s /\ at'.idx = Head(queue).idx
    BY <1>3 DEF OnPlayerConnect, s
  <2>6. Enters(s, p)
    BY <2>0, <2>1, <2>3, <2>4, <2>5 DEF Enters
  <2> QED BY <2>1, <2>3, <2>6
<1>4. CASE Announce
  <2>1. at.op = "incoming" /\ at.slot \in Live /\ at.slot \in Slots
    BY <1>4 DEF Announce, PoolOK, Live
  <2>2. CASE at.slot \in kicked
    BY <1>4, <2>1, <2>2 DEF Announce, Connected, Aside, toldVars
  <2>3. CASE at.slot \notin kicked
    <3>1. at'.op = "connect" /\ at'.slot = at.slot /\ at'.idx = at.idx
      BY <1>4, <2>3 DEF Announce, TypeOK, Positions
    <3>2. Announces(at.slot)
      BY <1>4, <2>1, <2>3, <3>1 DEF Announce, Announces
    <3> QED BY <2>1, <3>2
  <2> QED BY <2>2, <2>3
<1>5. CASE OnRakNetDisconnect
  <2>1. CASE Addressee = None
    BY <1>5, <2>1 DEF OnRakNetDisconnect, Aside, poolVars
  <2>2. CASE Addressee # None
    <3>1. Addressee \in Live /\ Addressee \in Slots
      BY <1>5, <2>2 DEF OnRakNetDisconnect, AddresseeFreed, Live
    <3>2. Departing(Addressee)
      BY <1>5, <2>2, <3>1 DEF OnRakNetDisconnect, Reading, ClearPlayer, Departing, poolVars
    <3> QED BY <3>1, <3>2
  <2> QED BY <2>1, <2>2
<1>6. CASE EndDisconnect \/ EndKicked
  <2>1. at.op \in {"left", "kicked"} /\ at.slot \in Slots
    BY <1>6 DEF EndDisconnect, EndKicked, PoolOK, Live
  <2>2. Departs(at.slot)
    BY <1>6, <2>1 DEF EndDisconnect, EndKicked, Departs
  <2> QED BY <2>1, <2>2
<1>7. ASSUME NEW s \in Slots, VisitPlayer(s) PROVE Aside \/ Departing(s)
  <2>1. CASE s \in kicked
    <3>1. s \in Live
      BY <2>1 DEF PoolOK
    <3> QED BY <1>7, <2>1, <3>1 DEF VisitPlayer, ClearPlayer, Departing, poolVars
  <2>2. CASE s \notin kicked
    BY <1>7, <2>2 DEF VisitPlayer, Aside, poolVars
  <2> QED BY <2>1, <2>2
<1>8. ASSUME NEW s \in Slots, Kick(s) PROVE Marks({s})
  BY <1>8 DEF Kick, KickAll, Marks, toldVars
<1>9. ASSUME NEW s \in Slots, Ban(s) PROVE \E S \in SUBSET Slots : Marks(S)
  <2>1. PICK S \in SUBSET Slots : KickAll(S) /\ S \subseteq Live
    BY <1>9 DEF Ban, Live
  <2>2. Marks(S)
    BY <1>9, <2>1 DEF Ban, KickAll, Marks, toldVars
  <2> QED BY <2>2
<1>10. ASSUME NEW s \in Slots, NEW n \in Nicks, SetName(s, n) PROVE Renames(s, n)
  BY <1>10 DEF SetName, NameTaken, Renames, toldVars
<1> QED
  BY <1>1, <1>2, <1>3, <1>4, <1>5, <1>6, <1>7, <1>8, <1>9, <1>10
     DEF Next, RakNet, ReceiveLoop, RestOfTick, Scripts

\* Whoever never had a player still has none, unless its player enters.
LEMMA NewKept ==
  ASSUME TypeOK, PoolOK, [Next]_vars, NEW p \in Peers, p \in Newcomers,
         ~(queue # << >> /\ Head(queue).kind = "connect" /\ Head(queue).from = p /\ queue' = Tail(queue))
  PROVE  p \in Newcomers'
<1>0. p # Nobody /\ p \notin {owner[s] : s \in Slots}
  BY PeersAssumption DEF Newcomers
<1>1. ASSUME NEW s \in Slots, NEW q \in Peers, Enters(s, q) PROVE p \in Newcomers'
  <2>1. q # p
    BY <1>1 DEF Enters
  <2> QED BY <1>0, <1>1, <2>1 DEF Enters, Newcomers, TypeOK
<1>2. ASSUME NEW s \in Slots, Announces(s) PROVE p \in Newcomers'
  BY <1>0, <1>2 DEF Announces, Newcomers, poolVars
<1>3. ASSUME NEW s \in Slots, Departing(s) PROVE p \in Newcomers'
  BY <1>0, <1>3 DEF Departing, Newcomers, poolVars, TypeOK
<1>4. ASSUME NEW s \in Slots, Departs(s) PROVE p \in Newcomers'
  BY <1>0, <1>4 DEF Departs, RemovePlayer, Newcomers, TypeOK
<1>5. ASSUME NEW S \in SUBSET Slots, Marks(S) PROVE p \in Newcomers'
  BY <1>5 DEF Marks, Newcomers
<1>6. ASSUME NEW s \in Slots, NEW n \in Nicks, Renames(s, n) PROVE p \in Newcomers'
  BY <1>6 DEF Renames, Newcomers
<1>7. CASE Aside
  BY <1>7 DEF Aside, Newcomers, poolVars
<1> QED BY <1>1, <1>2, <1>3, <1>4, <1>5, <1>6, <1>7, StepCases

LEMMA UnreadNext ==
  ASSUME TypeOK, NetOK, OrderOK, UnreadOK, PoolOK, [Next]_vars
  PROVE  UnreadOK'
<1> DEFINE L == Len(queue)
<1>0. L \in Nat /\ \A k \in Unread : queue[k] \in Packets /\ queue[k].from \in Peers
  BY QueueElements DEF Packets
<1>1. ASSUME NEW p \in Peers, PeerArrives(p) PROVE UnreadOK'
  <2>1. PICK i \in Indices : queue' = Append(queue, Packet("connect", i, p))
    BY <1>1 DEF PeerArrives
  <2>2. Packet("connect", i, p) \in Packets
    BY DEF Packet, Packets
  <2>3. /\ Unread' = Unread \union {L + 1}
        /\ \A k \in Unread : k < L + 1 /\ queue'[k] = queue[k]
        /\ queue'[L + 1] = Packet("connect", i, p)
    BY <2>1, <2>2, OneMore
  <2>4. /\ queue'[L + 1].kind = "connect" /\ queue'[L + 1].from = p
    BY <2>3 DEF Packet
  <2>5. peer[p] = "away" /\ \A q \in Peers : peer'[q] = IF q = p THEN "up" ELSE peer[q]
    BY <1>1 DEF PeerArrives, TypeOK
  <2>6. \A k \in Unread : queue[k].from # p
    BY <2>5 DEF UnreadOK
  <2>7. Newcomers' = Newcomers
    BY <1>1 DEF PeerArrives, Newcomers, poolVars, toldVars
  <2>8. p \in Newcomers
    BY <2>5 DEF UnreadOK
  <2>9. ASSUME NEW k \in Unread', NEW l \in Unread',
               queue'[k].kind = "connect", queue'[l].kind = "connect",
               queue'[k].from = queue'[l].from
        PROVE  k = l
    BY <2>3, <2>4, <2>6, <2>9 DEF UnreadOK
  <2>10. ASSUME NEW k \in Unread'
         PROVE  /\ peer'[queue'[k].from] # "away"
                /\ queue'[k].kind = "leave" => peer'[queue'[k].from] = "gone"
                /\ queue'[k].kind = "connect" => queue'[k].from \in Newcomers'
    <3>1. CASE k = L + 1
      BY <2>4, <2>5, <2>7, <2>8, <3>1
    <3>2. CASE k \in Unread
      BY <1>0, <2>3, <2>5, <2>6, <2>7, <3>2 DEF UnreadOK
    <3> QED BY <2>3, <3>1, <3>2
  <2>11. \A q \in Peers : peer'[q] = "away" => q \in Newcomers'
    BY <2>5, <2>7 DEF UnreadOK
  <2> QED BY <2>9, <2>10, <2>11 DEF UnreadOK
<1>2. ASSUME NEW p \in Peers, PeerSends(p) \/ PeerDrops(p) PROVE UnreadOK'
  <2>1. peer[p] = "up" /\ IndexOf(p) \in Indices
    BY <1>2, IndexOfPeer DEF PeerSends, PeerDrops
  <2>2. PICK kind \in {"packet", "rpc", "leave"} :
          /\ queue' = Append(queue, Packet(kind, IndexOf(p), p))
          /\ kind = "leave" => peer' = [peer EXCEPT ![p] = "gone"]
          /\ kind # "leave" => peer' = peer
    BY <1>2 DEF PeerSends, PeerDrops
  <2>3. Packet(kind, IndexOf(p), p) \in Packets
    BY <2>1 DEF Packet, Packets
  <2>4. /\ Unread' = Unread \union {L + 1}
        /\ \A k \in Unread : k < L + 1 /\ queue'[k] = queue[k]
        /\ queue'[L + 1] = Packet(kind, IndexOf(p), p)
    BY <2>2, <2>3, OneMore
  <2>5. queue'[L + 1].kind = kind /\ queue'[L + 1].from = p
    BY <2>4 DEF Packet
  <2>6. Newcomers' = Newcomers
    BY <1>2 DEF PeerSends, PeerDrops, Newcomers, poolVars, toldVars
  <2>7. \A q \in Peers : peer'[q] = IF q = p /\ kind = "leave" THEN "gone" ELSE peer[q]
    BY <2>2 DEF TypeOK
  <2>8. ASSUME NEW k \in Unread', NEW l \in Unread',
               queue'[k].kind = "connect", queue'[l].kind = "connect",
               queue'[k].from = queue'[l].from
        PROVE  k = l
    BY <2>4, <2>5, <2>8 DEF UnreadOK
  <2>9. ASSUME NEW k \in Unread'
        PROVE  /\ peer'[queue'[k].from] # "away"
               /\ queue'[k].kind = "leave" => peer'[queue'[k].from] = "gone"
               /\ queue'[k].kind = "connect" => queue'[k].from \in Newcomers'
    <3>1. CASE k = L + 1
      BY <2>1, <2>5, <2>7, <3>1
    <3>2. CASE k \in Unread
      BY <1>0, <2>4, <2>6, <2>7, <3>2 DEF UnreadOK
    <3> QED BY <2>4, <3>1, <3>2
  <2>10. \A q \in Peers : peer'[q] = "away" => q \in Newcomers'
    BY <2>6, <2>7 DEF UnreadOK
  <2> QED BY <2>8, <2>9, <2>10 DEF UnreadOK
<1>3. ASSUME NEW p \in Peers, PeerCloses(p) PROVE UnreadOK'
  <2>1. /\ queue' = queue /\ Unread' = Unread
        /\ \A q \in Peers : peer'[q] = IF q = p THEN "gone" ELSE peer[q]
        /\ peer[p] = "closing"
        /\ Newcomers' = Newcomers
    BY <1>3 DEF PeerCloses, TypeOK, Newcomers, Unread, poolVars, toldVars
  <2> QED BY <1>0, <2>1 DEF UnreadOK
<1>4. CASE Main \/ UNCHANGED vars
  <2>1. \A q \in Peers : /\ peer'[q] = "away" <=> peer[q] = "away"
                         /\ peer[q] = "gone" => peer'[q] = "gone"
    BY <1>4, MainThread
  <2>2. CASE UNCHANGED queue
    <3>1. Unread' = Unread /\ queue' = queue
      BY <2>2 DEF Unread
    <3>2. Len(queue') = Len(queue) /\ (queue # << >> => Len(Tail(queue)) # Len(queue))
      BY <2>2 DEF TypeOK
    <3>3. \A q \in Peers : q \in Newcomers => q \in Newcomers'
      BY <3>1, <3>2, NewKept
    <3> QED BY <1>0, <2>1, <3>1, <3>3 DEF UnreadOK
  <2>3. CASE queue # << >> /\ queue' = Tail(queue)
    <3>1. /\ \A k \in Unread' : k + 1 \in Unread /\ queue'[k] = queue[k + 1]
          /\ 1 \in Unread /\ Head(queue) = queue[1]
      BY <2>3, ReadFirst, QueueElements
    <3>2. Unread \subseteq Nat \ {0} /\ Unread' \subseteq Nat \ {0}
      BY DEF Unread
    <3>3. ASSUME NEW q \in Peers, q \in Newcomers, ~(Head(queue).kind = "connect" /\ Head(queue).from = q)
          PROVE  q \in Newcomers'
      BY <3>3, NewKept
    <3>4. ASSUME NEW k \in Unread', NEW l \in Unread',
                 queue'[k].kind = "connect", queue'[l].kind = "connect",
                 queue'[k].from = queue'[l].from
          PROVE  k = l
      <4>1. k + 1 = l + 1
        BY <3>1, <3>4 DEF UnreadOK
      <4> QED BY <3>2, <4>1
    <3>5. ASSUME NEW k \in Unread'
          PROVE  /\ peer'[queue'[k].from] # "away"
                 /\ queue'[k].kind = "leave" => peer'[queue'[k].from] = "gone"
                 /\ queue'[k].kind = "connect" => queue'[k].from \in Newcomers'
      <4>1. queue'[k].from \in Peers /\ queue'[k] = queue[k + 1] /\ k + 1 \in Unread
        BY <1>0, <3>1
      <4>2. /\ peer'[queue'[k].from] # "away"
            /\ queue'[k].kind = "leave" => peer'[queue'[k].from] = "gone"
        BY <2>1, <4>1 DEF UnreadOK
      <4>3. ASSUME queue'[k].kind = "connect" PROVE queue'[k].from \in Newcomers'
        <5> DEFINE q == queue[k + 1].from
        <5>1. q \in Newcomers /\ q \in Peers
          BY <4>1, <4>3 DEF UnreadOK
        <5>2. ~(Head(queue).kind = "connect" /\ Head(queue).from = q)
          <6>1. k + 1 # 1
            BY <3>2
          <6> QED BY <3>1, <4>1, <4>3, <6>1 DEF UnreadOK
        <5> QED BY <3>3, <4>1, <5>1, <5>2
      <4> QED BY <4>2, <4>3
    <3>6. ASSUME NEW q \in Peers, peer'[q] = "away" PROVE q \in Newcomers'
      <4>1. peer[q] = "away" /\ q \in Newcomers
        BY <2>1, <3>6 DEF UnreadOK
      <4>2. Head(queue).from # q
        BY <3>1, <4>1 DEF UnreadOK
      <4> QED BY <3>3, <4>1, <4>2
    <3> QED BY <3>4, <3>5, <3>6 DEF UnreadOK
  <2> QED BY <1>4, <2>2, <2>3, MainThread
<1> QED BY <1>1, <1>2, <1>3, <1>4 DEF Next, RakNet, Main

\* Who is in the pool after each kind of step.
LEMMA LiveAfter ==
  ASSUME TypeOK
  PROVE  /\ \A s \in Slots, p \in Peers : Enters(s, p) =>
              /\ Live' = Live \union {s}
              /\ \A t \in Slots : /\ owner'[t] = IF t = s THEN p ELSE owner[t]
                                  /\ nick'[t] = IF t = s THEN NickOf[p] ELSE nick[t]
         /\ \A s \in Slots : Departs(s) =>
              /\ Live' = Live \ {s}
              /\ \A t \in Slots : owner'[t] = IF t = s THEN Nobody ELSE owner[t]
         /\ \A s \in Slots : Announces(s) \/ Departing(s) => Live' = Live
         /\ \A S \in SUBSET Slots : Marks(S) => Live' = Live
         /\ \A s \in Slots, n \in Nicks : Renames(s, n) =>
              /\ Live' = Live
              /\ \A t \in Slots : nick'[t] = IF t = s THEN n ELSE nick[t]
         /\ Aside => Live' = Live
<1>1. ASSUME NEW s \in Slots, NEW p \in Peers, Enters(s, p)
      PROVE  /\ Live' = Live \union {s}
             /\ \A t \in Slots : /\ owner'[t] = IF t = s THEN p ELSE owner[t]
                                 /\ nick'[t] = IF t = s THEN NickOf[p] ELSE nick[t]
  <2>1. \A t \in Slots : /\ owner'[t] = IF t = s THEN p ELSE owner[t]
                         /\ nick'[t] = IF t = s THEN NickOf[p] ELSE nick[t]
    BY <1>1 DEF Enters, TypeOK
  <2> QED BY <2>1, PeersAssumption DEF Live
<1>2. ASSUME NEW s \in Slots, Departs(s)
      PROVE  /\ Live' = Live \ {s}
             /\ \A t \in Slots : owner'[t] = IF t = s THEN Nobody ELSE owner[t]
  <2>1. \A t \in Slots : owner'[t] = IF t = s THEN Nobody ELSE owner[t]
    BY <1>2 DEF Departs, RemovePlayer, TypeOK
  <2> QED BY <2>1 DEF Live
<1>3. ASSUME NEW s \in Slots, NEW n \in Nicks, Renames(s, n)
      PROVE  /\ Live' = Live
             /\ \A t \in Slots : nick'[t] = IF t = s THEN n ELSE nick[t]
  BY <1>3 DEF Renames, Live, TypeOK
<1>4. /\ \A s \in Slots : Announces(s) \/ Departing(s) => Live' = Live
      /\ \A S \in SUBSET Slots : Marks(S) => Live' = Live
      /\ Aside => Live' = Live
  BY DEF Announces, Departing, Marks, Aside, Live, poolVars
<1> QED BY <1>1, <1>2, <1>3, <1>4

LEMMA EntersNew ==
  ASSUME TypeOK, UnreadOK, NEW s \in Slots, NEW p \in Peers, Enters(s, p)
  PROVE  /\ \A t \in Slots : owner[t] # p
         /\ p \notin met
         /\ quits[p] = 0
<1>1. 1 \in Unread /\ queue[1].kind = "connect" /\ queue[1].from = p
  BY QueueElements DEF Enters
<1>2. p \in Newcomers
  BY <1>1 DEF UnreadOK
<1> QED BY <1>2 DEF Newcomers

LEMMA NamesNext ==
  ASSUME TypeOK, PoolOK, NamesUnique, [Next]_vars
  PROVE  NamesUnique'
<1>1. ASSUME NEW s \in Slots, NEW p \in Peers, Enters(s, p) PROVE NamesUnique'
  <2>1. \A t \in Live : nick[t] # NickOf[p]
    BY <1>1 DEF Enters
  <2>2. Live \subseteq Slots
    BY DEF Live
  <2> QED BY <1>1, <2>1, <2>2, LiveAfter DEF NamesUnique
<1>2. ASSUME NEW s \in Slots, NEW n \in Nicks, Renames(s, n) PROVE NamesUnique'
  <2>1. \A t \in Live \ {s} : nick[t] # n
    BY <1>2 DEF Renames
  <2>2. Live \subseteq Slots
    BY DEF Live
  <2> QED BY <1>2, <2>1, <2>2, LiveAfter DEF NamesUnique
<1>3. ASSUME NEW s \in Slots, Announces(s) \/ Departing(s) \/ Departs(s) PROVE NamesUnique'
  BY <1>3, LiveAfter DEF Announces, Departing, Departs, NamesUnique, poolVars
<1>4. ASSUME NEW S \in SUBSET Slots, Marks(S) \/ Aside PROVE NamesUnique'
  BY <1>4, LiveAfter DEF Marks, Aside, NamesUnique, poolVars
<1> QED BY <1>1, <1>2, <1>3, <1>4, StepCases

LEMMA PoolNext ==
  ASSUME TypeOK, UnreadOK, PoolOK, [Next]_vars
  PROVE  PoolOK'
<1> USE DEF PoolOK, Leaving
<1>0. Live \subseteq Slots /\ \A s \in Live : owner[s] \in Peers
  BY DEF Live, TypeOK
<1>1. ASSUME NEW s \in Slots, NEW p \in Peers, Enters(s, p) PROVE PoolOK'
  <2>1. /\ \A t \in Slots : owner[t] # p
        /\ p \notin met /\ quits[p] = 0
    BY <1>1, EntersNew
  <2>2. /\ Live' = Live \union {s}
        /\ \A t \in Slots : owner'[t] = IF t = s THEN p ELSE owner[t]
    BY <1>1, LiveAfter
  <2>3. /\ s \notin Live /\ owner[s] = Nobody
        /\ at.op = "receive" /\ at'.op \in {"receive", "incoming"}
        /\ at'.op = "incoming" => at'.slot = s
        /\ UNCHANGED <<kicked, met, quits>>
    BY <1>1 DEF Enters, Live
  <2>4. \A t, u \in Slots : owner'[t] = owner'[u] /\ owner'[t] # Nobody => t = u
    BY <2>1, <2>2
  <2>5. \A t \in Live' : quits'[owner'[t]] = 0
    BY <1>0, <2>1, <2>2, <2>3
  <2>6. \A q \in Peers : (q \in met' /\ \A t \in Slots : owner'[t] # q) => quits'[q] = 1
    BY <1>0, <2>1, <2>2, <2>3, PeersAssumption
  <2> QED BY <2>1, <2>2, <2>3, <2>4, <2>5, <2>6
<1>2. ASSUME NEW s \in Slots, Announces(s) PROVE PoolOK'
  <2>1. /\ s \in Live /\ s \notin kicked /\ at.op = "incoming"
        /\ at'.op = "connect" /\ at'.slot = s /\ met' = met \union {owner[s]}
        /\ UNCHANGED <<owner, nick, kicked, quits>>
    BY <1>2 DEF Announces, poolVars
  <2>2. Live' = Live
    BY <1>2, LiveAfter
  <2>3. \A t \in Live : ~Leaving(t) /\ ~Leaving(t)'
    BY <2>1
  <2>4. \A p \in Peers : (p \in met' /\ \A t \in Slots : owner'[t] # p) => quits'[p] = 1
    BY <1>0, <2>1
  <2> QED BY <2>1, <2>2, <2>3, <2>4
<1>3. ASSUME NEW S \in SUBSET Slots, Marks(S) PROVE PoolOK'
  BY <1>3, LiveAfter DEF Marks
<1>4. ASSUME NEW s \in Slots, NEW n \in Nicks, Renames(s, n) PROVE PoolOK'
  <2>1. UNCHANGED <<owner, kicked, met, quits, at>>
    BY <1>4 DEF Renames
  <2>2. Live' = Live
    BY <1>4, LiveAfter
  <2> QED BY <2>1, <2>2
<1>5. ASSUME NEW s \in Slots, Departing(s) PROVE PoolOK'
  <2>1. /\ s \in Live /\ Live' = Live /\ owner' = owner /\ kicked' = kicked /\ met' = met
        /\ at.op \in {"receive", "pool"} /\ at'.op \in {"left", "kicked"} /\ at'.slot = s
        /\ quits' = [quits EXCEPT ![owner[s]] = quits[owner[s]] + 1]
    BY <1>5, LiveAfter DEF Departing, poolVars
  <2>2. \A t \in Live : quits[owner[t]] = 0
    BY <2>1
  <2>3. \A q \in Peers : quits'[q] = IF q = owner[s] THEN 1 ELSE quits[q]
    BY <1>0, <2>1, <2>2 DEF TypeOK
  <2>4. \A t \in Live : owner[t] = owner[s] => t = s
    BY <1>0, <2>1 DEF Live
  <2>5. \A t \in Live' : quits'[owner'[t]] = IF t = s THEN 1 ELSE 0
    BY <1>0, <2>1, <2>2, <2>3, <2>4
  <2>6. \A q \in Peers : (q \in met' /\ \A t \in Slots : owner'[t] # q) => quits'[q] = 1
    BY <2>1, <2>3
  <2> QED BY <2>1, <2>5, <2>6
<1>6. ASSUME NEW s \in Slots, Departs(s) PROVE PoolOK'
  <2>1. /\ Live' = Live \ {s}
        /\ \A t \in Slots : owner'[t] = IF t = s THEN Nobody ELSE owner[t]
    BY <1>6, LiveAfter
  <2>2. /\ at.op \in {"left", "kicked"} /\ at.slot = s /\ at'.op \in {"receive", "pool"}
        /\ kicked' = kicked \ {s} /\ met' = met /\ quits' = quits
    BY <1>6 DEF Departs, RemovePlayer
  <2>3. quits[owner[s]] = 1
    BY <2>2
  <2>4. \A t \in Live' : quits'[owner'[t]] = 0
    BY <1>0, <2>1, <2>2
  <2>5. \A q \in Peers : (q \in met' /\ \A t \in Slots : owner'[t] # q) => quits'[q] = 1
    BY <2>1, <2>2, <2>3
  <2>6. kicked' \subseteq Live'
    BY <2>1, <2>2
  <2>7. \A t, u \in Slots : owner'[t] = owner'[u] /\ owner'[t] # Nobody => t = u
    BY <2>1
  <2> QED BY <2>2, <2>4, <2>5, <2>6, <2>7
<1>7. CASE Aside
  BY <1>7, LiveAfter DEF Aside, poolVars
<1> QED BY <1>1, <1>2, <1>3, <1>4, <1>5, <1>6, <1>7, StepCases

\* Each announcement reaches everybody in the pool, each removal too.
LEMMA RosterNext ==
  ASSUME TypeOK, UnreadOK, PoolOK, RosterOK, [Next]_vars
  PROVE  RosterOK'
<1>0. Live \subseteq Slots /\ \A s \in Live : owner[s] \in Peers
  BY DEF Live, TypeOK
<1>1. ASSUME NEW s \in Slots, NEW p \in Peers, Enters(s, p) PROVE RosterOK'
  <2>1. p \notin met
    BY <1>1, EntersNew
  <2>2. known' = known /\ met' = met
    BY <1>1 DEF Enters
  <2> QED BY <1>0, <1>1, <2>1, <2>2, LiveAfter DEF RosterOK
<1>2. ASSUME NEW s \in Slots, Announces(s) PROVE RosterOK'
  <2>1. /\ s \in Live /\ Live' = Live /\ owner' = owner /\ met' = met \union {owner[s]}
        /\ \A q \in Peers : known'[q] = IF q = owner[s] THEN known[q] \union (Live \ {s})
                                        ELSE IF PlayersOf(q) # {} THEN known[q] \union {s}
                                        ELSE known[q]
    BY <1>2, LiveAfter DEF Announces, poolVars
  <2>2. ASSUME NEW q \in Peers PROVE known'[q] \subseteq Live'
    <3>1. known[q] \subseteq Live
      BY DEF RosterOK
    <3>2. known'[q] \in {known[q] \union (Live \ {s}), known[q] \union {s}, known[q]}
      BY <2>1
    <3> QED BY <2>1, <3>1, <3>2
  <2>3. ASSUME NEW t \in Live, NEW u \in Live, t # u,
               owner[t] \in met', owner[u] \in met'
        PROVE  u \in known'[owner[t]]
    <3>1. owner[t] = owner[s] => t = s
      BY <1>0, <2>1 DEF PoolOK, Live
    <3>2. owner[u] = owner[s] => u = s
      BY <1>0, <2>1 DEF PoolOK, Live
    <3>3. PlayersOf(owner[t]) # {}
      BY <1>0 DEF PlayersOf
    <3> QED BY <1>0, <2>1, <2>3, <3>1, <3>2, <3>3 DEF RosterOK
  <2> QED BY <2>1, <2>2, <2>3 DEF RosterOK
<1>3. ASSUME NEW S \in SUBSET Slots, Marks(S) \/ Aside PROVE RosterOK'
  BY <1>3, LiveAfter DEF Marks, Aside, RosterOK, poolVars
<1>4. ASSUME NEW s \in Slots, NEW n \in Nicks, Renames(s, n) PROVE RosterOK'
  BY <1>4, LiveAfter DEF Renames, RosterOK
<1>5. ASSUME NEW s \in Slots, Departing(s) PROVE RosterOK'
  BY <1>5, LiveAfter DEF Departing, RosterOK, poolVars
<1>6. ASSUME NEW s \in Slots, Departs(s) PROVE RosterOK'
  <2>1. /\ Live' = Live \ {s}
        /\ \A t \in Slots : owner'[t] = IF t = s THEN Nobody ELSE owner[t]
        /\ met' = met
    BY <1>6, LiveAfter DEF Departs
  <2>2. \A q \in Peers : known'[q] = known[q] \ {s}
    BY <1>6 DEF Departs, RemovePlayer
  <2> QED BY <1>0, <2>1, <2>2 DEF RosterOK
<1> QED BY <1>1, <1>2, <1>3, <1>4, <1>5, <1>6, StepCases

-----------------------------------------------------------------------------
(* The invariant, and what follows from it whatever RakNet drops when       *)

LEMMA InitOK == Init => IInv
<1> SUFFICES ASSUME Init PROVE IInv
  OBVIOUS
<1>1. TypeOK
  BY TypeInit
<1>2. Live = {} /\ Unread = {}
  <2>1. Live = {}
    BY DEF Init, Live
  <2>2. Len(queue) = 0
    BY DEF Init
  <2> QED BY <2>1, <2>2 DEF Unread
<1>3. NetOK
  BY PeersAssumption DEF Init, NetOK
<1>4. \A s \in Slots : owner[s] = Nobody
  BY DEF Init
<1>5. \A p \in Peers : p \in Newcomers
  BY <1>4, PeersAssumption DEF Init, Newcomers
<1>6. OrderOK /\ UnreadOK
  BY <1>2, <1>5, NoneApart DEF Init, OrderOK, UnreadOK
<1>7. at.op = "receive"
  BY DEF Init, Receive, Position
<1>8. PoolOK
  BY <1>2, <1>4, <1>7 DEF Init, PoolOK
<1>9. RosterOK /\ NamesUnique
  BY <1>2 DEF Init, RosterOK, NamesUnique
<1> QED BY <1>1, <1>3, <1>6, <1>8, <1>9 DEF IInv

LEMMA NextOK == IInv /\ [Next]_vars => IInv'
  BY TypeNext, NetNext, OrderNext, UnreadNext, PoolNext, RosterNext, NamesNext DEF IInv

\* The invariant is inductive: it holds in every reachable state, however the
\* threads interleave and whatever scripts do in callbacks.
THEOREM Invariant == Spec => []IInv
  BY InitOK, NextOK, PTL DEF Spec

\* Every variable keeps its type; no departure is counted twice.
THEOREM TypeCorrect == Spec => []TypeOK
<1>1. IInv => TypeOK
  BY DEF IInv
<1> QED BY Invariant, <1>1, PTL

\* Every announced client lists every other announced player and no free slot,
\* through reused slots, kicks and vetoed connects.
THEOREM RostersAgree == Spec => []RosterAgrees
<1>1. IInv => RosterAgrees
  <2> SUFFICES ASSUME IInv PROVE RosterAgrees
    OBVIOUS
  <2>1. \A s \in Live : owner[s] \in Peers
    BY DEF IInv, TypeOK, Live
  <2> QED BY <2>1 DEF IInv, RosterOK, RosterAgrees, Announced
<1> QED BY Invariant, <1>1, PTL

\* onPlayerDisconnect is dispatched once for every player, however its kick, a
\* ban of its address and the loss of its connection coincide.
THEOREM LeaveOnce == Spec => []LeavesOnce
<1>1. IInv => LeavesOnce
  <2> SUFFICES ASSUME IInv, NEW p \in Peers
               PROVE  /\ Cardinality(PlayersOf(p)) <= 1
                      /\ \A s \in PlayersOf(p) : quits[p] = IF Leaving(s) THEN 1 ELSE 0
                      /\ PlayersOf(p) = {} /\ p \in met => quits[p] = 1
    BY DEF LeavesOnce
  <2>0. p # Nobody
    BY PeersAssumption
  <2>1. Cardinality(PlayersOf(p)) <= 1
    <3>1. CASE PlayersOf(p) = {}
      BY <3>1, FS_EmptySet
    <3>2. CASE PlayersOf(p) # {}
      <4>1. PICK s \in Slots : PlayersOf(p) = {s}
        BY <2>0, <3>2 DEF IInv, PoolOK, PlayersOf
      <4>2. Cardinality({s}) = 1
        BY FS_Singleton
      <4> QED BY <4>1, <4>2
    <3> QED BY <3>1, <3>2
  <2>2. \A s \in PlayersOf(p) : s \in Live /\ owner[s] = p
    BY <2>0 DEF PlayersOf, Live
  <2>3. \A s \in PlayersOf(p) : quits[p] = IF Leaving(s) THEN 1 ELSE 0
    BY <2>2 DEF IInv, PoolOK
  <2>4. PlayersOf(p) = {} /\ p \in met => quits[p] = 1
    BY DEF IInv, PoolOK, PlayersOf
  <2> QED BY <2>1, <2>3, <2>4
<1> QED BY Invariant, <1>1, PTL

\* No two players in the pool share a name.
THEOREM UniqueNames == Spec => []NamesUnique
<1>1. IInv => NamesUnique
  BY DEF IInv
<1> QED BY Invariant, <1>1, PTL

-----------------------------------------------------------------------------
(* The network's table, as long as RakNet drops no peer between the receive *)
(* loop and the end of the pool's tick.                                     *)

LeavesUnread == {x \in Peers \X Indices : LeaveQueued(x[1], x[2])}

\* Who is at an index of the table is RakNet's peer there, or its leave is to
\* be read; kicked players, and who is departing, are at none.
EntryOK(i) ==
    LET s == playerFromRakIndex[i]
    IN  s # None =>
          /\ s \in Live
          /\ remote[i] = owner[s] \/ <<owner[s], i>> \in LeavesUnread
          /\ peer[owner[s]] # "closing"
          /\ s \in kicked => peer[owner[s]] = "gone"
          /\ at.op \in {"left", "kicked"} => s # at.slot
TableOK == ~late =>
    /\ \A i \in Indices : EntryOK(i)
    /\ at.op \in {"ticks", "pool", "kicked"} => \A k \in Unread : queue[k].kind # "leave"

IndexTable == [p \in Peers |-> IndexOf(p)]

\* The index a connect in progress will record is its peer's own, and that of
\* everybody announced was.
PingOK ==
    /\ at.op \in {"incoming", "connect"} =>
         /\ at.idx \in Indices
         /\ \A j \in Indices : remote[j] = owner[at.slot] => j = at.idx
    /\ ~late => \A s \in Announced :
         (/\ ~IsBot(s)
          /\ ~(at.op = "connect" /\ at.slot = s)
          /\ peer[owner[s]] = "up") => playerRemoteSystem[s] = IndexTable[owner[s]]

JInv == IInv /\ TableOK /\ PingOK

\* The leaves unread, before and after a step.
LEMMA LeaveIsUnread ==
  ASSUME TypeOK, NEW p, NEW i, <<p, i>> \in LeavesUnread
  PROVE  \E k \in Unread : queue[k].kind = "leave" /\ queue[k].from = p /\ queue[k].idx = i
<1>1. PICK k \in DOMAIN queue : queue[k] = Packet("leave", i, p)
  BY DEF LeavesUnread, LeaveQueued
<1>2. k \in Unread /\ queue[k].kind = "leave" /\ queue[k].from = p /\ queue[k].idx = i
  BY <1>1, QueueElements DEF Packet
<1> QED BY <1>2

LEMMA LeavesAppend ==
  ASSUME TypeOK, NEW pkt \in Packets, queue' = Append(queue, pkt)
  PROVE  /\ LeavesUnread \subseteq LeavesUnread'
         /\ \A p \in Peers, i \in Indices : pkt = Packet("leave", i, p) => <<p, i>> \in LeavesUnread'
<1>1. /\ Unread' = Unread \union {Len(queue) + 1} /\ DOMAIN queue = Unread
      /\ \A k \in Unread : queue'[k] = queue[k]
      /\ queue'[Len(queue) + 1] = pkt /\ queue' \in Seq(Packets)
  BY OneMore, QueueElements
<1>2. DOMAIN queue' = Unread'
  BY <1>1 DEF Unread
<1> QED BY <1>1, <1>2 DEF LeavesUnread, LeaveQueued

LEMMA LeavesTail ==
  ASSUME TypeOK, queue # << >>, queue' = Tail(queue)
  PROVE  \A x \in LeavesUnread : \/ x \in LeavesUnread'
                                \/ /\ Head(queue).kind = "leave"
                                   /\ Head(queue).from = x[1] /\ Head(queue).idx = x[2]
<1>1. /\ \A k \in Unread : k # 1 => k - 1 \in Unread' /\ queue'[k - 1] = queue[k]
      /\ queue' \in Seq(Packets) /\ DOMAIN queue = Unread /\ Head(queue) = queue[1]
  BY ReadFirst, QueueElements
<1>2. DOMAIN queue' = Unread'
  BY <1>1 DEF Unread
<1>3. ASSUME NEW x \in LeavesUnread
      PROVE  \/ x \in LeavesUnread'
             \/ /\ Head(queue).kind = "leave"
                /\ Head(queue).from = x[1] /\ Head(queue).idx = x[2]
  <2>1. PICK k \in Unread : queue[k] = Packet("leave", x[2], x[1])
    BY <1>1 DEF LeavesUnread, LeaveQueued
  <2>2. CASE k = 1
    BY <1>1, <2>1, <2>2 DEF Packet
  <2>3. CASE k # 1
    <3>1. k - 1 \in DOMAIN queue' /\ queue'[k - 1] = Packet("leave", x[2], x[1])
      BY <1>1, <1>2, <2>1, <2>3
    <3>2. x \in Peers \X Indices
      BY DEF LeavesUnread
    <3>3. LeaveQueued(x[1], x[2])'
      BY ONLY <3>1 DEF LeaveQueued, Packet
    <3> QED BY ONLY <3>2, <3>3 DEF LeavesUnread
  <2> QED BY <2>2, <2>3
<1> QED BY <1>3

\* A player is at one index at most.
LEMMA OneIndex ==
  ASSUME TypeOK, NetOK, OrderOK, NEW i \in Indices, NEW j \in Indices,
         EntryOK(i), EntryOK(j),
         playerFromRakIndex[i] # None, playerFromRakIndex[j] = playerFromRakIndex[i]
  PROVE  i = j
<1> DEFINE s == playerFromRakIndex[i]
           p == owner[s]
<1>1. s \in Live /\ p \in Peers /\ p # Nobody
  BY PeersAssumption DEF EntryOK, Live, TypeOK
<1>2. /\ remote[i] = p \/ <<p, i>> \in LeavesUnread
      /\ remote[j] = p \/ <<p, j>> \in LeavesUnread
  BY DEF EntryOK
<1> HIDE DEF p, s
<1>3. \A n \in Indices : <<p, n>> \in LeavesUnread =>
        \E k \in Unread : queue[k].from = p /\ queue[k].idx = n
  BY LeaveIsUnread
<1> QED BY <1>1, <1>2, <1>3 DEF NetOK, OrderOK

\* The packet read at an index is of the player the table has there.
LEMMA OwnPacket ==
  ASSUME TypeOK, OrderOK, UnreadOK, queue # << >>,
         Addressee # None, EntryOK(Head(queue).idx)
  PROVE  owner[Addressee] = Head(queue).from
<1> DEFINE i == Head(queue).idx
           p == owner[Addressee]
<1>1. /\ 1 \in Unread /\ Head(queue) = queue[1] /\ Len(queue) \in Nat
  BY QueueElements
<1>2. Addressee \in Live /\ p \in Peers /\ p # Nobody /\ p \notin Newcomers
  BY PeersAssumption DEF Addressee, EntryOK, Live, TypeOK, Newcomers
<1>3. remote[i] = p \/ <<p, i>> \in LeavesUnread
  BY DEF Addressee, EntryOK
<1> HIDE DEF p
<1>4. \A m \in Unread : ~(queue[m].kind = "connect" /\ queue[m].from = p)
  BY <1>2 DEF UnreadOK
<1>5. CASE remote[i] = p
  BY <1>1, <1>2, <1>4, <1>5 DEF OrderOK, p
<1>6. CASE <<p, i>> \in LeavesUnread
  <2>2. PICK k \in Unread : queue[k].from = p /\ queue[k].idx = i
    BY <1>6, LeaveIsUnread
  <2>3. CASE k = 1
    BY <1>1, <2>2, <2>3 DEF p
  <2>4. CASE k # 1
    <3>1. 1 < k
      BY <1>1, <2>4 DEF Unread
    <3> QED BY <1>1, <1>4, <2>2, <3>1 DEF OrderOK, p
  <2> QED BY <2>3, <2>4
<1> QED BY <1>3, <1>5, <1>6

\* What a step must not change for the entry at an index to stay right.
LEMMA EntryKept ==
  ASSUME TypeOK, NEW i \in Indices, EntryOK(i),
         playerFromRakIndex'[i] \in {None, playerFromRakIndex[i]},
         playerFromRakIndex[i] \in Live =>
           /\ owner'[playerFromRakIndex[i]] = owner[playerFromRakIndex[i]]
           /\ remote'[i] = remote[i]
           /\ <<owner[playerFromRakIndex[i]], i>> \in LeavesUnread =>
                <<owner[playerFromRakIndex[i]], i>> \in LeavesUnread'
           /\ peer'[owner[playerFromRakIndex[i]]] = peer[owner[playerFromRakIndex[i]]]
           /\ kicked' \subseteq kicked
           /\ (at'.op \in {"left", "kicked"} /\ at'.slot = playerFromRakIndex[i]) =>
                (at.op \in {"left", "kicked"} /\ at.slot = playerFromRakIndex[i])
  PROVE  EntryOK(i)'
<1> DEFINE s == playerFromRakIndex[i]
<1>1. CASE playerFromRakIndex'[i] = None
  BY <1>1 DEF EntryOK
<1>2. CASE playerFromRakIndex'[i] = s /\ s # None
  <2>1. s \in Live /\ s \in Slots /\ owner'[s] = owner[s]
    BY <1>2 DEF EntryOK, Live
  <2>2. s \in Live'
    BY <2>1 DEF Live
  <2> QED BY <1>2, <2>1, <2>2 DEF EntryOK
<1> QED BY <1>1, <1>2

LEMMA TableNext ==
  ASSUME IInv, TableOK, [Next]_vars
  PROVE  TableOK'
<1> USE DEF IInv
<1> SUFFICES ASSUME ~late'
             PROVE  /\ \A i \in Indices : EntryOK(i)'
                    /\ at'.op \in {"ticks", "pool", "kicked"} =>
                         \A k \in Unread' : queue'[k].kind # "leave"
  BY DEF TableOK
<1> DEFINE NoLeave == at.op \in {"ticks", "pool", "kicked"} => \A k \in Unread : queue[k].kind # "leave"
           Goal == (\A i \in Indices : EntryOK(i)') /\ NoLeave'
<1> SUFFICES Goal
  OBVIOUS
<1>0. /\ \A s \in Live : s \in Slots /\ owner[s] \in Peers /\ owner[s] \notin Newcomers /\ owner[s] # Nobody
      /\ \A k \in Unread : queue[k] \in Packets
      /\ queue # << >> => 1 \in Unread /\ Head(queue) = queue[1] /\ Head(queue) \in Packets
      /\ \A p \in Peers : peer[p] = "away" => p \in Newcomers
  BY PeersAssumption, QueueElements DEF Live, TypeOK, Newcomers, UnreadOK
<1>00. ASSUME ~late PROVE (\A i \in Indices : EntryOK(i)) /\ NoLeave
  BY <1>00 DEF TableOK
<1> HIDE DEF NoLeave
<1>1. ASSUME NEW p \in Peers, PeerArrives(p) PROVE Goal
  <2>1. PICK n \in Indices : /\ remote[n] = Nobody
                             /\ remote' = [remote EXCEPT ![n] = p]
                             /\ queue' = Append(queue, Packet("connect", n, p))
    BY <1>1 DEF PeerArrives
  <2>2. Packet("connect", n, p) \in Packets
    BY DEF Packet, Packets
  <2>3. LeavesUnread \subseteq LeavesUnread'
    BY <2>1, <2>2, LeavesAppend
  <2>4. /\ peer[p] = "away" /\ p \in Newcomers
        /\ \A q \in Peers \ {p} : peer'[q] = peer[q]
        /\ \A i \in Indices \ {n} : remote'[i] = remote[i]
        /\ UNCHANGED <<owner, kicked, playerFromRakIndex, late, at>>
    BY <1>0, <1>1, <2>1 DEF PeerArrives, TypeOK, mapVars, poolVars, toldVars
  <2>5. ASSUME NEW i \in Indices PROVE EntryOK(i)'
    <3>1. EntryOK(i) /\ playerFromRakIndex'[i] = playerFromRakIndex[i]
      BY <1>00, <2>4
    <3>2. CASE i = n
      <4>1. ASSUME playerFromRakIndex[i] # None
            PROVE  <<owner[playerFromRakIndex[i]], i>> \in LeavesUnread
        BY <1>0, <2>1, <3>1, <3>2, <4>1 DEF EntryOK
      <4>2. Live' = Live
        BY <2>4 DEF Live
      <4> QED BY <1>0, <2>3, <2>4, <3>1, <4>1, <4>2 DEF EntryOK
    <3>3. CASE i # n
      BY <1>0, <2>3, <2>4, <3>1, <3>3, EntryKept
    <3> QED BY <3>2, <3>3
  <2>6. NoLeave'
    <3>1. /\ Unread' = Unread \union {Len(queue) + 1}
          /\ \A k \in Unread : queue'[k] = queue[k]
          /\ queue'[Len(queue) + 1] = Packet("connect", n, p)
      BY <2>1, <2>2, OneMore
    <3>2. queue'[Len(queue) + 1].kind = "connect"
      BY <3>1 DEF Packet
    <3> QED BY <1>00, <2>4, <3>1, <3>2 DEF NoLeave
  <2> QED BY <2>5, <2>6
<1>2. ASSUME NEW p \in Peers, PeerSends(p) PROVE Goal
  <2>1. IndexOf(p) \in Indices
    BY <1>2, IndexOfPeer DEF PeerSends
  <2>2. PICK kind \in {"packet", "rpc"} : queue' = Append(queue, Packet(kind, IndexOf(p), p))
    BY <1>2 DEF PeerSends
  <2>3. Packet(kind, IndexOf(p), p) \in Packets
    BY <2>1 DEF Packet, Packets
  <2>4. LeavesUnread \subseteq LeavesUnread'
    BY <2>2, <2>3, LeavesAppend
  <2>5. UNCHANGED <<peer, remote, owner, kicked, playerFromRakIndex, late, at>>
    BY <1>2 DEF PeerSends, mapVars, poolVars, toldVars
  <2>6. ASSUME NEW i \in Indices PROVE EntryOK(i)'
    <3>1. EntryOK(i)
      BY <1>00, <2>5
    <3> QED BY <2>4, <2>5, <3>1, EntryKept
  <2>7. NoLeave'
    <3>1. /\ Unread' = Unread \union {Len(queue) + 1}
          /\ \A k \in Unread : queue'[k] = queue[k]
          /\ queue'[Len(queue) + 1] = Packet(kind, IndexOf(p), p)
      BY <2>2, <2>3, OneMore
    <3>2. queue'[Len(queue) + 1].kind = kind
      BY <3>1 DEF Packet
    <3> QED BY <1>00, <2>5, <3>1, <3>2 DEF NoLeave
  <2> QED BY <2>6, <2>7
<1>3. ASSUME NEW p \in Peers, PeerDrops(p) PROVE Goal
  <2> DEFINE n == IndexOf(p)
  <2>1. /\ n \in Indices /\ remote[n] = p
        /\ \A j \in Indices : remote[j] = p => j = n
    BY <1>3, IndexOfPeer DEF PeerDrops
  <2>2. /\ queue' = Append(queue, Packet("leave", n, p))
        /\ remote' = [remote EXCEPT ![n] = Nobody]
        /\ peer' = [peer EXCEPT ![p] = "gone"]
        /\ ~late /\ at.op \notin {"ticks", "pool", "kicked"}
        /\ UNCHANGED <<owner, kicked, playerFromRakIndex, at>>
    BY <1>3 DEF PeerDrops, mapVars, poolVars, TypeOK
  <2> HIDE DEF n
  <2>3. Packet("leave", n, p) \in Packets
    BY <2>1 DEF Packet, Packets
  <2>4. LeavesUnread \subseteq LeavesUnread' /\ <<p, n>> \in LeavesUnread'
    BY <2>1, <2>2, <2>3, LeavesAppend
  <2>5. /\ peer'[p] = "gone" /\ \A q \in Peers \ {p} : peer'[q] = peer[q]
        /\ \A i \in Indices \ {n} : remote'[i] = remote[i]
        /\ Live' = Live
    BY <2>2 DEF TypeOK, Live
  <2>6. ASSUME NEW i \in Indices PROVE EntryOK(i)'
    <3>1. EntryOK(i)
      BY <1>00, <2>2
    <3>2. ASSUME playerFromRakIndex[i] # None, owner[playerFromRakIndex[i]] = p
          PROVE  EntryOK(i)'
      <4>1. <<p, i>> \in LeavesUnread'
        BY <2>1, <2>4, <3>1, <3>2 DEF EntryOK
      <4> QED BY <2>2, <2>5, <3>1, <3>2, <4>1 DEF EntryOK
    <3>3. ASSUME playerFromRakIndex[i] # None, owner[playerFromRakIndex[i]] # p
          PROVE  EntryOK(i)'
      <4>1. remote'[i] = remote[i] \/ <<owner[playerFromRakIndex[i]], i>> \in LeavesUnread'
        BY <2>1, <2>4, <2>5, <3>1, <3>3 DEF EntryOK
      <4> QED BY <1>0, <2>2, <2>4, <2>5, <3>1, <3>3, <4>1 DEF EntryOK
    <3>4. CASE playerFromRakIndex[i] = None
      BY <2>2, <3>4 DEF EntryOK
    <3> QED BY <3>2, <3>3, <3>4
  <2> QED BY <2>2, <2>6 DEF NoLeave
<1>4. ASSUME NEW p \in Peers, PeerCloses(p) PROVE Goal
  <2>1. /\ peer[p] = "closing" /\ IndexOf(p) \in Indices /\ remote[IndexOf(p)] = p
    BY <1>4, IndexOfPeer DEF PeerCloses
  <2>2. /\ remote' = [remote EXCEPT ![IndexOf(p)] = Nobody]
        /\ peer' = [peer EXCEPT ![p] = "gone"]
        /\ UNCHANGED <<queue, owner, kicked, playerFromRakIndex, late, at>>
    BY <1>4 DEF PeerCloses, mapVars, poolVars, toldVars
  <2>3. /\ \A q \in Peers \ {p} : peer'[q] = peer[q]
        /\ \A i \in Indices : remote[i] # p => remote'[i] = remote[i]
        /\ LeavesUnread' = LeavesUnread /\ Live' = Live /\ Unread' = Unread
    BY <2>1, <2>2 DEF TypeOK, LeavesUnread, LeaveQueued, Live, Unread
  <2>4. ASSUME NEW i \in Indices PROVE EntryOK(i)'
    <3>1. EntryOK(i)
      BY <1>00, <2>2
    <3>2. CASE playerFromRakIndex[i] = None
      BY <2>2, <3>2 DEF EntryOK
    <3>3. CASE playerFromRakIndex[i] # None
      <4>1. owner[playerFromRakIndex[i]] # p /\ playerFromRakIndex[i] \in Live
        BY <2>1, <3>1, <3>3 DEF EntryOK
      <4>2. remote[i] = owner[playerFromRakIndex[i]] => remote'[i] = remote[i]
        BY <2>3, <4>1
      <4> QED BY <1>0, <2>2, <2>3, <3>1, <4>1, <4>2 DEF EntryOK
    <3> QED BY <3>2, <3>3
  <2>5. NoLeave'
    BY <1>00, <2>2, <2>3 DEF NoLeave
  <2> QED BY <2>4, <2>5
<1>5. ASSUME queue # << >>, queue' = Tail(queue), NEW i \in Indices,
             NEW q, <<q, i>> \in LeavesUnread, <<q, i>> \notin LeavesUnread'
      PROVE  Head(queue).kind = "leave" /\ Head(queue).idx = i
  BY <1>5, LeavesTail
<1>6. ASSUME queue # << >>, queue' = Tail(queue), \A k \in Unread : queue[k].kind # "leave"
      PROVE  \A k \in Unread' : queue'[k].kind # "leave"
  BY <1>6, ReadFirst
<1>61. ASSUME UNCHANGED queue PROVE Unread' = Unread /\ LeavesUnread' = LeavesUnread
  BY <1>61 DEF Unread, LeavesUnread, LeaveQueued
<1>7. CASE RefuseConnect
  <2>1. /\ at.op = "receive" /\ queue # << >> /\ Head(queue).kind = "connect"
        /\ queue' = Tail(queue) /\ peer' = Closing({Head(queue).from} \ Bots)
        /\ UNCHANGED <<remote, playerFromRakIndex, owner, kicked, late, at>>
    BY <1>7 DEF RefuseConnect, Reading, Receive, Position, mapVars, poolVars, toldVars
  <2>2. Head(queue).from \in Newcomers
    BY <1>0, <2>1 DEF UnreadOK
  <2>3. \A s \in Live : peer'[owner[s]] = peer[owner[s]]
    BY <1>0, <2>1, <2>2, ClosingType
  <2>4. ASSUME NEW i \in Indices PROVE EntryOK(i)'
    <3>1. EntryOK(i)
      BY <1>00, <2>1
    <3> QED BY <1>5, <2>1, <2>3, <3>1, EntryKept
  <2>5. NoLeave'
    BY <2>1 DEF NoLeave
  <2> QED BY <2>4, <2>5
<1>8. CASE OnPlayerConnect
  <2> DEFINE n == Head(queue).idx
             p == Head(queue).from
             s == RequestPlayer(p)
  <2>1. /\ queue # << >> /\ Head(queue).kind = "connect" /\ queue' = Tail(queue)
        /\ peer[p] = "up" /\ s # None
        /\ playerFromRakIndex' = [playerFromRakIndex EXCEPT ![n] = s]
        /\ owner' = [owner EXCEPT ![s] = p]
        /\ at'.op \in {"receive", "incoming"}
        /\ UNCHANGED <<peer, remote, kicked, late>>
    BY <1>8 DEF OnPlayerConnect, Accepted, Reading, Receive, Position, toldVars
  <2>2. n \in Indices /\ p \in Peers /\ p # Nobody /\ queue[1].from = p /\ queue[1].idx = n
    BY <1>0, <2>1, PeersAssumption DEF Packets
  <2>3. s \in Slots /\ s \notin Live /\ s \notin kicked
    BY <2>1, <2>2, RequestedSlot DEF PoolOK
  <2>4. remote[n] = p
    BY <1>0, <2>1, <2>2 DEF NetOK, OrderOK
  <2> HIDE DEF n, p, s
  <2>5. ASSUME NEW i \in Indices PROVE EntryOK(i)'
    <3>1. EntryOK(i)
      BY <1>00, <2>1
    <3>2. CASE i = n
      <4>1. playerFromRakIndex'[i] = s /\ owner'[s] = p
        BY <2>1, <2>2, <2>3, <3>2 DEF TypeOK
      <4>2. s \in Live'
        BY <2>2, <2>3, <4>1 DEF Live
      <4> QED BY <2>1, <2>3, <2>4, <3>2, <4>1, <4>2 DEF EntryOK
    <3>3. CASE i # n
      <4>1. playerFromRakIndex'[i] = playerFromRakIndex[i]
        BY <2>1, <3>3 DEF TypeOK
      <4>2. \A t \in Live : owner'[t] = owner[t]
        BY <1>0, <2>1, <2>3 DEF TypeOK
      <4> QED BY <1>5, <2>1, <3>1, <4>1, <4>2, EntryKept
    <3> QED BY <3>2, <3>3
  <2>6. NoLeave'
    BY <2>1 DEF NoLeave
  <2> QED BY <2>5, <2>6
<1>9. CASE \/ Announce \/ EndConnect \/ HandlePacket \/ RPCHook \/ EndPacket
           \/ ReceiveDone \/ BeginPoolTick \/ EndTick
  <2>1. /\ UNCHANGED <<peer, remote, playerFromRakIndex, owner, kicked, late>>
        /\ at'.op \notin {"left", "kicked"}
        /\ UNCHANGED queue \/ (queue # << >> /\ queue' = Tail(queue) /\ Head(queue).kind # "leave")
    BY <1>9 DEF Announce, EndConnect, HandlePacket, RPCHook, EndPacket, ReceiveDone,
                BeginPoolTick, EndTick, netVars, mapVars, poolVars, toldVars, Connected,
                Handle, Reading, Receive, Ticks, PoolTick, Position, TypeOK, Positions
  <2>2. ASSUME NEW i \in Indices PROVE EntryOK(i)'
    <3>1. EntryOK(i)
      BY <1>00, <2>1
    <3>2. \/ LeavesUnread' = LeavesUnread
          \/ Head(queue).kind # "leave" /\ queue # << >> /\ queue' = Tail(queue)
      BY <1>61, <2>1
    <3> QED BY <1>5, <2>1, <3>1, <3>2, EntryKept
  <2>3. NoLeave'
    <3>1. CASE at'.op \in {"ticks", "pool"}
      <4>1. queue' = queue /\ (queue = << >> \/ at.op \in {"ticks", "pool", "kicked"})
        BY <1>9, <3>1 DEF Announce, EndConnect, HandlePacket, RPCHook, EndPacket, ReceiveDone,
                BeginPoolTick, EndTick, netVars, toldVars, Connected,
                Handle, Reading, Receive, Ticks, PoolTick, Position, TypeOK, Positions
      <4>2. \A k \in Unread : queue[k].kind # "leave"
        <5>1. CASE queue = << >>
          BY <5>1 DEF Unread
        <5>2. CASE at.op \in {"ticks", "pool", "kicked"}
          BY <1>00, <2>1, <5>2 DEF NoLeave
        <5> QED BY <4>1, <5>1, <5>2
      <4> QED BY <1>61, <4>1, <4>2 DEF NoLeave
    <3>2. CASE at'.op \notin {"ticks", "pool"}
      BY <2>1, <3>2 DEF NoLeave
    <3> QED BY <3>1, <3>2
  <2> QED BY <2>2, <2>3
<1>10. CASE DropFreedPlayer
  <2>1. ~late /\ Head(queue).idx \in Indices
    BY <1>0, <1>10 DEF DropFreedPlayer, toldVars, Packets
  <2>2. EntryOK(Head(queue).idx)
    BY <1>00, <2>1
  <2> QED BY <1>10, <2>2 DEF DropFreedPlayer, AddresseeFreed, Addressee, EntryOK
<1>11. CASE OnRakNetDisconnect
  <2> DEFINE n == Head(queue).idx
  <2>1. /\ queue # << >> /\ queue' = Tail(queue) /\ Head(queue).kind = "leave"
        /\ at.op = "receive"
        /\ UNCHANGED <<peer, remote, owner, kicked, late>>
    BY <1>11 DEF OnRakNetDisconnect, Reading, Receive, Position, poolVars
  <2>2. n \in Indices
    BY <1>0, <2>1 DEF Packets
  <2>3. CASE Addressee = None
    <3>1. UNCHANGED <<playerFromRakIndex, at>> /\ playerFromRakIndex[n] = None
      BY <1>11, <2>3 DEF OnRakNetDisconnect, mapVars, Addressee
    <3>2. ASSUME NEW i \in Indices PROVE EntryOK(i)'
      <4>1. EntryOK(i)
        BY <1>00, <2>1
      <4>2. CASE i = n
        BY <3>1, <4>2 DEF EntryOK
      <4>3. CASE i # n
        BY <1>5, <2>1, <3>1, <4>1, <4>3, EntryKept
      <4> QED BY <4>2, <4>3
    <3>3. NoLeave'
      BY <2>1, <3>1 DEF NoLeave
    <3> QED BY <3>2, <3>3
  <2>4. CASE Addressee # None
    <3>1. /\ playerFromRakIndex' = [playerFromRakIndex EXCEPT ![n] = None]
          /\ at'.op = "left" /\ at'.slot = playerFromRakIndex[n]
          /\ playerFromRakIndex[n] # None
      BY <1>11, <2>4 DEF OnRakNetDisconnect, ClearPlayer, Position, Addressee
    <3>2. ASSUME NEW i \in Indices PROVE EntryOK(i)'
      <4>1. EntryOK(i) /\ EntryOK(n)
        BY <1>00, <2>1, <2>2
      <4>2. CASE i = n
        BY <2>2, <3>1, <4>2 DEF EntryOK, TypeOK
      <4>3. CASE i # n
        <5>1. playerFromRakIndex'[i] = playerFromRakIndex[i]
          BY <3>1, <4>3 DEF TypeOK
        <5>2. playerFromRakIndex[i] # playerFromRakIndex[n]
          BY <2>2, <3>1, <4>1, <4>3, OneIndex
        <5> QED BY <1>5, <2>1, <3>1, <4>1, <4>3, <5>1, <5>2, EntryKept
      <4> QED BY <4>2, <4>3
    <3>3. NoLeave'
      BY <3>1 DEF NoLeave
    <3> QED BY <3>2, <3>3
  <2> QED BY <2>3, <2>4
<1>12. CASE EndDisconnect \/ EndKicked
  <2>1. /\ at.op \in {"left", "kicked"} /\ at'.op \in {"receive", "pool"}
        /\ at'.op = "pool" => at.op = "kicked"
        /\ RemovePlayer(at.slot)
        /\ UNCHANGED <<peer, remote, queue, playerFromRakIndex, late>>
    BY <1>12 DEF EndDisconnect, EndKicked, Receive, PoolTick, Position, netVars, mapVars
  <2>2. \A t \in Slots \ {at.slot} : owner'[t] = owner[t]
    BY <2>1 DEF RemovePlayer, TypeOK
  <2>3. kicked' \subseteq kicked
    BY <2>1 DEF RemovePlayer
  <2>4. ASSUME NEW i \in Indices PROVE EntryOK(i)'
    <3>1. EntryOK(i)
      BY <1>00, <2>1
    <3>2. CASE playerFromRakIndex[i] = None
      BY <2>1, <3>2 DEF EntryOK
    <3>3. CASE playerFromRakIndex[i] # None
      <4>1. playerFromRakIndex[i] # at.slot
        BY <2>1, <3>1, <3>3 DEF EntryOK
      <4> QED BY <1>0, <1>61, <2>1, <2>2, <2>3, <3>1, <4>1, EntryKept
    <3> QED BY <3>2, <3>3
  <2>5. NoLeave'
    BY <1>00, <1>61, <2>1 DEF NoLeave
  <2> QED BY <2>4, <2>5
<1>13. ASSUME NEW s \in Slots, VisitPlayer(s) PROVE Goal
  <2>1. /\ at.op = "pool"
        /\ UNCHANGED <<peer, remote, queue, playerFromRakIndex, owner, kicked, late>>
    BY <1>13 DEF VisitPlayer, netVars, mapVars, poolVars
  <2>2. at'.op \in {"pool", "kicked"} /\ (at'.op = "kicked" => s \in kicked /\ at'.slot = s)
    BY <1>13 DEF VisitPlayer, ClearPlayer, PoolTick, Position
  <2>3. \A k \in Unread : queue[k].kind # "leave"
    BY <1>00, <2>1 DEF NoLeave
  <2>4. ASSUME NEW i \in Indices PROVE EntryOK(i)'
    <3>1. EntryOK(i)
      BY <1>00, <2>1
    <3>2. CASE playerFromRakIndex[i] = s /\ s \in kicked
      <4>1. peer[owner[s]] = "gone" /\ owner[s] \in Peers /\ owner[s] # Nobody /\ s # None
        BY <1>0, <3>1, <3>2, NoneApart DEF EntryOK, PoolOK
      <4>2. remote[i] # owner[s]
        BY <4>1 DEF NetOK
      <4>3. <<owner[s], i>> \notin LeavesUnread
        BY <2>3, LeaveIsUnread
      <4> QED BY <3>1, <3>2, <4>1, <4>2, <4>3 DEF EntryOK
    <3>3. CASE ~(playerFromRakIndex[i] = s /\ s \in kicked)
      BY <1>61, <2>1, <2>2, <3>1, <3>3, EntryKept
    <3> QED BY <3>2, <3>3
  <2>5. NoLeave'
    BY <1>61, <2>1, <2>3 DEF NoLeave
  <2> QED BY <2>4, <2>5
<1>14. ASSUME NEW S \in SUBSET Live, KickAll(S),
              UNCHANGED <<remote, queue, owner, late, at>>
       PROVE  Goal
  <2> DEFINE ps == {owner[s] : s \in S}
  <2>1. /\ kicked' = kicked \union S
        /\ \A i \in Indices : playerFromRakIndex'[i] = IF remote[i] \in ps THEN None
                                                      ELSE playerFromRakIndex[i]
        /\ \A p \in Peers : peer'[p] = IF p \in ps /\ peer[p] = "up" THEN "closing" ELSE peer[p]
    BY <1>14, ClosingType DEF KickAll
  <2>2. Live' = Live
    BY <1>14 DEF Live
  <2>3. ASSUME NEW i \in Indices PROVE EntryOK(i)'
    <3>1. EntryOK(i)
      BY <1>00, <1>14
    <3>2. CASE playerFromRakIndex'[i] = None
      BY <3>2 DEF EntryOK
    <3>3. CASE playerFromRakIndex'[i] # None
      <4> DEFINE t == playerFromRakIndex[i]
      <4>1. /\ playerFromRakIndex'[i] = t /\ t # None /\ remote[i] \notin ps
            /\ t \in Live /\ owner[t] \in Peers
        BY <1>0, <2>1, <3>1, <3>3 DEF EntryOK
      <4> HIDE DEF ps
      <4>2. CASE owner[t] \in ps
        <5>1. <<owner[t], i>> \in LeavesUnread
          BY <3>1, <4>1, <4>2 DEF EntryOK
        <5>2. peer[owner[t]] = "gone"
          BY <5>1, LeaveIsUnread DEF UnreadOK
        <5> QED BY <1>14, <1>61, <2>1, <2>2, <3>1, <4>1, <5>1, <5>2 DEF EntryOK
      <4>3. CASE owner[t] \notin ps
        <5>1. t \notin S
          BY <4>3 DEF ps
        <5> QED BY <1>14, <1>61, <2>1, <2>2, <3>1, <4>1, <4>3, <5>1 DEF EntryOK
      <4> QED BY <4>2, <4>3
    <3> QED BY <3>2, <3>3
  <2>4. NoLeave'
    BY <1>00, <1>14, <1>61 DEF NoLeave
  <2> QED BY <2>3, <2>4
<1>15. ASSUME NEW s \in Slots, Kick(s) \/ Ban(s) PROVE Goal
  <2>1. UNCHANGED <<remote, queue, owner, late, at>>
    BY <1>15 DEF Kick, Ban, toldVars
  <2>2. \E S \in SUBSET Live : KickAll(S)
    <3>1. CASE Kick(s)
      BY <3>1 DEF Kick
    <3>2. CASE Ban(s)
      BY <3>2 DEF Ban
    <3> QED BY <1>15, <3>1, <3>2
  <2> QED BY <1>14, <2>1, <2>2
<1>16. CASE UNCHANGED <<peer, remote, queue, playerFromRakIndex, owner, kicked, late, at>>
  <2>1. ASSUME NEW i \in Indices PROVE EntryOK(i)'
    <3>1. EntryOK(i)
      BY <1>00, <1>16
    <3> QED BY <1>16, <1>61, <3>1, EntryKept
  <2>2. NoLeave'
    BY <1>00, <1>16, <1>61 DEF NoLeave
  <2> QED BY <2>1, <2>2
<1>17. ASSUME NEW s \in Slots, NEW m \in Nicks, SetName(s, m) PROVE Goal
  BY <1>16, <1>17 DEF SetName, netVars, mapVars, toldVars
<1>18. CASE UNCHANGED vars
  BY <1>16, <1>18 DEF vars, netVars, mapVars, poolVars, toldVars
<1> HIDE DEF Goal
<1> QED BY <1>1, <1>2, <1>3, <1>4, <1>7, <1>8, <1>9, <1>10, <1>11, <1>12, <1>13, <1>15, <1>17, <1>18
       DEF Next, RakNet, ReceiveLoop, RestOfTick, Scripts

\* The index of a peer that is at one.
LEMMA IndexTableAt ==
  ASSUME NetOK, NEW p \in Peers, NEW i \in Indices, remote[i] = p
  PROVE  IndexTable[p] = i
  BY PeersAssumption DEF NetOK, IndexTable, IndexOf

LEMMA IndexTableAfter ==
  ASSUME NetOK', NEW p \in Peers, NEW i \in Indices, remote'[i] = p
  PROVE  IndexTable'[p] = i
  BY PeersAssumption DEF NetOK, IndexTable, IndexOf

LEMMA PingNext ==
  ASSUME IInv, IInv', TableOK, PingOK, [Next]_vars
  PROVE  PingOK'
<1> USE DEF IInv
<1> DEFINE OwnIndex == at.op \in {"incoming", "connect"} =>
                         /\ at.idx \in Indices
                         /\ \A j \in Indices : remote[j] = owner[at.slot] => j = at.idx
           RightFor(s) == (/\ ~IsBot(s)
                           /\ ~(at.op = "connect" /\ at.slot = s)
                           /\ peer[owner[s]] = "up")
                          => playerRemoteSystem[s] = IndexTable[owner[s]]
           PingsRight == ~late => \A s \in Announced : RightFor(s)
<1>0. /\ \A s \in Live : s \in Slots /\ owner[s] \in Peers /\ owner[s] \notin Newcomers
      /\ \A p \in Peers : peer[p] = "away" => p \in Newcomers
      /\ Announced \subseteq Live
  BY DEF Live, TypeOK, Newcomers, UnreadOK, Announced
<1>00. OwnIndex /\ PingsRight
  BY DEF PingOK
<1> SUFFICES OwnIndex' /\ PingsRight'
  BY DEF PingOK
<1>1. ASSUME NEW s \in Announced, ~late, owner'[s] = owner[s],
             playerRemoteSystem'[s] = playerRemoteSystem[s],
             peer'[owner[s]] = "up" => /\ peer[owner[s]] = "up"
                                       /\ IndexTable'[owner[s]] = IndexTable[owner[s]],
             (at.op = "connect" /\ at.slot = s) => (at'.op = "connect" /\ at'.slot = s)
      PROVE  RightFor(s)'
  BY <1>00, <1>1 DEF IsBot
<1> HIDE DEF OwnIndex, RightFor
<1>2. ASSUME NEW p \in Peers, PeerArrives(p) \/ PeerSends(p) \/ PeerDrops(p) \/ PeerCloses(p)
      PROVE  OwnIndex' /\ PingsRight'
  <2>1. UNCHANGED <<owner, kicked, met, playerRemoteSystem, at>>
    BY <1>2 DEF PeerArrives, PeerSends, PeerDrops, PeerCloses, mapVars, poolVars, toldVars
  <2>7. late => late'
    BY <1>2 DEF PeerArrives, PeerSends, PeerDrops, PeerCloses, toldVars, TypeOK
  <2>2. /\ \A j \in Indices : remote'[j] \in {remote[j], Nobody, p}
        /\ peer[p] # "away" => \A j \in Indices : remote'[j] \in {remote[j], Nobody}
    BY <1>2 DEF PeerArrives, PeerSends, PeerDrops, PeerCloses, TypeOK
  <2>3. \A q \in Peers \ {p} : peer'[q] = peer[q]
    BY <1>2 DEF PeerArrives, PeerSends, PeerDrops, PeerCloses, TypeOK
  <2>4. peer'[p] = "up" => peer[p] \in {"up", "away"}
    BY <1>2 DEF PeerArrives, PeerSends, PeerDrops, PeerCloses, TypeOK
  <2>5. OwnIndex'
    <3>1. ASSUME at.op \in {"incoming", "connect"}, NEW j \in Indices, remote'[j] = owner[at.slot]
          PROVE  j = at.idx
      <4>1. owner[at.slot] \in Peers /\ owner[at.slot] # Nobody /\ (owner[at.slot] = p => peer[p] # "away")
        BY <1>0, <3>1, PeersAssumption DEF PoolOK
      <4>2. remote[j] = owner[at.slot]
        BY <2>2, <3>1, <4>1
      <4> QED BY <1>00, <3>1, <4>2 DEF OwnIndex
    <3> QED BY <1>00, <2>1, <3>1 DEF OwnIndex
  <2>6. PingsRight'
    <3>1. Announced' = Announced
      BY <2>1 DEF Announced, Live
    <3>2. ASSUME ~late', NEW s \in Announced PROVE RightFor(s)'
      <4>1. owner[s] \in Peers /\ (owner[s] = p => peer[p] # "away")
        BY <1>0
      <4>2. ASSUME peer'[owner[s]] = "up"
            PROVE  peer[owner[s]] = "up" /\ IndexTable'[owner[s]] = IndexTable[owner[s]]
        <5>1. peer[owner[s]] = "up"
          BY <2>3, <2>4, <4>1, <4>2
        <5>2. PICK q \in Peers : q = owner[s]
          BY <4>1
        <5>3. PICK j \in Indices : remote'[j] = q
          BY <4>2, <5>2 DEF NetOK
        <5>4. remote[j] = q
          BY <2>2, <4>1, <5>2, <5>3, PeersAssumption
        <5> QED BY <5>1, <5>2, <5>3, <5>4, IndexTableAt, IndexTableAfter
      <4> QED BY <1>1, <2>1, <2>7, <3>2, <4>2
    <3> QED BY <3>1, <3>2
  <2> QED BY <2>5, <2>6
<1>3. CASE Main \/ UNCHANGED vars
  <2>1. /\ UNCHANGED remote
        /\ \A p \in Peers : peer'[p] = "up" => peer[p] = "up"
    BY <1>3, MainThread
  <2>2. IndexTable' = IndexTable
    BY <2>1 DEF IndexTable, IndexOf
  <2>3. late' = late
    BY <1>3 DEF Main, ReceiveLoop, RestOfTick, Scripts, vars, toldVars,
       RefuseConnect, OnPlayerConnect, Announce, EndConnect, DropFreedPlayer, HandlePacket,
       RPCHook, EndPacket, OnRakNetDisconnect, EndDisconnect, ReceiveDone, BeginPoolTick,
       EndKicked, EndTick, VisitPlayer, Kick, Ban, SetName
  <2>4. OwnIndex'
    <3>1. ASSUME NEW s \in Slots, NEW p \in Peers, Enters(s, p) PROVE OwnIndex'
      <4>1. owner'[s] = p
        BY <3>1, LiveAfter
      <4>2. 1 \in Unread /\ queue[1] = Head(queue) /\ Head(queue) \in Packets /\ Head(queue).from = p
        BY <3>1, QueueElements DEF Enters
      <4>3. Head(queue).idx \in Indices /\ \A j \in Indices : remote[j] = p => j = Head(queue).idx
        BY <4>2 DEF OrderOK, Packets
      <4> QED BY <2>1, <3>1, <4>1, <4>3 DEF Enters, OwnIndex
    <3>2. ASSUME NEW s \in Slots, Announces(s) PROVE OwnIndex'
      BY <1>00, <2>1, <3>2 DEF Announces, OwnIndex, poolVars
    <3>3. ASSUME NEW s \in Slots, Departing(s) \/ Departs(s) PROVE OwnIndex'
      BY <3>3 DEF Departing, Departs, OwnIndex
    <3>4. ASSUME NEW S \in SUBSET Slots, Marks(S) PROVE OwnIndex'
      BY <1>00, <2>1, <3>4 DEF Marks, OwnIndex
    <3>5. ASSUME NEW s \in Slots, NEW n \in Nicks, Renames(s, n) PROVE OwnIndex'
      BY <1>00, <2>1, <3>5 DEF Renames, OwnIndex
    <3>6. CASE Aside
      BY <1>00, <2>1, <3>6 DEF Aside, OwnIndex, poolVars
    <3> QED BY <1>3, <3>1, <3>2, <3>3, <3>4, <3>5, <3>6, StepCases DEF Main, Next
  <2> SUFFICES PingsRight'
    BY <2>4
  <2>5. ASSUME UNCHANGED <<owner, playerRemoteSystem>>, Announced' \subseteq Announced,
               UNCHANGED at \/ at.op # "connect"
        PROVE  PingsRight'
    <3>1. ASSUME ~late', NEW s \in Announced' PROVE RightFor(s)'
      BY <1>0, <1>1, <2>1, <2>2, <2>3, <2>5, <3>1
    <3> QED BY <3>1
  <2>6. ASSUME UNCHANGED <<owner, kicked, met>> PROVE Announced' = Announced
    BY <2>6 DEF Announced, Live
  <2>7. CASE \/ RefuseConnect \/ DropFreedPlayer \/ HandlePacket \/ RPCHook \/ EndPacket
             \/ ReceiveDone \/ BeginPoolTick \/ EndTick \/ UNCHANGED vars
    <3>1. UNCHANGED <<owner, kicked, met, playerRemoteSystem>> /\ (UNCHANGED at \/ at.op # "connect")
      BY <2>7 DEF RefuseConnect, DropFreedPlayer, HandlePacket, RPCHook, EndPacket, ReceiveDone,
                  BeginPoolTick, EndTick, vars, mapVars, poolVars, toldVars, Reading, Receive,
                  Ticks, PoolTick, Position
    <3> QED BY <2>5, <2>6, <3>1
  <2>8. CASE OnPlayerConnect
    <3>1. /\ at.op = "receive" /\ UNCHANGED <<playerRemoteSystem, kicked, met>>
          /\ Head(queue) \in Packets
      BY <2>8 DEF OnPlayerConnect, Reading, Receive, Position, toldVars, TypeOK
    <3> DEFINE p == Head(queue).from
               s == RequestPlayer(p)
    <3>2. p \in Peers /\ s # None /\ owner' = [owner EXCEPT ![s] = p]
      BY <2>8, <3>1 DEF OnPlayerConnect, Accepted, Packets
    <3>3. s \in Slots /\ s \notin Live
      BY <3>2, RequestedSlot
    <3>4. p \notin met
      BY <2>8, QueueElements DEF OnPlayerConnect, Reading, UnreadOK, Newcomers
    <3> HIDE DEF p, s
    <3>5. ASSUME NEW t \in Announced' PROVE t \in Announced /\ owner'[t] = owner[t]
      <4>1. t \in Slots /\ t \notin kicked /\ owner'[t] \in met /\ owner'[t] # Nobody
        BY <3>1, <3>5 DEF Announced, Live
      <4>2. t # s
        BY <3>2, <3>3, <3>4, <4>1 DEF TypeOK
      <4>3. owner'[t] = owner[t]
        BY <3>2, <4>1, <4>2 DEF TypeOK
      <4> QED BY <4>1, <4>3 DEF Announced, Live
    <3>6. ASSUME ~late', NEW t \in Announced' PROVE RightFor(t)'
      BY <1>0, <1>1, <2>1, <2>2, <2>3, <3>1, <3>5, <3>6
    <3> QED BY <3>6
  <2>9. CASE Announce
    <3>1. /\ at.op = "incoming" /\ at.slot \in Live /\ UNCHANGED <<owner, kicked>>
      BY <2>9 DEF Announce, poolVars, PoolOK
    <3>2. CASE at.slot \in kicked
      <4>1. /\ Announced' = Announced /\ at.slot \notin Announced
            /\ \A t \in Slots \ {at.slot} : playerRemoteSystem'[t] = playerRemoteSystem[t]
        BY <2>6, <2>9, <3>1, <3>2 DEF Announce, Connected, toldVars, Announced, TypeOK
      <4>2. ASSUME ~late', NEW t \in Announced PROVE RightFor(t)'
        BY <1>0, <1>1, <2>1, <2>2, <2>3, <3>1, <4>1, <4>2
      <4> QED BY <4>1, <4>2
    <3>3. CASE at.slot \notin kicked
      <4>1. /\ met' = met \union {owner[at.slot]} /\ playerRemoteSystem' = playerRemoteSystem
            /\ at'.op = "connect" /\ at'.slot = at.slot
        BY <2>9, <3>3 DEF Announce, TypeOK, Positions
      <4>2. ASSUME ~late', NEW t \in Announced' PROVE RightFor(t)'
        <5>1. CASE t = at.slot
          BY <4>1, <5>1 DEF RightFor
        <5>2. CASE t # at.slot
          <6>1. t \in Live /\ t \notin kicked /\ owner[t] \in met'
            BY <3>1, <4>2 DEF Announced, Live
          <6>2. owner[t] # owner[at.slot]
            BY <3>1, <5>2, <6>1 DEF PoolOK, Live
          <6>3. t \in Announced
            BY <4>1, <6>1, <6>2 DEF Announced
          <6> QED BY <1>0, <1>1, <2>1, <2>2, <2>3, <3>1, <4>1, <4>2, <6>3
        <5> QED BY <5>1, <5>2
      <4> QED BY <4>2
    <3> QED BY <3>2, <3>3
  <2>10. CASE EndConnect
    <3>1. /\ at.op = "connect" /\ at.slot \in Live /\ UNCHANGED <<owner, kicked, met, peer>>
          /\ playerRemoteSystem' = IF IsBot(at.slot) THEN playerRemoteSystem
                                   ELSE [playerRemoteSystem EXCEPT ![at.slot] = at.idx]
      BY <2>10 DEF EndConnect, Connected, netVars, poolVars, toldVars, PoolOK
    <3>2. ASSUME ~late', NEW t \in Announced PROVE RightFor(t)'
      <4>1. CASE t = at.slot
        <5>1. ASSUME ~IsBot(t), peer[owner[t]] = "up"
              PROVE  playerRemoteSystem'[t] = IndexTable[owner[t]]
          <6>1. PICK j \in Indices : remote[j] = owner[t]
            BY <1>0, <5>1 DEF NetOK
          <6>2. j = at.idx
            BY <1>00, <3>1, <4>1, <6>1 DEF OwnIndex
          <6>3. playerRemoteSystem'[t] = at.idx
            BY <1>0, <3>1, <4>1, <5>1 DEF TypeOK
          <6> QED BY <1>0, <6>1, <6>2, <6>3, IndexTableAt
        <5> QED BY <2>2, <3>1, <5>1 DEF RightFor, IsBot
      <4>2. CASE t # at.slot
        <5>1. playerRemoteSystem'[t] = playerRemoteSystem[t]
          BY <1>0, <3>1, <4>2 DEF TypeOK
        <5> QED BY <1>0, <1>1, <2>1, <2>2, <2>3, <3>1, <3>2, <4>2, <5>1
      <4> QED BY <4>1, <4>2
    <3> QED BY <2>6, <3>1, <3>2
  <2>11. CASE OnRakNetDisconnect
    <3>1. /\ at.op = "receive" /\ queue # << >> /\ Head(queue).kind = "leave"
          /\ UNCHANGED <<owner, kicked, met, peer>> /\ Announced' = Announced
      BY <2>6, <2>11 DEF OnRakNetDisconnect, Reading, Receive, Position, poolVars
    <3>2. CASE Addressee = None
      BY <2>5, <2>11, <3>1, <3>2 DEF OnRakNetDisconnect, mapVars
    <3>3. CASE Addressee # None
      <4>1. playerRemoteSystem' = [playerRemoteSystem EXCEPT ![Addressee] = None]
        BY <2>11, <3>3 DEF OnRakNetDisconnect
      <4>2. ASSUME ~late', NEW t \in Announced PROVE RightFor(t)'
        <5>1. CASE t = Addressee
          <6>1. Head(queue).idx \in Indices /\ 1 \in Unread /\ Head(queue) = queue[1]
            BY <3>1, QueueElements DEF Packets
          <6>2. owner[t] = Head(queue).from
            BY <2>3, <3>1, <3>3, <4>2, <5>1, <6>1, OwnPacket DEF TableOK
          <6>3. peer[owner[t]] = "gone"
            BY <3>1, <6>1, <6>2 DEF UnreadOK
          <6> QED BY <3>1, <6>3 DEF RightFor
        <5>2. CASE t # Addressee
          <6>1. playerRemoteSystem'[t] = playerRemoteSystem[t]
            BY <1>0, <4>1, <5>2 DEF TypeOK
          <6> QED BY <1>0, <1>1, <2>1, <2>2, <2>3, <3>1, <4>2, <6>1
        <5> QED BY <5>1, <5>2
      <4> QED BY <3>1, <4>2
    <3> QED BY <3>2, <3>3
  <2>12. CASE EndDisconnect \/ EndKicked
    <3>1. /\ at.op \in {"left", "kicked"} /\ RemovePlayer(at.slot)
          /\ UNCHANGED <<met, playerRemoteSystem>>
      BY <2>12 DEF EndDisconnect, EndKicked, mapVars
    <3>2. ASSUME ~late', NEW t \in Announced' PROVE RightFor(t)'
      <4>1. t \in Slots /\ t \notin kicked' /\ owner'[t] \in met /\ owner'[t] # Nobody
        BY <3>1, <3>2 DEF Announced, Live
      <4>2. t # at.slot
        BY <3>1, <4>1 DEF RemovePlayer, TypeOK
      <4>3. owner'[t] = owner[t] /\ t \notin kicked
        BY <3>1, <4>1, <4>2 DEF RemovePlayer, TypeOK
      <4>4. t \in Announced
        BY <4>1, <4>3 DEF Announced, Live
      <4> QED BY <1>0, <1>1, <2>1, <2>2, <2>3, <3>1, <3>2, <4>3, <4>4
    <3> QED BY <3>2
  <2>13. ASSUME NEW s \in Slots, VisitPlayer(s) PROVE PingsRight'
    <3>1. UNCHANGED <<owner, kicked, met, playerRemoteSystem>> /\ at.op = "pool"
      BY <2>13 DEF VisitPlayer, mapVars, poolVars
    <3> QED BY <2>5, <2>6, <3>1
  <2>14. ASSUME NEW S \in SUBSET Slots, KickAll(S), UNCHANGED <<owner, met, at>> PROVE PingsRight'
    <3>1. /\ kicked' = kicked \union S
          /\ \A t \in Slots \ S : playerRemoteSystem'[t] = playerRemoteSystem[t]
      BY <2>14 DEF KickAll
    <3>2. ASSUME ~late', NEW t \in Announced' PROVE RightFor(t)'
      <4>1. t \in Announced /\ t \in Slots \ S
        BY <2>14, <3>1, <3>2 DEF Announced, Live
      <4> QED BY <1>0, <1>1, <2>1, <2>2, <2>3, <2>14, <3>1, <3>2, <4>1
    <3> QED BY <3>2
  <2>15. ASSUME NEW s \in Slots, Kick(s) PROVE PingsRight'
    BY <2>14, <2>15 DEF Kick, toldVars
  <2>16. ASSUME NEW s \in Slots, Ban(s) PROVE PingsRight'
    <3>1. \E S \in SUBSET Slots : KickAll(S)
      BY <2>16 DEF Ban, Live
    <3> QED BY <2>14, <2>16, <3>1 DEF Ban, toldVars
  <2>17. ASSUME NEW s \in Slots, NEW n \in Nicks, SetName(s, n) PROVE PingsRight'
    BY <2>5, <2>6, <2>17 DEF SetName, mapVars, toldVars
  <2> HIDE DEF PingsRight
  <2> QED BY <1>3, <2>7, <2>8, <2>9, <2>10, <2>11, <2>12, <2>13, <2>15, <2>16, <2>17
          DEF Main, ReceiveLoop, RestOfTick, Scripts
<1> HIDE DEF PingsRight
<1> QED BY <1>2, <1>3 DEF Next, RakNet, Main

LEMMA TableInit == Init => TableOK /\ PingOK
<1> SUFFICES ASSUME Init PROVE TableOK /\ PingOK
  OBVIOUS
<1>1. \A i \in Indices : playerFromRakIndex[i] = None
  BY DEF Init
<1>2. at.op = "receive"
  BY DEF Init, Receive, Position
<1>3. Announced = {}
  BY DEF Init, Announced, Live
<1> QED BY <1>1, <1>2, <1>3 DEF TableOK, EntryOK, PingOK

LEMMA TableStep == JInv /\ [Next]_vars => JInv'
  BY NextOK, TableNext, PingNext DEF JInv

\* With the table, the invariant is inductive too: that an entry stays right
\* needs the order of what is unread, which IInv keeps.
THEOREM TableInvariant == Spec => []JInv
<1>1. Init => JInv
  BY InitOK, TableInit DEF JInv
<1> QED BY <1>1, TableStep, PTL DEF Spec

\* Every index of playerFromRakIndex is null or leads to a player of the pool,
\* as long as RakNet dropped no peer between the receive loop and the removal
\* of the players that were kicked.
THEOREM TableSound == Spec => []IndexSound
<1>1. JInv => IndexSound
  <2> SUFFICES ASSUME JInv, ~late, NEW i \in Indices, playerFromRakIndex[i] # None
               PROVE  /\ playerFromRakIndex[i] \in Live
                      /\ \/ remote[i] = owner[playerFromRakIndex[i]]
                         \/ LeaveQueued(owner[playerFromRakIndex[i]], i)
    BY DEF IndexSound
  <2> QED BY DEF JInv, TableOK, EntryOK, LeavesUnread
<1> QED BY TableInvariant, <1>1, PTL

\* A packet is handled for the player of the peer that sent it, or for nobody.
THEOREM PacketsOwn == Spec => []PacketsReachTheirPlayer
<1>1. JInv => PacketsReachTheirPlayer
  <2> SUFFICES ASSUME JInv, ~late, queue # << >>, Addressee # None
               PROVE  owner[Addressee] = Head(queue).from
    BY DEF PacketsReachTheirPlayer
  <2>1. Head(queue).idx \in Indices
    BY QueueElements DEF JInv, IInv, Packets
  <2> QED BY <2>1, OwnPacket DEF JInv, IInv, TableOK
<1> QED BY TableInvariant, <1>1, PTL

\* Once a player is kicked, nothing its peer sends is handled for it.
THEOREM KickSilences == Spec => []KickedIsSilent
<1>1. JInv => KickedIsSilent
  <2> SUFFICES ASSUME JInv, ~late, NEW s \in kicked, NEW i \in Indices,
                      playerFromRakIndex[i] = s
               PROVE  peer[owner[s]] = "gone"
    BY DEF KickedIsSilent
  <2>1. s # None
    BY NoneApart DEF JInv, IInv, PoolOK, Live
  <2> QED BY <2>1 DEF JInv, TableOK, EntryOK
<1> QED BY TableInvariant, <1>1, PTL

\* getPing asks RakNet for the remote system of the player's own peer.
THEOREM OwnPing == Spec => []PingIsOwn
<1>1. JInv => PingIsOwn
  <2> SUFFICES ASSUME JInv, ~late, NEW s \in Announced,
                      ~IsBot(s), at.op # "connect", peer[owner[s]] = "up"
               PROVE  playerRemoteSystem[s] = IndexOf(owner[s])
    BY DEF PingIsOwn
  <2>1. owner[s] \in Peers
    BY DEF JInv, IInv, TypeOK, Announced, Live
  <2> QED BY <2>1 DEF JInv, PingOK, IndexTable
<1> QED BY TableInvariant, <1>1, PTL

-----------------------------------------------------------------------------
(* PlayerConnection implements PlayerSessions.                              *)

SessionTable == [p \in Peers |-> SessionOf(p)]
NameTable    == [p \in Peers |-> NameOf(p)]
Marked       == {owner[s] : s \in kicked}

\* The session of a player in the pool, and of a peer that has none.
PoolView ==
    /\ \A s \in Live :
         /\ SessionTable[owner[s]] = IF Leaving(s) THEN "leaving"
                                     ELSE IF owner[s] \in met THEN "playing" ELSE "joining"
         /\ NameTable[owner[s]] = nick[s]
    /\ \A p \in Peers : (\A s \in Slots : owner[s] # p) =>
         /\ SessionTable[p] = IF quits[p] = 0 THEN "away" ELSE "gone"
         /\ NameTable[p] = Nobody

LEMMA ViewOf == TypeOK /\ PoolOK => PoolView
<1> SUFFICES ASSUME TypeOK, PoolOK PROVE PoolView
  OBVIOUS
<1>1. ASSUME NEW s \in Live
      PROVE  /\ SessionTable[owner[s]] = IF Leaving(s) THEN "leaving"
                                         ELSE IF owner[s] \in met THEN "playing" ELSE "joining"
             /\ NameTable[owner[s]] = nick[s]
  <2>1. s \in Slots /\ owner[s] \in Peers /\ PlayersOf(owner[s]) # {}
    BY DEF Live, TypeOK, PlayersOf
  <2>2. s = CHOOSE t \in Slots : owner[t] = owner[s]
    BY <2>1, PeersAssumption DEF PoolOK
  <2> QED BY <2>1, <2>2 DEF SessionTable, NameTable, SessionOf, NameOf
<1>2. ASSUME NEW p \in Peers, \A s \in Slots : owner[s] # p
      PROVE  /\ SessionTable[p] = IF quits[p] = 0 THEN "away" ELSE "gone"
             /\ NameTable[p] = Nobody
  <2>1. PlayersOf(p) = {}
    BY <1>2 DEF PlayersOf
  <2> QED BY <2>1 DEF SessionTable, NameTable, SessionOf, NameOf
<1> QED BY <1>1, <1>2 DEF PoolView

LEMMA ViewAfter == (TypeOK /\ PoolOK)' => PoolView'
  BY ViewOf, PTL

\* Whoever is present in the pool has a slot, and the other way round.
LEMMA PresentSlots ==
  ASSUME TypeOK, PoolOK
  PROVE  /\ Sessions!Present = {owner[s] : s \in Live}
         /\ at.op \notin {"left", "kicked"} => Sessions!NobodyLeaves
<1>1. PoolView
  BY ViewOf
<1>2. \A p \in Peers : (\A s \in Slots : owner[s] # p) \/ \E s \in Live : owner[s] = p
  BY PeersAssumption DEF Live
<1>3. \A s \in Live : owner[s] \in Peers
  BY DEF Live, TypeOK
<1>4. Sessions!Present = {p \in Peers : SessionTable[p] \in {"joining", "playing", "leaving"}}
  BY DEF Sessions!Present, SessionTable
<1>5. Sessions!NobodyLeaves <=> \A p \in Peers : SessionTable[p] # "leaving"
  BY DEF Sessions!NobodyLeaves, SessionTable
<1>6. \A p \in Peers : SessionTable[p] \in {"joining", "playing", "leaving"} <=> \E s \in Live : owner[s] = p
  BY <1>1, <1>2 DEF PoolView, Live
<1>7. Sessions!Present = {owner[s] : s \in Live}
  BY <1>3, <1>4, <1>6
<1>8. at.op \notin {"left", "kicked"} => \A p \in Peers : SessionTable[p] # "leaving"
  BY <1>1, <1>2 DEF PoolView, Leaving
<1> QED BY <1>5, <1>7, <1>8

\* A pool with a free slot has room.
LEMMA Room ==
  ASSUME TypeOK, PoolOK, NEW s \in Slots, s \notin Live
  PROVE  Cardinality(Sessions!Present) < MaxPlayers
<1> DEFINE P == {owner[t] : t \in Live}
           f == [p \in P |-> CHOOSE t \in Live : owner[t] = p]
<1>1. /\ IsFiniteSet(Slots) /\ Cardinality(Slots) = MaxPlayers
  BY LimitsAssumption, FS_Interval DEF Slots
<1>2. /\ IsFiniteSet(Slots \ {s}) /\ Cardinality(Slots \ {s}) = MaxPlayers - 1
  BY <1>1, FS_RemoveElement
<1>3. \A p \in P : f[p] \in Live /\ owner[f[p]] = p
  OBVIOUS
<1>4. f \in [P -> Slots \ {s}] /\ \A p, q \in P : f[p] = f[q] => p = q
  BY <1>3 DEF Live
<1>5. f \in Injection(P, Slots \ {s})
  BY <1>4 DEF Injection, IsInjective
<1> HIDE DEF f, P
<1>6. IsFiniteSet(P) /\ Cardinality(P) <= Cardinality(Slots \ {s})
  BY <1>2, <1>5, FS_Injection
<1>7. Cardinality(P) \in Nat /\ Sessions!Present = P
  BY <1>6, FS_CardinalityType, PresentSlots DEF P
<1> QED BY <1>2, <1>6, <1>7, LimitsAssumption

\* The pool starts with every peer away.
LEMMA SessionsInit == Init => Sessions!Init
<1> SUFFICES ASSUME Init PROVE Sessions!Init
  OBVIOUS
<1>1. PoolView
  BY InitOK, ViewOf DEF IInv
<1>2. \A p \in Peers, s \in Slots : owner[s] # p
  BY PeersAssumption DEF Init
<1>3. SessionTable = [p \in Peers |-> "away"] /\ NameTable = [p \in Peers |-> Nobody]
  BY <1>1, <1>2 DEF Init, PoolView, SessionTable, NameTable
<1>4. Marked = {}
  BY DEF Init, Marked
<1> QED BY <1>3, <1>4 DEF Sessions!Init, SessionTable, NameTable, Marked

\* Each kind of step is an action of PlayerSessions, or changes no session.
LEMMA SessionsStep == IInv /\ [Next]_vars => [Sessions!Next]_(Sessions!vars)
<1> SUFFICES ASSUME IInv, [Next]_vars PROVE [Sessions!Next]_(Sessions!vars)
  OBVIOUS
<1> USE DEF IInv
<1>0. PoolView /\ PoolView' /\ IInv'
  BY NextOK, ViewOf, ViewAfter
<1>1. \A s \in Live : s \in Slots /\ owner[s] \in Peers /\ owner[s] # Nobody
  BY PeersAssumption DEF Live, TypeOK
<1>2. \A s \in Slots : s \notin Live => owner[s] = Nobody
  BY DEF Live
<1>3. \A s, t \in Live : owner[s] = owner[t] => s = t
  BY <1>1 DEF PoolOK
<1>4. \A p \in Peers : (\A s \in Slots : owner[s] # p) \/ \E s \in Live : owner[s] = p
  BY PeersAssumption DEF Live
<1>5. \A p \in Peers : (\A s \in Slots : owner'[s] # p) \/ \E s \in Live' : owner'[s] = p
  BY PeersAssumption DEF Live
<1>6. /\ Sessions!Present = {owner[s] : s \in Live}
      /\ at.op \notin {"left", "kicked"} => Sessions!NobodyLeaves
  BY PresentSlots
<1>7. DOMAIN SessionTable = Peers /\ DOMAIN SessionTable' = Peers
      /\ DOMAIN NameTable = Peers /\ DOMAIN NameTable' = Peers
      /\ SessionTable = [p \in Peers |-> SessionTable[p]] /\ SessionTable' = [p \in Peers |-> SessionTable'[p]]
      /\ NameTable = [p \in Peers |-> NameTable[p]] /\ NameTable' = [p \in Peers |-> NameTable'[p]]
  BY DEF SessionTable, NameTable
<1>8. ASSUME NEW s \in Slots, NEW p \in Peers, Enters(s, p) PROVE Sessions!Join(p)
  <2>1. /\ \A t \in Slots : owner[t] # p
        /\ p \notin met /\ quits[p] = 0
    BY <1>8, EntersNew
  <2>2. /\ Live' = Live \union {s}
        /\ \A t \in Slots : /\ owner'[t] = IF t = s THEN p ELSE owner[t]
                            /\ nick'[t] = IF t = s THEN NickOf[p] ELSE nick[t]
    BY <1>8, LiveAfter
  <2>3. /\ s \notin Live /\ at.op = "receive" /\ at'.op \in {"receive", "incoming"}
        /\ \A t \in Live : nick[t] # NickOf[p]
        /\ UNCHANGED <<kicked, met, quits>>
    BY <1>8 DEF Enters
  <2>4. SessionTable[p] = "away"
    BY <1>0, <2>1 DEF PoolView
  <2>5. Sessions!NobodyLeaves /\ Cardinality(Sessions!Present) < MaxPlayers
    BY <1>6, <2>3, Room
  <2>6. \A q \in Sessions!Present : NameTable[q] # NickOf[p]
    BY <1>0, <1>6, <2>3 DEF PoolView
  <2>7. \A q \in Peers : /\ SessionTable'[q] = IF q = p THEN "joining" ELSE SessionTable[q]
                         /\ NameTable'[q] = IF q = p THEN NickOf[p] ELSE NameTable[q]
    <3>1. s \in Live' /\ owner'[s] = p /\ nick'[s] = NickOf[p] /\ ~Leaving(s)'
      BY <2>2, <2>3 DEF Leaving
    <3>2. SessionTable'[p] = "joining" /\ NameTable'[p] = NickOf[p]
      BY <1>0, <2>1, <2>3, <3>1 DEF PoolView
    <3>3. ASSUME NEW t \in Live
          PROVE  SessionTable'[owner[t]] = SessionTable[owner[t]] /\ NameTable'[owner[t]] = NameTable[owner[t]]
      <4>1. t \in Live' /\ owner'[t] = owner[t] /\ nick'[t] = nick[t] /\ ~Leaving(t) /\ ~Leaving(t)'
        BY <1>1, <2>2, <2>3 DEF Leaving
      <4> QED BY <1>0, <2>3, <4>1 DEF PoolView
    <3>4. ASSUME NEW q \in Peers, q # p, \A t \in Slots : owner[t] # q
          PROVE  SessionTable'[q] = SessionTable[q] /\ NameTable'[q] = NameTable[q]
      BY <1>0, <2>2, <2>3, <3>4 DEF PoolView
    <3> QED BY <1>4, <2>1, <3>2, <3>3, <3>4
  <2>8. SessionTable' = [SessionTable EXCEPT ![p] = "joining"] /\ NameTable' = [NameTable EXCEPT ![p] = NickOf[p]]
    BY <1>7, <2>7
  <2>9. Marked' = Marked
    <3>1. kicked' = kicked /\ \A t \in kicked : owner'[t] = owner[t]
      BY <2>2, <2>3 DEF PoolOK, Live
    <3> QED BY <3>1 DEF Marked
  <2>10. Sessions!Cardinality(Sessions!Present) = Cardinality(Sessions!Present)
    BY DEF Sessions!Cardinality, Cardinality
  <2> QED BY <2>4, <2>5, <2>6, <2>8, <2>9, <2>10 DEF Sessions!Join, SessionTable, NameTable, Marked
<1>9. ASSUME NEW s \in Slots, Announces(s) 
       PROVE  \E p \in Peers : Sessions!Announce(p)
  <2>1. /\ s \in Live /\ s \notin kicked /\ at.op = "incoming" /\ at'.op = "connect"
        /\ met' = met \union {owner[s]} /\ UNCHANGED <<owner, nick, kicked, quits>> /\ Live' = Live
    BY <1>9, LiveAfter DEF Announces, poolVars
  <2>2. owner[s] \notin met /\ \A t \in Live : ~Leaving(t) /\ ~Leaving(t)'
    BY <1>9, <2>1 DEF Announces, PoolOK, Leaving
  <2>3. SessionTable[owner[s]] = "joining" /\ SessionTable'[owner[s]] = "playing"
    BY <1>0, <2>1, <2>2 DEF PoolView
  <2>4. \A t \in Live : /\ NameTable'[owner[t]] = NameTable[owner[t]]
                        /\ t # s => SessionTable'[owner[t]] = SessionTable[owner[t]]
    BY <1>0, <1>3, <2>1, <2>2 DEF PoolView
  <2>5. ASSUME NEW q \in Peers, \A t \in Slots : owner[t] # q
        PROVE  SessionTable'[q] = SessionTable[q] /\ NameTable'[q] = NameTable[q]
    BY <1>0, <2>1, <2>5 DEF PoolView
  <2>6. SessionTable' = [SessionTable EXCEPT ![owner[s]] = "playing"] /\ NameTable' = NameTable
    BY <1>3, <1>4, <1>7, <2>1, <2>3, <2>4, <2>5
  <2>7. Marked' = Marked /\ owner[s] \notin Marked
    BY <1>3, <2>1 DEF Marked, PoolOK
  <2> QED BY <1>1, <1>6, <2>1, <2>3, <2>6, <2>7 DEF Sessions!Announce, SessionTable, NameTable, Marked
<1>10. ASSUME NEW s \in Slots, Departing(s) 
       PROVE  \E p \in Peers : Sessions!BeginLeave(p)
  <2>1. /\ s \in Live /\ at.op \in {"receive", "pool"}
        /\ at'.op \in {"left", "kicked"} /\ at'.slot = s
        /\ quits' = [quits EXCEPT ![owner[s]] = quits[owner[s]] + 1]
        /\ UNCHANGED <<owner, nick, kicked, met>> /\ Live' = Live
    BY <1>10, LiveAfter DEF Departing, poolVars
  <2>2. \A t \in Live : ~Leaving(t) /\ (Leaving(t)' <=> t = s)
    BY <2>1 DEF Leaving
  <2>3. SessionTable[owner[s]] \in {"joining", "playing"} /\ SessionTable'[owner[s]] = "leaving"
    BY <1>0, <2>1, <2>2 DEF PoolView
  <2>4. \A t \in Live : /\ NameTable'[owner[t]] = NameTable[owner[t]]
                        /\ t # s => SessionTable'[owner[t]] = SessionTable[owner[t]]
    BY <1>0, <2>1, <2>2 DEF PoolView
  <2>5. ASSUME NEW q \in Peers, \A t \in Slots : owner[t] # q
        PROVE  SessionTable'[q] = SessionTable[q] /\ NameTable'[q] = NameTable[q]
    <3>1. quits'[q] = quits[q]
      BY <1>1, <2>1, <2>5 DEF TypeOK
    <3> QED BY <1>0, <2>1, <2>5, <3>1 DEF PoolView
  <2>6. SessionTable' = [SessionTable EXCEPT ![owner[s]] = "leaving"] /\ NameTable' = NameTable
    BY <1>3, <1>4, <1>7, <2>1, <2>3, <2>4, <2>5
  <2>7. Marked' = Marked
    BY <2>1 DEF Marked
  <2> QED BY <1>1, <1>6, <2>1, <2>3, <2>6, <2>7 DEF Sessions!BeginLeave, SessionTable, NameTable, Marked
<1>11. ASSUME NEW s \in Slots, Departs(s) 
       PROVE  \E p \in Peers : Sessions!EndLeave(p)
  <2>1. /\ Live' = Live \ {s}
        /\ \A t \in Slots : owner'[t] = IF t = s THEN Nobody ELSE owner[t]
    BY <1>11, LiveAfter
  <2>2. /\ at.op \in {"left", "kicked"} /\ at.slot = s /\ at'.op \in {"receive", "pool"}
        /\ s \in Live /\ kicked' = kicked \ {s} /\ UNCHANGED <<nick, met, quits>>
    BY <1>11 DEF Departs, RemovePlayer, PoolOK
  <2>3. quits[owner[s]] = 1 /\ Leaving(s)
    BY <2>2 DEF PoolOK, Leaving
  <2>4. \A t \in Live \ {s} : ~Leaving(t) /\ ~Leaving(t)'
    BY <2>2 DEF Leaving
  <2>5. \A t \in Slots : owner'[t] # owner[s]
    BY <1>1, <1>2, <1>3, <2>1, <2>2
  <2>6. SessionTable[owner[s]] = "leaving"
    BY <1>0, <2>2, <2>3 DEF PoolView
  <2>7. SessionTable'[owner[s]] = "gone" /\ NameTable'[owner[s]] = Nobody
    BY <1>0, <1>1, <2>2, <2>3, <2>5 DEF PoolView
  <2>8. ASSUME NEW t \in Live \ {s}
        PROVE  SessionTable'[owner[t]] = SessionTable[owner[t]] /\ NameTable'[owner[t]] = NameTable[owner[t]]
    <3>1. t \in Live' /\ owner'[t] = owner[t]
      BY <1>1, <2>1
    <3> QED BY <1>0, <2>2, <2>4, <3>1 DEF PoolView
  <2>9. ASSUME NEW q \in Peers, \A t \in Slots : owner[t] # q
        PROVE  SessionTable'[q] = SessionTable[q] /\ NameTable'[q] = NameTable[q]
    <3>1. \A t \in Slots : owner'[t] # q
      BY <2>1, <2>9, PeersAssumption
    <3> QED BY <1>0, <2>2, <2>9, <3>1 DEF PoolView
  <2>10. /\ SessionTable' = [SessionTable EXCEPT ![owner[s]] = "gone"]
         /\ NameTable' = [NameTable EXCEPT ![owner[s]] = Nobody]
    BY <1>1, <1>3, <1>4, <1>7, <2>2, <2>7, <2>8, <2>9
  <2>11. Marked' = Marked \ {owner[s]}
    <3>1. \A t \in kicked : t \in Live /\ (t # s => owner'[t] = owner[t] /\ owner[t] # owner[s])
      BY <1>1, <1>3, <2>1, <2>2 DEF PoolOK
    <3> QED BY <2>2, <3>1 DEF Marked
  <2> QED BY <1>1, <2>2, <2>6, <2>10, <2>11 DEF Sessions!EndLeave, SessionTable, NameTable, Marked
<1>12. ASSUME NEW S \in SUBSET Slots, Marks(S)
       PROVE  \E T \in SUBSET Sessions!Present : Sessions!Mark(T)
  <2>1. /\ S \subseteq Live /\ kicked' = kicked \union S /\ Live' = Live
        /\ UNCHANGED <<owner, nick, met, quits, at>>
    BY <1>12, LiveAfter DEF Marks
  <2>2. Marked' = Marked \union {owner[s] : s \in S}
    BY <2>1 DEF Marked
  <2>3. SessionTable' = SessionTable /\ NameTable' = NameTable
    BY <2>1 DEF SessionTable, NameTable, SessionOf, NameOf, PlayersOf, Leaving
  <2>4. {owner[s] : s \in S} \subseteq Sessions!Present
    BY <1>6, <2>1
  <2> QED BY <2>2, <2>3, <2>4 DEF Sessions!Mark, SessionTable, NameTable, Marked
<1>13. ASSUME NEW s \in Slots, NEW n \in Nicks, Renames(s, n)
       PROVE  \E p \in Peers : Sessions!Rename(p, n)
  <2>1. /\ s \in Live /\ \A t \in Live \ {s} : nick[t] # n
        /\ Live' = Live /\ \A t \in Slots : nick'[t] = IF t = s THEN n ELSE nick[t]
        /\ UNCHANGED <<owner, kicked, met, quits, at>>
    <3>1. /\ s \in Live /\ \A t \in Live \ {s} : nick[t] # n
          /\ UNCHANGED <<owner, kicked, met, quits, at>>
      BY ONLY <1>13 DEF Renames
    <3>2. TypeOK
      OBVIOUS
    <3>3. Live' = Live /\ \A t \in Slots : nick'[t] = IF t = s THEN n ELSE nick[t]
      BY ONLY <1>13, <3>2, LiveAfter
    <3> QED BY ONLY <3>1, <3>3
  <2>2. owner[s] \in Sessions!Present /\ \A q \in Sessions!Present \ {owner[s]} : NameTable[q] # n
    BY <1>0, <1>6, <2>1 DEF PoolView
  <2>3. SessionTable' = SessionTable /\ Marked' = Marked
    BY <2>1 DEF SessionTable, SessionOf, PlayersOf, Leaving, Marked
  <2>4. \A t \in Live : NameTable'[owner[t]] = IF t = s THEN n ELSE NameTable[owner[t]]
    BY <1>0, <1>1, <2>1 DEF PoolView
  <2>5. ASSUME NEW q \in Peers, \A t \in Slots : owner[t] # q PROVE NameTable'[q] = NameTable[q]
    BY <1>0, <2>1, <2>5 DEF PoolView
  <2>6. NameTable' = [NameTable EXCEPT ![owner[s]] = n]
    BY <1>3, <1>4, <1>7, <2>1, <2>4, <2>5
  <2> QED BY <1>1, <2>1, <2>2, <2>3, <2>6 DEF Sessions!Rename, SessionTable, NameTable, Marked
<1>14. CASE Aside
  <2>1. /\ UNCHANGED <<owner, nick, kicked, met, quits>> /\ Live' = Live
        /\ \A t \in Slots : Leaving(t)' <=> Leaving(t)
    BY <1>14, LiveAfter DEF Aside, poolVars, Leaving
  <2>2. \A t \in Live : /\ SessionTable'[owner[t]] = SessionTable[owner[t]]
                        /\ NameTable'[owner[t]] = NameTable[owner[t]]
    BY <1>0, <1>1, <2>1 DEF PoolView
  <2>3. ASSUME NEW q \in Peers, \A t \in Slots : owner[t] # q
        PROVE  SessionTable'[q] = SessionTable[q] /\ NameTable'[q] = NameTable[q]
    BY <1>0, <2>1, <2>3 DEF PoolView
  <2>4. SessionTable' = SessionTable /\ NameTable' = NameTable /\ Marked' = Marked
    BY <1>4, <1>7, <2>1, <2>2, <2>3 DEF Marked
  <2> QED BY <2>4 DEF Sessions!vars, SessionTable, NameTable, Marked
<1> QED BY <1>8, <1>9, <1>10, <1>11, <1>12, <1>13, <1>14, StepCases
        DEF Sessions!Next

\* Scripts see sessions as PlayerSessions has them: whatever RakNet, its index
\* table and its queue do, each step is one of a session or none.
THEOREM Implementation == Spec => ImplementsSessions
  BY Invariant, SessionsInit, SessionsStep, PTL DEF Spec, Sessions!Spec, ImplementsSessions
=============================================================================
