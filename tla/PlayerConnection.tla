-------------------------- MODULE PlayerConnection --------------------------
(***************************************************************************)
(* The life of a player's connection, from the PlayerConnect RPC to the    *)
(* removal of the player from the pool: RakNetLegacyNetwork                *)
(* (src/Server/Components/LegacyNetwork) composed with PlayerPool          *)
(* (src/Server/Source/player_pool.hpp), which meet through the network's   *)
(* table playerFromRakIndex of pointers into the pool.                     *)
(*                                                                         *)
(* RakNet runs in a thread of its own: it admits and drops peers and       *)
(* queues what they send.  Everything else runs on the main thread, whose  *)
(* position in the tick, down to the script callback being dispatched, is  *)
(* the variable at.  A pointer to a player is the number of its pool slot, *)
(* so a pointer may outlive the player it was taken for.                   *)
(***************************************************************************)
EXTENDS Integers, Sequences, FiniteSets

CONSTANTS
    Peers,      \* remote systems; each connects at most once
    Bots,       \* the peers RakNet authenticated as NPC clients
    NickOf,     \* the name a peer asks for in its connect RPC
    Nicks,      \* names scripts may give a player
    AddrOf,     \* the IP address of a peer
    LocalAddr,  \* 127.0.0.1, which ban() never adds to the ban list
    MaxIndices, \* RakNet's connection limit
    MaxPlayers, \* config max_players
    MaxBots,    \* config max_bots
    MaxData,    \* bound: other packets and RPCs unread in the queue
    Nobody      \* no peer

Indices == 0 .. MaxIndices - 1
Slots   == 0 .. MaxPlayers - 1
None    == -1   \* a null pointer into Slots or Indices
Addrs   == {AddrOf[p] : p \in Peers}

ASSUME PeersAssumption ==
    /\ Nobody \notin Peers
    /\ Bots \subseteq Peers
    /\ NickOf \in [Peers -> Nicks]
    /\ DOMAIN AddrOf = Peers
    /\ Nicks # {}

ASSUME LimitsAssumption ==
    /\ MaxIndices \in Nat \ {0}
    /\ MaxPlayers \in Nat \ {0}
    /\ MaxBots \in Nat
    /\ MaxData \in Nat

VARIABLES
    peer,     \* RakNet: what it knows of each peer
    remote,   \* RakNet: the active remote system at each index
    banned,   \* RakNet: its ban list
    queue,    \* RakNet: packets and RPCs the main thread has not read
    playerFromRakIndex,
    playerRemoteSystem,
    owner,    \* pool storage: the peer whose player lives in each slot
    nick,     \* Player::name_
    kicked,   \* the slots whose player has kicked_ set
    known,    \* each client's player list, from PlayerJoin and PlayerQuit
    met,      \* the peers for which onPlayerConnect was dispatched
    quits,    \* how often onPlayerDisconnect was dispatched for each peer
    late,     \* whether RakNet dropped a peer outside the receive loop
    at        \* where the main thread is

netVars  == <<peer, remote, banned, queue>>
mapVars  == <<playerFromRakIndex, playerRemoteSystem>>
poolVars == <<owner, nick, kicked>>
toldVars == <<known, met, quits, late>>
vars     == <<netVars, mapVars, poolVars, toldVars, at>>

Live   == {s \in Slots : owner[s] # Nobody}
IsBot(s)    == owner[s] \in Bots
PlayersOf(p) == {s \in Slots : owner[s] = p}

\* GetIndexFromPlayerID: the index of an active peer, None once it is gone.
IndexOf(p) == IF \E i \in Indices : remote[i] = p
                THEN CHOOSE i \in Indices : remote[i] = p
                ELSE None

Packet(kind, i, p) == [kind |-> kind, idx |-> i, from |-> p]
Packets == [kind : {"connect", "packet", "rpc", "leave"},
            idx : Indices, from : Peers]

\* Where the main thread can be: reading packets; in the callbacks of a
\* packet, of onIncomingConnection, onPlayerConnect or onPlayerDisconnect
\* (left: for a peer that left, kicked: in the pool's onTick) for a slot; in
\* the other components' onTick; in the pool's onTick.  idx is the index of
\* the packet being handled, todo the slots the pool's onTick has not visited.
Position(op, s, i, todo) == [op |-> op, slot |-> s, idx |-> i, todo |-> todo]
Receive        == Position("receive", None, None, {})
Ticks          == Position("ticks", None, None, {})
PoolTick(todo) == Position("pool", None, None, todo)
Positions == [op   : {"receive", "packet", "incoming", "connect",
                      "left", "kicked", "ticks", "pool"},
              slot : Slots \union {None},
              idx  : Indices \union {None},
              todo : SUBSET Slots]

Init ==
    /\ peer = [p \in Peers |-> "away"]
    /\ remote = [i \in Indices |-> Nobody]
    /\ banned = {}
    /\ queue = << >>
    /\ playerFromRakIndex = [i \in Indices |-> None]
    /\ playerRemoteSystem = [s \in Slots |-> None]
    /\ owner = [s \in Slots |-> Nobody]
    /\ nick = [s \in Slots |-> CHOOSE n \in Nicks : TRUE]
    /\ kicked = {}
    /\ known = [p \in Peers |-> {}]
    /\ met = {}
    /\ quits = [p \in Peers |-> 0]
    /\ late = FALSE
    /\ at = Receive

-----------------------------------------------------------------------------
(* RakNet, in its own thread.  Not part of this repository: modelled from   *)
(* the calls LegacyNetwork makes and the packets it handles.                *)

\* A peer that is not banned connects, at a free index, and sends its one
\* PlayerConnect (or NPCConnect) RPC.
PeerArrives(p) ==
    /\ peer[p] = "away"
    /\ AddrOf[p] \notin banned
    /\ \E i \in Indices :
         /\ remote[i] = Nobody
         /\ \A j \in 0 .. i - 1 : remote[j] # Nobody
         /\ remote' = [remote EXCEPT ![i] = p]
         /\ queue' = Append(queue, Packet("connect", i, p))
    /\ peer' = [peer EXCEPT ![p] = "up"]
    /\ UNCHANGED <<banned, mapVars, poolVars, toldVars, at>>

PeerSends(p) ==
    /\ peer[p] = "up"
    /\ Cardinality({k \in DOMAIN queue :
                      queue[k].kind \in {"packet", "rpc"}}) < MaxData
    /\ \E kind \in {"packet", "rpc"} :
         queue' = Append(queue, Packet(kind, IndexOf(p), p))
    /\ UNCHANGED <<peer, remote, banned, mapVars, poolVars, toldVars, at>>

\* The peer leaves or times out: RakNet frees its index at once and queues
\* ID_DISCONNECTION_NOTIFICATION or ID_CONNECTION_LOST for the main thread.
PeerDrops(p) ==
    /\ peer[p] = "up"
    /\ queue' = Append(queue, Packet("leave", IndexOf(p), p))
    /\ remote' = [remote EXCEPT ![IndexOf(p)] = Nobody]
    /\ peer' = [peer EXCEPT ![p] = "gone"]
    /\ late' = (late \/ at.op \in {"ticks", "pool", "kicked"})
    /\ UNCHANGED <<banned, mapVars, poolVars, known, met, quits, at>>

\* The end of a connection the server closed with Kick: nothing is queued.
PeerCloses(p) ==
    /\ peer[p] = "closing"
    /\ remote' = [remote EXCEPT ![IndexOf(p)] = Nobody]
    /\ peer' = [peer EXCEPT ![p] = "gone"]
    /\ UNCHANGED <<banned, queue, mapVars, poolVars, toldVars, at>>

\* rakNetServer.Kick(rid) of each peer of ps.
Closing(ps) == [p \in Peers |-> IF p \in ps /\ peer[p] = "up"
                                  THEN "closing" ELSE peer[p]]

-----------------------------------------------------------------------------
(* RakNetLegacyNetwork::onTick: the receive loop                            *)

Reading(kind) == at = Receive /\ queue # << >> /\ Head(queue).kind = kind

\* A name check that overlooks the players about to be removed.
NameInPlay(n, skip) == \E s \in Live \ (kicked \union {skip}) : nick[s] = n

\* PlayerPool::requestPlayer: the result for peer p is a slot, or None.
NameTaken(n, skip) == \E s \in Live \ {skip} : nick[s] = n

Lowest(S)  == CHOOSE s \in S : \A t \in S : s <= t
Highest(S) == CHOOSE s \in S : \A t \in S : t <= s

RequestPlayer(p) ==
    LET free == Slots \ Live
    IN  IF \/ free = {}
           \/ p \in Bots /\ Cardinality({s \in Live : IsBot(s)}) >= MaxBots
           \/ NameTaken(NickOf[p], None)
        THEN None
        ELSE IF p \in Bots THEN Highest(free) ELSE Lowest(free)

\* RakNetLegacyNetwork::OnPeerConnect accepts the peer: its index is unused
\* and the pool has a player for it.
Accepted(pkt) ==
    /\ playerFromRakIndex[pkt.idx] = None
    /\ RequestPlayer(pkt.from) # None

\* OnPlayerConnect / OnNPCConnect return early: the peer is gone or closing,
\* or it is refused.  A refused player is kicked, a refused NPC is not.  This
\* stands for every refusal: of a version, a serial, a key or a name that the
\* server does not accept too, whichever comes first.
RefuseConnect ==
    /\ Reading("connect")
    /\ LET pkt == Head(queue)
       IN  /\ peer[pkt.from] = "up" => ~Accepted(pkt)
           /\ peer' = Closing({pkt.from} \ Bots)
    /\ queue' = Tail(queue)
    /\ UNCHANGED <<remote, banned, mapVars, poolVars, toldVars, at>>

\* The player enters the pool and the index table.  A veto of the RPC by one
\* of the inEventDispatcher's handlers ends the connect there (a kick by that
\* handler is one by the next callback here); otherwise onPeerConnect
\* dispatches onIncomingConnection.
OnPlayerConnect ==
    /\ Reading("connect")
    /\ LET pkt == Head(queue)
           p   == pkt.from
           s   == RequestPlayer(p)
       IN  /\ peer[p] = "up"
           /\ Accepted(pkt)
           /\ playerFromRakIndex' = [playerFromRakIndex EXCEPT ![pkt.idx] = s]
           /\ owner' = [owner EXCEPT ![s] = p]
           /\ nick' = [nick EXCEPT ![s] = NickOf[p]]
           /\ \E vetoed \in BOOLEAN :
                at' = IF vetoed THEN Receive
                      ELSE Position("incoming", s, pkt.idx, {})
    /\ queue' = Tail(queue)
    /\ UNCHANGED <<peer, remote, banned, playerRemoteSystem, kicked, toldVars>>

\* A connect that does not record the remote system.
Returned(s) ==
    /\ at' = Receive
    /\ UNCHANGED playerRemoteSystem

\* Back in OnPlayerConnect once onPeerConnect returns: the remote system is
\* recorded for a player, whatever the callbacks did to it meanwhile.
Connected(s) ==
    /\ playerRemoteSystem' = IF IsBot(s) THEN playerRemoteSystem
                             ELSE [playerRemoteSystem EXCEPT ![s] = at.idx]
    /\ at' = Receive

\* An announcement that overlooks that a callback kicked the player.
AnnounceKicked ==
    /\ at.op = "incoming"
    /\ LET s == at.slot
           p == owner[s]
       IN  /\ known' = [q \in Peers |->
                  IF q = p THEN known[q] \union (Live \ {s})
                  ELSE IF PlayersOf(q) # {} THEN known[q] \union {s}
                  ELSE known[q]]
           /\ met' = met \union {p}
           /\ at' = [at EXCEPT !.op = "connect"]
    /\ UNCHANGED <<quits, late, playerRemoteSystem>>
    /\ UNCHANGED <<netVars, playerFromRakIndex, poolVars>>

\* PlayerPool::onPeerConnect after onIncomingConnection: a player kicked by it
\* is not announced; any other is announced to everyone in the pool, told of
\* everyone in the pool, and onPlayerConnect is dispatched.
Announce ==
    /\ at.op = "incoming"
    /\ LET s == at.slot
           p == owner[s]
       IN  IF s \in kicked
           THEN /\ Connected(s)
                /\ UNCHANGED toldVars
           ELSE /\ known' = [q \in Peers |->
                      IF q = p THEN known[q] \union (Live \ {s})
                      ELSE IF PlayersOf(q) # {} THEN known[q] \union {s}
                      ELSE known[q]]
                /\ met' = met \union {p}
                /\ at' = [at EXCEPT !.op = "connect"]
                /\ UNCHANGED <<quits, late, playerRemoteSystem>>
    /\ UNCHANGED <<netVars, playerFromRakIndex, poolVars>>

EndConnect ==
    /\ at.op = "connect"
    /\ Connected(at.slot)
    /\ UNCHANGED <<netVars, playerFromRakIndex, poolVars, toldVars>>

\* The pointer the index table holds for the packet, and the test on it that
\* onTick makes first: a slot the pool has freed reads back the id -1.
Addressee    == playerFromRakIndex[Head(queue).idx]
AddresseeFreed == Addressee # None /\ Addressee \notin Live

\* A packet for a freed player: its sender is kicked and the index cleared.
DropFreedPlayer ==
    /\ at = Receive
    /\ queue # << >>
    /\ Head(queue).kind \in {"packet", "leave"}
    /\ AddresseeFreed
    /\ peer' = Closing({Head(queue).from})
    /\ playerFromRakIndex' =
         [playerFromRakIndex EXCEPT ![Head(queue).idx] = None]
    /\ queue' = Tail(queue)
    /\ UNCHANGED <<remote, banned, playerRemoteSystem, poolVars, toldVars, at>>

\* A packet or RPC for nobody is dropped; one for a player runs its handlers.
\* Only onTick makes the test above: RPCHook uses the pointer as it is.
Handle ==
    /\ at' = IF Addressee = None THEN Receive
             ELSE Position("packet", Addressee, Head(queue).idx, {})
    /\ queue' = Tail(queue)

HandlePacket ==
    /\ Reading("packet")
    /\ ~AddresseeFreed
    /\ Handle
    /\ UNCHANGED <<peer, remote, banned, mapVars, poolVars, toldVars>>

RPCHook ==
    /\ Reading("rpc")
    /\ Handle
    /\ UNCHANGED <<peer, remote, banned, mapVars, poolVars, toldVars>>

EndPacket ==
    /\ at.op = "packet"
    /\ at' = Receive
    /\ UNCHANGED <<netVars, mapVars, poolVars, toldVars>>

\* A dispatch only for the players that were announced.
ClearAnnounced(s, pos) ==
    /\ quits' = IF owner[s] \in met THEN [quits EXCEPT ![owner[s]] = @ + 1]
                ELSE quits
    /\ at' = pos

\* PlayerPool::clearPlayer up to the return of its dispatch: the callbacks of
\* onPlayerDisconnect run with the player still in the pool.
ClearPlayer(s, pos) ==
    /\ quits' = [quits EXCEPT ![owner[s]] = @ + 1]
    /\ at' = pos

\* A disconnect that leaves the index table as it is.
DisconnectKeepIndex ==
    /\ Reading("leave")
    /\ ~AddresseeFreed
    /\ IF Addressee = None
       THEN UNCHANGED <<playerRemoteSystem, quits, at>>
       ELSE /\ playerRemoteSystem' =
                 [playerRemoteSystem EXCEPT ![Addressee] = None]
            /\ ClearPlayer(Addressee,
                           Position("left", Addressee, Head(queue).idx, {}))
    /\ queue' = Tail(queue)
    /\ UNCHANGED <<peer, remote, banned, playerFromRakIndex, poolVars, known,
                   met, late>>

\* A disconnect that is ignored for players that were never announced.
DisconnectAnnounced ==
    /\ Reading("leave")
    /\ ~AddresseeFreed
    /\ LET i == Head(queue).idx
       IN  IF Addressee = None \/ Head(queue).from \notin met
           THEN UNCHANGED <<mapVars, quits, at>>
           ELSE /\ playerFromRakIndex' = [playerFromRakIndex EXCEPT ![i] = None]
                /\ playerRemoteSystem' =
                     [playerRemoteSystem EXCEPT ![Addressee] = None]
                /\ ClearPlayer(Addressee, Position("left", Addressee, i, {}))
    /\ queue' = Tail(queue)
    /\ UNCHANGED <<peer, remote, banned, poolVars, known, met, late>>

OnRakNetDisconnect ==
    /\ Reading("leave")
    /\ ~AddresseeFreed
    /\ LET i == Head(queue).idx
       IN  IF Addressee = None
           THEN UNCHANGED <<mapVars, quits, at>>
           ELSE /\ playerFromRakIndex' = [playerFromRakIndex EXCEPT ![i] = None]
                /\ playerRemoteSystem' =
                     [playerRemoteSystem EXCEPT ![Addressee] = None]
                /\ ClearPlayer(Addressee, Position("left", Addressee, i, {}))
    /\ queue' = Tail(queue)
    /\ UNCHANGED <<peer, remote, banned, poolVars, known, met, late>>

\* Removals that leave the player in the storage, or unannounced.
RemoveNothing(s) ==
    /\ known' = [q \in Peers |-> known[q] \ {s}]
    /\ UNCHANGED <<owner, kicked>>
RemoveQuietly(s) ==
    /\ owner' = [owner EXCEPT ![s] = Nobody]
    /\ kicked' = kicked \ {s}
    /\ UNCHANGED known

\* The rest of clearPlayer, the PlayerQuit broadcast, and storage.remove.
RemovePlayer(s) ==
    /\ known' = [q \in Peers |-> known[q] \ {s}]
    /\ owner' = [owner EXCEPT ![s] = Nobody]
    /\ kicked' = kicked \ {s}

EndDisconnect ==
    /\ at.op = "left"
    /\ RemovePlayer(at.slot)
    /\ at' = Receive
    /\ UNCHANGED <<netVars, mapVars, nick, met, quits, late>>

ReceiveDone ==
    /\ at = Receive
    /\ queue = << >>
    /\ at' = Ticks
    /\ UNCHANGED <<netVars, mapVars, poolVars, toldVars>>

-----------------------------------------------------------------------------
(* The rest of the tick: other components, then PlayerPool::onTick, which   *)
(* removes the players that were kicked.                                    *)

BeginPoolTick ==
    /\ at = Ticks
    /\ at' = PoolTick(Live)
    /\ UNCHANGED <<netVars, mapVars, poolVars, toldVars>>

\* A visit that removes nobody.
PassPlayer(s) ==
    /\ at.op = "pool"
    /\ s \in at.todo
    /\ at' = PoolTick(at.todo \ {s})
    /\ UNCHANGED <<netVars, mapVars, poolVars, toldVars>>

VisitPlayer(s) ==
    /\ at.op = "pool"
    /\ s \in at.todo
    /\ LET rest == at.todo \ {s}
       IN  IF s \in kicked
           THEN ClearPlayer(s, Position("kicked", s, None, rest))
           ELSE /\ at' = PoolTick(rest)
                /\ UNCHANGED quits
    /\ UNCHANGED <<netVars, mapVars, poolVars, known, met, late>>

EndKicked ==
    /\ at.op = "kicked"
    /\ RemovePlayer(at.slot)
    /\ at' = PoolTick(at.todo)
    /\ UNCHANGED <<netVars, mapVars, nick, met, quits, late>>

EndTick ==
    /\ at = PoolTick({})
    /\ at' = Receive
    /\ UNCHANGED <<netVars, mapVars, poolVars, toldVars>>

-----------------------------------------------------------------------------
(* What scripts and components do from a callback or from their onTick.     *)

InCallback == at.op \notin {"receive", "pool"}

\* A kick without disconnect(): the peer keeps its index.
FlagAll(S) ==
    /\ kicked' = kicked \union S
    /\ UNCHANGED <<mapVars, peer>>

\* Player::kick of each player of S: kicked_ is set, and disconnect() clears
\* the index RakNet still knows for the peer before kicking it.
KickAll(S) ==
    LET ps == {owner[s] : s \in S}
    IN  /\ kicked' = kicked \union S
        /\ playerFromRakIndex' = [i \in Indices |->
              IF remote[i] \in ps THEN None ELSE playerFromRakIndex[i]]
        /\ playerRemoteSystem' = [s \in Slots |->
              IF s \in S THEN None ELSE playerRemoteSystem[s]]
        /\ peer' = Closing(ps)

Kick(s) ==
    /\ InCallback
    /\ s \in Live \ kicked
    /\ KickAll({s})
    /\ UNCHANGED <<remote, banned, queue, owner, nick, toldVars, at>>

\* Player::ban: the address is banned, synchronizeBans kicks every player
\* whose address is now on the list, and the player itself is kicked.
Ban(s) ==
    /\ InCallback
    /\ s \in Live \ kicked
    /\ banned' = banned \union ({AddrOf[owner[s]]} \ {LocalAddr})
    /\ KickAll({s} \union
               IF AddrOf[owner[s]] = LocalAddr THEN {}
               ELSE {t \in Live : AddrOf[owner[t]] \in banned'})
    /\ UNCHANGED <<remote, queue, owner, nick, toldVars, at>>

SetName(s, n) ==
    /\ InCallback
    /\ s \in Live
    /\ nick[s] # n
    /\ ~NameTaken(n, s)
    /\ nick' = [nick EXCEPT ![s] = n]
    /\ UNCHANGED <<netVars, mapVars, owner, kicked, toldVars, at>>

-----------------------------------------------------------------------------
RakNet == \E p \in Peers :
    PeerArrives(p) \/ PeerSends(p) \/ PeerDrops(p) \/ PeerCloses(p)

ReceiveLoop ==
    \/ RefuseConnect \/ OnPlayerConnect \/ Announce \/ EndConnect
    \/ DropFreedPlayer \/ HandlePacket \/ RPCHook \/ EndPacket
    \/ OnRakNetDisconnect \/ EndDisconnect \/ ReceiveDone

RestOfTick ==
    \/ BeginPoolTick \/ EndKicked \/ EndTick
    \/ \E s \in Slots : VisitPlayer(s)

Scripts == \E s \in Slots :
    \/ Kick(s)
    \/ Ban(s)
    \/ \E n \in Nicks : SetName(s, n)

Next == RakNet \/ ReceiveLoop \/ RestOfTick \/ Scripts

Spec == Init /\ [][Next]_vars

\* The main thread never stops: run() ticks until the server is stopped, and
\* a callback returns.
FairSpec == Spec /\ WF_vars(ReceiveLoop \/ RestOfTick)

-----------------------------------------------------------------------------
(* Properties                                                               *)

TypeOK ==
    /\ peer \in [Peers -> {"away", "up", "closing", "gone"}]
    /\ remote \in [Indices -> Peers \union {Nobody}]
    /\ banned \subseteq Addrs
    /\ queue \in Seq(Packets)
    /\ playerFromRakIndex \in [Indices -> Slots \union {None}]
    /\ playerRemoteSystem \in [Slots -> Indices \union {None}]
    /\ owner \in [Slots -> Peers \union {Nobody}]
    /\ nick \in [Slots -> Nicks]
    /\ kicked \subseteq Slots
    /\ known \in [Peers -> SUBSET Slots]
    /\ met \subseteq Peers
    /\ quits \in [Peers -> 0 .. 1]
    /\ late \in BOOLEAN
    /\ at \in Positions

\* The slots whose player was announced and not kicked since.
Announced == {s \in Live \ kicked : owner[s] \in met}

\* What onPeerConnect and clearPlayer broadcast adds up: at any moment each
\* announced client lists every other announced player, and never a slot that
\* is free, through kicks from callbacks, vetoed connects and reused ids.
RosterAgrees == \A s \in Announced :
    /\ Announced \ {s} \subseteq known[owner[s]]
    /\ known[owner[s]] \subseteq Live

\* onPlayerDisconnect is dispatched exactly once for each player that entered
\* the pool, however a kick, a ban and a lost connection coincide: not while
\* it plays, once when its disconnect begins, and never again.
Leaving(s) == at.op \in {"left", "kicked"} /\ at.slot = s
LeavesOnce == \A p \in Peers :
    /\ Cardinality(PlayersOf(p)) <= 1
    /\ \A s \in PlayersOf(p) : quits[p] = IF Leaving(s) THEN 1 ELSE 0
    /\ PlayersOf(p) = {} /\ p \in met => quits[p] = 1

\* No two players in the pool ever share a name: requestPlayer and setName
\* check each other's work, across reconnects that race a pending kick.
NamesUnique == \A s, t \in Live : s # t => nick[s] # nick[t]

\* getPing of an announced player reads the remote system of its own peer,
\* though slots and indices are reused and callbacks run before it is set.
PingIsOwn == ~late => \A s \in Announced :
    (~IsBot(s) /\ at.op # "connect" /\ peer[owner[s]] = "up") =>
        playerRemoteSystem[s] = IndexOf(owner[s])

\* Every index of the network's table is null or holds a player of the pool,
\* whose peer RakNet has at that index or whose leave is still to be read.
LeaveQueued(p, i) == \E k \in DOMAIN queue : queue[k] = Packet("leave", i, p)
IndexSound == ~late => \A i \in Indices :
    LET s == playerFromRakIndex[i]
    IN  s # None => /\ s \in Live
                    /\ remote[i] = owner[s] \/ LeaveQueued(owner[s], i)

\* A packet is handled for the player of the peer that sent it, or for nobody.
PacketsReachTheirPlayer ==
    (/\ ~late
     /\ at = Receive
     /\ queue # << >>
     /\ Head(queue).kind # "connect"
     /\ Addressee # None) => owner[Addressee] = Head(queue).from

\* Nothing a peer still connected sends is handled once its player is kicked.
KickedIsSilent == ~late => \A s \in kicked, i \in Indices :
    playerFromRakIndex[i] = s => peer[owner[s]] = "gone"

\* The comment on the test in onTick: "We shouldn't be needing this, it's only
\* here IF somehow this is happening again".  No packet is addressed to a
\* player the pool has freed.
GuardNotNeeded == ~(at = Receive /\ queue # << >> /\ AddresseeFreed)

\* The sessions that scripts see: what the connection implements, whatever
\* RakNet does, though peers leave at any time, names and slots are used again
\* and callbacks kick, ban and rename.
SessionOf(p) ==
    LET s == CHOOSE t \in Slots : owner[t] = p
    IN  IF PlayersOf(p) = {} THEN IF quits[p] = 0 THEN "away" ELSE "gone"
        ELSE IF Leaving(s) THEN "leaving"
        ELSE IF p \in met THEN "playing" ELSE "joining"
NameOf(p) == IF PlayersOf(p) = {} THEN Nobody
             ELSE nick[CHOOSE s \in Slots : owner[s] = p]

Sessions == INSTANCE PlayerSessions WITH
    Names    <- Nicks,
    Capacity <- MaxPlayers,
    NoName   <- Nobody,
    session  <- [p \in Peers |-> SessionOf(p)],
    name     <- [p \in Peers |-> NameOf(p)],
    marked   <- {owner[s] : s \in kicked}

ImplementsSessions == Sessions!Spec

\* A kicked player leaves the pool: the flag is only read by the pool's tick.
KickedLeave == \A p \in Peers :
    (\E s \in kicked : owner[s] = p) ~> (PlayersOf(p) = {})

\* A player whose peer left is removed once the packet that says so is read.
GoneLeave == \A p \in Peers :
    (\E i \in Indices : LeaveQueued(p, i)) ~> (PlayersOf(p) = {})

-----------------------------------------------------------------------------
(* For instances: carl asks for the name alice has, a reconnect under the   *)
(* same name; bob shares alice's address, carl connects from the server's.  *)
InstanceNicks == [p \in Peers |-> IF p = "bob" THEN "n2" ELSE "n1"]
InstanceAddrs == [p \in Peers |-> IF p = "carl" THEN LocalAddr ELSE "home"]
=============================================================================
