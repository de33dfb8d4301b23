\* Three connections for two indices and two pool slots: every slot is reused.
CONSTANTS
    Nobody = Nobody
    NickOf <- InstanceNicks
    Nicks = {"n1", "n2"}
    AddrOf <- InstanceAddrs
    LocalAddr = "office"
    MaxIndices = 2
    MaxPlayers = 2
    MaxBots = 1
    Peers = {"alice", "bob", "carl"}
    Bots = {"bob"}
    MaxData = 1
SPECIFICATION Spec
INVARIANTS
    TypeOK
    RosterAgrees
    LeavesOnce
    NamesUnique
    PingIsOwn
    IndexSound
    PacketsReachTheirPlayer
    KickedIsSilent
