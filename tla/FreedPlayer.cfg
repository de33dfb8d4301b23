\* The smallest instance in which onTick's test for a freed player succeeds.
CONSTANTS
    Nobody = Nobody
    NickOf <- InstanceNicks
    Nicks = {"n1", "n2"}
    AddrOf <- InstanceAddrs
    LocalAddr = "office"
    MaxIndices = 2
    MaxPlayers = 2
    MaxBots = 1
    Peers = {"alice", "bob"}
    Bots = {}
    MaxData = 1
SPECIFICATION Spec
INVARIANT GuardNotNeeded
