\* Two connections under the fairness of the main thread.  No other packets: a
\* peer that sends faster than they are read keeps the receive loop from ending.
CONSTANTS
    Nobody = Nobody
    NickOf <- InstanceNicks
    Nicks = {"n1", "n2"}
    AddrOf <- InstanceAddrs
    LocalAddr = "office"
    MaxIndices = 2
    MaxPlayers = 2
    MaxBots = 1
    Peers = {"alice", "bob"}
    Bots = {"bob"}
    MaxData = 0
SPECIFICATION FairSpec
PROPERTIES
    KickedLeave
    GoneLeave
    ImplementsSessions
