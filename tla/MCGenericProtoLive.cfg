SPECIFICATION FairSpec
CONSTANTS
    p1 = p1
    p2 = p2
    Peers = {p1}
    MaxIndex = 3
    MaxQueue = 2
    Setups <- Setups_live
PROPERTIES
    NothingWaitsForever
