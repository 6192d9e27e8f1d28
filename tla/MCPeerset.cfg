SPECIFICATION Spec
CONSTANTS
    Peers = {p1, p2}
    Reserved = "reserved"
    Groups = {"reserved", "sentries"}
    MaxIn = 1
    MaxOut = 1
    MinRep <- MCMinRep
    MaxRep = 1
    BannedThreshold <- MCBannedThreshold
    DisconnectChange <- MCDisconnectChange
    RepChanges <- MCRepChanges
    Indices = {0}
    MaxQueue = 1
SYMMETRY Symmetry
INVARIANTS
  SlotsCounted
PROPERTIES
  Implements
  ConnectsWithinLimits
