SPECIFICATION Spec
CONSTANTS
    p1 = p1
    p2 = p2
    Peers = {p1, p2}
    MaxIndex = 3
    MaxQueue = 2
    Setups <- Setups_all
INVARIANTS
  ViewsAgree
  HandlerObeys
  RequestedIsDialed
  NoMismatch
  IncomingIsAwaited
