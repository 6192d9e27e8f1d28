SPECIFICATION Spec
CONSTANTS
    N = 1
    MaxSubs = 2
    MaxPending = 2
    MaxRequests = 2
    MaxOut = 1
INVARIANTS
  SubstreamsAgree
  RequestsAreAnswered
PROPERTIES
  Implements
