CONSTANTS
  Account = {a1}
  Wrong = Wrong
  NoCred = NoCred
  MaxConn = 2
  MaxFails = 1
  MaxRequests = 2
SPECIFICATION FairSpec
INVARIANTS
  IInv
  LoggedInIsCurrent
  LogoutStops
PROPERTIES WaitingFalls WorkerEnds
