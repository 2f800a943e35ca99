CONSTANTS
  Label = {heart, star}
  Region = {r1}
  BadRegion = BadRegion
  NoRegion = NoRegion
  NoRequest = NoRequest
  MaxRequests = 2
  MaxFaults = 1
SPECIFICATION FairSpec
INVARIANTS
  IInv
  FailureHasCause
PROPERTIES
  ImplementsService
  RequestAnswered
  StopReturns
  Reconnects
