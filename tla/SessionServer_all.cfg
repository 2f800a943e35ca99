CONSTANTS
  Session = {s1, s2}
  User = {u1, u2}
  NoUser = NoUser
  NoSession = NoSession
  MaxRequests = 2
  Packets <- KindPackets
SPECIFICATION FairSpec
INVARIANTS
  IInv
  NoSendAfterClose
  IdentityAgrees
  NoStalePresence
PROPERTIES ImplementsService HandlersReturn HeardIsLogged
