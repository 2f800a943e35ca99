CONSTANTS
  Session = {s1, s2}
  User = {u1, u2}
  NoUser = NoUser
  NoSession = NoSession
  MaxRequests = 1
  Packets <- LoginPackets
SPECIFICATION Spec
INVARIANT OneSessionPerAccount
