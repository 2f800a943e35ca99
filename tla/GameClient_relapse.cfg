CONSTANTS
  Account = {a1}
  Wrong = Wrong
  NoCred = NoCred
  MaxConn = 2
  MaxFails = 0
  MaxRequests = 1
SPECIFICATION Spec
INVARIANT LoggedInIsAsked
