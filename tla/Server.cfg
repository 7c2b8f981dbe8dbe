SPECIFICATION ServerFairSpec
CONSTANTS
  Client = {c1, c2}
  k1 = k1
  Key = {k1}
  Databases = 2
  Requests <- AllRequests
  RequirePass = TRUE
INVARIANTS ServerTypeOK  OneLateWrite NothingBeforeAuth
PROPERTIES FlushAllClears LockReleased
