SPECIFICATION FairSpec
CONSTANTS
  Key = {k1, k2}
  Text = {}
  Elem = {}
  Field = {}
  Second = 2
  Db = {d1, d2}
  Scanner = {c1}
  EvictionConfigs <- OneKey
  Ttl <- TtlNoneZeroOne
  MaxTime = 2
  MaxLen = 1
  MaxInt = 0
INVARIANTS TtlReplyInRange ScanFindsNoneExpired
PROPERTIES ExpiredCollected ExpiredStaysDead ImplementsCache
