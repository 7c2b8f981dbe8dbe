SPECIFICATION Spec
CONSTANTS
  Key = {k1, k2}
  Text = {x}
  Elem = {a}
  Field = {f}
  Second = 1
  Db = {d1}
  Scanner = {}
  EvictionConfigs <- EveryPolicy
  Ttl <- TtlNoneOne
  MaxTime = 1
  MaxLen = 2
  MaxInt = 1
INVARIANTS TypeOK WellFormed WithinLimits EvictionLoopAgrees
PROPERTIES ExpiredStaysDead DeadlineMovesOnlyByCommand LruKeepsWritten VolatileLimitKept ImplementsCache
SYMMETRY Symmetry
