SPECIFICATION Spec
CONSTANTS
  Key = {k1, k2}
  Text = {x}
  Elem = {a}
  Field = {}
  Second = 1
  Db = {d1}
  Scanner = {}
  EvictionConfigs <- MemoryLimit
  Ttl <- TtlNoneOne
  MaxTime = 2
  MaxLen = 2
  MaxInt = 0
PROPERTY RepliesFromStoredKey
