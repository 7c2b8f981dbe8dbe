SPECIFICATION Spec
CONSTANTS
  k1 = k1
  k2 = k2
  x = x
  a = a
  Key = {k1, k2}
  Text = {x}
  Elem = {a}
  Field = {}
  ErrElem = e
  Second = 1
  Saver = {"worker", "SAVE"}
  Setups <- TwoSavesWithoutAof
  MaxSwallowed = 2
INVARIANT SnapshotComplete
