SPECIFICATION Spec
CONSTANTS
  Conn = {c1, c2, c3}
  Fd = {f1, f2}
  Channel = {h1}
  MaxKills = 0
PROPERTY DeliveredToSubscribers
SYMMETRY Symmetry
CHECK_DEADLOCK FALSE
