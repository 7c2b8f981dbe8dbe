SPECIFICATION Spec
CONSTANTS
  Conn = {c1, c2, c3}
  Fd = {f1, f2}
  Channel = {h1, h2}
  MaxKills = 2
INVARIANTS TypeOK SubscriptionsAgree NoConnectionLeaked DescriptorsOwned StraysWithinKills PeakCoversCount
SYMMETRY Symmetry
CHECK_DEADLOCK FALSE
