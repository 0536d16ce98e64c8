SPECIFICATION BrokerLiveSpec
CONSTANTS
  ActionID = {a1}
  Operator = {o1, o2}
  Agent = {g1}
  Conn = {c1, c2, c3}
  TTL = {1, 2}
  LeaseTime = 2
  MaxClock = 2
  NoOne = NoOne
  NoRow = NoRow
INVARIANTS TwoOperators
PROPERTIES ExpiredIsNeverLeased ApprovedBecomesTerminal
