SPECIFICATION BrokerSpec
CONSTANTS
  ActionID = {a1}
  Operator = {o1, o2}
  Agent = {g1}
  Conn = {c1, c2}
  TTL = {1}
  LeaseTime = 1
  MaxClock = 1
  NoOne = NoOne
  NoRow = NoRow
PROPERTY ResultIsTerminal
