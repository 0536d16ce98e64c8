SPECIFICATION ExecSpec
CONSTANTS
  ActionID = {a1}
  Operator = {o1, o2}
  Me = Me
  Conn = {c1}
  TTL = {2}
  LeaseTime = 1
  MaxClock = 2
  NoOne = NoOne
  NoRow = NoRow
  MaxLedgerEntries = 1
  Absent = Absent
PROPERTIES UsesLedger UsesBroker
