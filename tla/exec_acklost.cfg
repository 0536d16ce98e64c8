SPECIFICATION ExecLiveSpec
CONSTANTS
  ActionID = {a1}
  Operator = {o1, o2}
  Me = Me
  Conn = {c1}
  TTL = {1}
  LeaseTime = 1
  MaxClock = 1
  NoOne = NoOne
  NoRow = NoRow
  MaxLedgerEntries = 1
  Absent = Absent
PROPERTY StoredResultIsRecorded
