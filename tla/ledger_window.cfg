SPECIFICATION LedgerSpec
CONSTANTS
  ActionID = {a1}
  Digest = {d1}
  Result = {r1}
  MaxLedgerEntries = 2
  MaxClock = 0
  Absent = Absent
  NoResult = NoResult
INVARIANT NeverExecutedAgain
