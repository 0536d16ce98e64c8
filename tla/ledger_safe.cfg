SPECIFICATION LedgerSpec
CONSTANTS
  ActionID = {a1, a2}
  Digest = {d1, d2}
  Result = {r1, r2}
  MaxLedgerEntries = 1
  MaxClock = 1
  Absent = Absent
  NoResult = NoResult
SYMMETRY Sym
INVARIANTS LedgerTypeOK NoSecondGrant GrantsAreDurable
PROPERTY ResultsAreFinal
