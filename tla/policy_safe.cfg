SPECIFICATION PolicySpec
CONSTANTS
  Doc = {p0, p1}
  Default = p0
  MaxEpoch = 2
  Publisher = {u1, u2}
  MaxClock = 2
  Absent = Absent
SYMMETRY Sym
INVARIANTS PolicyTypeOK NoRollback LastKnownGood RefusedOnlyAfterTornApply
