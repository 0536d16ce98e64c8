SPECIFICATION EnrollSpec
CONSTANTS
  Host = {h1, h2}
  Token = {t1, t2}
  Conn = {c1, c2}
  None = None
  TokenTTL = 1
  CertTTL = 3
  RenewBefore = 2
  CheckInterval = 2
  LastIssue = 1
  MaxClock = 3
SYMMETRY Sym
CHECK_DEADLOCK FALSE
INVARIANTS TokenUsedOnce KeyNeedsEnrollment InstalledIsAccepted
PROPERTY LastChanceTaken
