SPECIFICATION HostSpec
CONSTANTS
  Addr = {a1}
  Port = {p1}
  None = None
  Content = {c1, c2}
  Nothing = Nothing
  Partial = Partial
  MaxCalls = 4
  MaxWrites = 3
  s1 = s1
  s2 = s2
  w1 = w1
  q1 = q1
  Item <- MCItem
  Kind <- MCKind
  Posted <- MCPosted
  Setups <- MCSetups
  LongLine = {3}
  MaxRead = 3
  MaxBatch = 2
  MaxLines = 3
  MaxRotations = 1
  MaxDelta = 1
  MaxChanges = 1
  MaxRuns = 2
  MaxIngests = 1
  QueueSize = 2
  CentralBatch = 2
  MaxHanded = 4
  MaxReceived = 6
SYMMETRY Sym
CHECK_DEADLOCK FALSE
INVARIANTS HostTypeOK ContainmentIsOwned AnswerIsTrue IsolationIsReversible
           ControlPathIsOpen ContentIsKept
           JournalOpens TailedIsJournaled DriftIsReported
           CentralInOrder
