SPECIFICATION HuntSpec
CONSTANTS
  Worker = {w1, w2}
  None = None
  Event <- MCEvent
  Data <- MCData
  Field <- MCField
  Value = {1, 2}
  Variable <- MCVariable
  Rules <- MCRules
  MaxScore = 1
  Threshold = 1
  Warmup = 2
  IncidentWindow = 0
  MaxPartials = 2
  MaxOpen = 2
  MaxRisk = 4
  RiskBump = 1
  MaxPosts = 3
SYMMETRY Sym
CHECK_DEADLOCK FALSE
INVARIANTS MatchIsSound MatchIsComplete ReportedOnce AgentEventAnalysedOnce FindingIsInIncident
PROPERTY IncidentOnlyGrows
