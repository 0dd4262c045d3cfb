SPECIFICATION Spec
CONSTANTS
  Session = {s1, s2}
  NoSession = NoSession
  NoAgent = NoAgent
  OrderAgent = OrderAgent
  Scripts <- SmallScripts
  BodyTrunc = 1
  TitleWindow = 1
  MaxTurns = 2
  MaxAside = 2
  MaxAhead = 2
SYMMETRY Sessions
INVARIANT TypeOK
INVARIANT AnswersReplay
INVARIANT TitlesBelong
CHECK_DEADLOCK FALSE
