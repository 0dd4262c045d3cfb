SPECIFICATION Spec
CONSTANTS
  Role <- MCRole
  Email <- MCEmail
  Grant <- MCGrant
  Lower <- MCLower
  Slug <- MCRole
  Address <- MCEmail
  Absent = Absent
  Star = "*"
  Turn = {t1}
  Ops <- MCOps
  Seeds <- MCSeeds
INVARIANT TypeOK
INVARIANT GrantsComeFromThisTurn
INVARIANT NoForbiddenTransfer
INVARIANT ResolutionIsExact
INVARIANT FailClosed
