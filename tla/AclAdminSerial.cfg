SPECIFICATION Spec
CONSTANTS
  Role <- MCRole
  Email <- MCEmail
  Grant <- MCGrant
  Lower <- MCLower
  Slug <- MCSlug
  Address <- MCAddress
  Absent = Absent
  Request = {q1}
  Seeds <- MCSeeds
  Ops <- MCOps
INVARIANT TypeOK
INVARIANT NeverLockedOut
PROPERTY RefinesLedger
