SPECIFICATION Spec
CONSTANTS
  Role <- MCRole
  Email <- MCEmail
  Grant <- MCGrant
  Lower <- MCLower
  Slug <- MCSlug
  Address <- MCAddress
  Absent = Absent
  Request = {q1, q2}
  Seeds <- TwoAdmins
  Ops <- RaceOps
INVARIANT UndisturbedReads
INVARIANT RevokedMeansRevoked
PROPERTY UndisturbedIsAtomic
PROPERTY LockedOutIsFinal
