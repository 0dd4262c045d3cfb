SPECIFICATION FairSpec
CONSTANTS
  Role <- MCRole
  Email <- MCEmail
  Grant <- MCGrant
  Lower <- MCLower
  Slug <- MCRole
  Address <- MCAddress
  Absent = Absent
  SeedRoles <- MCSeedRoles
  SeedUsers <- MCSeedUsers
  Ops <- MCOps
  Stores <- MCStores
INVARIANT TypeOK
INVARIANT QuietRunConverges
INVARIANT NoGrantWithoutRole
PROPERTY LossesAreRaces
PROPERTY LockoutIsRecovered
