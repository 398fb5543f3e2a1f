\* Two sessions, two workers, room for one thinker job in all.
CONSTANTS
  a1 = a1  a2 = a2  b1 = b1  r1 = r1  r2 = r2  r3 = r3
  k1 = k1  k2 = k2  kr = kr  fam = fam
  Parts = {"sessions"}
  Jobs = {a1, a2, b1}
  Workers = {w1, w2}
  Clients = {}
  Keys = {k1, k2}
  Families = {}
  Reasons = {}
  NoJob = NoJob
  NoFamily = NoFamily
  ConcurrencyKey <- ConcurrencyKeys
  Family <- FamilyOf
  Priority <- Priorities
  MaxAttempts <- AttemptLimits
  Cap <- Caps
  Thinkers = {a1, a2, b1}
  GlobalCap = 1
  BatchSize = 2
  MaxClaims = 2
SPECIFICATION PartSpec
INVARIANTS GlobalCapHeld
