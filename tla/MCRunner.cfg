\* Three jobs, two ticks, a sweeper, at most two faults.
CONSTANTS
  a1 = a1  a2 = a2  b1 = b1  r1 = r1  r2 = r2  k1 = k1  k2 = k2  kr = kr  fam = fam
  Jobs = {a1, a2, b1}
  Workers = {w1, w2}
  Clients = {}
  Keys = {k1, k2}
  Families = {}
  Reasons = {}
  NoJob = NoJob
  NoFamily = NoFamily
  ConcurrencyKey <- MixedKeys
  Family <- NoFamilies
  Priority <- MixedPriority
  MaxAttempts <- MixedAttempts
  Cap <- OneEach
  Thinkers = {a1, a2}
  GlobalCap = 2
  BatchSize = 2
  MaxClaims = 4
  Registered = {a1, a2}
  MaxFaults = 2
SPECIFICATION RunnerSpec
INVARIANTS OneTickPerClaim
PROPERTIES LateTickWritesNothing EveryJobEnds
\* When every job has ended and none is submitted, the consumer is idle.
CHECK_DEADLOCK FALSE
