\* Thinker jobs of two sessions and two claiming workers; or requests of one
\* search.rebuild family by two clients, and one claiming worker.
CONSTANTS
  a1 = a1  a2 = a2  b1 = b1  r1 = r1  r2 = r2  r3 = r3
  k1 = k1  k2 = k2  kr = kr  fam = fam
  Parts = {"sessions", "rebuild"}
  Jobs = {a1, a2, b1, r1, r2, r3}
  Workers = {w1, w2}
  Clients = {c1, c2}
  Keys = {k1, k2, kr}
  Families = {fam}
  Reasons = {fts_repair, full_rebuild}
  NoJob = NoJob
  NoFamily = NoFamily
  ConcurrencyKey <- ConcurrencyKeys
  Family <- FamilyOf
  Priority <- Priorities
  MaxAttempts <- AttemptLimits
  Cap <- Caps
  Thinkers = {a1, a2, b1}
  GlobalCap = 2
  BatchSize = 2
  MaxClaims = 2
SYMMETRY Symmetry
SPECIFICATION PartSpec
INVARIANTS TypeOK KeyCapHeld AttemptsMatchRows OneSuccessPerKey OneActivePerFamily
PROPERTIES HistoryIsFinal RerunSurvives ImplementsQueue
\* The family is idle when every request key is used and every row is gone.
CHECK_DEADLOCK FALSE
