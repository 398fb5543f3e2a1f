\* Four turns one after the other, no faults: batches, and a fourth split off.
CONSTANTS
  MaxTurns = 4
  Workers = {w1, w2}
  NoWorker = NoWorker
  MaxAttempts = 3
  SplitThreshold = 3
  SoftCap = 20
  OverlapTurns = 3
  SerialTurns = TRUE
  WorkerLedger = TRUE
  FaultKinds = {}
  MaxFaults = 0
SPECIFICATION FairSpec
INVARIANTS VersionSpeaksForAll ThoughtOnce
PROPERTIES EveryTurnIsThought
\* When every turn has been dealt with, the pipeline is idle.
CHECK_DEADLOCK FALSE
