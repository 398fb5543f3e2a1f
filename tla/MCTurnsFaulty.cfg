\* Three turns, two ticks, and any one fault.
CONSTANTS
  MaxTurns = 3
  Workers = {w1, w2}
  NoWorker = NoWorker
  MaxAttempts = 2
  SplitThreshold = 2
  SoftCap = 20
  OverlapTurns = 3
  SerialTurns = TRUE
  WorkerLedger = TRUE
  FaultKinds = {"overtake", "talker", "enqueue", "ledger", "sketch", "think", "project", "crash", "lease", "age"}
  MaxFaults = 1
SPECIFICATION Spec
INVARIANTS DoneIsEarned
SYMMETRY Ticks
\* When every turn has been dealt with, the pipeline is idle.
CHECK_DEADLOCK FALSE
