\* Two turns at once, one tick, and any two faults.
CONSTANTS
  MaxTurns = 2
  Workers = {w1}
  NoWorker = NoWorker
  MaxAttempts = 3
  SplitThreshold = 2
  SoftCap = 20
  OverlapTurns = 3
  SerialTurns = FALSE
  WorkerLedger = TRUE
  FaultKinds = {"overtake", "talker", "enqueue", "ledger", "sketch", "think", "project", "crash", "lease", "age"}
  MaxFaults = 2
SPECIFICATION FairSpec
PROPERTIES EveryTurnGetsAJob DoneStaysDone
\* When every turn has been dealt with, the pipeline is idle.
CHECK_DEADLOCK FALSE
