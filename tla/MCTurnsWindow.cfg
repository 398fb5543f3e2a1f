\* Five turns, one tick; one enqueue fails twice.
CONSTANTS
  MaxTurns = 5
  Workers = {w1}
  NoWorker = NoWorker
  MaxAttempts = 3
  SplitThreshold = 3
  SoftCap = 20
  OverlapTurns = 3
  SerialTurns = TRUE
  WorkerLedger = TRUE
  FaultKinds = {"enqueue"}
  MaxFaults = 2
SPECIFICATION Spec
INVARIANTS WindowCoversUnprocessed
\* When every turn has been dealt with, the pipeline is idle.
CHECK_DEADLOCK FALSE
