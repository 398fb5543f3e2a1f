\* Twelve turns wait before the first claim; no fault.
CONSTANTS
  MaxTurns = 12
  Workers = {w1}
  NoWorker = NoWorker
  MaxAttempts = 3
  SplitThreshold = 3
  SoftCap = 20
  OverlapTurns = 3
  SerialTurns = TRUE
  WorkerLedger = TRUE
  FaultKinds = {}
  MaxFaults = 0
SPECIFICATION BacklogSpec
INVARIANTS SubBatchIsProcessed
\* When every turn has been dealt with, the pipeline is idle.
CHECK_DEADLOCK FALSE
