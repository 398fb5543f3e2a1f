\* Each component by itself, with whatever else it meets as an environment.
CONSTANTS
  Running = {"flush", "dispatch", "loop", "mcp"}
  Requests = {q1, q2}
  Executions = {e1, e2}
  Closer = Closer
  FlushThreshold = 2
  NoRequest = NoRequest
  m1 = m1
  m2 = m2
  slot1 = slot1
  DispatchJobs = {m1, m2}
  SlotOf <- SlotOfInstance
  AttemptsOf <- AttemptsOfInstance
  WithWorker = {m1}
  Processors = {c1, c2}
  Vacant = Vacant
  MaxRowVersion = 1
  x1 = x1
  x2 = x2
  x3 = x3
  x4 = x4
  readTool = readTool
  pinTool = pinTool
  submitTool = submitTool
  ToolCalls = {x1, x2, x3, x4}
  ToolOf <- ToolOfInstance
  Permitted = {pinTool, readTool, submitTool}
  OnceTools = {pinTool, submitTool}
  Harmless = {pinTool, submitTool}
  Submit = submitTool
  MaxCalls = 2
  ToolUsers = {u1, u2, u3}
  MaxRequests = 4
  NoRequestId = 0
SPECIFICATION RuntimeSpec
INVARIANTS
  ProcessedIsAccounted
  SettledWhole
  SucceededRowWasWorked
  
PROPERTIES
  FlushEnds
  
  
\* Every component may have nothing left to do: requests answered, jobs ended.
CHECK_DEADLOCK FALSE
