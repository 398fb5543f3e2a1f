------------------------------ MODULE MCRuntime -----------------------------
(***************************************************************************)
(* Instances for TLC of what runs inside one process: its turns and        *)
(* flushes, its dispatcher, its agent loops, its tool servers.  None of    *)
(* them reads the variables of another: the first state chooses which one  *)
(* runs, and the others stay as they are.                                  *)
(***************************************************************************)
EXTENDS MemoryFlush, JobDispatcher, AgentLoop, McpTools, TLC

CONSTANTS
  Running,                          \* the components of this run
  m1, m2, slot1,                    \* jobs of the dispatcher
  x1, x2, x3, x4,                   \* tool calls
  readTool, pinTool, submitTool

VARIABLE focus

SlotOfInstance     == (m1 :> slot1) @@ (m2 :> slot1)
AttemptsOfInstance == (m1 :> 2) @@ (m2 :> 1)

ToolOfInstance == (x1 :> readTool) @@ (x2 :> pinTool) @@ (x3 :> pinTool) @@ (x4 :> submitTool)

runtimeVars == <<focus, flushVars, dispatchVars, loopVars, mcpVars>>

RuntimeInit ==
  /\ focus \in Running
  /\ FlushInit /\ DispatchInit /\ LoopInit /\ McpInit

RuntimeNext ==
  /\ UNCHANGED focus
  /\ \/ /\ focus = "flush" /\ FlushNext
        /\ UNCHANGED <<dispatchVars, loopVars, mcpVars>>
     \/ /\ focus = "dispatch" /\ DispatchNext
        /\ UNCHANGED <<flushVars, loopVars, mcpVars>>
     \/ /\ focus = "loop" /\ LoopNext
        /\ UNCHANGED <<flushVars, dispatchVars, mcpVars>>
     \/ /\ focus = "mcp" /\ McpNext
        /\ UNCHANGED <<flushVars, dispatchVars, loopVars>>

RuntimeSpec ==
  RuntimeInit /\ [][RuntimeNext]_runtimeVars
    /\ FlushFairness /\ DispatchFairness /\ McpFairness
=============================================================================
