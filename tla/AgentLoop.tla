------------------------------ MODULE AgentLoop -----------------------------
(***************************************************************************)
(* One run of the agent loop: the model is called with the messages so     *)
(* far, its tool calls are executed in the order they ended, their results *)
(* become messages, and the model is called again.  A streaming run stops  *)
(* at a tool it may not execute; a buffered run of a role-playing agent    *)
(* passes over it and ends with submit_rp_turn or with plain text.         *)
(***************************************************************************)
EXTENDS Integers, Sequences, FiniteSets, SequencesExt

CONSTANTS
  ToolCalls,   \* ids of tool calls the model may make
  ToolOf,      \* the tool each calls
  Permitted,   \* tools the profile and its permissions allow
  OnceTools,   \* tools of cardinality once or at_most_once
  Harmless,    \* read_only tools, and those visible to the runtime alone
  Submit,      \* submit_rp_turn
  MaxCalls     \* bound on the calls of one answer of the model

ASSUME LoopAssumption == MaxCalls \in Nat

VARIABLES
  loop,           \* where the run stands: its mode, whether the last answer
                  \* had text, and the calls still to be dealt with
  messages,       \* workingMessages: answers of the model and tool results
  turnToolsUsed,
  executions      \* tools executed, in order: not in the code

loopVars == <<loop, messages, turnToolsUsed, executions>>

Said(cs)  == [role |-> "assistant", calls |-> ToSet(cs), call |-> Submit]
Result(c) == [role |-> "tool", calls |-> {}, call |-> c]

LoopInit ==
  /\ loop = [phase |-> "ready", buffered |-> FALSE, talker |-> FALSE, text |-> FALSE,
             todo |-> <<>>]
  /\ messages = <<>>
  /\ turnToolsUsed = {}
  /\ executions = <<>>

Ends(how) == loop' = [loop EXCEPT !.phase = how, !.todo = <<>>]

\* The calls of the run so far: ids of the model are not used again.
CallsSoFar == UNION {messages[i].calls : i \in DOMAIN messages}

Answers == {cs \in SeqOf(ToolCalls \ CallsSoFar, MaxCalls) : IsInjective(cs)}
-----------------------------------------------------------------------------
StartRun(buffered, talker) ==
  /\ loop.phase = "ready"
  /\ talker => buffered
  /\ loop' = [loop EXCEPT !.phase = "model", !.buffered = buffered, !.talker = talker]
  /\ UNCHANGED <<messages, turnToolsUsed, executions>>

\* The stream breaks, or the arguments of a call are not a JSON object.
ModelFails ==
  /\ loop.phase = "model"
  /\ Ends("error")
  /\ UNCHANGED <<messages, turnToolsUsed, executions>>

\* An answer without calls ends the run: a buffered one needs text, from
\* which it first asks, unless the Talker runs it, for a structured outcome.
AfterAnswer(cs, text) ==
  IF cs # <<>> THEN loop' = [loop EXCEPT !.phase = "tools", !.text = text, !.todo = cs]
  ELSE IF ~loop.buffered THEN Ends("done")
  ELSE IF ~text THEN Ends("error")
  ELSE IF loop.talker THEN Ends("done") ELSE Ends("retrying")

ModelAnswers(cs, text) ==
  /\ loop.phase = "model"
  /\ messages' = IF cs # <<>> \/ text THEN Append(messages, Said(cs)) ELSE messages
  /\ AfterAnswer(cs, text)
  /\ UNCHANGED <<turnToolsUsed, executions>>

\* retryStructuredExtraction calls submit_rp_turn for the text, or fails:
\* either way there is an outcome.
Retry(submits) ==
  /\ loop.phase = "retrying"
  /\ executions' = IF submits THEN Append(executions, Submit) ELSE executions
  /\ Ends("done")
  /\ UNCHANGED <<messages, turnToolsUsed>>

CanExecuteTool(t) == t \in Permitted /\ ~(t \in OnceTools /\ t \in turnToolsUsed)

\* What a buffered run executes: immediate writes are passed over.
InBufferedRun(t) == t \in Harmless

Refuse(c) ==
  /\ ~CanExecuteTool(ToolOf[c]) \/ (loop.buffered /\ ~InBufferedRun(ToolOf[c]))
  /\ IF loop.buffered THEN loop' = [loop EXCEPT !.todo = Tail(@)] ELSE Ends("error")
  /\ UNCHANGED <<messages, turnToolsUsed, executions>>

Execute_Bug(c) ==
  /\ CanExecuteTool(ToolOf[c]) /\ (loop.buffered => InBufferedRun(ToolOf[c]))
  /\ executions' = Append(executions, ToolOf[c])
  /\ turnToolsUsed' = turnToolsUsed \cup {ToolOf[c]}
  /\ messages' = messages
  /\ loop' = [loop EXCEPT !.todo = Tail(@)]

\* submit_rp_turn is registered for buffered runs only.
Execute(c) ==
  /\ CanExecuteTool(ToolOf[c]) /\ (loop.buffered => InBufferedRun(ToolOf[c]))
  /\ ToolOf[c] = Submit => loop.buffered
  /\ executions' = Append(executions, ToolOf[c])
  /\ turnToolsUsed' = turnToolsUsed \cup {ToolOf[c]}
  /\ IF loop.buffered /\ ToolOf[c] = Submit
     THEN Ends("done") /\ messages' = messages
     ELSE /\ messages' = Append(messages, Result(c))
          /\ loop' = [loop EXCEPT !.todo = Tail(@)]

ToolThrows(c) ==
  /\ CanExecuteTool(ToolOf[c]) /\ (loop.buffered => InBufferedRun(ToolOf[c]))
  /\ Ends("error")
  /\ UNCHANGED <<messages, turnToolsUsed, executions>>

ToolStep(c) ==
  /\ loop.phase = "tools" /\ loop.todo # <<>> /\ c = Head(loop.todo)
  /\ Refuse(c) \/ Execute(c) \/ ToolThrows(c)

\* No call is left.  Text said along with the calls of a buffered run is its
\* outcome; otherwise the model is called again, however often it was.
CallAgain ==
  /\ loop.phase = "tools" /\ loop.todo = <<>>
  /\ IF loop.buffered /\ loop.text THEN Ends("done")
                                   ELSE loop' = [loop EXCEPT !.phase = "model"]
  /\ UNCHANGED <<messages, turnToolsUsed, executions>>

LoopNext ==
  \/ \E buffered, talker \in BOOLEAN : StartRun(buffered, talker)
  \/ ModelFails
  \/ \E cs \in Answers, text \in BOOLEAN : ModelAnswers(cs, text)
  \/ \E submits \in BOOLEAN : Retry(submits)
  \/ \E c \in ToolCalls : ToolStep(c)
  \/ CallAgain

LoopSpec == LoopInit /\ [][LoopNext]_loopVars
-----------------------------------------------------------------------------
(***************************************************************************)
(* Properties.                                                             *)
(***************************************************************************)
\* A streaming run calls the model again (agent-loop.ts:151) only when each
\* of its tool calls has one result, and no result comes before its call: a
\* provider refuses any other conversation.  A buffered run that has passed
\* over a call does not keep this.
ToolUseAnswered ==
  loop.phase = "model" /\ ~loop.buffered =>
    \A i \in DOMAIN messages : \A c \in messages[i].calls :
      \E j \in DOMAIN messages :
        /\ j > i /\ messages[j] = Result(c)
        /\ \A k \in DOMAIN messages : messages[k] = Result(c) => k = j

\* A tool of cardinality once is executed at most once in a run, in however
\* many answers the model asks for it (tool-access-policy.ts:113).
OncePerRun ==
  \A t \in OnceTools \ {Submit} : Cardinality({i \in DOMAIN executions : executions[i] = t}) <= 1

\* A buffered run settles at most once, and nothing is executed after it
\* (agent-loop.ts:671): its outcome speaks for all it did.
SubmitIsLast ==
  loop.buffered =>
    \A i \in DOMAIN executions : executions[i] = Submit =>
      i = Len(executions) /\ loop.phase = "done"
=============================================================================
