---------------------------- MODULE RuntimeProofs ---------------------------
(***************************************************************************)
(* Theorems about what runs inside one process, for any number of jobs,    *)
(* calls, tools and messages: the in-memory dispatcher, the agent loop and *)
(* the flush of a session's log.                                           *)
(***************************************************************************)
EXTENDS MemoryFlush, JobDispatcher, AgentLoop, FiniteSetTheorems, WellFoundedInduction, TLAPS

(***************************************************************************)
(* The dispatcher.                                                         *)
(***************************************************************************)

\* What may happen to a job's attempts: a pending one has an attempt left, or
\* was taken up from a row that was claimed as often.
AttemptsOK ==
  \A j \in DispatchJobs :
    /\ queued[j].status = "none" => queued[j].attempts = 0
    /\ queued[j].status = "pending" =>
         queued[j].attempts < AttemptsOf[j] \/ queued[j].attempts <= row[j].version
    /\ row[j].attempts <= row[j].version

\* The calls of complete that nobody awaits are for jobs whose worker returned.
WorkedOK ==
  /\ SucceededRowWasWorked
  /\ \A p \in promises : p.op = "complete" => p.job \in worked

DispatchInv == DispatchTypeOK /\ AttemptsOK /\ WorkedOK /\ InFlightIsExact

LEMMA DispatchStarts == DispatchInit => DispatchInv
<1> SUFFICES ASSUME DispatchInit PROVE DispatchInv
  OBVIOUS
<1> USE DEF DispatchInit, Absent, NoStored
<1>1. DispatchTypeOK
  BY DispatchAssumption DEF DispatchTypeOK
<1>2. AttemptsOK /\ WorkedOK /\ InFlightIsExact
  BY DEF AttemptsOK, WorkedOK, SucceededRowWasWorked, InFlightIsExact
<1>. QED  BY <1>1, <1>2 DEF DispatchInv

\* A call of processNext that takes a job whose key is free enters it.
LEMMA InFlightGrows ==
  ASSUME InFlightIsExact, DispatchTypeOK, NEW c \in Processors, NEW j \in DispatchJobs,
         running[c] = Vacant, j # Vacant,
         \/ /\ running' = [running EXCEPT ![c] = j]
            /\ inFlight' = inFlight \cup {SlotOf[j]}
            /\ SlotOf[j] \notin inFlight
         \/ UNCHANGED <<running, inFlight>>
  PROVE  InFlightIsExact'
<1>1. CASE UNCHANGED <<running, inFlight>>
  BY <1>1 DEF InFlightIsExact
<1>2. CASE /\ running' = [running EXCEPT ![c] = j]
           /\ inFlight' = inFlight \cup {SlotOf[j]}
           /\ SlotOf[j] \notin inFlight
  <2>1. running'[c] = j /\ \A d \in Processors \ {c} : running'[d] = running[d]
    BY <1>2 DEF DispatchTypeOK
  <2>2. ASSUME NEW d \in Processors, running'[d] # Vacant
        PROVE  SlotOf[running'[d]] \in inFlight'
    BY <2>1, <2>2, <1>2 DEF InFlightIsExact
  <2>3. ASSUME NEW k \in inFlight'
        PROVE  \E d \in Processors :
                 /\ running'[d] # Vacant /\ SlotOf[running'[d]] = k
                 /\ \A e \in Processors : running'[e] # Vacant /\ SlotOf[running'[e]] = k => e = d
    <3>1. CASE k = SlotOf[j]
      BY <3>1, <2>1, <1>2 DEF InFlightIsExact
    <3>2. CASE k \in inFlight
      <4>1. k # SlotOf[j]
        BY <3>2, <1>2
      <4>2. PICK d \in Processors :
              /\ running[d] # Vacant /\ SlotOf[running[d]] = k
              /\ \A e \in Processors : running[e] # Vacant /\ SlotOf[running[e]] = k => e = d
        BY <3>2 DEF InFlightIsExact
      <4>. QED  BY <4>1, <4>2, <2>1
    <3>. QED  BY <3>1, <3>2, <2>3, <1>2
  <2>. QED  BY <2>2, <2>3 DEF InFlightIsExact
<1>. QED  BY <1>1, <1>2

\* One that ends its job leaves the key.
LEMMA InFlightShrinks ==
  ASSUME InFlightIsExact, DispatchTypeOK, NEW c \in Processors, NEW j \in DispatchJobs,
         running[c] = j, j # Vacant,
         running' = [running EXCEPT ![c] = Vacant],
         inFlight' = inFlight \ {SlotOf[j]}
  PROVE  InFlightIsExact'
<1>1. running'[c] = Vacant /\ \A d \in Processors \ {c} : running'[d] = running[d]
  BY DEF DispatchTypeOK
<1>2. ASSUME NEW d \in Processors, running'[d] # Vacant
      PROVE  SlotOf[running'[d]] \in inFlight'
  <2>1. d # c /\ running'[d] = running[d]
    BY <1>1, <1>2
  <2>2. SlotOf[running[d]] \in inFlight /\ SlotOf[j] \in inFlight
    BY <2>1, <1>2 DEF InFlightIsExact
  <2>3. SlotOf[running[d]] # SlotOf[j]
    BY <2>1, <2>2, <1>2 DEF InFlightIsExact
  <2>. QED  BY <2>1, <2>2, <2>3
<1>3. ASSUME NEW k \in inFlight'
      PROVE  \E d \in Processors :
               /\ running'[d] # Vacant /\ SlotOf[running'[d]] = k
               /\ \A e \in Processors : running'[e] # Vacant /\ SlotOf[running'[e]] = k => e = d
  <2>1. k \in inFlight /\ k # SlotOf[j]
    BY <1>3
  <2>2. PICK d \in Processors :
          /\ running[d] # Vacant /\ SlotOf[running[d]] = k
          /\ \A e \in Processors : running[e] # Vacant /\ SlotOf[running[e]] = k => e = d
    BY <2>1 DEF InFlightIsExact
  <2>. QED  BY <2>1, <2>2, <1>1
<1>. QED  BY <1>2, <1>3 DEF InFlightIsExact

\* Submitting, loading and the steps of processNext.
LEMMA ProcessorKeeps ==
  ASSUME DispatchInv, DispatchNext,
         \/ \E j \in DispatchJobs : SubmitJob(j)
         \/ \E c \in Processors : ProcessorStep(c)
         \/ Load \/ SchedulerStarts \/ DispatchCrash
  PROVE  DispatchInv'
<1> USE DEF DispatchInv, DispatchTypeOK, AttemptsOK, WorkedOK, SucceededRowWasWorked,
            Promise, Absent
<1>1. ASSUME NEW j \in DispatchJobs, SubmitJob(j) PROVE DispatchInv'
  <2>1. CASE queued[j].status = "none"
    <3>1. PICK p : p = [op |-> "enqueue", job |-> j, n |-> 0]
      OBVIOUS
    <3>2. p \in [op : {"enqueue"}, job : DispatchJobs, n : Nat]
      BY <3>1
    <3>3. /\ queued' = [queued EXCEPT ![j].status = "pending"]
          /\ promises' = promises \cup {p}
          /\ started' \in {"no", "loading", "done"}
          /\ UNCHANGED <<running, inFlight, row, worked>>
      BY <1>1, <2>1, <3>1 DEF SubmitJob, Starting
    <3>4. queued[j].attempts = 0 /\ 0 < AttemptsOf[j]
      BY <2>1, DispatchAssumption
    <3>5. /\ queued' \in [DispatchJobs -> [status : {"none", "pending", "running", "completed",
                                                     "failed"}, attempts : Nat]]
          /\ queued'[j].status = "pending" /\ queued'[j].attempts = 0
          /\ \A d \in DispatchJobs \ {j} : queued'[d] = queued[d]
      BY <3>3, <3>4
    <3>6. DispatchTypeOK'
      BY <3>2, <3>3, <3>4, <3>5
    <3>7. AttemptsOK'
      BY <3>3, <3>4, <3>5
    <3>. QED  BY <3>2, <3>3, <3>6, <3>7 DEF InFlightIsExact
  <2>2. CASE queued[j].status # "none"
    <3>1. started' \in {"no", "loading", "done"} /\ UNCHANGED
            <<queued, promises, running, inFlight, row, worked>>
      BY <1>1, <2>2 DEF SubmitJob, Starting
    <3>. QED  BY <3>1 DEF InFlightIsExact
  <2>. QED  BY <2>1, <2>2
<1>2. ASSUME NEW c \in Processors, NEW j \in DispatchJobs, ProcessNext(c, j)
      PROVE  DispatchInv'
  <2>1. /\ queued'[j].status \in {"running", "failed"}
        /\ queued'[j].attempts \in {queued[j].attempts, queued[j].attempts + 1}
        /\ queued' \in [DispatchJobs -> [status : {"none", "pending", "running", "completed",
                                                   "failed"}, attempts : Nat]]
        /\ \A d \in DispatchJobs \ {j} : queued'[d] = queued[d]
    <3>1. CASE j \in WithWorker
      <4>1. PICK r : r = [status |-> "running", attempts |-> queued[j].attempts + 1]
        OBVIOUS
      <4>2. queued' = [queued EXCEPT ![j] = r]
        BY <1>2, <3>1, <4>1 DEF ProcessNext
      <4>. QED  BY <4>1, <4>2
    <3>2. CASE j \notin WithWorker
      <4>1. queued' = [queued EXCEPT ![j].status = "failed"]
        BY <1>2, <3>2 DEF ProcessNext
      <4>. QED  BY <4>1
    <3>. QED  BY <3>1, <3>2
  <2>2. /\ queued[j].status = "pending" /\ running[c] = Vacant
        /\ UNCHANGED <<started, row, worked>>
    BY <1>2 DEF ProcessNext
  <2>3. \/ /\ running' = [running EXCEPT ![c] = j]
           /\ inFlight' = inFlight \cup {SlotOf[j]}
           /\ SlotOf[j] \notin inFlight
        \/ UNCHANGED <<running, inFlight>>
    BY <1>2 DEF ProcessNext, CanRun
  <2>4. \E p : /\ promises' = promises \cup {p}
               /\ p \in [op : {"claim", "fail"}, job : DispatchJobs, n : Nat]
    <3>1. CASE j \in WithWorker
      <4>1. PICK p : p = [op |-> "claim", job |-> j, n |-> queued[j].attempts + 1]
        OBVIOUS
      <4>2. promises' = promises \cup {p}
        BY <1>2, <3>1, <4>1 DEF ProcessNext
      <4>3. p \in [op : {"claim", "fail"}, job : DispatchJobs, n : Nat]
        BY <4>1
      <4>. QED  BY <4>2, <4>3, Zenon
    <3>2. CASE j \notin WithWorker
      <4>1. PICK p : p = [op |-> "fail", job |-> j, n |-> queued[j].attempts]
        OBVIOUS
      <4>2. promises' = promises \cup {p}
        BY <1>2, <3>2, <4>1 DEF ProcessNext
      <4>3. p \in [op : {"claim", "fail"}, job : DispatchJobs, n : Nat]
        BY <4>1
      <4>. QED  BY <4>2, <4>3, Zenon
    <3>. QED  BY <3>1, <3>2
  <2>5. \A d \in DispatchJobs :
          \/ queued'[d].attempts <= AttemptsOf[d]
          \/ queued'[d].attempts <= row[d].version + 1
    <3>1. \A d \in DispatchJobs \ {j} : queued'[d] = queued[d]
      BY <2>1
    <3>2. \/ queued'[j].attempts <= AttemptsOf[j]
          \/ queued'[j].attempts <= row[j].version + 1
      BY <2>1, <2>2, DispatchAssumption
    <3>. QED  BY <3>1, <3>2
  <2>6. DispatchTypeOK'
    BY <2>1, <2>2, <2>3, <2>4, <2>5
  <2>7. AttemptsOK'
    BY <2>1, <2>2
  <2>8. WorkedOK'
    BY <2>2, <2>4
  <2>9. InFlightIsExact'
    BY <2>3, <2>2, DispatchAssumption, InFlightGrows
  <2>. QED  BY <2>6, <2>7, <2>8, <2>9
<1>3. ASSUME NEW c \in Processors, WorkerReturned(c) \/ WorkerThrew(c)
      PROVE  DispatchInv'
  <2>1. PICK j \in DispatchJobs : j = running[c]
    BY <1>3 DEF WorkerReturned, WorkerThrew
  <2>2. /\ j # Vacant
        /\ running' = [running EXCEPT ![c] = Vacant]
        /\ inFlight' = inFlight \ {SlotOf[j]}
        /\ UNCHANGED <<started, row>>
    BY <1>3, <2>1 DEF WorkerReturned, WorkerThrew, Released
  <2>3. PICK st : /\ queued' = [queued EXCEPT ![j].status = st]
                  /\ st \in {"completed", "failed", "pending"}
                  /\ st = "pending" => queued[j].attempts < AttemptsOf[j]
    <3>1. CASE WorkerReturned(c)
      <4>1. PICK st : st = "completed"
        OBVIOUS
      <4>2. queued' = [queued EXCEPT ![j].status = st]
        BY <3>1, <2>1, <4>1 DEF WorkerReturned
      <4>3. st \in {"completed", "failed", "pending"} /\ st # "pending"
        BY <4>1
      <4>. QED  BY <4>2, <4>3, Zenon
    <3>2. CASE WorkerThrew(c)
      <4>1. PICK st : st = IF AttemptsLeft(j) THEN "pending" ELSE "failed"
        OBVIOUS
      <4>2. queued' = [queued EXCEPT ![j].status = st]
        BY <3>2, <2>1, <4>1 DEF WorkerThrew
      <4>3. /\ st \in {"completed", "failed", "pending"}
            /\ st = "pending" => queued[j].attempts < AttemptsOf[j]
        BY <4>1 DEF AttemptsLeft
      <4>. QED  BY <4>2, <4>3, Zenon
    <3>. QED  BY <1>3, <3>1, <3>2
  <2>4. PICK p : /\ promises' = promises \cup {p}
                 /\ p \in [op : {"complete", "fail"}, job : DispatchJobs, n : Nat]
                 /\ worked \subseteq worked' /\ worked' \subseteq worked \cup {j}
                 /\ p.op = "complete" => p.job \in worked'
    <3>1. CASE WorkerReturned(c)
      <4>1. PICK p : p = [op |-> "complete", job |-> j, n |-> queued[j].attempts]
        OBVIOUS
      <4>2. promises' = promises \cup {p} /\ worked' = worked \cup {j}
        BY <3>1, <2>1, <4>1 DEF WorkerReturned
      <4>. QED  BY <4>1, <4>2
    <3>2. CASE WorkerThrew(c)
      <4>1. PICK p : p = [op |-> "fail", job |-> j, n |-> queued[j].attempts]
        OBVIOUS
      <4>2. promises' = promises \cup {p} /\ worked' = worked
        BY <3>2, <2>1, <4>1 DEF WorkerThrew
      <4>. QED  BY <4>1, <4>2
    <3>. QED  BY <1>3, <3>1, <3>2
  <2>5. /\ queued'[j].status = st /\ queued'[j].attempts = queued[j].attempts
        /\ queued' \in [DispatchJobs -> [status : {"none", "pending", "running", "completed",
                                                   "failed"}, attempts : Nat]]
        /\ \A d \in DispatchJobs \ {j} : queued'[d] = queued[d]
    BY <2>3
  <2>6. \A d \in DispatchJobs :
          \/ queued'[d].attempts <= AttemptsOf[d]
          \/ queued'[d].attempts <= row[d].version + 1
    BY <2>5
  <2>7. DispatchTypeOK'
    BY <2>2, <2>4, <2>5, <2>6
  <2>8. AttemptsOK'
    BY <2>2, <2>3, <2>5
  <2>9. WorkedOK'
    BY <2>2, <2>4
  <2>10. InFlightIsExact'
    BY <2>1, <2>2, DispatchAssumption, InFlightShrinks
  <2>. QED  BY <2>7, <2>8, <2>9, <2>10
<1>4. ASSUME Load PROVE DispatchInv'
  <2>1. DispatchTypeOK' /\ AttemptsOK'
    BY <1>4, DispatchAssumption DEF Load
  <2>2. WorkedOK' /\ InFlightIsExact'
    BY <1>4 DEF Load, InFlightIsExact
  <2>. QED  BY <2>1, <2>2
<1>5. ASSUME SchedulerStarts \/ DispatchCrash PROVE DispatchInv'
  BY <1>5, DispatchAssumption DEF SchedulerStarts, DispatchCrash, InFlightIsExact
<1>. QED  BY <1>1, <1>2, <1>3, <1>4, <1>5 DEF ProcessorStep

\* The calls of the persistence, in any order, and the sweep of the leases.
LEMMA PersistenceKeeps ==
  ASSUME DispatchInv, DispatchNext,
         \/ \E j \in DispatchJobs : ReclaimRow(j)
         \/ \E p \in promises :
              Insert(p) \/ ClaimSome(p) \/ (\E missed \in BOOLEAN : EndRow(p, missed))
  PROVE  DispatchInv'
<1> USE DEF DispatchInv, DispatchTypeOK, AttemptsOK, WorkedOK, SucceededRowWasWorked
<1>1. ASSUME NEW j \in DispatchJobs, ReclaimRow(j) PROVE DispatchInv'
  BY <1>1 DEF ReclaimRow, InFlightIsExact
<1>2. ASSUME NEW p \in promises, Insert(p) PROVE DispatchInv'
  BY <1>2 DEF Insert, InFlightIsExact
<1>3. ASSUME NEW p \in promises, ClaimSome(p) PROVE DispatchInv'
  <2>1. CASE row' = row
    BY <2>1, <1>3 DEF ClaimSome, InFlightIsExact
  <2>2. ASSUME NEW j \in DispatchJobs,
               row' = [row EXCEPT ![j] = [status |-> "running", attempts |-> @.attempts + 1,
                                          version |-> @.version + 1]]
        PROVE  DispatchInv'
    <3>1. PICK r : r = [status |-> "running", attempts |-> row[j].attempts + 1,
                        version |-> row[j].version + 1]
      OBVIOUS
    <3>2. row' = [row EXCEPT ![j] = r]
      BY <2>2, <3>1
    <3>3. r \in [status : {"running"}, attempts : Nat, version : Nat]
      BY <3>1
    <3>4. /\ row'[j] = r /\ \A d \in DispatchJobs \ {j} : row'[d] = row[d]
          /\ row' \in [DispatchJobs -> [status : {"none", "pending", "running", "succeeded",
                                                  "failed"}, attempts : Nat, version : Nat]]
      BY <3>2, <3>3
    <3>5. r.status = "running" /\ r.version = row[j].version + 1
          /\ r.attempts = row[j].attempts + 1
      BY <3>1
    <3>6. /\ promises' = promises \ {p}
          /\ UNCHANGED <<queued, running, inFlight, started, worked>>
      BY <1>3 DEF ClaimSome
    <3>7. DispatchTypeOK'
      <4>1. \A d \in DispatchJobs : row[d].version <= row'[d].version /\ row'[d].version \in Nat
        BY <3>4, <3>5
      <4>2. \A d \in DispatchJobs :
              \/ queued[d].attempts <= AttemptsOf[d]
              \/ queued[d].attempts <= row'[d].version + 1
        BY <4>1
      <4>. QED  BY <4>2, <3>4, <3>6
    <3>8. AttemptsOK'
      BY <3>4, <3>5, <3>6
    <3>9. WorkedOK' /\ InFlightIsExact'
      BY <3>4, <3>5, <3>6 DEF InFlightIsExact
    <3>. QED  BY <3>7, <3>8, <3>9
  <2>. QED  BY <2>1, <2>2, <1>3 DEF ClaimSome
<1>4. ASSUME NEW p \in promises, NEW missed \in BOOLEAN, EndRow(p, missed) PROVE DispatchInv'
  BY <1>4 DEF EndRow, Ending, InFlightIsExact
<1>. QED  BY <1>1, <1>2, <1>3, <1>4

LEMMA DispatchStep == DispatchInv /\ [DispatchNext]_dispatchVars => DispatchInv'
<1> SUFFICES ASSUME DispatchInv, [DispatchNext]_dispatchVars PROVE DispatchInv'
  OBVIOUS
<1>1. CASE DispatchNext
  BY <1>1, ProcessorKeeps, PersistenceKeeps DEF DispatchNext
<1>2. CASE UNCHANGED dispatchVars
  BY <1>2 DEF dispatchVars, DispatchInv, DispatchTypeOK, AttemptsOK, WorkedOK,
     SucceededRowWasWorked, InFlightIsExact
<1>. QED  BY <1>1, <1>2

LEMMA DispatchInvariant == DispatchSpec => []DispatchInv
BY DispatchStarts, DispatchStep, PTL DEF DispatchSpec

\* The state of the dispatcher and of its rows has its type, and no job has more
\* attempts than it may.
THEOREM DispatchTypeCorrect == DispatchSpec => []DispatchTypeOK
<1>1. DispatchInv => DispatchTypeOK
  BY DEF DispatchInv
<1>. QED  BY <1>1, DispatchInvariant, PTL

\* No row succeeds whose worker never returned, in whatever order the calls that
\* nobody awaits reach the store (job-persistence-factory.ts:35).
THEOREM SucceededRowCorrect == DispatchSpec => []SucceededRowWasWorked
<1>1. DispatchInv => SucceededRowWasWorked
  BY DEF DispatchInv, WorkedOK
<1>. QED  BY <1>1, DispatchInvariant, PTL

\* The keys in flight are those of the jobs that run, and no two of these share
\* one (dispatcher.ts:129, :191).
THEOREM InFlightCorrect == DispatchSpec => []InFlightIsExact
<1>1. DispatchInv => InFlightIsExact
  BY DEF DispatchInv
<1>. QED  BY <1>1, DispatchInvariant, PTL

(***************************************************************************)
(* The agent loop.                                                         *)
(***************************************************************************)

LoopPhases == {"ready", "model", "tools", "retrying", "done", "error"}

Message == [role : {"assistant", "tool"}, calls : SUBSET ToolCalls,
            call : ToolCalls \cup {Submit}]

LoopTyped ==
  /\ loop \in [phase : LoopPhases, buffered : BOOLEAN, talker : BOOLEAN, text : BOOLEAN,
               todo : Seq(ToolCalls)]
  /\ messages \in Seq(Message)

CallsIn(msgs) == UNION {msgs[i].calls : i \in DOMAIN msgs}

Answered(msgs, i, c) ==
  \E j \in DOMAIN msgs :
    /\ j > i /\ msgs[j] = Result(c)
    /\ \A k \in DOMAIN msgs : msgs[k] = Result(c) => k = j

\* A conversation in which the calls of open, and these alone, wait for their
\* results.
ConversationOK(msgs, open) ==
  /\ open \subseteq CallsIn(msgs)
  /\ \A j \in DOMAIN msgs : \A c \in ToolCalls :
       msgs[j] = Result(c) => c \in CallsIn(msgs) \ open
  /\ \A i \in DOMAIN msgs : \A c \in msgs[i].calls \ open : Answered(msgs, i, c)

\* Before a run there is nothing; while a streaming run lives, the calls still
\* to be dealt with are those without a result.
StreamOK ==
  /\ loop.phase = "ready" => messages = <<>>
  /\ loop.phase \in {"ready", "model"} => loop.todo = <<>>
  /\ IsInjective(loop.todo)
  /\ loop.phase \in {"model", "tools"} /\ ~loop.buffered =>
       ConversationOK(messages, ToSet(loop.todo))

\* What was executed, as far as the properties tell it apart.
ExecutedOK ==
  /\ executions \in Seq({ToolOf[c] : c \in ToolCalls} \cup {Submit})
  /\ \A i \in DOMAIN executions :
       executions[i] \in turnToolsUsed \/ executions[i] = Submit
  /\ loop.phase # "done" => \A i \in DOMAIN executions : executions[i] # Submit
  /\ \A i, k \in DOMAIN executions :
       executions[i] = executions[k] /\ executions[i] \in OnceTools \ {Submit} => i = k

LoopInv == LoopTyped /\ StreamOK /\ ExecutedOK /\ SubmitIsLast

\* Dealing with the first call of an answer leaves the others.
LEMMA TailOfInjective ==
  ASSUME NEW S, NEW s \in Seq(S), s # <<>>, IsInjective(s)
  PROVE  /\ Tail(s) \in Seq(S) /\ Head(s) \in S /\ IsInjective(Tail(s))
         /\ ToSet(Tail(s)) = ToSet(s) \ {Head(s)} /\ Head(s) \in ToSet(s)
<1>1. /\ Tail(s) \in Seq(S) /\ Len(Tail(s)) = Len(s) - 1 /\ Len(s) \in Nat \ {0}
      /\ Head(s) = s[1] /\ s[1] \in S
      /\ \A i \in 1..Len(s) - 1 : Tail(s)[i] = s[i + 1]
  OBVIOUS
<1>2. IsInjective(Tail(s))
  BY <1>1 DEF IsInjective
<1>3. ASSUME NEW x \in ToSet(Tail(s)) PROVE x \in ToSet(s) \ {Head(s)}
  BY <1>1, <1>3 DEF ToSet, IsInjective
<1>4. ASSUME NEW x \in ToSet(s), x # Head(s) PROVE x \in ToSet(Tail(s))
  <2>1. PICK i \in 1..Len(s) : x = s[i]
    BY DEF ToSet
  <2>2. i # 1 /\ i - 1 \in 1..Len(s) - 1 /\ Tail(s)[i - 1] = s[i]
    BY <2>1, <1>1, <1>4
  <2>3. DOMAIN Tail(s) = 1..Len(s) - 1
    BY <1>1
  <2>4. \E k \in DOMAIN Tail(s) : x = Tail(s)[k]
    BY <2>1, <2>2, <2>3
  <2>. QED  BY <2>4 DEF ToSet
<1>. QED  BY <1>1, <1>2, <1>3, <1>4 DEF ToSet

\* The result of a call that waits answers it, and disturbs no other answer.
LEMMA ResultAnswers ==
  ASSUME NEW M, NEW msgs \in Seq(M), NEW open, NEW c, c \in open, c \in ToolCalls,
         open \subseteq ToolCalls, ConversationOK(msgs, open)
  PROVE  ConversationOK(Append(msgs, Result(c)), open \ {c})
<1> DEFINE next == Append(msgs, Result(c))
<1>1. /\ DOMAIN msgs = 1..Len(msgs) /\ DOMAIN next = 1..Len(msgs) + 1 /\ Len(msgs) \in Nat
      /\ \A i \in DOMAIN msgs : next[i] = msgs[i] /\ i \in DOMAIN next
      /\ next[Len(msgs) + 1] = Result(c) /\ Len(msgs) + 1 \in DOMAIN next
  OBVIOUS
<1> HIDE DEF next
<1>2. Result(c).calls = {}
  BY DEF Result
<1>3. \A d : Result(d) = Result(c) => d = c
  <2>1. \A d : Result(d).call = d
    BY DEF Result
  <2>. QED  BY <2>1
<1>4. CallsIn(next) = CallsIn(msgs)
  <2>1. ASSUME NEW x \in CallsIn(next) PROVE x \in CallsIn(msgs)
    <3>1. PICK i \in DOMAIN next : x \in next[i].calls
      BY DEF CallsIn
    <3>2. i \in DOMAIN msgs
      BY <3>1, <1>1, <1>2
    <3>. QED  BY <3>1, <3>2, <1>1 DEF CallsIn
  <2>2. ASSUME NEW x \in CallsIn(msgs) PROVE x \in CallsIn(next)
    <3>1. PICK i \in DOMAIN msgs : x \in msgs[i].calls
      BY DEF CallsIn
    <3>. QED  BY <3>1, <1>1 DEF CallsIn
  <2>. QED  BY <2>1, <2>2
<1>5. open \ {c} \subseteq CallsIn(next)
  BY <1>4 DEF ConversationOK
<1>6. ASSUME NEW j \in DOMAIN next, NEW d \in ToolCalls, next[j] = Result(d)
      PROVE  d \in CallsIn(next) \ (open \ {c})
  <2>1. CASE j \in DOMAIN msgs
    BY <2>1, <1>6, <1>1, <1>4 DEF ConversationOK
  <2>2. CASE j = Len(msgs) + 1
    BY <2>2, <1>6, <1>1, <1>3, <1>4 DEF ConversationOK
  <2>. QED  BY <2>1, <2>2, <1>1
<1>7. ASSUME NEW i \in DOMAIN next, NEW d \in next[i].calls \ (open \ {c})
      PROVE  Answered(next, i, d)
  <2>1. i \in DOMAIN msgs /\ d \in msgs[i].calls
    BY <1>1, <1>2
  <2>2. CASE d = c
    <3>1. \A k \in DOMAIN msgs : msgs[k] # Result(c)
      BY DEF ConversationOK
    <3>2. \A k \in DOMAIN next : next[k] = Result(c) => k = Len(msgs) + 1
      BY <3>1, <1>1
    <3>3. Len(msgs) + 1 > i
      BY <2>1, <1>1
    <3>. QED  BY <2>2, <3>2, <3>3, <1>1 DEF Answered
  <2>3. CASE d # c
    <3>1. Answered(msgs, i, d)
      BY <2>1, <2>3 DEF ConversationOK
    <3>2. PICK j \in DOMAIN msgs :
            /\ j > i /\ msgs[j] = Result(d)
            /\ \A k \in DOMAIN msgs : msgs[k] = Result(d) => k = j
      BY <3>1 DEF Answered
    <3>3. \A k \in DOMAIN next : next[k] = Result(d) => k = j
      BY <3>2, <1>1, <1>3, <2>3
    <3>. QED  BY <3>2, <3>3, <1>1 DEF Answered
  <2>. QED  BY <2>2, <2>3
<1>. QED  BY <1>5, <1>6, <1>7 DEF ConversationOK, next

\* An answer of the model whose calls are new leaves these, and no others, waiting.
LEMMA AnswerOpens ==
  ASSUME NEW M, NEW msgs \in Seq(M), NEW cs, ToSet(cs) \subseteq ToolCalls,
         ToSet(cs) \cap CallsIn(msgs) = {}, ConversationOK(msgs, {})
  PROVE  ConversationOK(Append(msgs, Said(cs)), ToSet(cs))
<1> DEFINE next == Append(msgs, Said(cs))
<1>1. /\ DOMAIN msgs = 1..Len(msgs) /\ DOMAIN next = 1..Len(msgs) + 1 /\ Len(msgs) \in Nat
      /\ \A i \in DOMAIN msgs : next[i] = msgs[i] /\ i \in DOMAIN next
      /\ next[Len(msgs) + 1] = Said(cs) /\ Len(msgs) + 1 \in DOMAIN next
  OBVIOUS
<1> HIDE DEF next
<1>2. Said(cs).calls = ToSet(cs)
  BY DEF Said
<1>3. \A d : Result(d) # Said(cs)
  <2>1. Said(cs).role = "assistant" /\ \A d : Result(d).role = "tool"
    BY DEF Result, Said
  <2>. QED  BY <2>1
<1>4. CallsIn(next) = CallsIn(msgs) \cup ToSet(cs)
  <2>1. ASSUME NEW x \in CallsIn(next) PROVE x \in CallsIn(msgs) \cup ToSet(cs)
    <3>1. PICK i \in DOMAIN next : x \in next[i].calls
      BY DEF CallsIn
    <3>2. CASE i \in DOMAIN msgs
      BY <3>1, <3>2, <1>1 DEF CallsIn
    <3>3. CASE i = Len(msgs) + 1
      BY <3>1, <3>3, <1>1, <1>2
    <3>. QED  BY <3>2, <3>3, <1>1
  <2>2. ASSUME NEW x \in CallsIn(msgs) PROVE x \in CallsIn(next)
    <3>1. PICK i \in DOMAIN msgs : x \in msgs[i].calls
      BY DEF CallsIn
    <3>. QED  BY <3>1, <1>1 DEF CallsIn
  <2>3. ASSUME NEW x \in ToSet(cs) PROVE x \in CallsIn(next)
    BY <1>1, <1>2 DEF CallsIn
  <2>. QED  BY <2>1, <2>2, <2>3
<1>5. ASSUME NEW j \in DOMAIN next, NEW d \in ToolCalls, next[j] = Result(d)
      PROVE  d \in CallsIn(next) \ ToSet(cs)
  <2>1. j \in DOMAIN msgs
    BY <1>5, <1>1, <1>3
  <2>. QED  BY <2>1, <1>5, <1>1, <1>4 DEF ConversationOK
<1>6. ASSUME NEW i \in DOMAIN next, NEW d \in next[i].calls \ ToSet(cs)
      PROVE  Answered(next, i, d)
  <2>1. i \in DOMAIN msgs /\ d \in msgs[i].calls
    BY <1>1, <1>2
  <2>2. Answered(msgs, i, d)
    BY <2>1 DEF ConversationOK
  <2>3. PICK j \in DOMAIN msgs :
          /\ j > i /\ msgs[j] = Result(d)
          /\ \A k \in DOMAIN msgs : msgs[k] = Result(d) => k = j
    BY <2>2 DEF Answered
  <2>4. \A k \in DOMAIN next : next[k] = Result(d) => k = j
    BY <2>3, <1>1, <1>3
  <2>. QED  BY <2>3, <2>4, <1>1 DEF Answered
<1>. QED  BY <1>4, <1>5, <1>6 DEF ConversationOK, next

LEMMA LoopStarts == LoopInit => LoopInv
<1> SUFFICES ASSUME LoopInit PROVE LoopInv
  OBVIOUS
<1>1. LoopTyped /\ ExecutedOK /\ SubmitIsLast
  BY DEF LoopInit, LoopTyped, LoopPhases, ExecutedOK, SubmitIsLast
<1>2. StreamOK
  BY DEF LoopInit, StreamOK, IsInjective
<1>. QED  BY <1>1, <1>2 DEF LoopInv

\* What the calls of an answer are: a sequence of new calls, each once.
LEMMA AnswersAre ==
  ASSUME NEW cs \in Answers
  PROVE  /\ cs \in Seq(ToolCalls) /\ IsInjective(cs) /\ ToSet(cs) \subseteq ToolCalls
         /\ ToSet(cs) \cap CallsIn(messages) = {}
<1>1. cs \in Seq(ToolCalls \ CallsSoFar)
  BY LoopAssumption DEF Answers, SeqOf
<1>2. \A i \in DOMAIN cs : cs[i] \in ToolCalls \ CallsSoFar
  BY <1>1
<1>3. IsInjective(cs)
  BY DEF Answers
<1>4. CallsIn(messages) = CallsSoFar
  BY DEF CallsIn, CallsSoFar
<1>5. cs \in Seq(ToolCalls)
  BY <1>1, <1>2
<1>. QED  BY <1>2, <1>3, <1>4, <1>5 DEF ToSet

\* The call a step of the tools deals with is the first of those left.
LEMMA HeadOfTodo ==
  ASSUME LoopInv, NEW c \in ToolCalls, ToolStep(c)
  PROVE  /\ loop.phase = "tools" /\ c = Head(loop.todo) /\ c \in ToSet(loop.todo)
         /\ Tail(loop.todo) \in Seq(ToolCalls) /\ IsInjective(Tail(loop.todo))
         /\ ToSet(Tail(loop.todo)) = ToSet(loop.todo) \ {c}
         /\ ToSet(loop.todo) \subseteq ToolCalls
<1>1. loop.todo \in Seq(ToolCalls) /\ IsInjective(loop.todo)
  BY DEF LoopInv, LoopTyped, StreamOK
<1>2. loop.phase = "tools" /\ c = Head(loop.todo) /\ loop.todo # <<>>
  BY DEF ToolStep
<1>3. ToSet(loop.todo) \subseteq ToolCalls
  BY <1>1 DEF ToSet
<1>. QED  BY <1>1, <1>2, <1>3, TailOfInjective

LEMMA LoopTypedStep ==
  ASSUME LoopInv, LoopNext
  PROVE  LoopTyped'
<1> USE DEF LoopInv, LoopTyped, LoopPhases
<1>0. <<>> \in Seq(ToolCalls)
  OBVIOUS
<1>1. ASSUME NEW how \in LoopPhases, Ends(how), messages' = messages PROVE LoopTyped'
  BY <1>0, <1>1 DEF Ends
<1>2. ASSUME NEW buffered \in BOOLEAN, NEW talker \in BOOLEAN, StartRun(buffered, talker)
      PROVE  LoopTyped'
  BY <1>2 DEF StartRun
<1>3. ASSUME NEW cs \in Answers, NEW text \in BOOLEAN, ModelAnswers(cs, text)
      PROVE  LoopTyped'
  <2>1. cs \in Seq(ToolCalls) /\ ToSet(cs) \subseteq ToolCalls
    BY AnswersAre
  <2>2. Said(cs) \in Message
    BY <2>1 DEF Said, Message
  <2>3. messages' \in Seq(Message)
    BY <2>2, <1>3 DEF ModelAnswers
  <2>4. loop' \in [phase : LoopPhases, buffered : BOOLEAN, talker : BOOLEAN, text : BOOLEAN,
                   todo : Seq(ToolCalls)]
    <3>1. CASE cs # <<>>
      BY <3>1, <2>1, <1>3 DEF ModelAnswers, AfterAnswer
    <3>2. CASE cs = <<>>
      BY <3>2, <1>0, <1>3 DEF ModelAnswers, AfterAnswer, Ends
    <3>. QED  BY <3>1, <3>2
  <2>. QED  BY <2>3, <2>4
<1>4. ASSUME NEW submits \in BOOLEAN, Retry(submits) PROVE LoopTyped'
  BY <1>4, <1>1 DEF Retry
<1>5. ASSUME NEW c \in ToolCalls, ToolStep(c) PROVE LoopTyped'
  <2>1. Tail(loop.todo) \in Seq(ToolCalls)
    BY <1>5, HeadOfTodo
  <2>2. Result(c) \in Message
    BY DEF Result, Message
  <2>3. CASE Refuse(c)
    BY <2>1, <2>3, <1>1 DEF Refuse
  <2>4. CASE Execute(c)
    <3>1. CASE Ends("done") /\ messages' = messages
      BY <3>1, <1>1
    <3>2. CASE messages' = Append(messages, Result(c)) /\ loop' = [loop EXCEPT !.todo = Tail(@)]
      <4>1. messages' \in Seq(Message)
        BY <3>2, <2>2
      <4>2. loop' \in [phase : LoopPhases, buffered : BOOLEAN, talker : BOOLEAN,
                       text : BOOLEAN, todo : Seq(ToolCalls)]
        BY <3>2, <2>1
      <4>. QED  BY <4>1, <4>2
    <3>. QED  BY <2>4, <3>1, <3>2 DEF Execute
  <2>5. CASE ToolThrows(c)
    BY <2>5, <1>1 DEF ToolThrows
  <2>. QED  BY <2>3, <2>4, <2>5, <1>5 DEF ToolStep
<1>6. ASSUME ModelFails PROVE LoopTyped'
  BY <1>6, <1>1 DEF ModelFails
<1>7. ASSUME CallAgain PROVE LoopTyped'
  BY <1>7, <1>1 DEF CallAgain
<1>. QED  BY <1>2, <1>3, <1>4, <1>5, <1>6, <1>7 DEF LoopNext

\* The conversation and the calls left to deal with move together.
LEMMA StreamStep ==
  ASSUME LoopInv, LoopNext
  PROVE  StreamOK'
<1> USE DEF LoopInv, LoopTyped, StreamOK
<1>0. IsInjective(<<>>) /\ ToSet(<<>>) = {}
  BY DEF IsInjective, ToSet
<1>1. ASSUME NEW how \in {"done", "error", "retrying"}, Ends(how) PROVE StreamOK'
  BY <1>0, <1>1 DEF Ends
<1>2. ASSUME NEW buffered \in BOOLEAN, NEW talker \in BOOLEAN, StartRun(buffered, talker)
      PROVE  StreamOK'
  <2>1. /\ messages' = <<>> /\ loop'.todo = <<>> /\ loop'.phase = "model"
    BY <1>2 DEF StartRun
  <2>2. ConversationOK(<<>>, {})
    BY DEF ConversationOK, CallsIn
  <2>. QED  BY <2>1, <2>2, <1>0
<1>3. ASSUME NEW cs \in Answers, NEW text \in BOOLEAN, ModelAnswers(cs, text)
      PROVE  StreamOK'
  <2>1. CASE cs # <<>>
    <3>1. /\ messages' = Append(messages, Said(cs)) /\ loop'.phase = "tools"
          /\ loop'.todo = cs /\ loop'.buffered = loop.buffered
      BY <2>1, <1>3 DEF ModelAnswers, AfterAnswer
    <3>2. ~loop.buffered => ConversationOK(messages, {})
      BY <1>0, <1>3 DEF ModelAnswers
    <3>3. ~loop.buffered => ConversationOK(Append(messages, Said(cs)), ToSet(cs))
      BY <3>2, AnswersAre, AnswerOpens
    <3>. QED  BY <3>1, <3>3, AnswersAre
  <2>2. CASE cs = <<>>
    BY <2>2, <1>1, <1>3 DEF ModelAnswers, AfterAnswer
  <2>. QED  BY <2>1, <2>2
<1>4. ASSUME NEW submits \in BOOLEAN, Retry(submits) PROVE StreamOK'
  BY <1>4, <1>1 DEF Retry
<1>5. ASSUME NEW c \in ToolCalls, ToolStep(c) PROVE StreamOK'
  <2>0. /\ loop.phase = "tools" /\ c \in ToSet(loop.todo) /\ IsInjective(Tail(loop.todo))
        /\ ToSet(Tail(loop.todo)) = ToSet(loop.todo) \ {c}
        /\ ToSet(loop.todo) \subseteq ToolCalls
    BY <1>5, HeadOfTodo
  <2>1. CASE \E how \in {"done", "error"} : Ends(how)
    BY <2>1, <1>1
  <2>2. CASE loop' = [loop EXCEPT !.todo = Tail(@)] /\ loop.buffered
    BY <2>0, <2>2
  <2>3. CASE loop' = [loop EXCEPT !.todo = Tail(@)] /\ messages' = Append(messages, Result(c))
    <3>1. ~loop.buffered =>
            ConversationOK(Append(messages, Result(c)), ToSet(loop.todo) \ {c})
      BY <2>0, ResultAnswers
    <3>2. loop'.todo = Tail(loop.todo) /\ loop'.phase = "tools" /\ loop'.buffered = loop.buffered
      BY <2>0, <2>3
    <3>. QED  BY <2>0, <2>3, <3>1, <3>2
  <2>. QED  BY <1>5, <2>1, <2>2, <2>3 DEF ToolStep, Refuse, Execute, ToolThrows
<1>6. ASSUME ModelFails PROVE StreamOK'
  BY <1>6, <1>1 DEF ModelFails
<1>7. ASSUME CallAgain PROVE StreamOK'
  <2>1. CASE loop.buffered /\ loop.text
    BY <2>1, <1>1, <1>7 DEF CallAgain
  <2>2. CASE ~(loop.buffered /\ loop.text)
    BY <2>2, <1>0, <1>7 DEF CallAgain
  <2>. QED  BY <2>1, <2>2
<1>. QED  BY <1>2, <1>3, <1>4, <1>5, <1>6, <1>7 DEF LoopNext

\* Nothing of cardinality once is executed twice, and nothing after the outcome.
LEMMA ExecutedStep ==
  ASSUME LoopInv, LoopNext
  PROVE  ExecutedOK' /\ SubmitIsLast'
<1> USE DEF LoopInv, LoopTyped, ExecutedOK, SubmitIsLast
<1>1. ASSUME NEW t \in {ToolOf[c] : c \in ToolCalls} \cup {Submit},
             executions' = Append(executions, t)
      PROVE  /\ executions' \in Seq({ToolOf[c] : c \in ToolCalls} \cup {Submit})
             /\ DOMAIN executions = 1..Len(executions) /\ Len(executions) \in Nat
             /\ DOMAIN executions' = 1..Len(executions) + 1
             /\ Len(executions') = Len(executions) + 1
             /\ executions'[Len(executions) + 1] = t
             /\ \A i \in DOMAIN executions : executions'[i] = executions[i]
  BY <1>1
<1>2. ASSUME UNCHANGED <<executions, turnToolsUsed>>, loop.phase # "done"
      PROVE  ExecutedOK' /\ SubmitIsLast'
  BY <1>2
<1>3. ASSUME NEW submits \in BOOLEAN, Retry(submits) PROVE ExecutedOK' /\ SubmitIsLast'
  <2>1. loop.phase # "done" /\ loop'.phase = "done" /\ turnToolsUsed' = turnToolsUsed
    BY <1>3 DEF Retry, Ends
  <2>2. CASE executions' = executions
    BY <2>1, <2>2, <1>2
  <2>3. CASE executions' = Append(executions, Submit)
    <3>1. ExecutedOK'
      BY <2>1, <2>3, <1>1
    <3>2. SubmitIsLast'
      BY <2>1, <2>3, <1>1
    <3>. QED  BY <3>1, <3>2
  <2>. QED  BY <1>3, <2>2, <2>3 DEF Retry
<1>4. ASSUME NEW c \in ToolCalls, ToolStep(c), Execute(c) PROVE ExecutedOK' /\ SubmitIsLast'
  <2>1. /\ executions' = Append(executions, ToolOf[c])
        /\ turnToolsUsed' = turnToolsUsed \cup {ToolOf[c]}
        /\ ~(ToolOf[c] \in OnceTools /\ ToolOf[c] \in turnToolsUsed)
        /\ loop.phase # "done"
    BY <1>4 DEF Execute, CanExecuteTool, ToolStep
  <2>2. ToolOf[c] = Submit => loop'.phase = "done"
    BY <1>4 DEF Execute, Ends
  <2>3. \A i \in DOMAIN executions : executions[i] # Submit
    BY <2>1
  <2>4. ExecutedOK'
    BY <2>1, <2>2, <2>3, <1>1
  <2>5. SubmitIsLast'
    BY <2>1, <2>2, <2>3, <1>1
  <2>. QED  BY <2>4, <2>5
<1>5. ASSUME NEW c \in ToolCalls, ToolStep(c), ~Execute(c) PROVE ExecutedOK' /\ SubmitIsLast'
  <2>1. UNCHANGED <<executions, turnToolsUsed>> /\ loop.phase # "done"
    BY <1>5 DEF ToolStep, Refuse, ToolThrows
  <2>. QED  BY <2>1, <1>2
<1>6. ASSUME ~\E submits \in BOOLEAN : Retry(submits), ~\E c \in ToolCalls : ToolStep(c)
      PROVE  ExecutedOK' /\ SubmitIsLast'
  <2>1. UNCHANGED <<executions, turnToolsUsed>> /\ loop.phase # "done"
    BY <1>6 DEF LoopNext, StartRun, ModelFails, ModelAnswers, CallAgain
  <2>. QED  BY <2>1, <1>2
<1>. QED  BY <1>3, <1>4, <1>5, <1>6

LEMMA LoopStep == LoopInv /\ [LoopNext]_loopVars => LoopInv'
<1> SUFFICES ASSUME LoopInv, [LoopNext]_loopVars PROVE LoopInv'
  OBVIOUS
<1>1. CASE LoopNext
  BY <1>1, LoopTypedStep, StreamStep, ExecutedStep DEF LoopInv
<1>2. CASE UNCHANGED loopVars
  BY <1>2 DEF loopVars, LoopInv, LoopTyped, StreamOK, ExecutedOK, SubmitIsLast
<1>. QED  BY <1>1, <1>2

LEMMA LoopInvariant == LoopSpec => []LoopInv
BY LoopStarts, LoopStep, PTL DEF LoopSpec

\* When a streaming run calls the model again, each of its tool calls has one
\* result, after it (agent-loop.ts:151), whatever the model asked for.
THEOREM ToolUseCorrect == LoopSpec => []ToolUseAnswered
<1>1. LoopInv => ToolUseAnswered
  <2> SUFFICES ASSUME LoopInv, loop.phase = "model", ~loop.buffered,
                      NEW i \in DOMAIN messages, NEW c \in messages[i].calls
               PROVE  Answered(messages, i, c)
    BY DEF ToolUseAnswered, Answered
  <2>1. ConversationOK(messages, ToSet(loop.todo)) /\ loop.todo = <<>>
    BY DEF LoopInv, StreamOK
  <2>2. ToSet(loop.todo) = {}
    BY <2>1 DEF ToSet
  <2>. QED  BY <2>1, <2>2 DEF ConversationOK
<1>. QED  BY <1>1, LoopInvariant, PTL

\* A tool of cardinality once is executed at most once in a run, however often
\* the model asks for it (tool-access-policy.ts:113).
THEOREM OncePerRunCorrect == LoopSpec => []OncePerRun
<1>1. LoopInv => OncePerRun
  <2> SUFFICES ASSUME LoopInv, NEW t \in OnceTools \ {Submit}
               PROVE  Cardinality({i \in DOMAIN executions : executions[i] = t}) <= 1
    BY DEF OncePerRun
  <2> DEFINE mine == {i \in DOMAIN executions : executions[i] = t}
  <2>1. \A i, k \in mine : i = k
    BY DEF LoopInv, ExecutedOK
  <2> SUFFICES Cardinality(mine) <= 1
    OBVIOUS
  <2> HIDE DEF mine
  <2>2. CASE mine = {}
    BY <2>2, FS_EmptySet
  <2>3. CASE mine # {}
    <3>1. PICK i : mine = {i}
      BY <2>1, <2>3
    <3>2. Cardinality({i}) = 1
      BY FS_Singleton
    <3>. QED  BY <3>1, <3>2
  <2>. QED  BY <2>2, <2>3
<1>. QED  BY <1>1, LoopInvariant, PTL

\* Nothing is executed after the outcome of a buffered run (agent-loop.ts:671).
THEOREM SubmitIsLastCorrect == LoopSpec => []SubmitIsLast
<1>1. LoopInv => SubmitIsLast
  BY DEF LoopInv
<1>. QED  BY <1>1, LoopInvariant, PTL

(***************************************************************************)
(* The flush of a session's log.                                           *)
(***************************************************************************)

InFlush == {"selected", "queued", "migrated"}

\* The range of a flush lies within the log, and reaches back to every record
\* before its end that nobody has processed; when its migration has committed,
\* it has read them all.
RangeOK(k, log) ==
  k.phase \in InFlush =>
    /\ k.hi \in DOMAIN log
    /\ \A i \in 1..k.hi : log[i].processed \/ i >= k.lo
    /\ k.phase = "migrated" => \A i \in 1..k.hi : log[i].processed \/ log[i].migrated

RangesOK == \A c \in Callers : RangeOK(call[c], records)

\* A migration that has committed is the first in the tail.
TailOK ==
  \A c \in Callers :
    call[c].phase = "migrated" => migrateTail # <<>> /\ Head(migrateTail) = c

\* The rows of a request are those of one settlement, an index is used once,
\* and lies below the number of rows; so does the next one, when it was read.
RowsKeyed(rows) ==
  /\ IsFiniteSet(rows)
  /\ \A r, s \in rows : r.index = s.index => r = s
  /\ \A r \in rows :
       \E base \in Nat, reply \in BOOLEAN : {s \in rows : s.req = r.req} = Rows(r.req, base, reply)
  /\ \A r \in rows : r.index \in Nat /\ r.index < Cardinality(rows)

RowsOK ==
  /\ RowsKeyed(interaction_records)
  /\ \A c \in Callers : call[c].phase = "inserting" => call[c].base <= NextIndex

\* A turn that may write has its request.
Writing == {"open", "admitted", "running", "settling", "inserting"}

RequestsOK == \A c \in Callers : call[c].phase \in Writing => call[c].req \in Requests

FlushInv ==
  FlushTypeOK /\ ProcessedIsAccounted /\ RangesOK /\ TailOK /\ RowsOK /\ RequestsOK

\* A set of record indexes has a least and a greatest member.
LEMMA MinIsLeast ==
  ASSUME NEW S \in SUBSET Nat, S # {}
  PROVE  Min(S) \in S /\ \A k \in S : Min(S) <= k
<1>1. PICK m \in S : \A k \in S : ~ <<k, m>> \in OpToRel(<, Nat)
  BY NatLessThanWellFounded, WFMin
<1>2. \A k \in S : ~ k < m
  BY <1>1 DEF OpToRel
<1>3. \A k \in S : m <= k
  BY <1>2
<1>. QED  BY <1>3 DEF Min

LEMMA MaxIsGreatest ==
  ASSUME NEW n \in Nat, NEW S \in SUBSET (1..n), S # {}
  PROVE  Max(S) \in S /\ \A k \in S : k <= Max(S)
<1> DEFINE T == {n - k : k \in S}
<1>1. T \in SUBSET Nat /\ T # {}
  BY \A k \in 1..n : n - k \in Nat
<1>2. Min(T) \in T /\ \A k \in T : Min(T) <= k
  BY <1>1, MinIsLeast
<1>3. PICK x \in S : Min(T) = n - x
  BY <1>2
<1>4. \A k \in S : n - x <= n - k
  BY <1>2, <1>3
<1>5. \A k \in S : x >= k
  BY <1>4
<1>. QED  BY <1>5 DEF Max

(* What a step may do to the log: add records, and say more of those there are. *)

LogGrows(log, new) ==
  /\ DOMAIN log \subseteq DOMAIN new
  /\ \A i \in DOMAIN log :
       /\ log[i].processed => new[i].processed
       /\ log[i].migrated => new[i].migrated

Accounted(log) == \A i \in DOMAIN log : log[i].processed => log[i].migrated \/ log[i].failed

LogOK(log, new) == new \in Seq(Entry) /\ LogGrows(log, new) /\ Accounted(new)

LEMMA LogStays ==
  ASSUME NEW log \in Seq(Entry), Accounted(log)
  PROVE  LogOK(log, log)
BY DEF LogOK, LogGrows, Accounted

LEMMA LogAppends ==
  ASSUME NEW log \in Seq(Entry), Accounted(log), NEW q \in Requests,
         NEW kind \in {"user", "assistant", "status"}
  PROVE  LogOK(log, Append(log, NewEntry(q, kind)))
<1>1. PICK entry : entry = NewEntry(q, kind)
  OBVIOUS
<1>2. entry \in Entry /\ ~entry.processed /\ ~entry.migrated
  BY <1>1 DEF NewEntry, Entry
<1> DEFINE new == Append(log, entry)
<1>3. /\ new \in Seq(Entry) /\ Len(log) \in Nat /\ DOMAIN log = 1..Len(log)
      /\ DOMAIN new = 1..Len(log) + 1 /\ new[Len(log) + 1] = entry
      /\ \A i \in DOMAIN log : new[i] = log[i]
  BY <1>2
<1> HIDE DEF new
<1>4. LogGrows(log, new)
  BY <1>3 DEF LogGrows
<1>5. Accounted(new)
  BY <1>2, <1>3 DEF Accounted
<1>. QED  BY <1>1, <1>3, <1>4, <1>5 DEF LogOK, new

\* A log whose every record is what it was, or has one of its flags raised.
LEMMA LogMaps ==
  ASSUME NEW log \in Seq(Entry), Accounted(log), NEW new, NEW S,
         new = [i \in DOMAIN log |-> IF i \in S THEN new[i] ELSE log[i]],
         \A i \in DOMAIN log : i \in S =>
           /\ new[i] \in Entry
           /\ log[i].processed => new[i].processed
           /\ log[i].migrated => new[i].migrated
           /\ new[i].processed => new[i].migrated \/ new[i].failed
  PROVE  LogOK(log, new)
<1>1. DOMAIN new = DOMAIN log /\ \A i \in DOMAIN log : i \notin S => new[i] = log[i]
  OBVIOUS
<1>2. \A i \in DOMAIN log : new[i] \in Entry
  BY <1>1
<1>3. DOMAIN log = 1..Len(log) /\ Len(log) \in Nat
  OBVIOUS
<1>4. new \in [1..Len(log) -> Entry]
  BY <1>1, <1>2, <1>3
<1>5. new \in Seq(Entry)
  BY <1>3, <1>4
<1>6. LogGrows(log, new)
  BY <1>1 DEF LogGrows
<1>7. Accounted(new)
  BY <1>1 DEF Accounted
<1>. QED  BY <1>5, <1>6, <1>7 DEF LogOK

\* A failed turn takes a range out of the log.
LEMMA LogFails ==
  ASSUME NEW log \in Seq(Entry), Accounted(log), NEW lo \in Nat, NEW hi \in Nat
  PROVE  LogOK(log, MarkRange(log, lo, hi))
<1>1. PICK new : new = MarkRange(log, lo, hi)
  OBVIOUS
<1>2. \A i \in DOMAIN log : log[i] \in Entry
  OBVIOUS
<1>3. \A i \in DOMAIN log : new[i] = IF i \in lo..hi
        THEN [log[i] EXCEPT !.processed = TRUE, !.failed = TRUE] ELSE log[i]
  BY <1>1 DEF MarkRange
<1>4. new = [i \in DOMAIN log |-> IF i \in lo..hi THEN new[i] ELSE log[i]]
  BY <1>1, <1>3, Zenon DEF MarkRange
<1>5. ASSUME NEW i \in DOMAIN log, i \in lo..hi
      PROVE  /\ new[i] \in Entry /\ new[i].processed /\ new[i].failed
             /\ new[i].migrated = log[i].migrated
  <2>1. new[i] = [log[i] EXCEPT !.processed = TRUE, !.failed = TRUE]
    BY <1>3, <1>5
  <2>. QED  BY <2>1, <1>2 DEF Entry
<1>6. \A i \in DOMAIN log : i \in lo..hi =>
        /\ new[i] \in Entry
        /\ log[i].processed => new[i].processed
        /\ log[i].migrated => new[i].migrated
        /\ new[i].processed => new[i].migrated \/ new[i].failed
  BY <1>5, Zenon
<1>7. LogOK(log, new)
  BY <1>4, <1>6, LogMaps
<1>. QED  BY <1>1, <1>7, Zenon

\* A migration that commits has read its range.
LEMMA LogMigrates ==
  ASSUME NEW log \in Seq(Entry), Accounted(log), NEW lo \in Nat, NEW hi \in Nat, NEW new,
         new = [i \in DOMAIN log |->
                  IF i \in lo..hi THEN [log[i] EXCEPT !.migrated = TRUE] ELSE log[i]]
  PROVE  LogOK(log, new) /\ \A i \in DOMAIN log : i \in lo..hi => new[i].migrated
<1>2. \A i \in DOMAIN log : log[i] \in Entry
  OBVIOUS
<1>3. \A i \in DOMAIN log : new[i] = IF i \in lo..hi
        THEN [log[i] EXCEPT !.migrated = TRUE] ELSE log[i]
  OBVIOUS
<1>4. new = [i \in DOMAIN log |-> IF i \in lo..hi THEN new[i] ELSE log[i]]
  BY <1>3, Zenon
<1>5. ASSUME NEW i \in DOMAIN log, i \in lo..hi
      PROVE  /\ new[i] \in Entry /\ new[i].processed = log[i].processed
             /\ new[i].migrated
  <2>1. new[i] = [log[i] EXCEPT !.migrated = TRUE]
    BY <1>3, <1>5
  <2>. QED  BY <2>1, <1>2 DEF Entry
<1>. QED  BY <1>4, <1>5, LogMaps

\* What is marked up to hi was processed before, or read by the migration.
LEMMA LogProcesses ==
  ASSUME NEW log \in Seq(Entry), Accounted(log), NEW hi \in Nat, NEW new,
         \A i \in DOMAIN log : i <= hi => log[i].processed \/ log[i].migrated,
         new = [i \in DOMAIN log |->
                  IF i <= hi THEN [log[i] EXCEPT !.processed = TRUE] ELSE log[i]]
  PROVE  LogOK(log, new)
<1>2. \A i \in DOMAIN log : log[i] \in Entry /\ i \in Nat
  OBVIOUS
<1> DEFINE S == {i \in DOMAIN log : i <= hi}
<1>3. \A i \in DOMAIN log : new[i] = IF i <= hi
        THEN [log[i] EXCEPT !.processed = TRUE] ELSE log[i]
  OBVIOUS
<1>4. new = [i \in DOMAIN log |-> IF i \in S THEN new[i] ELSE log[i]]
  BY <1>3
<1>5. ASSUME NEW i \in DOMAIN log, i \in S
      PROVE  /\ new[i] \in Entry /\ new[i].processed
             /\ new[i].migrated = log[i].migrated /\ new[i].failed = log[i].failed
  <2>1. new[i] = [log[i] EXCEPT !.processed = TRUE]
    BY <1>3, <1>5
  <2>. QED  BY <2>1, <1>2 DEF Entry
<1>6. \A i \in DOMAIN log : i \in S =>
        /\ new[i] \in Entry
        /\ log[i].processed => new[i].processed
        /\ log[i].migrated => new[i].migrated
        /\ new[i].processed => new[i].migrated \/ new[i].failed
  BY <1>5 DEF Accounted
<1> HIDE DEF S
<1>. QED  BY <1>4, <1>6, LogMaps

(* The rows of the settlements. *)

LEMMA RowsAre ==
  ASSUME NEW q, NEW base \in Nat, NEW reply \in BOOLEAN, NEW new, new = Rows(q, base, reply)
  PROVE  /\ IsFiniteSet(new) /\ Cardinality(new) \in Nat
         /\ \A r \in new : r.req = q /\ r.index \in base..base + 2
                           /\ r.index < base + Cardinality(new)
         /\ \A r, s \in new : r.index = s.index => r = s
         /\ \E r \in new : r.kind = "settlement"
<1>1. PICK u : u = [index |-> base, req |-> q, kind |-> "user"]
  OBVIOUS
<1>2. PICK t : t = [index |-> base + 1, req |-> q, kind |-> "settlement"]
  OBVIOUS
<1>3. PICK a : a = [index |-> base + 2, req |-> q, kind |-> "assistant"]
  OBVIOUS
<1>4. /\ u.index = base /\ t.index = base + 1 /\ a.index = base + 2
      /\ u.req = q /\ t.req = q /\ a.req = q /\ t.kind = "settlement"
  BY <1>1, <1>2, <1>3
<1>5. u # t /\ u # a /\ t # a
  BY <1>4
<1>6. IsFiniteSet({u, t}) /\ Cardinality({u, t}) = 2
  <2>1. IsFiniteSet({u}) /\ Cardinality({u}) = 1
    BY FS_Singleton
  <2>2. IsFiniteSet({u} \cup {t}) /\ Cardinality({u} \cup {t}) = 2
    BY <2>1, <1>5, FS_AddElement
  <2>3. {u} \cup {t} = {u, t}
    OBVIOUS
  <2>. QED  BY <2>2, <2>3
<1>7. IsFiniteSet({u, t, a}) /\ Cardinality({u, t, a}) = 3
  <2>1. IsFiniteSet({u, t} \cup {a}) /\ Cardinality({u, t} \cup {a}) = 3
    BY <1>6, <1>5, FS_AddElement
  <2>2. {u, t} \cup {a} = {u, t, a}
    OBVIOUS
  <2>. QED  BY <2>1, <2>2
<1>8. new = IF reply THEN {u, t, a} ELSE {u, t}
  <2>1. new = {u, t} \cup IF reply THEN {a} ELSE {}
    BY <1>1, <1>2, <1>3, Zenon DEF Rows
  <2>. QED  BY <2>1
<1>9. CASE reply
  <2>1. new = {u, t, a} /\ Cardinality(new) = 3 /\ IsFiniteSet(new)
    BY <1>7, <1>8, <1>9
  <2>2. \A r \in new : r = u \/ r = t \/ r = a
    BY <2>1
  <2>. QED  BY <1>4, <2>1, <2>2
<1>10. CASE ~reply
  <2>1. new = {u, t} /\ Cardinality(new) = 2 /\ IsFiniteSet(new)
    BY <1>6, <1>8, <1>10
  <2>2. \A r \in new : r = u \/ r = t
    BY <2>1
  <2>. QED  BY <1>4, <2>1, <2>2
<1>. QED  BY <1>9, <1>10

\* A settlement that meets none of the keys adds the rows of a new request,
\* above those there are in number if not in index.
LEMMA SettlementKeeps ==
  ASSUME NEW old, RowsKeyed(old), NEW q, NEW base \in Nat, base <= Cardinality(old),
         NEW reply \in BOOLEAN, NEW new, new = Rows(q, base, reply),
         \A n \in new, r \in old :
           /\ n.index # r.index
           /\ ~(n.kind = "settlement" /\ r.kind = "settlement" /\ n.req = r.req)
  PROVE  RowsKeyed(old \cup new) /\ Cardinality(old) <= Cardinality(old \cup new)
<1> DEFINE both == old \cup new
<1>1. /\ IsFiniteSet(new) /\ Cardinality(new) \in Nat
      /\ \A r \in new : r.req = q /\ r.index \in base..base + 2
                        /\ r.index < base + Cardinality(new)
      /\ \A r, s \in new : r.index = s.index => r = s
      /\ \E r \in new : r.kind = "settlement"
  BY RowsAre
<1>2. IsFiniteSet(old) /\ Cardinality(old) \in Nat
  BY FS_CardinalityType DEF RowsKeyed
<1>3. IsFiniteSet(both) /\ Cardinality(both) = Cardinality(old) + Cardinality(new)
  <2>1. old \cap new = {}
    OBVIOUS
  <2>2. Cardinality(old \cap new) = 0
    BY <2>1, FS_EmptySet
  <2>3. /\ IsFiniteSet(old \cup new)
        /\ Cardinality(old \cup new) =
             Cardinality(old) + Cardinality(new) - Cardinality(old \cap new)
    BY <1>1, <1>2, FS_Union, Zenon
  <2>. QED  BY <1>1, <1>2, <2>2, <2>3
<1>4. \A r, s \in both : r.index = s.index => r = s
  BY <1>1 DEF RowsKeyed
<1>5. \A r \in old : r.req # q
  <2>1. SUFFICES ASSUME NEW r \in old, r.req = q PROVE FALSE
    OBVIOUS
  <2>2. PICK b \in Nat, p \in BOOLEAN : {s \in old : s.req = q} = Rows(q, b, p)
    BY <2>1 DEF RowsKeyed
  <2>3. PICK s \in old : s.req = q /\ s.kind = "settlement"
    BY <2>2, RowsAre
  <2>4. PICK n \in new : n.req = q /\ n.kind = "settlement"
    BY <1>1
  <2>. QED  BY <2>3, <2>4
<1>6. ASSUME NEW r \in both
      PROVE  \E b \in Nat, p \in BOOLEAN : {s \in both : s.req = r.req} = Rows(r.req, b, p)
  <2>1. CASE r \in old
    <3>1. {s \in both : s.req = r.req} = {s \in old : s.req = r.req}
      BY <2>1, <1>1, <1>5
    <3>. QED  BY <2>1, <3>1 DEF RowsKeyed
  <2>2. CASE r \in new
    <3>1. r.req = q /\ {s \in both : s.req = q} = new
      BY <2>2, <1>1, <1>5
    <3>. QED  BY <3>1
  <2>. QED  BY <2>1, <2>2
<1>7. \A r \in both : r.index \in Nat /\ r.index < Cardinality(both)
  <2>1. \A r \in old : r.index \in Nat /\ r.index < Cardinality(old)
    BY DEF RowsKeyed
  <2>. QED  BY <2>1, <1>1, <1>2, <1>3
<1>8. Cardinality(old) <= Cardinality(both)
  BY <1>1, <1>2, <1>3
<1> HIDE DEF both
<1>9. RowsKeyed(both)
  BY <1>3, <1>4, <1>6, <1>7 DEF RowsKeyed
<1>. QED  BY <1>8, <1>9 DEF both

(* A step moves one call; what it may do to the rest is the same for all of them. *)

LEMMA RangeStays ==
  ASSUME NEW log \in Seq(Entry), NEW new \in Seq(Entry), LogGrows(log, new), NEW k \in Call,
         RangeOK(k, log)
  PROVE  RangeOK(k, new)
<1> SUFFICES ASSUME k.phase \in InFlush PROVE RangeOK(k, new)
  BY DEF RangeOK
<1>1. k.hi \in DOMAIN log /\ 1..k.hi \subseteq DOMAIN log /\ DOMAIN log \subseteq DOMAIN new
  BY DEF RangeOK, LogGrows
<1>. QED  BY <1>1 DEF RangeOK, LogGrows

LEMMA CallMoves ==
  ASSUME FlushInv, NEW c \in Callers,
         call' \in [Callers -> Call], \A d \in Callers \ {c} : call'[d] = call[d],
         session' \in [status : {"none", "open", "closed"}, recovery : BOOLEAN, role : Roles],
         LogOK(records, records'), RangeOK(call'[c], records'),
         call'[c].phase \in Writing => call'[c].req \in Requests,
         interaction_records' \subseteq
           [index : Nat, req : Requests, kind : {"user", "settlement", "assistant"}],
         RowsKeyed(interaction_records'), NextIndex <= NextIndex',
         call'[c].phase = "inserting" => call'[c].base <= NextIndex',
         migrateTail' \in Seq(Callers),
         \A d \in Callers : call'[d].phase = "migrated" =>
           migrateTail' # <<>> /\ Head(migrateTail') = d
  PROVE  FlushInv'
<1>1. FlushTypeOK'
  BY DEF FlushTypeOK, LogOK
<1>2. ProcessedIsAccounted'
  BY DEF LogOK, Accounted, ProcessedIsAccounted
<1>3. RangesOK'
  <2>1. records \in Seq(Entry) /\ records' \in Seq(Entry) /\ LogGrows(records, records')
    BY DEF FlushInv, FlushTypeOK, LogOK
  <2>2. ASSUME NEW d \in Callers \ {c} PROVE RangeOK(call'[d], records')
    <3>1. PICK k \in Call : k = call[d] /\ k = call'[d]
      BY DEF FlushInv, FlushTypeOK
    <3>2. RangeOK(k, records)
      BY <3>1 DEF FlushInv, RangesOK
    <3>3. RangeOK(k, records')
      BY <2>1, <3>2, RangeStays
    <3>. QED  BY <3>1, <3>3
  <2>. QED  BY <2>2 DEF RangesOK
<1>4. TailOK'
  BY DEF TailOK
<1>5. RowsOK'
  <2>1. NextIndex \in Nat /\ NextIndex' \in Nat
    BY FS_CardinalityType DEF FlushInv, RowsOK, RowsKeyed, NextIndex
  <2>2. ASSUME NEW d \in Callers, call'[d].phase = "inserting" PROVE call'[d].base <= NextIndex'
    <3>1. CASE d = c
      BY <3>1, <2>2
    <3>2. CASE d # c
      <4>1. call'[d] = call[d] /\ call[d] \in Call
        BY <3>2 DEF FlushInv, FlushTypeOK
      <4>2. call[d].base <= NextIndex /\ call[d].base \in Nat
        BY <4>1, <2>2 DEF FlushInv, RowsOK, Call
      <4>. QED  BY <4>1, <4>2, <2>1
    <3>. QED  BY <3>1, <3>2
  <2>. QED  BY <2>2 DEF RowsOK
<1>6. RequestsOK'
  BY DEF FlushInv, RequestsOK
<1>. QED  BY <1>1, <1>2, <1>3, <1>4, <1>5, <1>6 DEF FlushInv

\* Most steps of a turn leave the rows and the tail alone and move the call to a
\* phase with no range.
LEMMA TurnMoves ==
  ASSUME FlushInv, NEW c \in Callers,
         call' \in [Callers -> Call], \A d \in Callers \ {c} : call'[d] = call[d],
         session' \in [status : {"none", "open", "closed"}, recovery : BOOLEAN, role : Roles],
         LogOK(records, records'), UNCHANGED <<interaction_records, migrateTail>>,
         call'[c].phase \notin InFlush,
         call'[c].phase \in Writing => call'[c].req \in Requests,
         call'[c].phase = "inserting" => call'[c].base <= NextIndex
  PROVE  FlushInv'
<1>1. NextIndex' = NextIndex
  BY DEF NextIndex
<1>2. NextIndex <= NextIndex'
  BY <1>1, FS_CardinalityType DEF FlushInv, RowsOK, RowsKeyed, NextIndex
<1>3. RangeOK(call'[c], records')
  BY DEF RangeOK
<1>4. \A d \in Callers : call'[d].phase = "migrated" =>
        migrateTail' # <<>> /\ Head(migrateTail') = d
  BY DEF FlushInv, TailOK, InFlush
<1>5. /\ interaction_records' \subseteq
           [index : Nat, req : Requests, kind : {"user", "settlement", "assistant"}]
      /\ RowsKeyed(interaction_records') /\ migrateTail' \in Seq(Callers)
  BY DEF FlushInv, FlushTypeOK, RowsOK
<1>. QED  BY <1>1, <1>2, <1>3, <1>4, <1>5, CallMoves

LEMMA ReachesMoves ==
  ASSUME FlushTypeOK, NEW c \in Callers, NEW p \in CallPhases, Reaches(c, p)
  PROVE  /\ call' \in [Callers -> Call] /\ \A d \in Callers \ {c} : call'[d] = call[d]
         /\ call'[c].phase = p
         /\ \A f \in {"req", "first", "base", "lo", "hi"} : call'[c][f] = call[c][f]
<1>1. call[c] \in Call /\ DOMAIN call = Callers
  BY DEF FlushTypeOK
<1>2. PICK k : k = [call[c] EXCEPT !.phase = p]
  OBVIOUS
<1>3. k \in Call /\ k.phase = p
      /\ \A f \in {"req", "first", "base", "lo", "hi"} : k[f] = call[c][f]
  BY <1>1, <1>2 DEF Call
<1>4. call' = [call EXCEPT ![c] = k]
  BY <1>2 DEF Reaches
<1>. QED  BY <1>1, <1>3, <1>4 DEF FlushTypeOK

LEMMA ReturnsMoves ==
  ASSUME FlushTypeOK, NEW c \in Callers, Returns(c)
  PROVE  /\ call' \in [Callers -> Call] /\ \A d \in Callers \ {c} : call'[d] = call[d]
         /\ call'[c].phase \in {"closing", "ended"}
<1>1. Over(c) \in Call /\ Over(c).phase \in {"closing", "ended"}
  BY DEF Over, IdleCall, Call, CallPhases
<1>2. call' = [call EXCEPT ![c] = Over(c)]
  BY DEF Returns
<1>. QED  BY <1>1, <1>2 DEF FlushTypeOK

LEMMA FlushStarts == FlushInit => FlushInv
<1> SUFFICES ASSUME FlushInit PROVE FlushInv
  OBVIOUS
<1>1. FlushTypeOK
  BY DEF FlushInit, FlushTypeOK, Roles, Call, IdleCall, CallPhases
<1>2. ProcessedIsAccounted
  BY DEF FlushInit, ProcessedIsAccounted
<1>3. \A c \in Callers : call[c].phase = "idle"
  BY DEF FlushInit, IdleCall
<1>4. RangesOK /\ TailOK /\ RequestsOK
  BY <1>3 DEF RangesOK, RangeOK, InFlush, TailOK, RequestsOK, Writing
<1>5. RowsOK
  BY <1>3, FS_EmptySet DEF FlushInit, RowsOK, RowsKeyed
<1>. QED  BY <1>1, <1>2, <1>4, <1>5 DEF FlushInv

(* The steps. *)

LEMMA SessionKeeps ==
  ASSUME FlushInv, (\E role \in Roles : CreateSession(role)) \/ Recover
  PROVE  FlushInv'
<1>1. UNCHANGED <<records, interaction_records, call, migrateTail>>
  BY DEF CreateSession, Recover
<1>2. session' \in [status : {"none", "open", "closed"}, recovery : BOOLEAN, role : Roles]
  <2>1. session \in [status : {"none", "open", "closed"}, recovery : BOOLEAN, role : Roles]
    BY DEF FlushInv, FlushTypeOK
  <2>2. ASSUME NEW role \in Roles, CreateSession(role)
        PROVE  session' \in [status : {"none", "open", "closed"}, recovery : BOOLEAN,
                             role : Roles]
    BY <2>1, <2>2 DEF CreateSession
  <2>3. ASSUME Recover
        PROVE  session' \in [status : {"none", "open", "closed"}, recovery : BOOLEAN,
                             role : Roles]
    BY <2>1, <2>3 DEF Recover
  <2>. QED  BY <2>2, <2>3
<1>3. FlushTypeOK'
  BY <1>1, <1>2 DEF FlushInv, FlushTypeOK
<1>4. ProcessedIsAccounted' /\ RangesOK' /\ TailOK' /\ RowsOK' /\ RequestsOK'
  BY <1>1 DEF FlushInv, ProcessedIsAccounted, RangesOK, RangeOK, TailOK, RowsOK, RowsKeyed,
     NextIndex, RequestsOK
<1>. QED  BY <1>3, <1>4 DEF FlushInv

\* What every step of a call starts from.
LEMMA FlushFacts ==
  ASSUME FlushInv, NEW c \in Callers
  PROVE  /\ FlushTypeOK /\ call[c] \in Call /\ records \in Seq(Entry) /\ Accounted(records)
         /\ LogOK(records, records) /\ NextIndex \in Nat
         /\ session \in [status : {"none", "open", "closed"}, recovery : BOOLEAN, role : Roles]
<1>1. /\ FlushTypeOK /\ call[c] \in Call /\ records \in Seq(Entry) /\ Accounted(records)
      /\ session \in [status : {"none", "open", "closed"}, recovery : BOOLEAN, role : Roles]
  BY DEF FlushInv, FlushTypeOK, ProcessedIsAccounted, Accounted
<1>2. NextIndex \in Nat
  BY FS_CardinalityType DEF FlushInv, RowsOK, RowsKeyed, NextIndex
<1>. QED  BY <1>1, <1>2, LogStays

LEMMA ChecksKeep ==
  ASSUME FlushInv, NEW c \in Executions,
         (\E q \in Requests : CheckOpen(c, q)) \/ CheckRecovery(c)
  PROVE  FlushInv'
<1>1. c \in Callers
  BY DEF Callers
<1>2. FlushTypeOK /\ call[c] \in Call /\ LogOK(records, records)
      /\ session \in [status : {"none", "open", "closed"}, recovery : BOOLEAN, role : Roles]
  BY <1>1, FlushFacts
<1>3. ASSUME NEW q \in Requests, CheckOpen(c, q) PROVE FlushInv'
  <2>1. PICK k : k = [call[c] EXCEPT !.phase = "open", !.req = q]
    OBVIOUS
  <2>2. k \in Call /\ k.phase = "open" /\ k.req = q
    BY <2>1, <1>2 DEF Call, CallPhases
  <2>3. call' = [call EXCEPT ![c] = k]
    BY <2>1, <1>3 DEF CheckOpen
  <2>4. /\ call' \in [Callers -> Call] /\ \A d \in Callers \ {c} : call'[d] = call[d]
        /\ call'[c] = k
    BY <1>1, <1>2, <2>2, <2>3 DEF FlushTypeOK
  <2>. QED  BY <1>1, <1>2, <2>2, <2>4, <1>3, TurnMoves DEF CheckOpen, InFlush
<1>4. ASSUME CheckRecovery(c) PROVE FlushInv'
  <2>1. CASE Returns(c)
    BY <1>1, <1>2, <1>4, <2>1, ReturnsMoves, TurnMoves DEF CheckRecovery, InFlush, Writing
  <2>2. CASE Reaches(c, "admitted")
    <3>1. call[c].req \in Requests
      BY <1>1, <1>4 DEF CheckRecovery, FlushInv, RequestsOK, Writing
    <3>2. /\ call' \in [Callers -> Call] /\ \A d \in Callers \ {c} : call'[d] = call[d]
          /\ call'[c].phase = "admitted"
      BY <1>1, <1>2, <2>2, ReachesMoves DEF CallPhases
    <3>3. call'[c].req = call[c].req
      BY <1>1, <1>2, <2>2, ReachesMoves DEF CallPhases
    <3>. QED  BY <1>1, <1>2, <1>4, <3>1, <3>2, <3>3, TurnMoves DEF CheckRecovery, InFlush
  <2>. QED  BY <1>4, <2>1, <2>2 DEF CheckRecovery
<1>. QED  BY <1>3, <1>4

LEMMA StartKeeps ==
  ASSUME FlushInv, NEW c \in Executions, Start(c)
  PROVE  FlushInv'
<1>1. c \in Callers
  BY DEF Callers
<1>2. /\ FlushTypeOK /\ call[c] \in Call /\ records \in Seq(Entry) /\ Accounted(records)
      /\ LogOK(records, records)
      /\ session \in [status : {"none", "open", "closed"}, recovery : BOOLEAN, role : Roles]
  BY <1>1, FlushFacts
<1>3. PICK q \in Requests : q = call[c].req
  BY <1>1 DEF FlushInv, RequestsOK, Writing, Start
<1>4. PICK mine : mine = UserRecordsOf(q)
  OBVIOUS
<1>5. PICK n : n = IF mine = {} THEN Len(records) + 1 ELSE Min(mine)
  OBVIOUS
<1>6. n \in Nat
  <2>1. mine \in SUBSET Nat /\ Len(records) \in Nat
    BY <1>2, <1>4 DEF UserRecordsOf
  <2>2. CASE mine = {}
    BY <2>1, <2>2, <1>5
  <2>3. CASE mine # {}
    <3>1. Min(mine) \in mine
      BY <2>1, <2>3, MinIsLeast
    <3>. QED  BY <2>1, <2>3, <3>1, <1>5
  <2>. QED  BY <2>2, <2>3
<1>7. PICK k : k = [call[c] EXCEPT !.phase = "running", !.first = n]
  OBVIOUS
<1>8. k \in Call /\ k.phase = "running" /\ k.req = q
  BY <1>2, <1>3, <1>6, <1>7 DEF Call, CallPhases
<1>9. call' = [call EXCEPT ![c] = k]
  BY <1>3, <1>4, <1>5, <1>7 DEF Start
<1>10. /\ call' \in [Callers -> Call] /\ \A d \in Callers \ {c} : call'[d] = call[d]
       /\ call'[c] = k
  BY <1>1, <1>2, <1>8, <1>9 DEF FlushTypeOK
<1>11. LogOK(records, records')
  <2>1. LogOK(records, Append(records, NewEntry(q, "user")))
    BY <1>2, LogAppends
  <2>. QED  BY <2>1, <1>2, <1>3 DEF Start
<1>12. UNCHANGED <<session, interaction_records, migrateTail>>
  BY DEF Start
<1>. QED  BY <1>1, <1>2, <1>8, <1>10, <1>11, <1>12, TurnMoves DEF InFlush

\* The steps of a turn that move its call to another phase and may add a record.
LEMMA PhasesKeep ==
  ASSUME FlushInv, NEW c \in Executions, NEW p \in CallPhases \ InFlush, Reaches(c, p),
         p # "inserting", p \in Writing => call[c].phase \in Writing,
         LogOK(records, records'), UNCHANGED <<session, interaction_records, migrateTail>>
  PROVE  FlushInv'
<1>1. c \in Callers
  BY DEF Callers
<1>2. FlushTypeOK
      /\ session \in [status : {"none", "open", "closed"}, recovery : BOOLEAN, role : Roles]
  BY <1>1, FlushFacts
<1>3. /\ call' \in [Callers -> Call] /\ \A d \in Callers \ {c} : call'[d] = call[d]
      /\ call'[c].phase = p
  BY <1>1, <1>2, ReachesMoves
<1>4. call'[c].req = call[c].req
  BY <1>1, <1>2, ReachesMoves
<1>5. p \in Writing => call[c].req \in Requests
  BY <1>1 DEF FlushInv, RequestsOK
<1>. QED  BY <1>1, <1>2, <1>3, <1>4, <1>5, TurnMoves

LEMMA AnswerKeeps ==
  ASSUME FlushInv, NEW c \in Executions,
         \/ \E text \in BOOLEAN : StreamEnds(c, text)
         \/ \E answered \in BOOLEAN : LookUp(c, answered)
  PROVE  FlushInv'
<1>1. c \in Callers
  BY DEF Callers
<1>2. records \in Seq(Entry) /\ Accounted(records) /\ LogOK(records, records)
  BY <1>1, FlushFacts
<1>3. call[c].phase = "running" /\ call[c].req \in Requests
  BY <1>1 DEF FlushInv, RequestsOK, Writing, StreamEnds, LookUp
<1>4. {"due", "settling"} \subseteq CallPhases \ InFlush
  BY DEF CallPhases, InFlush
<1>5. ASSUME NEW text \in BOOLEAN, StreamEnds(c, text) PROVE FlushInv'
  <2>1. LogOK(records, Append(records, NewEntry(call[c].req, "assistant")))
    <3>1. PICK q \in Requests : q = call[c].req
      BY <1>3
    <3>2. LogOK(records, Append(records, NewEntry(q, "assistant")))
      BY <1>2, LogAppends
    <3>. QED  BY <3>1, <3>2
  <2>2. LogOK(records, records') /\ Reaches(c, "due")
        /\ UNCHANGED <<session, interaction_records, migrateTail>>
    BY <2>1, <1>2, <1>5 DEF StreamEnds
  <2>. QED  BY <2>2, <1>4, PhasesKeep DEF Writing
<1>6. ASSUME NEW answered \in BOOLEAN, LookUp(c, answered) PROVE FlushInv'
  <2>1. PICK p \in {"due", "settling"} : Reaches(c, p)
    BY <1>6 DEF LookUp
  <2>2. LogOK(records, records') /\ UNCHANGED <<session, interaction_records, migrateTail>>
    BY <1>2, <1>6 DEF LookUp
  <2>. QED  BY <2>1, <2>2, <1>3, <1>4, PhasesKeep DEF Writing
<1>. QED  BY <1>5, <1>6

LEMMA ReadIndexKeeps ==
  ASSUME FlushInv, NEW c \in Executions, ReadIndex(c)
  PROVE  FlushInv'
<1>1. c \in Callers
  BY DEF Callers
<1>2. /\ FlushTypeOK /\ call[c] \in Call /\ LogOK(records, records) /\ NextIndex \in Nat
      /\ session \in [status : {"none", "open", "closed"}, recovery : BOOLEAN, role : Roles]
  BY <1>1, FlushFacts
<1>3. call[c].req \in Requests
  BY <1>1 DEF FlushInv, RequestsOK, Writing, ReadIndex
<1>4. PICK k : k = [call[c] EXCEPT !.phase = "inserting", !.base = NextIndex]
  OBVIOUS
<1>5. k \in Call /\ k.phase = "inserting" /\ k.base = NextIndex /\ k.req = call[c].req
  BY <1>2, <1>4 DEF Call, CallPhases
<1>6. call' = [call EXCEPT ![c] = k]
  BY <1>4 DEF ReadIndex
<1>7. /\ call' \in [Callers -> Call] /\ \A d \in Callers \ {c} : call'[d] = call[d]
      /\ call'[c] = k
  BY <1>1, <1>2, <1>5, <1>6 DEF FlushTypeOK
<1>8. UNCHANGED <<session, records, interaction_records, migrateTail>>
  BY DEF ReadIndex
<1>9. k.base <= NextIndex
  BY <1>2, <1>5
<1>. QED  BY <1>1, <1>2, <1>3, <1>5, <1>7, <1>8, <1>9, TurnMoves DEF InFlush

LEMMA SettleKeeps ==
  ASSUME FlushInv, NEW c \in Executions, NEW reply \in BOOLEAN, SettleTurn(c, reply)
  PROVE  FlushInv'
<1>1. c \in Callers
  BY DEF Callers
<1>2. /\ FlushTypeOK /\ call[c] \in Call /\ LogOK(records, records) /\ NextIndex \in Nat
      /\ session \in [status : {"none", "open", "closed"}, recovery : BOOLEAN, role : Roles]
  BY <1>1, FlushFacts
<1>3. PICK q \in Requests, base \in Nat : q = call[c].req /\ base = call[c].base
  BY <1>1, <1>2 DEF FlushInv, RequestsOK, Writing, SettleTurn, Call
<1>4. PICK rows : rows = Rows(q, base, reply)
  OBVIOUS
<1>5. /\ ~Conflicting(rows) /\ interaction_records' = interaction_records \cup rows
      /\ Reaches(c, "due") /\ UNCHANGED <<session, records, migrateTail>>
  BY <1>3, <1>4 DEF SettleTurn
<1>6. base <= Cardinality(interaction_records)
  BY <1>1, <1>3 DEF FlushInv, RowsOK, NextIndex, SettleTurn
<1>7. RowsKeyed(interaction_records') /\ NextIndex <= NextIndex'
  <2>1. RowsKeyed(interaction_records)
    BY DEF FlushInv, RowsOK
  <2>2. \A n \in rows, r \in interaction_records :
          /\ n.index # r.index
          /\ ~(n.kind = "settlement" /\ r.kind = "settlement" /\ n.req = r.req)
    BY <1>5 DEF Conflicting
  <2>3. /\ RowsKeyed(interaction_records \cup rows)
        /\ Cardinality(interaction_records) <= Cardinality(interaction_records \cup rows)
    BY <1>4, <1>6, <2>1, <2>2, SettlementKeeps
  <2>. QED  BY <1>5, <2>3 DEF NextIndex
<1>8. interaction_records' \subseteq
        [index : Nat, req : Requests, kind : {"user", "settlement", "assistant"}]
  <2>1. rows \subseteq [index : Nat, req : Requests, kind : {"user", "settlement", "assistant"}]
    BY <1>4 DEF Rows
  <2>. QED  BY <1>2, <1>5, <2>1 DEF FlushTypeOK
<1>9. /\ call' \in [Callers -> Call] /\ \A d \in Callers \ {c} : call'[d] = call[d]
      /\ call'[c].phase = "due"
  BY <1>1, <1>2, <1>5, ReachesMoves DEF CallPhases
<1>10. migrateTail' \in Seq(Callers)
       /\ \A d \in Callers : call'[d].phase = "migrated" =>
            migrateTail' # <<>> /\ Head(migrateTail') = d
  BY <1>1, <1>2, <1>5, <1>9 DEF FlushInv, TailOK, FlushTypeOK
<1>11. RangeOK(call'[c], records')
  BY <1>9 DEF RangeOK, InFlush
<1>12. LogOK(records, records')
       /\ session' \in [status : {"none", "open", "closed"}, recovery : BOOLEAN, role : Roles]
  BY <1>2, <1>5
<1>13. ~(call'[c].phase \in Writing) /\ call'[c].phase # "inserting"
  BY <1>9 DEF Writing
<1>. QED  BY <1>1, <1>7, <1>8, <1>9, <1>10, <1>11, <1>12, <1>13, CallMoves

LEMMA FailureKeeps ==
  ASSUME FlushInv, NEW c \in Executions,
         (\E visible \in BOOLEAN : FailTurn(c, visible)) \/ MarkRecoveryRequired(c) \/ Abandon(c)
  PROVE  FlushInv'
<1>1. c \in Callers
  BY DEF Callers
<1>2. /\ FlushTypeOK /\ call[c] \in Call /\ records \in Seq(Entry) /\ Accounted(records)
      /\ LogOK(records, records)
      /\ session \in [status : {"none", "open", "closed"}, recovery : BOOLEAN, role : Roles]
  BY <1>1, FlushFacts
<1>3. ASSUME Returns(c), UNCHANGED <<interaction_records, migrateTail>>,
             LogOK(records, records'),
             session' \in [status : {"none", "open", "closed"}, recovery : BOOLEAN, role : Roles]
      PROVE  FlushInv'
  <2>1. /\ call' \in [Callers -> Call] /\ \A d \in Callers \ {c} : call'[d] = call[d]
        /\ call'[c].phase \in {"closing", "ended"}
    BY <1>1, <1>2, <1>3, ReturnsMoves
  <2>2. call'[c].phase \notin InFlush \cup Writing /\ call'[c].phase # "inserting"
    BY <2>1 DEF InFlush, Writing
  <2>. QED  BY <1>1, <1>3, <2>1, <2>2, TurnMoves
<1>4. ASSUME NEW visible \in BOOLEAN, FailTurn(c, visible) PROVE FlushInv'
  <2>1. PICK q \in Requests : q = call[c].req
    BY <1>1, <1>4 DEF FlushInv, RequestsOK, Writing, FailTurn
  <2>2. PICK log : log = Append(records, NewEntry(q, "status"))
    OBVIOUS
  <2>3. LogOK(records, log)
    BY <1>2, <2>2, LogAppends
  <2>4. log \in Seq(Entry) /\ Accounted(log) /\ Len(log) \in Nat /\ call[c].first \in Nat
    BY <1>2, <2>3 DEF LogOK, Call
  <2>5. records' = MarkRange(log, call[c].first, Len(log))
    BY <1>4, <2>1, <2>2 DEF FailTurn
  <2>6. LogOK(log, records')
    BY <2>4, <2>5, LogFails
  <2>7. LogOK(records, records')
    BY <2>3, <2>6 DEF LogOK, LogGrows
  <2>8. UNCHANGED <<session, interaction_records, migrateTail>>
    BY <1>4 DEF FailTurn
  <2>9. CASE Returns(c)
    BY <1>2, <1>3, <2>7, <2>8, <2>9
  <2>10. CASE Reaches(c, "failed")
    <3>1. "failed" \in CallPhases \ InFlush /\ "failed" \notin Writing
      BY DEF CallPhases, InFlush, Writing
    <3>. QED  BY <2>7, <2>8, <2>10, <3>1, PhasesKeep
  <2>. QED  BY <1>4, <2>9, <2>10 DEF FailTurn
<1>5. ASSUME MarkRecoveryRequired(c) PROVE FlushInv'
  <2>1. session' \in [status : {"none", "open", "closed"}, recovery : BOOLEAN, role : Roles]
    BY <1>2, <1>5 DEF MarkRecoveryRequired
  <2>. QED  BY <1>2, <1>3, <1>5, <2>1 DEF MarkRecoveryRequired
<1>6. ASSUME Abandon(c) PROVE FlushInv'
  BY <1>2, <1>3, <1>6 DEF Abandon
<1>. QED  BY <1>4, <1>5, <1>6

\* A flush that selects a range takes all that is unprocessed.
LEMMA SelectKeeps ==
  ASSUME FlushInv, NEW c \in Callers, Unprocessed # {}, Select(c),
         UNCHANGED <<session, records, interaction_records, migrateTail>>
  PROVE  FlushInv'
<1>2. /\ FlushTypeOK /\ call[c] \in Call /\ records \in Seq(Entry)
      /\ LogOK(records, records) /\ NextIndex \in Nat
      /\ session \in [status : {"none", "open", "closed"}, recovery : BOOLEAN, role : Roles]
  BY FlushFacts
<1>3. PICK lo, hi : lo = Min(Unprocessed) /\ hi = Max(Unprocessed)
  OBVIOUS
<1>4. /\ lo \in Nat /\ hi \in Nat /\ hi \in DOMAIN records
      /\ \A i \in DOMAIN records : records[i].processed \/ i >= lo
  <2>1. Unprocessed \in SUBSET (1..Len(records)) /\ Unprocessed \in SUBSET Nat
        /\ Len(records) \in Nat
    BY <1>2 DEF Unprocessed
  <2>2. lo \in Unprocessed /\ \A i \in Unprocessed : lo <= i
    BY <1>3, <2>1, MinIsLeast
  <2>3. hi \in Unprocessed
    BY <1>3, <2>1, MaxIsGreatest
  <2>4. \A i \in DOMAIN records : i \in Unprocessed \/ records[i].processed
    BY DEF Unprocessed
  <2>. QED  BY <2>1, <2>2, <2>3, <2>4, <1>2
<1>5. PICK k : k = [call[c] EXCEPT !.phase = "selected", !.lo = lo, !.hi = hi]
  OBVIOUS
<1>6. k \in Call /\ k.phase = "selected" /\ k.lo = lo /\ k.hi = hi
  BY <1>2, <1>4, <1>5 DEF Call, CallPhases
<1>7. call' = [call EXCEPT ![c] = k]
  BY <1>3, <1>5 DEF Select
<1>8. /\ call' \in [Callers -> Call] /\ \A d \in Callers \ {c} : call'[d] = call[d]
      /\ call'[c] = k
  BY <1>2, <1>6, <1>7 DEF FlushTypeOK
<1>9. RangeOK(call'[c], records')
  <2>1. 1..hi \subseteq DOMAIN records
    BY <1>2, <1>4
  <2>. QED  BY <1>4, <1>6, <1>8, <2>1 DEF RangeOK
<1>10. /\ migrateTail' \in Seq(Callers)
       /\ \A d \in Callers : call'[d].phase = "migrated" =>
            migrateTail' # <<>> /\ Head(migrateTail') = d
       /\ interaction_records' \subseteq
            [index : Nat, req : Requests, kind : {"user", "settlement", "assistant"}]
       /\ RowsKeyed(interaction_records')
  BY <1>2, <1>6, <1>8 DEF FlushInv, TailOK, FlushTypeOK, RowsOK
<1>11. NextIndex <= NextIndex'
  BY <1>2 DEF NextIndex
<1>12. call'[c].phase \notin Writing /\ call'[c].phase # "inserting"
  BY <1>6, <1>8 DEF Writing
<1>. QED  BY <1>2, <1>8, <1>9, <1>10, <1>11, <1>12, CallMoves

LEMMA DueKeeps ==
  ASSUME FlushInv,
         (\E c \in Executions : FlushIfDue(c)) \/ FlushOnSessionClose
  PROVE  FlushInv'
<1>1. ASSUME NEW c \in Callers, Returns(c),
             UNCHANGED <<session, records, interaction_records, migrateTail>>
      PROVE  FlushInv'
  <2>1. FlushTypeOK /\ LogOK(records, records)
        /\ session \in [status : {"none", "open", "closed"}, recovery : BOOLEAN, role : Roles]
    BY FlushFacts
  <2>2. /\ call' \in [Callers -> Call] /\ \A d \in Callers \ {c} : call'[d] = call[d]
        /\ call'[c].phase \in {"closing", "ended"}
    BY <1>1, <2>1, ReturnsMoves
  <2>3. call'[c].phase \notin InFlush \cup Writing /\ call'[c].phase # "inserting"
    BY <2>2 DEF InFlush, Writing
  <2>. QED  BY <1>1, <2>1, <2>2, <2>3, TurnMoves
<1>2. ASSUME NEW c \in Executions, FlushIfDue(c) PROVE FlushInv'
  <2>1. c \in Callers
    BY DEF Callers
  <2>2. CASE CountUnprocessedRpTurns >= FlushThreshold
    <3>1. Unprocessed # {}
      <4>1. SUFFICES ASSUME Unprocessed = {} PROVE FALSE
        OBVIOUS
      <4>2. {i \in Unprocessed : records[i].kind = "user"} = {}
        BY <4>1
      <4>3. CountUnprocessedRpTurns = 0
        BY <4>2, FS_EmptySet DEF CountUnprocessedRpTurns
      <4>. QED  BY <4>3, <2>2, FlushAssumption
    <3>. QED  BY <1>2, <2>1, <2>2, <3>1, SelectKeeps DEF FlushIfDue
  <2>3. CASE ~(CountUnprocessedRpTurns >= FlushThreshold)
    BY <1>1, <1>2, <2>1, <2>3 DEF FlushIfDue
  <2>. QED  BY <2>2, <2>3
<1>3. ASSUME FlushOnSessionClose PROVE FlushInv'
  <2>1. Closer \in Callers
    BY DEF Callers
  <2>. QED  BY <1>1, <1>3, <2>1, SelectKeeps DEF FlushOnSessionClose
<1>. QED  BY <1>2, <1>3

\* A committed migration keeps its place at the head of the tail.
LEMMA RunMigrateKeeps ==
  ASSUME FlushInv, NEW c \in Callers, RunMigrate(c)
  PROVE  FlushInv'
<1>1. /\ FlushTypeOK /\ LogOK(records, records) /\ NextIndex \in Nat
      /\ session \in [status : {"none", "open", "closed"}, recovery : BOOLEAN, role : Roles]
  BY FlushFacts
<1>2. /\ call[c].phase = "selected" /\ migrateTail' = Append(migrateTail, c)
      /\ Reaches(c, "queued") /\ UNCHANGED <<session, records, interaction_records>>
  BY DEF RunMigrate
<1>3. /\ call' \in [Callers -> Call] /\ \A d \in Callers \ {c} : call'[d] = call[d]
      /\ call'[c].phase = "queued"
  BY <1>1, <1>2, ReachesMoves DEF CallPhases
<1>4. call'[c].lo = call[c].lo /\ call'[c].hi = call[c].hi
  <2>1. call'[c]["lo"] = call[c]["lo"] /\ call'[c]["hi"] = call[c]["hi"]
    BY <1>1, <1>2, ReachesMoves DEF CallPhases
  <2>. QED  BY <2>1
<1>5. RangeOK(call'[c], records')
  BY <1>2, <1>3, <1>4 DEF FlushInv, RangesOK, RangeOK, InFlush
<1>6. /\ migrateTail' \in Seq(Callers)
      /\ migrateTail # <<>> => migrateTail' # <<>> /\ Head(migrateTail') = Head(migrateTail)
  BY <1>1, <1>2 DEF FlushTypeOK
<1>7. \A d \in Callers : call'[d].phase = "migrated" =>
        migrateTail' # <<>> /\ Head(migrateTail') = d
  BY <1>3, <1>6 DEF FlushInv, TailOK
<1>8. /\ interaction_records' \subseteq
           [index : Nat, req : Requests, kind : {"user", "settlement", "assistant"}]
      /\ RowsKeyed(interaction_records') /\ NextIndex <= NextIndex'
  BY <1>1, <1>2 DEF FlushInv, FlushTypeOK, RowsOK, NextIndex
<1>9. call'[c].phase \notin Writing /\ call'[c].phase # "inserting"
  BY <1>3 DEF Writing
<1>. QED  BY <1>1, <1>2, <1>3, <1>5, <1>6, <1>7, <1>8, <1>9, CallMoves

\* The head of the tail commits: it has read its range, and what lies before
\* the range was processed already.
LEMMA CommitKeeps ==
  ASSUME FlushInv, NEW c \in Callers, MigrationCommits(c)
  PROVE  FlushInv'
<1>1. /\ FlushTypeOK /\ call[c] \in Call /\ records \in Seq(Entry) /\ Accounted(records)
      /\ NextIndex \in Nat
      /\ session \in [status : {"none", "open", "closed"}, recovery : BOOLEAN, role : Roles]
  BY FlushFacts
<1>2. /\ migrateTail # <<>> /\ Head(migrateTail) = c /\ call[c].phase = "queued"
      /\ Reaches(c, "migrated") /\ UNCHANGED <<session, interaction_records, migrateTail>>
  BY DEF MigrationCommits
<1>3. PICK lo \in Nat, hi \in Nat : lo = call[c].lo /\ hi = call[c].hi
  BY <1>1 DEF Call
<1>4. records' = [i \in DOMAIN records |->
        IF i \in lo..hi THEN [records[i] EXCEPT !.migrated = TRUE] ELSE records[i]]
  BY <1>3 DEF MigrationCommits
<1>5. LogOK(records, records') /\ \A i \in DOMAIN records : i \in lo..hi => records'[i].migrated
  BY <1>1, <1>4, LogMigrates
<1>6. /\ call' \in [Callers -> Call] /\ \A d \in Callers \ {c} : call'[d] = call[d]
      /\ call'[c].phase = "migrated"
  BY <1>1, <1>2, ReachesMoves DEF CallPhases
<1>7. call'[c].lo = lo /\ call'[c].hi = hi
  <2>1. call'[c]["lo"] = call[c]["lo"] /\ call'[c]["hi"] = call[c]["hi"]
    BY <1>1, <1>2, ReachesMoves DEF CallPhases
  <2>. QED  BY <2>1, <1>3
<1>8. RangeOK(call'[c], records')
  <2>1. /\ hi \in DOMAIN records
        /\ \A i \in 1..hi : records[i].processed \/ i >= lo
    BY <1>2, <1>3 DEF FlushInv, RangesOK, RangeOK, InFlush
  <2>2. 1..hi \subseteq DOMAIN records
    BY <2>1, <1>1
  <2>3. DOMAIN records \subseteq DOMAIN records'
        /\ \A i \in DOMAIN records : records[i].processed => records'[i].processed
    BY <1>5 DEF LogOK, LogGrows
  <2>4. \A i \in 1..hi : records'[i].processed \/ (i >= lo /\ records'[i].migrated)
    BY <2>1, <2>2, <2>3, <1>5
  <2>. QED  BY <2>1, <2>3, <2>4, <1>7 DEF RangeOK
<1>9. \A d \in Callers : call'[d].phase = "migrated" =>
        migrateTail' # <<>> /\ Head(migrateTail') = d
  BY <1>2, <1>6 DEF FlushInv, TailOK
<1>10. /\ interaction_records' \subseteq
            [index : Nat, req : Requests, kind : {"user", "settlement", "assistant"}]
       /\ RowsKeyed(interaction_records') /\ NextIndex <= NextIndex'
       /\ migrateTail' \in Seq(Callers)
  BY <1>1, <1>2 DEF FlushInv, FlushTypeOK, RowsOK, NextIndex
<1>11. call'[c].phase \notin Writing /\ call'[c].phase # "inserting"
  BY <1>6 DEF Writing
<1>. QED  BY <1>1, <1>2, <1>5, <1>6, <1>8, <1>9, <1>10, <1>11, CallMoves

\* It fails, or has committed and marks its range: it leaves the tail.
LEMMA LeavesTail ==
  ASSUME FlushInv, NEW c \in Callers, migrateTail # <<>>, Head(migrateTail) = c, Returns(c),
         migrateTail' = Tail(migrateTail), LogOK(records, records'),
         UNCHANGED <<session, interaction_records>>
  PROVE  FlushInv'
<1>1. /\ FlushTypeOK /\ NextIndex \in Nat
      /\ session \in [status : {"none", "open", "closed"}, recovery : BOOLEAN, role : Roles]
  BY FlushFacts
<1>2. /\ call' \in [Callers -> Call] /\ \A d \in Callers \ {c} : call'[d] = call[d]
      /\ call'[c].phase \in {"closing", "ended"}
  BY <1>1, ReturnsMoves
<1>3. \A d \in Callers : call'[d].phase # "migrated"
  BY <1>2 DEF FlushInv, TailOK
<1>4. RangeOK(call'[c], records') /\ call'[c].phase \notin Writing
      /\ call'[c].phase # "inserting"
  BY <1>2 DEF RangeOK, InFlush, Writing
<1>5. /\ interaction_records' \subseteq
           [index : Nat, req : Requests, kind : {"user", "settlement", "assistant"}]
      /\ RowsKeyed(interaction_records') /\ NextIndex <= NextIndex'
      /\ migrateTail' \in Seq(Callers)
  BY <1>1 DEF FlushInv, FlushTypeOK, RowsOK, NextIndex
<1>. QED  BY <1>1, <1>2, <1>3, <1>4, <1>5, CallMoves

LEMMA MigrationKeeps ==
  ASSUME FlushInv, NEW c \in Callers, RunMigrate(c) \/ Migration(c)
  PROVE  FlushInv'
<1>1. /\ call[c] \in Call /\ records \in Seq(Entry) /\ Accounted(records)
      /\ LogOK(records, records)
  BY FlushFacts
<1>2. ASSUME MigrationFails(c) PROVE FlushInv'
  BY <1>1, <1>2, LeavesTail DEF MigrationFails
<1>3. ASSUME MarkProcessed(c) PROVE FlushInv'
  <2>1. PICK hi \in Nat : hi = call[c].hi
    BY <1>1 DEF Call
  <2>2. /\ migrateTail # <<>> /\ Head(migrateTail) = c
        /\ \A i \in 1..hi : records[i].processed \/ records[i].migrated
    BY <1>3, <2>1 DEF MarkProcessed, FlushInv, TailOK, RangesOK, RangeOK, InFlush
  <2>3. records' = [i \in DOMAIN records |->
          IF i <= hi THEN [records[i] EXCEPT !.processed = TRUE] ELSE records[i]]
    BY <1>3, <2>1 DEF MarkProcessed, MarkedUpTo
  <2>4. \A i \in DOMAIN records : i <= hi => records[i].processed \/ records[i].migrated
    BY <1>1, <2>2
  <2>5. LogOK(records, records')
    BY <1>1, <2>3, <2>4, LogProcesses
  <2>. QED  BY <1>3, <2>2, <2>5, LeavesTail DEF MarkProcessed
<1>. QED  BY <1>2, <1>3, RunMigrateKeeps, CommitKeeps DEF Migration

LEMMA CloseKeeps ==
  ASSUME FlushInv, CloseSession
  PROVE  FlushInv'
<1>1. Closer \in Callers
  BY DEF Callers
<1>2. /\ FlushTypeOK /\ LogOK(records, records)
      /\ session \in [status : {"none", "open", "closed"}, recovery : BOOLEAN, role : Roles]
  BY <1>1, FlushFacts
<1>3. session' \in [status : {"none", "open", "closed"}, recovery : BOOLEAN, role : Roles]
  BY <1>2 DEF CloseSession
<1>4. IdleCall \in Call /\ IdleCall.phase = "idle"
  BY DEF IdleCall, Call, CallPhases
<1>5. /\ call' \in [Callers -> Call] /\ \A d \in Callers \ {Closer} : call'[d] = call[d]
      /\ call'[Closer].phase = "idle"
  BY <1>1, <1>2, <1>4 DEF CloseSession, FlushTypeOK
<1>6. call'[Closer].phase \notin InFlush \cup Writing /\ call'[Closer].phase # "inserting"
  BY <1>5 DEF InFlush, Writing
<1>7. UNCHANGED <<records, interaction_records, migrateTail>>
  BY DEF CloseSession
<1>. QED  BY <1>1, <1>2, <1>3, <1>5, <1>6, <1>7, TurnMoves

\* A crash keeps the session and the rows, and nothing else.
LEMMA FlushCrashKeeps ==
  ASSUME FlushInv, FlushCrash
  PROVE  FlushInv'
<1>1. FlushTypeOK
  BY DEF FlushInv
<1>2. /\ records' = <<>> /\ migrateTail' = <<>> /\ UNCHANGED <<session, interaction_records>>
  BY DEF FlushCrash
<1>3. ASSUME NEW c \in Callers
      PROVE  call'[c] \in Call /\ call'[c].phase \in {"idle", "closing", "ended"}
  <2>1. call'[c] = IF call[c].phase = "idle" THEN call[c]
                   ELSE IF c = Closer THEN IdleCall ELSE Over(c)
    BY DEF FlushCrash
  <2>2. IdleCall \in Call /\ IdleCall.phase = "idle"
    BY DEF IdleCall, Call, CallPhases
  <2>3. Over(c) \in Call /\ Over(c).phase \in {"closing", "ended"}
    BY DEF Over, IdleCall, Call, CallPhases
  <2>4. call[c] \in Call
    BY <1>1 DEF FlushTypeOK
  <2>. QED  BY <2>1, <2>2, <2>3, <2>4
<1>4. call' \in [Callers -> Call]
  <2>1. DOMAIN call' = Callers /\ call' = [c \in Callers |-> call'[c]]
    BY DEF FlushCrash
  <2>. QED  BY <2>1, <1>3
<1>5. FlushTypeOK'
  BY <1>1, <1>2, <1>4 DEF FlushTypeOK
<1>6. ProcessedIsAccounted'
  BY <1>2 DEF ProcessedIsAccounted
<1>7. RangesOK' /\ TailOK' /\ RequestsOK'
  BY <1>3 DEF RangesOK, RangeOK, InFlush, TailOK, RequestsOK, Writing
<1>8. RowsOK'
  BY <1>2, <1>3 DEF FlushInv, RowsOK, RowsKeyed, NextIndex
<1>. QED  BY <1>5, <1>6, <1>7, <1>8 DEF FlushInv

LEMMA FlushStep == FlushInv /\ [FlushNext]_flushVars => FlushInv'
<1> SUFFICES ASSUME FlushInv, [FlushNext]_flushVars PROVE FlushInv'
  OBVIOUS
<1>1. ASSUME NEW c \in Executions, Turn(c) PROVE FlushInv'
  BY <1>1, ChecksKeep, StartKeeps, AnswerKeeps, ReadIndexKeeps, SettleKeeps, FailureKeeps,
     DueKeeps DEF Turn
<1>2. ASSUME NEW c \in Callers, RunMigrate(c) \/ Migration(c) PROVE FlushInv'
  BY <1>2, MigrationKeeps
<1>3. CASE FlushNext
  BY <1>1, <1>2, <1>3, SessionKeeps, DueKeeps, CloseKeeps, FlushCrashKeeps DEF FlushNext
<1>4. CASE UNCHANGED flushVars
  BY <1>4 DEF flushVars, FlushInv, FlushTypeOK, ProcessedIsAccounted, RangesOK, RangeOK,
     TailOK, RowsOK, RowsKeyed, NextIndex, RequestsOK
<1>. QED  BY <1>3, <1>4

LEMMA FlushInvariant == FlushSpec => []FlushInv
BY FlushStarts, FlushStep, PTL DEF FlushSpec

\* The state of the flush has its type.
THEOREM FlushTypeCorrect == FlushSpec => []FlushTypeOK
<1>1. FlushInv => FlushTypeOK
  BY DEF FlushInv
<1>. QED  BY <1>1, FlushInvariant, PTL

\* A record that is marked processed (turn-service.ts:1422) was read by a
\* migration that committed, or a failed turn took it out.
THEOREM ProcessedCorrect == FlushSpec => []ProcessedIsAccounted
<1>1. FlushInv => ProcessedIsAccounted
  BY DEF FlushInv
<1>. QED  BY <1>1, FlushInvariant, PTL

\* The rows of a request in PostgreSQL are one settlement and its messages, side
\* by side and nobody else's (turn-service.ts:1097).
THEOREM SettledCorrect == FlushSpec => []SettledWhole
<1>1. FlushInv => SettledWhole
  <2> SUFFICES ASSUME FlushInv, NEW q \in Requests, NEW mine,
                      mine = {r \in interaction_records : r.req = q}, mine # {}
               PROVE  /\ \E base \in 0..Cardinality(interaction_records), reply \in BOOLEAN :
                            mine = Rows(q, base, reply)
                      /\ \A r \in interaction_records \ mine : \A s \in mine : r.index # s.index
    BY Zenon DEF SettledWhole
  <2>1. RowsKeyed(interaction_records)
    BY DEF FlushInv, RowsOK
  <2>2. PICK r \in interaction_records : r.req = q
    OBVIOUS
  <2>3. PICK base \in Nat, reply \in BOOLEAN : mine = Rows(q, base, reply)
    BY <2>1, <2>2 DEF RowsKeyed
  <2>4. PICK s \in mine : s.index = base
    <3>1. PICK u : u = [index |-> base, req |-> q, kind |-> "user"]
      OBVIOUS
    <3>2. u \in mine /\ u.index = base
      BY <2>3, <3>1 DEF Rows
    <3>. QED  BY <3>2
  <2>5. base < Cardinality(interaction_records) /\ Cardinality(interaction_records) \in Nat
    BY <2>1, <2>4, FS_CardinalityType DEF RowsKeyed
  <2>6. base \in 0..Cardinality(interaction_records)
    BY <2>5
  <2>7. \A u \in interaction_records \ mine : \A t \in mine : u.index # t.index
    BY <2>1 DEF RowsKeyed
  <2>. QED  BY <2>3, <2>6, <2>7
<1>. QED  BY <1>1, FlushInvariant, PTL

\* The indexes of the rows are those below their number: one more than the
\* highest, at which the code inserts, is their number.
IndexesHaveNoGaps ==
  {r.index : r \in interaction_records} = 0..NextIndex - 1

\* No schedule of turns, failures and crashes leaves a gap among the indexes, so
\* that getMaxIndex and one more (turn-service.ts:1118) is the number of rows.
THEOREM NoGapsCorrect == FlushSpec => []IndexesHaveNoGaps
<1>1. FlushInv => IndexesHaveNoGaps
  <2> SUFFICES ASSUME FlushInv, NEW rows, rows = interaction_records,
                      NEW n, n = Cardinality(rows)
               PROVE  {r.index : r \in rows} = 0..n - 1
    BY DEF IndexesHaveNoGaps, NextIndex
  <2>1. RowsKeyed(rows)
    BY DEF FlushInv, RowsOK
  <2>2. IsFiniteSet(rows) /\ n \in Nat
    BY <2>1, FS_CardinalityType DEF RowsKeyed
  <2>3. PICK T : T = 0..n - 1
    OBVIOUS
  <2>4. IsFiniteSet(T) /\ Cardinality(T) = n
    <3>1. 0 \in Int /\ n - 1 \in Int
      BY <2>2
    <3>2. /\ IsFiniteSet(0..n - 1)
          /\ Cardinality(0..n - 1) = IF 0 > n - 1 THEN 0 ELSE n - 1 - 0 + 1
      BY <3>1, FS_Interval
    <3>. QED  BY <2>2, <2>3, <3>2
  <2>5. PICK f : f = [r \in rows |-> r.index]
    OBVIOUS
  <2>6. f \in Injection(rows, T)
    <3>1. \A r \in rows : f[r] = r.index /\ r.index \in T
      BY <2>1, <2>2, <2>3, <2>5 DEF RowsKeyed
    <3>2. f \in [rows -> T]
      BY <2>5, <3>1
    <3>3. \A r, s \in rows : f[r] = f[s] => r = s
      BY <2>1, <3>1 DEF RowsKeyed
    <3>. QED  BY <3>2, <3>3, Zenon DEF Injection, IsInjective
  <2>7. f \in Surjection(rows, T)
    BY <2>4, <2>6, FS_Injection
  <2>8. \A k \in T : \E r \in rows : f[r] = k
    BY <2>7 DEF Surjection
  <2>9. \A r \in rows : f[r] = r.index /\ f[r] \in T
    BY <2>5, <2>6 DEF Injection
  <2>. QED  BY <2>3, <2>8, <2>9
<1>. QED  BY <1>1, FlushInvariant, PTL
=============================================================================
