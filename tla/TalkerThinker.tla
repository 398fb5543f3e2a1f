---------------------------- MODULE TalkerThinker ---------------------------
(***************************************************************************)
(* The Talker/Thinker pipeline of one session and its agent.               *)
(*                                                                         *)
(* The Talker (src/runtime/turn-service.ts) commits a turn's settlement    *)
(* and then enqueues a cognition.thinker job.  A tick of the job consumer  *)
(* runs the thinker worker (src/runtime/thinker-worker.ts), which thinks   *)
(* about the turn, or about a batch of turns whose jobs are pending, and   *)
(* commits the result together with the version of the recent cognition    *)
(* slot.  The sweeper (src/memory/pending-settlement-sweeper.ts) compares  *)
(* the slot's two numbers and enqueues the jobs it finds missing.          *)
(*                                                                         *)
(* A turn is named by its talkerTurnVersion, which the slot hands out in   *)
(* the transaction that commits it; a request sent again finds its         *)
(* settlement, answers from it and changes nothing.  What is thought is    *)
(* abstracted to the fact that the turn's sketch was in the prompt of a    *)
(* projection that was committed.  The job store is used through its       *)
(* committed effects only, one step each (ImplementsQueue in PgJobStore);  *)
(* its cap for a session's thinker jobs is 1.                              *)
(*                                                                         *)
(* A definition named ..._Bug precedes the one it is a broken variant of.  *)
(***************************************************************************)
EXTENDS Naturals, FiniteSets, Sequences, SequencesExt

CONSTANTS
  MaxTurns,        \* bound of the model: turns of the session
  Workers,         \* the ticks that run thinker jobs
  NoWorker,        \* the holder of a job that does not run
  MaxAttempts,     \* JOB_MAX_ATTEMPTS["cognition.thinker"]
  SplitThreshold,  \* BATCH_SPLIT_THRESHOLD
  SoftCap,         \* the soft cap of a batch's sketches
  OverlapTurns,    \* OVERLAP_TURNS
  SerialTurns,     \* TRUE: a turn starts when the one before has ended
  WorkerLedger,    \* TRUE: the thinker worker is given a settlementLedger
  FaultKinds,      \* the faults of the environment that may happen
  MaxFaults        \* bound of the model: how many of them

ASSUME PipelineAssumption ==
  /\ MaxTurns \in Nat
  /\ NoWorker \notin Workers
  /\ MaxAttempts \in Nat \ {0}
  /\ SplitThreshold \in Nat \ {0}
  /\ SoftCap \in Nat \ {0}
  /\ OverlapTurns \in Nat
  /\ SerialTurns \in BOOLEAN
  /\ WorkerLedger \in BOOLEAN
  /\ MaxFaults \in Nat

VARIABLES
  slot,      \* talker_turn_counter and thinker_committed_version
  talker,    \* what the Talker is doing about each turn
  ledger,    \* the status of each turn's settlement in the ledger
  jobs,      \* the rows of jobs_current
  ready,     \* the pending rows that are due, in the order of next_attempt_at
  work,      \* the run of the thinker worker on each tick
  sweep,     \* the thinker recovery of the sweeper
  aged,      \* the turns past THINKER_HARD_FAIL_THRESHOLD_MS
  faults,    \* how many faults there were
  thought,   \* history: committed projections that had the turn's sketch
  projected, \* history: committed projections under the turn's settlement
  hardFailed,\* history: the turns the sweeper gave up
  handed     \* history: the turns of the sub-batch each split job was made for

queue   == <<jobs, ready>>
history == <<thought, projected, hardFailed, handed>>
vars    == <<slot, talker, ledger, queue, work, sweep, aged, faults, history>>

Turns  == 1 .. MaxTurns
JobIds == {"main", "split"} \X Turns
TurnOf(j) == j[2]
Due == {ready[i] : i \in DOMAIN ready}
Settled == {v \in Turns : v <= slot.counter}

Statuses == {"absent", "talker_committed", "thinker_projecting", "applied",
             "replayed_noop", "failed_retryable", "failed_terminal"}
DoneStatuses == {"applied", "replayed_noop"}

Slot == [counter : Nat, version : Nat]
Row  == [status : {"none", "pending", "running", "succeeded", "failed_terminal"},
         attempts : Nat, holder : Workers \cup {NoWorker}]
NoRow == [status |-> "none", attempts |-> 0, holder |-> NoWorker]

\* A run of the worker: the job it was given, and the batch it works on.
\* chain: the turns whose sketches it has; top: the effective settlement;
\* members: the other settlements it will mark; subs: the sub-batches to enqueue.
Phases == {"idle", "checking", "skipping", "listing", "splitting", "thinking",
           "projecting", "applying", "completing", "failing", "failingTop", "reporting"}
Work == [phase : Phases, job : JobIds \cup {<<>>}, batch : BOOLEAN, chain : SUBSET Turns,
         top : Nat, members : SUBSET Turns, subs : SUBSET SUBSET Turns]
Idle == [phase |-> "idle", job |-> <<>>, batch |-> FALSE, chain |-> {},
         top |-> 0, members |-> {}, subs |-> {}]
Given(j) == [Idle EXCEPT !.phase = "checking", !.job = j]

NoSweep == [todo |-> {}, found |-> 0]

TypeOK ==
  /\ slot \in Slot
  /\ talker \in [Turns -> {"none", "marking", "enqueuing", "retrying", "done", "lost"}]
  /\ ledger \in [Turns -> Statuses]
  /\ jobs \in [JobIds -> Row]
  /\ \A j \in JobIds : jobs[j].status = "running" <=> jobs[j].holder # NoWorker
  /\ ready \in Seq(JobIds)
  /\ \A j \in Due : jobs[j].status = "pending"
  /\ \A i, k \in DOMAIN ready : ready[i] = ready[k] => i = k
  /\ work \in [Workers -> Work]
  /\ sweep \in [todo : SUBSET Turns, found : Turns \cup {0}]
  /\ aged \subseteq Turns
  /\ faults \in Nat
  /\ thought \in [Turns -> Nat]
  /\ projected \in [Turns -> Nat]
  /\ hardFailed \subseteq Turns
  /\ handed \in [Turns -> SUBSET Turns]

Init ==
  /\ slot = [counter |-> 0, version |-> 0]
  /\ talker = [v \in Turns |-> "none"]
  /\ ledger = [v \in Turns |-> "absent"]
  /\ jobs = [j \in JobIds |-> NoRow]
  /\ ready = <<>>
  /\ work = [w \in Workers |-> Idle]
  /\ sweep = NoSweep
  /\ aged = {}
  /\ faults = 0
  /\ thought = [v \in Turns |-> 0]
  /\ projected = [v \in Turns |-> 0]
  /\ hardFailed = {}
  /\ handed = [v \in Turns |-> {}]

Fault(kind) ==
  /\ kind \in FaultKinds
  /\ faults < MaxFaults
  /\ faults' = faults + 1

NoFault == UNCHANGED faults

-----------------------------------------------------------------------------
(* The settlement ledger: each mark is one guarded UPDATE. *)

\* No WHERE status IN (...).
FailedStatus_Bug(s, status) == IF s = "absent" THEN s ELSE status

AppliedStatus(s)      == IF s = "thinker_projecting" THEN "applied" ELSE s
NoopStatus(s)         == IF s = "absent" THEN s ELSE "replayed_noop"
FailedStatus(s, status) == IF s = "thinker_projecting" THEN status ELSE s
CommittedStatus(s)    == IF s = "absent" THEN "talker_committed" ELSE s
ProjectingStatus(s)   == IF s \in {"talker_committed", "failed_retryable"}
                         THEN "thinker_projecting" ELSE s

Record(v, status) == ledger' = [ledger EXCEPT ![v] = status]

\* A mark of the worker.  It is skipped when the worker has no ledger, and
\* when the statement fails the worker goes on: that is a fault.
Mark(v, status) ==
  IF ~WorkerLedger THEN NoFault /\ UNCHANGED ledger
  ELSE \/ NoFault /\ Record(v, status)
       \/ Fault("ledger") /\ UNCHANGED ledger

-----------------------------------------------------------------------------
(* The durable job store. *)

InStatus(S) == {j \in JobIds : jobs[j].status \in S}

Ended(j, status) == [jobs EXCEPT ![j].status = status, ![j].holder = NoWorker]

\* The row of j becomes due: behind those that are.
MakeDue(j, row) ==
  /\ jobs' = [jobs EXCEPT ![j] = row]
  /\ ready' = Append(ready, j)

\* ON CONFLICT DO NOTHING: a key that has a row, of any status, is left alone.
Enqueue(j) ==
  IF jobs[j].status = "none" THEN MakeDue(j, [NoRow EXCEPT !.status = "pending"])
  ELSE UNCHANGED queue

Holds(w) == jobs[work[w].job].holder = w

\* claimNext: one job of the session at a time, the one that has been due the
\* longest.  A later one overtakes it when another tick's scan, begun before
\* the later one was due, has the earlier rows locked (SKIP LOCKED).
Claim(w) ==
  /\ work[w].phase = "idle"
  /\ InStatus({"running"}) = {}
  /\ \E i \in DOMAIN ready :
       LET j == ready[i] IN
       /\ IF i = 1 THEN NoFault ELSE Fault("overtake")
       /\ jobs' = [jobs EXCEPT ![j] = [status |-> "running", holder |-> w,
                                        attempts |-> @.attempts + 1]]
       /\ ready' = RemoveAt(ready, i)
       /\ work' = [work EXCEPT ![w] = Given(j)]
  /\ UNCHANGED <<slot, talker, ledger, sweep, aged, history>>

\* complete and fail of a claim that was lost change nothing.
Complete(w) ==
  /\ work[w].phase = "completing"
  /\ jobs' = IF Holds(w) THEN Ended(work[w].job, "succeeded") ELSE jobs
  /\ work' = [work EXCEPT ![w] = Idle]
  /\ UNCHANGED <<slot, talker, ledger, ready, sweep, aged, faults, history>>

Fail(w) ==
  LET j == work[w].job IN
  /\ work[w].phase = "reporting"
  /\ jobs' = IF ~Holds(w) THEN jobs
             ELSE Ended(j, IF jobs[j].attempts < MaxAttempts THEN "pending"
                           ELSE "failed_terminal")
  /\ work' = [work EXCEPT ![w] = Idle]
  /\ UNCHANGED <<slot, talker, ledger, ready, sweep, aged, faults, history>>

BackoffElapses(j) ==
  /\ jobs[j].status = "pending" /\ j \notin Due
  /\ MakeDue(j, jobs[j])
  /\ UNCHANGED <<slot, talker, ledger, work, sweep, aged, faults, history>>

\* reclaimExpiredLeases, when the holder has crashed; that the lease of a
\* worker runs out while it works is a fault.
Reclaim(j) ==
  /\ jobs[j].status = "running"
  /\ IF work[jobs[j].holder].job = j THEN Fault("lease") ELSE NoFault
  /\ MakeDue(j, [jobs[j] EXCEPT !.status = "pending", !.holder = NoWorker])
  /\ UNCHANGED <<slot, talker, ledger, work, sweep, aged, history>>

-----------------------------------------------------------------------------
(* The Talker. *)

\* One transaction: the slot's counter, whose row lock makes transactions of
\* the session follow each other, and the settlement's records.
CommitTurn(v) ==
  /\ v = slot.counter + 1
  /\ SerialTurns => \A u \in Settled : talker[u] \in {"done", "lost"}
  /\ slot' = [slot EXCEPT !.counter = v]
  /\ talker' = [talker EXCEPT ![v] = "marking"]
  /\ UNCHANGED <<ledger, queue, work, sweep, aged, faults, history>>

\* A failure of the mark is not fatal.
MarkTalkerCommitted(v) ==
  /\ talker[v] = "marking"
  /\ \/ NoFault /\ Record(v, CommittedStatus(ledger[v]))
     \/ Fault("ledger") /\ UNCHANGED ledger
  /\ talker' = [talker EXCEPT ![v] = "enqueuing"]
  /\ UNCHANGED <<slot, queue, work, sweep, aged, history>>

\* The enqueue is tried twice; the second failure is thrown.
EnqueueTurn(v) ==
  /\ talker[v] \in {"enqueuing", "retrying"}
  /\ \/ /\ NoFault
        /\ Enqueue(<<"main", v>>)
        /\ talker' = [talker EXCEPT ![v] = "done"]
     \/ /\ Fault("enqueue")
        /\ talker' = [talker EXCEPT ![v] = IF @ = "enqueuing" THEN "retrying" ELSE "lost"]
        /\ UNCHANGED queue
  /\ UNCHANGED <<slot, ledger, work, sweep, aged, history>>

\* The process dies after the commit: nobody enqueues the job.
TalkerCrash(v) ==
  /\ talker[v] \in {"marking", "enqueuing", "retrying"}
  /\ Fault("talker")
  /\ talker' = [talker EXCEPT ![v] = "lost"]
  /\ UNCHANGED <<slot, ledger, queue, work, sweep, aged, history>>

-----------------------------------------------------------------------------
(* The thinker worker. *)

Goto(w, phase) == work' = [work EXCEPT ![w].phase = phase]

\* Off by one.
AlreadyDone_SkipBug(v) == slot.version + 1 >= v

\* The idempotency check.  It reads the slot outside the transaction that
\* will move the version.
AlreadyDone(v) == slot.version >= v

Check(w) ==
  /\ work[w].phase = "checking"
  /\ Goto(w, IF AlreadyDone(TurnOf(work[w].job)) THEN "skipping" ELSE "listing")
  /\ UNCHANGED <<slot, talker, ledger, queue, sweep, aged, faults, history>>

Skip(w) ==
  LET v == TurnOf(work[w].job) IN
  /\ work[w].phase = "skipping"
  /\ Mark(v, NoopStatus(ledger[v]))
  /\ Goto(w, "completing")
  /\ UNCHANGED <<slot, talker, queue, sweep, aged, history>>

\* The entries of a batch in the order of their versions; two jobs of one
\* turn, its own and a split, are two entries.
Before(i, j) == TurnOf(i) < TurnOf(j) \/ (TurnOf(i) = TurnOf(j) /\ i[1] = "main" /\ j[1] = "split")
Position(E, j) == 1 + Cardinality({i \in E : Before(i, j)})
Between(E, lo, hi) == {j \in E : lo <= Position(E, j) /\ Position(E, j) <= hi}
TurnsOf(E) == {TurnOf(j) : j \in E}
TurnAt(E, n) == CHOOSE v \in Turns : v \in TurnsOf(Between(E, n, n))

Single(r) ==
  [r EXCEPT !.phase = "thinking", !.chain = {TurnOf(r.job)}, !.top = TurnOf(r.job)]

\* The batch keeps the newest SoftCap sketches of the n it has loaded, from lo
\* to n.  Of these the worker takes the first SplitThreshold, up to hi.
Oldest(n) == IF n > SoftCap THEN n - SoftCap + 1 ELSE 1
OwnEnd(n) == LET end == Oldest(n) + SplitThreshold - 1 IN IF end < n THEN end ELSE n

\* effectiveHighestVersion after the split.
Effective(E, n) == TurnAt(E, OwnEnd(n))

\* Each further group of SplitThreshold sketches is a sub-batch.
SubBatches(E, n) ==
  {TurnsOf(Between(E, k, IF k + SplitThreshold - 1 < n THEN k + SplitThreshold - 1 ELSE n)) :
     k \in {k \in OwnEnd(n) + 1 .. n : (k - OwnEnd(n)) % SplitThreshold = 1 % SplitThreshold}}

\* Taken before the split lowers the batch's highest turn.
Members_Bug(E, n) == TurnsOf(E) \ {Effective(E, n)}

\* The members are all the jobs listed up to the batch's highest turn, those
\* that the soft cap has left out included.
Members(E, n) == {v \in TurnsOf(E) : v < Effective(E, n)}

Batch(r, E, n) ==
  [r EXCEPT !.phase = IF SubBatches(E, n) = {} THEN "thinking" ELSE "splitting",
            !.batch = TRUE,
            !.chain = TurnsOf(Between(E, Oldest(n), OwnEnd(n))),
            !.top = Effective(E, n),
            !.members = Members(E, n),
            !.subs = SubBatches(E, n)]

\* The jobs of other turns that are pending and due at this moment, those of
\* turns that the version has passed included.
OtherPending(v) == {j \in Due : TurnOf(j) # v}

\* Sketches are loaded in order; a failure truncates the chain, and a chain of
\* one or none falls back to the job's own turn.
List(w) ==
  LET r == work[w]
      E == {r.job} \cup OtherPending(TurnOf(r.job))
      Chosen(n) == work' = [work EXCEPT ![w] = IF n <= 1 THEN Single(r) ELSE Batch(r, E, n)]
  IN
  /\ r.phase = "listing"
  /\ \/ NoFault /\ Chosen(Cardinality(E))
     \/ /\ Cardinality(E) > 1
        /\ Fault("sketch")
        /\ \E n \in 0 .. Cardinality(E) - 1 : Chosen(n)
  /\ UNCHANGED <<slot, talker, ledger, queue, sweep, aged, history>>

\* A sub-batch's job is keyed to its highest turn, and carries only that one.
SplitKey(S) == CHOOSE v \in S : \A u \in S : u <= v

\* One sub-batch after the other; a failure is logged only.
Split(w) ==
  LET r == work[w] IN
  /\ r.phase = "splitting"
  /\ \E S \in r.subs :
       /\ \A R \in r.subs : SplitKey(S) <= SplitKey(R)
       /\ \/ /\ NoFault
             /\ Enqueue(<<"split", SplitKey(S)>>)
             /\ handed' = [handed EXCEPT ![SplitKey(S)] = @ \cup S]
          \/ Fault("enqueue") /\ UNCHANGED <<queue, handed>>
       /\ work' = [work EXCEPT ![w].subs = @ \ {S},
                               ![w].phase = IF r.subs = {S} THEN "thinking" ELSE @]
  /\ UNCHANGED <<slot, talker, ledger, sweep, aged, thought, projected, hardFailed>>

\* The agent loop returns an outcome, and the settlement is marked.
Think(w) ==
  LET v == work[w].top IN
  /\ work[w].phase = "thinking"
  /\ Mark(v, ProjectingStatus(ledger[v]))
  /\ Goto(w, "projecting")
  /\ UNCHANGED <<slot, talker, queue, sweep, aged, history>>

\* The agent loop fails, or the projection transaction rolls back.
Throw(w) ==
  /\ \/ work[w].phase = "thinking" /\ Fault("think")
     \/ work[w].phase = "projecting" /\ Fault("project")
  /\ Goto(w, "failing")
  /\ UNCHANGED <<slot, talker, ledger, queue, sweep, aged, history>>

\* + 1 for a batch as well; the Talker's number instead of the batch's.
Advanced_StepBug(r)    == slot.version + 1
Advanced_CounterBug(r) == IF r.batch THEN slot.counter ELSE slot.version + 1

\* setThinkerVersion for a batch, versionIncrement for a single turn.
Advanced(r) ==
  IF ~r.batch THEN slot.version + 1
  ELSE IF r.top > slot.version THEN r.top ELSE slot.version

\* The projection transaction.
Project(w) ==
  LET r == work[w] IN
  /\ r.phase = "projecting"
  /\ slot' = [slot EXCEPT !.version = Advanced(r)]
  /\ thought' = [v \in Turns |-> IF v \in r.chain THEN thought[v] + 1 ELSE thought[v]]
  /\ projected' = [projected EXCEPT ![r.top] = @ + 1]
  /\ Goto(w, "applying")
  /\ UNCHANGED <<talker, ledger, queue, sweep, aged, faults, hardFailed, handed>>

\* markApplied for the effective settlement, then markReplayedNoop for the
\* other members, one after the other.
MarkApplied(w) ==
  LET v == work[w].top IN
  /\ work[w].phase = "applying"
  /\ v # 0
  /\ Mark(v, AppliedStatus(ledger[v]))
  /\ work' = [work EXCEPT ![w].top = 0,
                          ![w].phase = IF work[w].members = {} THEN "completing" ELSE @]
  /\ UNCHANGED <<slot, talker, queue, sweep, aged, history>>

MarkMember(w) ==
  LET r == work[w] IN
  /\ r.phase = "applying"
  /\ r.top = 0
  /\ \E v \in r.members :
       /\ \A u \in r.members : v <= u
       /\ Mark(v, NoopStatus(ledger[v]))
       /\ work' = [work EXCEPT ![w].members = @ \ {v},
                               ![w].phase = IF r.members = {v} THEN "completing" ELSE @]
  /\ UNCHANGED <<slot, talker, queue, sweep, aged, history>>

\* markFailed for the job's settlement and, in a batch, for the effective one;
\* when the first statement fails the second is not tried.
MarkFailed(w) ==
  LET r == work[w]
      v == TurnOf(r.job)
  IN
  /\ r.phase = "failing"
  /\ Mark(v, FailedStatus(ledger[v], "failed_retryable"))
  /\ Goto(w, IF r.batch /\ r.top # v /\ faults' = faults THEN "failingTop" ELSE "reporting")
  /\ UNCHANGED <<slot, talker, queue, sweep, aged, history>>

MarkTopFailed(w) ==
  LET v == work[w].top IN
  /\ work[w].phase = "failingTop"
  /\ Mark(v, FailedStatus(ledger[v], "failed_retryable"))
  /\ Goto(w, "reporting")
  /\ UNCHANGED <<slot, talker, queue, sweep, aged, history>>

\* The process of the tick dies.
Crash(w) ==
  /\ work[w].phase # "idle"
  /\ Fault("crash")
  /\ work' = [work EXCEPT ![w] = Idle]
  /\ UNCHANGED <<slot, talker, ledger, queue, sweep, aged, history>>

-----------------------------------------------------------------------------
(* The thinker recovery of the sweeper. *)

\* The last turn is left out.
Missing_Bug == {v \in Turns : slot.version < v /\ v < slot.counter}

\* The settlements with slot.version < talkerTurnVersion <= slot.counter.
Missing == {v \in Turns : slot.version < v /\ v <= slot.counter}

SweepStart ==
  /\ sweep = NoSweep
  /\ Missing # {}
  /\ sweep' = [NoSweep EXCEPT !.todo = Missing]
  /\ UNCHANGED <<slot, talker, ledger, queue, work, aged, faults, history>>

\* Is a job of this settlement pending or running?
SweepLook ==
  /\ sweep.found = 0
  /\ \E v \in sweep.todo :
       /\ \A u \in sweep.todo : v <= u
       /\ sweep' = [todo |-> sweep.todo \ {v},
                    found |-> IF \E j \in InStatus({"pending", "running"}) : TurnOf(j) = v
                              THEN 0 ELSE v]
  /\ UNCHANGED <<slot, talker, ledger, queue, work, aged, faults, history>>

\* None: the turn is given up when it is old, and enqueued when it is not.
SweepAct ==
  LET v == sweep.found IN
  /\ v # 0
  /\ sweep' = [sweep EXCEPT !.found = 0]
  /\ \/ /\ v \in aged
        /\ \/ NoFault /\ Record(v, FailedStatus(ledger[v], "failed_terminal"))
           \/ Fault("ledger") /\ UNCHANGED ledger
        /\ hardFailed' = hardFailed \cup {v}
        /\ UNCHANGED queue
     \/ /\ v \notin aged
        /\ \/ NoFault /\ Enqueue(<<"main", v>>)
           \/ Fault("enqueue") /\ UNCHANGED queue
        /\ UNCHANGED <<ledger, hardFailed>>
  /\ UNCHANGED <<slot, talker, work, aged, thought, projected, handed>>

\* Half an hour after its commit, long after the Talker is done with it; the
\* sweeper does not take that long from its look to its act.
Age(v) ==
  /\ v \in Settled \ aged
  /\ talker[v] \in {"done", "lost"}
  /\ sweep.found # v
  /\ Fault("age")
  /\ aged' = aged \cup {v}
  /\ UNCHANGED <<slot, talker, ledger, queue, work, sweep, history>>

-----------------------------------------------------------------------------
TalkerStep(v) == MarkTalkerCommitted(v) \/ EnqueueTurn(v)

WorkerStep(w) ==
  \/ Check(w) \/ Skip(w) \/ List(w) \/ Split(w) \/ Think(w) \/ Project(w)
  \/ MarkApplied(w) \/ MarkMember(w) \/ MarkFailed(w) \/ MarkTopFailed(w)
  \/ Complete(w) \/ Fail(w)

SweepStep == SweepStart \/ SweepLook \/ SweepAct

Next ==
  \/ \E v \in Turns : CommitTurn(v) \/ TalkerStep(v) \/ TalkerCrash(v) \/ Age(v)
  \/ \E w \in Workers : Claim(w) \/ WorkerStep(w) \/ Throw(w) \/ Crash(w)
  \/ \E j \in JobIds : BackoffElapses(j) \/ Reclaim(j)
  \/ SweepStep

\* The poll timer claims, a tick runs to its end, the reclaim sweeper and the
\* settlement sweeper run on their intervals, and time passes.
Fairness ==
  /\ \A v \in Turns : WF_vars(TalkerStep(v))
  /\ \A w \in Workers : WF_vars(Claim(w)) /\ WF_vars(WorkerStep(w))
  /\ \A j \in JobIds : WF_vars(BackoffElapses(j)) /\ WF_vars(Reclaim(j) /\ NoFault)
  /\ WF_vars(SweepStep)

Spec == Init /\ [][Next]_vars
FairSpec == Spec /\ Fairness

-----------------------------------------------------------------------------
(* Properties. *)

\* No sub-batch has got a job of its own: the Thinker was never further behind
\* than one run can take.
Unsplit == \A v \in Turns : handed[v] = {}

\* The slot's version speaks for every turn up to it: without faults, no turn
\* is passed over by the idempotency check (thinker-worker.ts:342) or by the
\* sweeper unless its sketch is in a committed projection.
VersionSpeaksForAll ==
  Unsplit => \A v \in Turns : v <= slot.version => thought[v] > 0

\* The Thinker's version does not overtake the Talker's counter, though one
\* path adds 1 to it and the other sets it.
VersionWithinCounter == slot.version <= slot.counter

\* The version never goes back: not by a batch that ends after a later one.
VersionNeverRegresses == [][slot'.version >= slot.version]_vars

\* What the ledger calls done has been earned, whichever of several runs, some
\* of lost claims, wrote the ledger: an applied settlement was projected under
\* its own id (thinker-worker.ts:804), and a settlement is a replayed noop only
\* when the slot's version speaks for it (:344, :815).
DoneIsEarned ==
  \A v \in Turns :
    /\ ledger[v] = "applied" => projected[v] > 0
    /\ ledger[v] = "replayed_noop" => v <= slot.version

\* A settlement that is done stays done: no late failure, no hard failure by
\* the sweeper and no retry takes it back.
DoneStaysDone ==
  [][\A v \in Turns : ledger[v] \in DoneStatuses => ledger'[v] \in DoneStatuses]_vars

\* Batches overlap in the turns they list, but each turn's sketch is in one
\* committed projection at most (thinker-worker.ts:374).  Once a batch was split
\* that is over: a later run lists the split jobs of turns that are done.
ThoughtOnce == Unsplit => \A v \in Turns : thought[v] <= 1

\* Every committed turn is thought about, as long as no batch is split.
EveryTurnIsThought ==
  \A v \in Turns : v <= slot.counter ~> thought[v] > 0 \/ ~Unsplit

\* Whatever the Talker loses after its commit, the sweeper sees to it that the
\* turn has a job, unless the version passes it or it is given up.
EveryTurnGetsAJob ==
  \A v \in Turns : v <= slot.counter ~>
    \/ jobs[<<"main", v>>].status # "none"
    \/ v <= slot.version
    \/ v \in hardFailed

\* "sized to cover all turns the thinker hasn't processed yet, plus a few
\* extra turns" (turn-service.ts:105): the window of the next prompt.
WindowTurns ==
  OverlapTurns + (IF slot.version < slot.counter THEN slot.counter - slot.version ELSE 0)

WindowCoversUnprocessed ==
  \A v \in Settled : thought[v] = 0 => slot.counter - v < WindowTurns

\* "if chain is large, split and enqueue remainder as parallel jobs"
\* (thinker-worker.ts:451): when the job of a sub-batch has succeeded, the turns
\* it was enqueued for were thought about, or still have a job.
SubBatchIsProcessed ==
  \A v \in Turns : jobs[<<"split", v>>].status = "succeeded" =>
    \A u \in handed[v] :
      \/ thought[u] > 0
      \/ \E j \in InStatus({"pending", "running"}) : TurnOf(j) = u
=============================================================================
