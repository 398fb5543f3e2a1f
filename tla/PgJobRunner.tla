----------------------------- MODULE PgJobRunner ----------------------------
(***************************************************************************)
(* The job consumer over the store: PgJobRunner.processNext               *)
(* (src/jobs/pg-runner.ts), called by up to MAX_CONCURRENT_TICKS ticks of  *)
(* each consuming process (createPgJobConsumer in create-app-host.ts), and *)
(* the LeaseReclaimSweeper of the roles that start one.                    *)
(*                                                                         *)
(* A worker of PgJobStore is one tick.  It claims a job, runs the worker   *)
(* function registered for its type, and calls complete or fail once; it   *)
(* never calls heartbeat, so a slow worker function outlives its lease.    *)
(* Nothing in src/ calls cancel or cleanupTerminal.                        *)
(***************************************************************************)
EXTENDS PgJobStore

CONSTANTS
  Registered,  \* the jobs whose type has a worker function
  MaxFaults    \* bound of the model: crashes, database errors, slow runs

ASSUME RunnerAssumption ==
  /\ Registered \subseteq Jobs
  /\ MaxFaults \in Nat

VARIABLES
  run,         \* what the tick of each worker is doing, and with which claim
  faults       \* the faults so far

runnerVars == <<jobs_current, job_attempts, tx, enq, run, faults>>

Run == [phase : {"polling", "executing", "completing", "failing"},
        job : Jobs \cup {NoJob}, version : Versions \cup {0}]

Polling == [phase |-> "polling", job |-> NoJob, version |-> 0]

RunnerTypeOK ==
  /\ TypeOK
  /\ run \in [Workers -> Run]
  /\ faults \in 0 .. MaxFaults

RunnerInit ==
  /\ Init
  /\ run = [w \in Workers |-> Polling]
  /\ faults = 0

-----------------------------------------------------------------------------
InPhase(w, phase) == run[w].phase = phase

Goto(w, phase) == run' = [run EXCEPT ![w].phase = phase]

Done(w) == run' = [run EXCEPT ![w] = Polling]

\* A fault of the environment: each use is counted against the bound.
Fault == /\ faults < MaxFaults
         /\ faults' = faults + 1

\* processNext calls claimNext; a claim that returns none_ready, or throws,
\* ends the tick and the next one starts over.
Poll(w) ==
  /\ InPhase(w, "polling")
  /\ \/ ClaimScan(w) \/ ClaimEnd(w)
     \/ \E j \in Jobs : ClaimTry(w, j)
  /\ UNCHANGED <<run, faults>>

\* The claim is handed to the tick, which runs the worker function or, when
\* none is registered, fails the job.
TakeClaim(w) ==
  /\ InPhase(w, "polling")
  /\ ClaimCommit(w)
  /\ run' = [run EXCEPT ![w] =
       [phase   |-> IF tx[w].job \in Registered THEN "executing" ELSE "failing",
        job     |-> tx[w].job,
        version |-> jobs_current'[tx[w].job].claim_version]]
  /\ UNCHANGED faults

WorkerReturns(w) ==
  /\ InPhase(w, "executing")
  /\ Goto(w, "completing")
  /\ UNCHANGED <<vars, faults>>

WorkerThrows(w) ==
  /\ InPhase(w, "executing")
  /\ Goto(w, "failing")
  /\ UNCHANGED <<vars, faults>>

\* The fence of complete and fail misses: stale_claim marks the lost attempt,
\* not_running and not_found change nothing.
Miss(j, v) ==
  /\ ~Holds(j, v)
  /\ \/ StaleCall(j, v)
     \/ /\ jobs_current[j].status = "none" \/ jobs_current[j].claim_version = v
        /\ UNCHANGED vars

CompleteClaim(w) ==
  /\ InPhase(w, "completing")
  /\ Complete(run[w].job, run[w].version) \/ Miss(run[w].job, run[w].version)
  /\ Done(w)
  /\ UNCHANGED faults

\* complete throws inside the try of processNext, before or after its COMMIT,
\* and the catch clause calls fail with the same claim.
CompleteThrows(w) ==
  /\ InPhase(w, "completing")
  /\ Fault
  /\ UNCHANGED vars \/ Complete(run[w].job, run[w].version)
  /\ Goto(w, "failing")

FailClaim(w) ==
  /\ InPhase(w, "failing")
  /\ Fail(run[w].job, run[w].version) \/ Miss(run[w].job, run[w].version)
  /\ Done(w)
  /\ UNCHANGED faults

\* fail throws out of processNext; the consumer swallows it (runTick) and the
\* row stays running until its lease is reclaimed.
FailThrows(w) ==
  /\ InPhase(w, "failing")
  /\ Fault
  /\ UNCHANGED vars
  /\ Done(w)

\* The process dies, in the middle of a transaction or of a worker function,
\* and another starts in its place.
Crash(w) ==
  /\ tx[w].phase # "idle" \/ ~InPhase(w, "polling")
  /\ Fault
  /\ tx' = [tx EXCEPT ![w] = NoTx]
  /\ Done(w)
  /\ UNCHANGED <<jobs_current, job_attempts, enq>>

\* The lease of a claim whose tick is gone runs out; that it runs out under a
\* tick still at work is a fault.
LeaseRunsOut(j) ==
  /\ LeaseExpires(j)
  /\ IF \E w \in Workers : run[w].job = j /\ run[w].version = jobs_current[j].claim_version
     THEN Fault ELSE UNCHANGED faults
  /\ UNCHANGED run

\* The sweeper of some live process: a host of role worker or maintenance has
\* one, and a server that runs a consumer; a host of role local has none.
Sweep == ReclaimExpiredLeases /\ UNCHANGED <<run, faults>>

-----------------------------------------------------------------------------
Submit ==
  /\ \E j \in Jobs : Enqueue(j)
  /\ UNCHANGED <<run, faults>>

SubmitFamily(c) == EnqueueFamily(c) /\ UNCHANGED <<run, faults>>

BackoffRunsOut(j) == BackoffElapses(j) /\ UNCHANGED <<run, faults>>

Tick(w) ==
  \/ Poll(w) \/ TakeClaim(w) \/ WorkerReturns(w) \/ WorkerThrows(w)
  \/ CompleteClaim(w) \/ FailClaim(w)

RunnerNext ==
  \/ \E w \in Workers : Tick(w) \/ CompleteThrows(w) \/ FailThrows(w) \/ Crash(w)
  \/ \E j \in Jobs : BackoffRunsOut(j) \/ LeaseRunsOut(j)
  \/ \E c \in Clients : SubmitFamily(c)
  \/ Submit
  \/ Sweep

\* The consumer polls on a timer, a worker function returns or throws (the
\* model calls it makes time out), time passes, and the sweeper's interval
\* keeps firing.  No one is obliged to submit a job.
Fairness ==
  /\ \A w \in Workers : WF_runnerVars(Tick(w))
  /\ \A j \in Jobs : WF_runnerVars(BackoffRunsOut(j)) /\ WF_runnerVars(LeaseRunsOut(j))
  /\ WF_runnerVars(Sweep)

RunnerSpec == RunnerInit /\ [][RunnerNext]_runnerVars /\ Fairness

-----------------------------------------------------------------------------
(* Properties. *)

Busy(w) == ~InPhase(w, "polling")

\* No claim is ever in the hands of two ticks, though a reclaimed job is
\* claimed again while the first tick is still at work on it; and of the ticks
\* at work on one job only one can still end it.
OneTickPerClaim ==
  \A w, u \in Workers :
    w # u /\ Busy(w) /\ Busy(u) /\ run[w].job = run[u].job =>
      /\ run[w].version # run[u].version
      /\ ~(Holds(run[w].job, run[w].version) /\ Holds(run[u].job, run[u].version))

\* Until the first fault, the ticks at work are the running rows, one for one:
\* so the caps that claimNext counts in the table are caps on the work itself.
\* (A tick that outlives its lease breaks this, not the table's caps.)
WorkIsRunningRows ==
  faults = 0 => \A j \in Jobs :
    /\ Cardinality({w \in Workers : Busy(w) /\ run[w].job = j}) <= 1
    /\ jobs_current[j].status = "running" =>
         \E w \in Workers : /\ Busy(w)
                            /\ run[w].job = j
                            /\ run[w].version = jobs_current[j].claim_version

\* A tick that lost its lease writes nothing: neither its complete nor its
\* fail changes the row or the history of the job.
LateTickWritesNothing ==
  [][\A w \in Workers :
       /\ Busy(w) /\ ~Holds(run[w].job, run[w].version)
       /\ run'[w] # run[w]
       => UNCHANGED <<jobs_current, job_attempts>>]_runnerVars

\* A failed attempt costs nothing but itself: fail gives a job up only when
\* the attempts that fail or were lost to a fault use up max_attempts.
GivenUpAfterMaxAttempts ==
  \A j \in Jobs : jobs_current[j].status = "failed_terminal" =>
    Cardinality({v \in Versions : job_attempts[j][v] \in
                   {"failed_retry_scheduled", "failed_terminal", "lease_lost"}})
      >= MaxAttempts[j]

\* Every submitted job ends, in spite of crashes, database errors and slow
\* worker functions: what a dead process left running is reclaimed, claimed
\* again and finished or given up.
EveryJobEnds ==
  \A j \in Jobs : jobs_current[j].status \in Active
                    ~> jobs_current[j].status \in Terminal

=============================================================================
