---------------------------- MODULE JobDispatcher ---------------------------
(***************************************************************************)
(* The in-memory dispatcher: jobs submitted under a key, run by concurrent *)
(* calls of processNext, retried in place, and mirrored to the durable     *)
(* store by calls nobody awaits.  When the process starts again, the       *)
(* pending rows of the store become its jobs.  jobsByKey, which the        *)
(* dispatcher refreshes from the queue at every use, is the queue itself.  *)
(***************************************************************************)
EXTENDS Integers, FiniteSets

CONSTANTS
  DispatchJobs,      \* job keys
  SlotOf,            \* their concurrency keys, of kinds whose cap is one
  AttemptsOf,        \* their maxAttempts
  WithWorker,        \* those a worker is registered for
  Processors,        \* concurrent calls of processNext
  Vacant,            \* no job
  MaxRowVersion      \* bound on the claims of one row

ASSUME DispatchAssumption ==
  /\ AttemptsOf \in [DispatchJobs -> Nat \ {0}]
  /\ WithWorker \subseteq DispatchJobs
  /\ Vacant \notin DispatchJobs

VARIABLES
  queued,     \* the job of each key in the queue
  running,    \* the job each call of processNext runs
  inFlight,   \* inFlightByKey
  started,    \* whether startPromise has been made, and has resolved
  promises,   \* calls of the persistence under way
  row,        \* jobs_current, as far as the adapter moves it
  worked      \* jobs whose worker has returned: not in the code

dispatchVars == <<queued, running, inFlight, started, promises, row, worked>>

Absent == [status |-> "none", attempts |-> 0]
NoStored == [status |-> "none", attempts |-> 0, version |-> 0]

\* A call of enqueue, claim, complete or fail; n tells the calls of different
\* attempts apart.
Promise(op, j, n) == [op |-> op, job |-> j, n |-> n]

DispatchInit ==
  /\ queued = [j \in DispatchJobs |-> Absent]
  /\ running = [c \in Processors |-> Vacant]
  /\ inFlight = {}
  /\ started = "no"
  /\ promises = {}
  /\ row = [j \in DispatchJobs |-> NoStored]
  /\ worked = {}

Starting == IF started = "no" THEN "loading" ELSE started
-----------------------------------------------------------------------------
(***************************************************************************)
(* submit, start and processNext.                                          *)
(***************************************************************************)
\* checkDuplicate: whatever its status, a job of the same key is in the way.
SubmitJob(j) ==
  /\ started' = Starting
  /\ IF queued[j].status = "none"
     THEN /\ queued' = [queued EXCEPT ![j].status = "pending"]
          /\ promises' = promises \cup {Promise("enqueue", j, 0)}
     ELSE UNCHANGED <<queued, promises>>
  /\ UNCHANGED <<running, inFlight, row, worked>>

\* loadResumableJobs: keys submitted while it read are not taken again.
Load ==
  LET found == {j \in DispatchJobs : row[j].status = "pending" /\ queued[j].status = "none"} IN
  /\ started = "loading"
  /\ started' = "done"
  /\ queued' = [j \in DispatchJobs |->
       IF j \in found THEN [status |-> "pending", attempts |-> row[j].attempts] ELSE queued[j]]
  /\ promises' = promises \cup {Promise("enqueue", j, row[j].attempts) : j \in found}
  /\ UNCHANGED <<running, inFlight, row, worked>>

CanRun_Bug(j) == TRUE

CanRun(j) == SlotOf[j] \notin inFlight

\* The synchronous part of processNext, after it has awaited start().
ProcessNext(c, j) ==
  /\ started = "done"
  /\ running[c] = Vacant
  /\ queued[j].status = "pending" /\ CanRun(j)
  /\ IF j \in WithWorker
     THEN /\ running' = [running EXCEPT ![c] = j]
          /\ inFlight' = inFlight \cup {SlotOf[j]}
          /\ queued' = [queued EXCEPT ![j] = [status |-> "running", attempts |-> @.attempts + 1]]
          /\ promises' = promises \cup {Promise("claim", j, queued[j].attempts + 1)}
     ELSE /\ queued' = [queued EXCEPT ![j].status = "failed"]
          /\ promises' = promises \cup {Promise("fail", j, queued[j].attempts)}
          /\ UNCHANGED <<running, inFlight>>
  /\ UNCHANGED <<started, row, worked>>

Released_Bug(c) == inFlight

Released(c) == inFlight \ {SlotOf[running[c]]}

WorkerReturned(c) ==
  LET j == running[c] IN
  /\ j # Vacant
  /\ queued' = [queued EXCEPT ![j].status = "completed"]
  /\ promises' = promises \cup {Promise("complete", j, queued[j].attempts)}
  /\ worked' = worked \cup {j}
  /\ running' = [running EXCEPT ![c] = Vacant]
  /\ inFlight' = inFlight \ {SlotOf[j]}
  /\ UNCHANGED <<started, row>>

AttemptsLeft(j) == queued[j].attempts < AttemptsOf[j]

WorkerThrew(c) ==
  LET j == running[c] IN
  /\ j # Vacant
  /\ queued' = [queued EXCEPT ![j].status = IF AttemptsLeft(j) THEN "pending" ELSE "failed"]
  /\ promises' = promises \cup {Promise("fail", j, queued[j].attempts)}
  /\ running' = [running EXCEPT ![c] = Vacant]
  /\ inFlight' = Released(c)
  /\ UNCHANGED <<started, row, worked>>
-----------------------------------------------------------------------------
(***************************************************************************)
(* The persistence: the calls may reach the database in any order.         *)
(***************************************************************************)
Insert(p) ==
  /\ p.op = "enqueue"
  /\ row' = IF row[p.job].status = "none"
            THEN [row EXCEPT ![p.job].status = "pending"] ELSE row
  /\ promises' = promises \ {p}
  /\ UNCHANGED <<queued, running, inFlight, started, worked>>

\* claim(jobId) takes the next job there is, whichever it was asked for.
ClaimSome(p) ==
  LET due == {j \in DispatchJobs : row[j].status = "pending"} IN
  /\ p.op = "claim"
  /\ \/ \E j \in due :
          /\ row[j].version < MaxRowVersion
          /\ row' = [row EXCEPT ![j] = [status |-> "running", attempts |-> @.attempts + 1,
                                        version |-> @.version + 1]]
     \/ /\ due = {} \/ \E j \in DispatchJobs : row[j].status = "running"
        /\ row' = row
  /\ promises' = promises \ {p}
  /\ UNCHANGED <<queued, running, inFlight, started, worked>>

Ending_Bug(p) == {j \in DispatchJobs : row[j].status = "running"}

\* The rows complete and fail may end: that of the job they name.
Ending(p) == {j \in {p.job} : row[j].status = "running"}

\* complete and fail read the row's version and present it as theirs; unless
\* the row has changed since, in which case they miss and do nothing.
EndRow(p, missed) ==
  /\ p.op \in {"complete", "fail"}
  /\ row' = [j \in DispatchJobs |->
       IF missed \/ j \notin Ending(p) THEN row[j]
       ELSE [row[j] EXCEPT !.status =
               IF p.op = "complete" THEN "succeeded"
               ELSE IF row[j].attempts < AttemptsOf[j] THEN "pending" ELSE "failed"]]
  /\ promises' = promises \ {p}
  /\ UNCHANGED <<queued, running, inFlight, started, worked>>

\* The leases of these claims have length zero; some host sweeps them.
ReclaimRow(j) ==
  /\ row[j].status = "running"
  /\ row' = [row EXCEPT ![j].status = "pending"]
  /\ UNCHANGED <<queued, running, inFlight, started, promises, worked>>

DispatchCrash ==
  /\ started # "no"
  /\ queued' = [j \in DispatchJobs |-> Absent]
  /\ running' = [c \in Processors |-> Vacant]
  /\ inFlight' = {} /\ promises' = {} /\ started' = "no"
  /\ UNCHANGED <<row, worked>>

\* The timer of the scheduler calls processNext, which starts the dispatcher.
SchedulerStarts ==
  /\ started = "no"
  /\ \E j \in DispatchJobs : row[j].status # "none"
  /\ started' = "loading"
  /\ UNCHANGED <<queued, running, inFlight, promises, row, worked>>

ProcessorStep(c) ==
  \/ \E j \in DispatchJobs : ProcessNext(c, j)
  \/ WorkerReturned(c) \/ WorkerThrew(c)

DispatchNext ==
  \/ \E j \in DispatchJobs : SubmitJob(j) \/ ReclaimRow(j)
  \/ SchedulerStarts \/ Load \/ DispatchCrash
  \/ \E c \in Processors : ProcessorStep(c)
  \/ \E p \in promises :
       Insert(p) \/ ClaimSome(p) \/ (\E missed \in BOOLEAN : EndRow(p, missed))

\* The scheduler ticks every 25 ms and workers end.
DispatchFairness ==
  /\ WF_dispatchVars(Load)
  /\ \A c \in Processors : WF_dispatchVars(ProcessorStep(c))

DispatchSpec == DispatchInit /\ [][DispatchNext]_dispatchVars /\ DispatchFairness
-----------------------------------------------------------------------------
(***************************************************************************)
(* Properties.                                                             *)
(***************************************************************************)
\* The type of the state, with the attempts a job can reach: its own, or one
\* more than its row had when a process that starts again took it up.
DispatchTypeOK ==
  /\ queued \in [DispatchJobs -> [status : {"none", "pending", "running", "completed", "failed"},
                                  attempts : Nat]]
  /\ \A j \in DispatchJobs :
       queued[j].attempts <= AttemptsOf[j] \/ queued[j].attempts <= row[j].version + 1
  /\ running \in [Processors -> DispatchJobs \cup {Vacant}]
  /\ inFlight \subseteq {SlotOf[j] : j \in DispatchJobs}
  /\ started \in {"no", "loading", "done"}
  /\ row \in [DispatchJobs -> [status : {"none", "pending", "running", "succeeded", "failed"},
                               attempts : Nat, version : Nat]]
  /\ promises \subseteq [op : {"enqueue", "claim", "complete", "fail"}, job : DispatchJobs,
                         n : Nat]
  /\ worked \subseteq DispatchJobs

\* The Set of keys in flight (dispatcher.ts:129, :191) stands for the jobs
\* that run: exactly one call runs a job of each key in it, and none runs a
\* job whose key is not there.
InFlightIsExact ==
  /\ \A c \in Processors : running[c] # Vacant => SlotOf[running[c]] \in inFlight
  /\ \A k \in inFlight :
       \E c \in Processors :
         /\ running[c] # Vacant /\ SlotOf[running[c]] = k
         /\ \A d \in Processors :
              running[d] # Vacant /\ SlotOf[running[d]] = k => d = c

\* Though claim takes any job and complete trusts the version it reads
\* (job-persistence-factory.ts:35), no row succeeds whose worker never
\* returned, in this life of the process or an earlier one.
SucceededRowWasWorked ==
  \A j \in DispatchJobs : row[j].status = "succeeded" => j \in worked

\* While the process lives an accepted job ends, its retries among those of
\* the jobs that share its concurrency key (dispatcher.ts:104).
AcceptedJobEnds ==
  \A j \in DispatchJobs :
    (queued[j].status = "pending") ~> (queued[j].status \notin {"pending", "running"})
=============================================================================
