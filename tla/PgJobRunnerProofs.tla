-------------------------- MODULE PgJobRunnerProofs --------------------------
(***************************************************************************)
(* Theorems about PgJobRunner, for any number of ticks, crashes, database  *)
(* errors and slow worker functions.                                       *)
(*                                                                         *)
(* The argument for the claims: a claim_version is handed to a tick with a *)
(* fresh attempt record, and an attempt record is never taken away; so a   *)
(* tick at work has a claim that is recorded, and the next claim of the    *)
(* same job is another one.                                                *)
(***************************************************************************)
EXTENDS PgJobRunner, PgJobStoreHistoryProofs

\* The rows a transaction has locked can be claimed once more.
RoomLeft ==
  \A w \in Workers : \A j \in tx[w].locks : jobs_current[j].claim_version < MaxClaims

\* A tick at work has a claim that is recorded.
ClaimsRecorded ==
  \A w \in Workers : Busy(w) =>
    /\ run[w].job \in Jobs
    /\ run[w].version \in Versions
    /\ Claimed(run[w].job, run[w].version)

\* No two ticks have the same claim.
ClaimsDiffer ==
  \A w, u \in Workers :
    w # u /\ Busy(w) /\ Busy(u) /\ run[w].job = run[u].job => run[w].version # run[u].version

StoreInv == ClaimInv /\ AttemptsMatchRows /\ RoomLeft

RunInv ==
  /\ run \in [Workers -> Run]
  /\ faults \in 0 .. MaxFaults
  /\ ClaimsRecorded
  /\ ClaimsDiffer

-----------------------------------------------------------------------------
(* The store under any of its steps. *)

\* What a step of the store leaves of a pending row: it may go, or run.
LEMMA PendingKeepsVersion ==
  ASSUME ClaimInv, [Next]_vars, NEW i \in Jobs,
         jobs_current[i].status = "pending", jobs_current'[i].status = "pending"
  PROVE  jobs_current'[i].claim_version = jobs_current[i].claim_version
<1>0. TypeOK /\ \A j \in Jobs : jobs_current[j] \in Row
  BY DEF ClaimInv, TypeOK
<1>1. ASSUME NEW j, NEW row, jobs_current' = [jobs_current EXCEPT ![j] = row],
             j = i => row.claim_version = jobs_current[j].claim_version
      PROVE  jobs_current'[i].claim_version = jobs_current[i].claim_version
  BY <1>0, <1>1 DEF TypeOK
<1>2. ASSUME NEW j \in Jobs, Enqueue(j) PROVE jobs_current'[i] = jobs_current[i]
  BY <1>0, <1>2 DEF Enqueue, TypeOK
<1>3. ASSUME NEW j \in Jobs, TimePasses(j)
      PROVE  jobs_current'[i].claim_version = jobs_current[i].claim_version
  <2>1. /\ Requeued(jobs_current[j], TRUE).claim_version = jobs_current[j].claim_version
        /\ WithLease(jobs_current[j], TRUE).claim_version = jobs_current[j].claim_version
    BY <1>0, RequeuedFacts, WithLeaseFacts
  <2>. QED  BY <1>1, <1>3, <2>1 DEF TimePasses, BackoffElapses, LeaseExpires
<1>4. ASSUME NEW c \in Clients, EnqueueFamily(c)
      PROVE  jobs_current'[i].claim_version = jobs_current[i].claim_version
  <2>1. CASE jobs_current' = jobs_current
    BY <2>1
  <2>2. ASSUME NEW a, NEW r \in Reasons,
               jobs_current' = [jobs_current EXCEPT ![a] = CoalescedInto(@, r)]
        PROVE  jobs_current'[i].claim_version = jobs_current[i].claim_version
    <3>1. CoalescedInto(jobs_current[i], r).claim_version = jobs_current[i].claim_version
      BY <1>0, CoalescedFacts
    <3>. QED  BY <1>1, <2>2, <3>1
  <2>3. ASSUME NEW j, NEW reasons \in SUBSET Reasons, jobs_current[j].status = "none",
               jobs_current' = [jobs_current EXCEPT ![j] = NewRow(TRUE, reasons)]
        PROVE  jobs_current'[i].claim_version = jobs_current[i].claim_version
    BY <1>1, <2>3
  <2>. QED  BY <1>0, <1>4, <2>1, <2>2, <2>3, EnqueueFacts
<1>5. ASSUME jobs_current' = jobs_current
      PROVE  jobs_current'[i].claim_version = jobs_current[i].claim_version
  BY <1>5
<1>6. ASSUME NEW w \in Workers, ClaimScan(w) \/ ClaimEnd(w) \/ ClaimAbort(w)
      PROVE  jobs_current' = jobs_current
  BY <1>6 DEF ClaimScan, ClaimEnd, ClaimAbort
<1>7. ASSUME NEW w \in Workers, NEW j \in Jobs, ClaimTry(w, j)
      PROVE  jobs_current' = jobs_current
  BY <1>7 DEF ClaimTry, ClaimSkipLocked, ClaimSkipFull, ClaimChoose
<1>8. ASSUME NEW w \in Workers, ClaimCommit(w) PROVE jobs_current'[i] = jobs_current[i]
  <2>1. PICK j \in Jobs : jobs_current' = [jobs_current EXCEPT ![j] = Started(@)]
    BY <1>8, CommitFacts
  <2>2. Started(jobs_current[j]).status = "running"
    BY <1>0, StartedFacts
  <2>. QED  BY <1>0, <2>1, <2>2 DEF TypeOK
<1>9. ASSUME NEW j \in Jobs, NEW v \in Versions, ClaimCall(j, v)
      PROVE  jobs_current'[i] = jobs_current[i]
  <2>1. CASE StaleCall(j, v)
    BY <2>1 DEF StaleCall
  <2>2. CASE ~StaleCall(j, v)
    <3>1. j # i
      BY <1>0, <1>9, <2>2, ClaimCallFacts DEF Holds
    <3>2. \/ \E row : jobs_current' = [jobs_current EXCEPT ![j] = row]
          \/ \E k \in Jobs :
               /\ jobs_current[k].status = "none"
               /\ jobs_current' = [jobs_current EXCEPT
                    ![j] = Ended(@, "succeeded"),
                    ![k] = NewRow(TRUE, jobs_current[j].reasons)]
      BY <1>0, <1>9, <2>2, ClaimCallFacts
    <3>. QED  BY <1>0, <3>1, <3>2 DEF TypeOK
  <2>. QED  BY <2>1, <2>2
<1>10. CASE ReclaimExpiredLeases
  BY <1>10 DEF ReclaimExpiredLeases, ExpiredLeases, InStatus
<1>11. CASE CleanupTerminal
  BY <1>11 DEF CleanupTerminal, InStatus, Terminal
<1>12. CASE UNCHANGED vars
  BY <1>12 DEF vars
<1>. QED
  BY <1>2, <1>3, <1>4, <1>5, <1>6, <1>7, <1>8, <1>9, <1>10, <1>11, <1>12 DEF Next

LEMMA RoomInit == Init => RoomLeft
BY NoTxFacts DEF Init, RoomLeft

\* A scan locks rows that can be claimed; until the lock is released they are
\* pending, and stay as they are.
LEMMA RoomStep == ClaimInv /\ RoomLeft /\ [Next]_vars => RoomLeft'
<1> SUFFICES ASSUME ClaimInv, RoomLeft, [Next]_vars PROVE RoomLeft'
  OBVIOUS
<1>0. ClaimInv' /\ TypeOK
  BY ClaimInvStep DEF ClaimInv
<1>1. \A w \in Workers : tx[w] \in Tx /\ tx[w].locks \subseteq Jobs
  BY <1>0 DEF TypeOK, Tx
<1>2. \A w \in Workers : \A i \in tx'[w].locks :
        i \in Jobs /\ jobs_current'[i].status = "pending"
  BY <1>0 DEF ClaimInv, RowLocksHold, TypeOK, Tx
<1>3. \A w \in Workers : \A i \in tx[w].locks : jobs_current[i].status = "pending"
  BY DEF ClaimInv, RowLocksHold
<1>4. \A w \in Workers : \A i \in tx'[w].locks :
        i \in tx[w].locks => jobs_current'[i].claim_version < MaxClaims
  BY <1>2, <1>3, PendingKeepsVersion DEF RoomLeft
<1>5. ASSUME NEW u \in Workers, NEW t, tx' = [tx EXCEPT ![u] = t], t.locks \subseteq tx[u].locks
      PROVE  RoomLeft'
  <2>1. \A w \in Workers : tx'[w].locks \subseteq tx[w].locks
    BY <1>0, <1>5 DEF TypeOK
  <2>. QED  BY <1>4, <2>1 DEF RoomLeft
<1>6. ASSUME tx' = tx PROVE RoomLeft'
  BY <1>4, <1>6 DEF RoomLeft
<1>7. ASSUME NEW u \in Workers, ClaimScan(u) PROVE RoomLeft'
  <2>1. PICK R \in Views(u) : \E passed \in SUBSET R : \E S \in (SUBSET (R \ passed)) \ {{}} :
          tx' = [tx EXCEPT ![u] = Scanned(tx[u], passed, S)]
    BY <1>7 DEF ClaimScan
  <2>2. PICK passed \in SUBSET R : \E S \in (SUBSET (R \ passed)) \ {{}} :
          tx' = [tx EXCEPT ![u] = Scanned(tx[u], passed, S)]
    BY <2>1
  <2>3. PICK S \in SUBSET (R \ passed) : tx' = [tx EXCEPT ![u] = Scanned(tx[u], passed, S)]
    BY <2>2
  <2>4. Scanned(tx[u], passed, S).locks = tx[u].locks \cup passed \cup S
    BY <1>1, Zenon DEF Scanned, Tx
  <2>5. \A i \in R : jobs_current[i].claim_version < MaxClaims
    BY DEF Views, Claimable
  <2>6. jobs_current' = jobs_current
    BY <1>7 DEF ClaimScan
  <2>7. /\ tx'[u].locks = tx[u].locks \cup passed \cup S
        /\ \A w \in Workers \ {u} : tx'[w] = tx[w]
    BY <1>0, <2>3, <2>4 DEF TypeOK
  <2>. QED  BY <1>4, <2>5, <2>6, <2>7 DEF RoomLeft
<1>8. ASSUME NEW u \in Workers, ClaimEnd(u) \/ ClaimAbort(u) \/ ClaimCommit(u) PROVE RoomLeft'
  <2>1. tx' = [tx EXCEPT ![u] = NoTx]
    BY <1>8 DEF ClaimEnd, ClaimAbort, ClaimCommit
  <2>. QED  BY <1>5, <2>1, NoTxFacts
<1>9. ASSUME NEW u \in Workers, NEW j \in Jobs, ClaimTry(u, j) PROVE RoomLeft'
  <2>1. WithKeyOf(tx[u], j) \in Tx /\ WithKeyOf(tx[u], j).locks = tx[u].locks
    BY <1>1, WithKeyOfFacts
  <2>2. /\ PassedOver(tx[u], j).locks = tx[u].locks
        /\ PassedOver(WithKeyOf(tx[u], j), j).locks = tx[u].locks
        /\ Chosen(WithKeyOf(tx[u], j), j).locks = tx[u].locks
    BY <1>1, <2>1, PassedOverFacts, ChosenFacts
  <2>3. \E t : tx' = [tx EXCEPT ![u] = t] /\ t.locks = tx[u].locks
    BY <1>9, <2>2 DEF ClaimTry, ClaimSkipLocked, ClaimSkipFull, ClaimChoose
  <2>. QED  BY <1>5, <2>3
<1>10. ASSUME NEW j \in Jobs, Enqueue(j) \/ TimePasses(j) PROVE RoomLeft'
  BY <1>6, <1>10 DEF Enqueue, TimePasses, BackoffElapses, LeaseExpires
<1>11. ASSUME NEW c \in Clients, EnqueueFamily(c) PROVE RoomLeft'
  BY <1>6, <1>11 DEF EnqueueFamily, EnqueueLookup, EnqueueMerge, EnqueueInsert,
                     EnqueueRecheck, EnqueueMergeAgain
<1>12. ASSUME NEW j \in Jobs, NEW v \in Versions, ClaimCall(j, v) PROVE RoomLeft'
  BY <1>6, <1>12 DEF ClaimCall, StaleCall, Heartbeat, Complete, Fail, Cancel
<1>13. CASE ReclaimExpiredLeases \/ CleanupTerminal
  BY <1>6, <1>13 DEF ReclaimExpiredLeases, CleanupTerminal
<1>14. CASE UNCHANGED vars
  BY <1>6, <1>14 DEF vars
<1>. QED
  BY <1>7, <1>8, <1>9, <1>10, <1>11, <1>12, <1>13, <1>14 DEF Next

\* An attempt that was recorded stays recorded.
LEMMA ClaimedStays ==
  ASSUME ClaimInv, [Next]_vars, NEW j \in Jobs, NEW v \in Versions, Claimed(j, v)
  PROVE  Claimed(j, v)'
<1>0. TypeOK
  BY DEF ClaimInv
<1>1. ASSUME NEW w \in Workers, ClaimCommit(w) PROVE Claimed(j, v)'
  <2>1. PICK i \in Jobs : job_attempts' = [job_attempts EXCEPT
                                  ![i][jobs_current[i].claim_version + 1] = "running"]
    BY <1>1, CommitFacts
  <2>2. PICK n : n = jobs_current[i].claim_version + 1
    OBVIOUS
  <2>. QED  BY <1>0, <2>1, <2>2 DEF TypeOK, Claimed
<1>2. ASSUME NEW i \in Jobs, NEW u \in Versions, NEW outcome, MarkAttempt(i, u, outcome),
             outcome # "none"
      PROVE  Claimed(j, v)'
  BY <1>0, <1>2 DEF TypeOK, Claimed, MarkAttempt
<1>3. ASSUME NEW i \in Jobs, NEW u \in Versions, ClaimCall(i, u) PROVE Claimed(j, v)'
  <2>1. CASE job_attempts' = job_attempts
    BY <2>1 DEF Claimed
  <2>2. CASE StaleCall(i, u)
    BY <1>2, <2>2 DEF StaleCall
  <2>3. CASE ~StaleCall(i, u)
    <3>1. \/ job_attempts' = job_attempts
          \/ \E outcome \in Outcomes \ {"none", "running"} : MarkAttempt(i, u, outcome)
      BY <1>0, <1>3, <2>3, ClaimCallFacts
    <3>. QED  BY <1>2, <2>1, <3>1
  <2>. QED  BY <2>2, <2>3
<1>4. CASE ReclaimExpiredLeases
  <2>1. PICK E : E = ExpiredLeases
    OBVIOUS
  <2>. QED  BY <1>4, <2>1 DEF ReclaimExpiredLeases, Claimed
<1>5. CASE job_attempts' = job_attempts
  BY <1>5 DEF Claimed
<1>. QED  BY <1>1, <1>3, <1>4, <1>5, AttemptsUntouched

LEMMA StoreInvInit == Init => StoreInv
BY ClaimInvInit, AttemptsInit, RoomInit DEF StoreInv

LEMMA StoreInvStep == StoreInv /\ [Next]_vars => StoreInv'
<1>1. ClaimInv /\ [Next]_vars => TypeOK'
  BY ClaimInvStep DEF ClaimInv
<1>. QED  BY <1>1, ClaimInvStep, AttemptsStep, RoomStep DEF StoreInv

-----------------------------------------------------------------------------
(* The steps of the consumer. *)

\* The claim of a tick at work.
LEMMA BusyClaim ==
  ASSUME RunInv, NEW w \in Workers, Busy(w)
  PROVE  /\ run[w] \in Run
         /\ run[w].job \in Jobs /\ run[w].version \in Versions
         /\ Claimed(run[w].job, run[w].version)
BY DEF RunInv, ClaimsRecorded

\* The tick goes on with its claim, or drops it.
LEMMA RunUpdates ==
  ASSUME RunInv, NEW w \in Workers
  PROVE  /\ Polling \in Run /\ Polling.phase = "polling"
         /\ \A phase \in {"completing", "failing"} : Goto(w, phase) =>
              \E r \in Run : /\ run' = [run EXCEPT ![w] = r]
                             /\ r.job = run[w].job /\ r.version = run[w].version
<1>1. Polling \in Run /\ Polling.phase = "polling"
  BY DEF Polling, Run
<1>2. ASSUME NEW phase \in {"completing", "failing"}, Goto(w, phase)
      PROVE  \E r \in Run : /\ run' = [run EXCEPT ![w] = r]
                            /\ r.job = run[w].job /\ r.version = run[w].version
  <2>1. run[w] \in Run
    BY DEF RunInv
  <2>2. PICK r : r = [run[w] EXCEPT !.phase = phase]
    OBVIOUS
  <2>3. r \in Run /\ r.job = run[w].job /\ r.version = run[w].version
    BY <2>1, <2>2 DEF Run
  <2>4. run' = [run EXCEPT ![w] = r]
    BY <1>2, <2>2 DEF Goto
  <2>. QED  BY <2>3, <2>4
<1>. QED  BY <1>1, <1>2

\* A call that misses the fence is one of those that ClaimCall allows, or
\* nothing.
LEMMA MissSteps ==
  ASSUME NEW j \in Jobs, NEW v \in Versions, Miss(j, v)
  PROVE  [Next]_vars
BY DEF Miss, ClaimCall, Next

\* Every step of the consumer is one of the store, or a crash.
LEMMA RunnerIsStore ==
  ASSUME RunInv, [RunnerNext]_runnerVars
  PROVE  \/ [Next]_vars
         \/ /\ UNCHANGED <<jobs_current, job_attempts, enq>>
            /\ \E w \in Workers : tx' = [tx EXCEPT ![w] = NoTx]
<1>1. ASSUME NEW w \in Workers, Tick(w) \/ CompleteThrows(w) \/ FailThrows(w) \/ Crash(w)
      PROVE  \/ [Next]_vars
             \/ /\ UNCHANGED <<jobs_current, job_attempts, enq>>
                /\ tx' = [tx EXCEPT ![w] = NoTx]
  <2>1. CASE Poll(w) \/ TakeClaim(w)
    BY <2>1 DEF Poll, TakeClaim, Next
  <2>2. CASE WorkerReturns(w) \/ WorkerThrows(w) \/ FailThrows(w)
    BY <2>2 DEF WorkerReturns, WorkerThrows, FailThrows
  <2>3. CASE CompleteClaim(w) \/ CompleteThrows(w) \/ FailClaim(w)
    <3>1. run[w].job \in Jobs /\ run[w].version \in Versions
      BY <2>3, BusyClaim DEF CompleteClaim, CompleteThrows, FailClaim, Busy, InPhase
    <3>2. \/ Complete(run[w].job, run[w].version) \/ Fail(run[w].job, run[w].version)
          \/ Miss(run[w].job, run[w].version) \/ UNCHANGED vars
      BY <2>3 DEF CompleteClaim, CompleteThrows, FailClaim
    <3>. QED  BY <3>1, <3>2, MissSteps DEF ClaimCall, Next
  <2>4. CASE Crash(w)
    BY <2>4 DEF Crash
  <2>. QED  BY <1>1, <2>1, <2>2, <2>3, <2>4 DEF Tick
<1>2. CASE \E j \in Jobs : BackoffRunsOut(j) \/ LeaseRunsOut(j)
  BY <1>2 DEF BackoffRunsOut, LeaseRunsOut, TimePasses, Next
<1>3. CASE Submit \/ \E c \in Clients : SubmitFamily(c)
  BY <1>3 DEF Submit, SubmitFamily, Next
<1>4. CASE Sweep
  BY <1>4 DEF Sweep, Next
<1>5. CASE UNCHANGED runnerVars
  BY <1>5 DEF runnerVars, vars
<1>. QED  BY <1>1, <1>2, <1>3, <1>4, <1>5 DEF RunnerNext

\* A crash rolls the transaction back: every lock is released.
LEMMA RollbackPreserves ==
  ASSUME StoreInv, NEW w \in Workers, tx' = [tx EXCEPT ![w] = NoTx],
         UNCHANGED <<jobs_current, job_attempts, enq>>
  PROVE  StoreInv'
<1>0. TypeOK'
  BY NoTxFacts DEF StoreInv, ClaimInv, TypeOK
<1>1. ClaimInv'
  BY <1>0, NoTxFacts, TxStepPreserves DEF StoreInv
<1>2. RoomLeft'
  <2>1. \A u \in Workers : tx'[u].locks \subseteq tx[u].locks
    BY NoTxFacts DEF StoreInv, ClaimInv, TypeOK
  <2>. QED  BY <2>1 DEF StoreInv, RoomLeft
<1>. QED  BY <1>1, <1>2 DEF StoreInv, AttemptsMatchRows

LEMMA StoreInvRuns == StoreInv /\ RunInv /\ [RunnerNext]_runnerVars => StoreInv'
BY RunnerIsStore, StoreInvStep, RollbackPreserves

LEMMA ClaimsStay ==
  ASSUME StoreInv, RunInv, [RunnerNext]_runnerVars,
         NEW j \in Jobs, NEW v \in Versions, Claimed(j, v)
  PROVE  Claimed(j, v)'
<1>1. CASE [Next]_vars
  BY <1>1, ClaimedStays DEF StoreInv
<1>2. CASE job_attempts' = job_attempts
  BY <1>2 DEF Claimed
<1>. QED  BY <1>1, <1>2, RunnerIsStore

\* No tick is given a claim.
LEMMA NoClaimTaken ==
  ASSUME StoreInv, RunInv, [RunnerNext]_runnerVars, run' \in [Workers -> Run],
         faults' \in 0 .. MaxFaults,
         \A w \in Workers : \/ run'[w].phase = "polling"
                            \/ /\ Busy(w)
                               /\ run'[w].job = run[w].job /\ run'[w].version = run[w].version
  PROVE  RunInv'
<1>1. ClaimsRecorded'
  <2> SUFFICES ASSUME NEW w \in Workers, Busy(w)'
               PROVE  (/\ run[w].job \in Jobs /\ run[w].version \in Versions
                       /\ Claimed(run[w].job, run[w].version))'
    BY DEF ClaimsRecorded
  <2>1. /\ Busy(w) /\ run'[w].job = run[w].job /\ run'[w].version = run[w].version
    BY DEF Busy, InPhase
  <2>2. PICK j \in Jobs, v \in Versions : j = run[w].job /\ v = run[w].version
    BY <2>1, BusyClaim
  <2>3. Claimed(j, v)'
    BY <2>1, <2>2, BusyClaim, ClaimsStay
  <2>. QED  BY <2>1, <2>2, <2>3 DEF Claimed
<1>2. ClaimsDiffer'
  BY DEF RunInv, ClaimsDiffer, Busy, InPhase
<1>. QED  BY <1>1, <1>2 DEF RunInv

\* The claim that a tick is given was not recorded before, so it is no one's.
LEMMA ClaimTaken ==
  ASSUME StoreInv, RunInv, NEW w \in Workers, TakeClaim(w)
  PROVE  RunInv'
<1>1. PICK j \in Jobs :
        /\ j = tx[w].job /\ j \in tx[w].locks
        /\ ~Claimed(j, jobs_current[j].claim_version + 1)
        /\ jobs_current' = [jobs_current EXCEPT ![j] = Started(@)]
        /\ job_attempts' = [job_attempts EXCEPT
                              ![j][jobs_current[j].claim_version + 1] = "running"]
  BY CommitFacts DEF TakeClaim, StoreInv
<1>2. PICK v : v = jobs_current[j].claim_version + 1
  OBVIOUS
<1>0. TypeOK /\ [RunnerNext]_runnerVars
  BY DEF StoreInv, ClaimInv, RunnerNext, Tick
<1>3. v \in Versions
  <2>1. jobs_current[j].claim_version \in Nat
    BY <1>0 DEF TypeOK, Row
  <2>2. jobs_current[j].claim_version < MaxClaims
    BY <1>1 DEF StoreInv, RoomLeft
  <2>. QED  BY <1>2, <2>1, <2>2, LimitsAssumption DEF Versions
<1>4. jobs_current'[j].claim_version = v
  <2>1. jobs_current'[j] = Started(jobs_current[j])
    BY <1>0, <1>1 DEF TypeOK
  <2>. QED  BY <1>0, <1>2, <2>1, StartedFacts DEF TypeOK
<1>5. PICK r \in Run : run' = [run EXCEPT ![w] = r] /\ r.job = j /\ r.version = v
  <2>1. PICK r : r = [phase   |-> IF j \in Registered THEN "executing" ELSE "failing",
                      job     |-> j,
                      version |-> v]
    OBVIOUS
  <2>2. run' = [run EXCEPT ![w] = r]
    BY <1>1, <1>4, <2>1 DEF TakeClaim
  <2>3. r \in Run /\ r.job = j /\ r.version = v
    BY <1>3, <2>1 DEF Run
  <2>. QED  BY <2>2, <2>3
<1>6. run' \in [Workers -> Run] /\ faults' \in 0 .. MaxFaults
  BY <1>5 DEF RunInv, TakeClaim
<1>7. /\ run'[w] = r
      /\ \A u \in Workers \ {w} : run'[u] = run[u]
  BY <1>5 DEF RunInv
<1>8. Claimed(j, v)' /\ ~Claimed(j, v)
  BY <1>0, <1>1, <1>2, <1>3 DEF Claimed, TypeOK
<1>9. ClaimsRecorded'
  <2> SUFFICES ASSUME NEW u \in Workers, Busy(u)'
               PROVE  (/\ run[u].job \in Jobs /\ run[u].version \in Versions
                       /\ Claimed(run[u].job, run[u].version))'
    BY DEF ClaimsRecorded
  <2>1. CASE u = w
    BY <1>3, <1>5, <1>7, <1>8, <2>1 DEF Claimed
  <2>2. CASE u # w
    <3>1. Busy(u)
      BY <1>7, <2>2 DEF Busy, InPhase
    <3>2. PICK i \in Jobs, n \in Versions : i = run[u].job /\ n = run[u].version
      BY <3>1, BusyClaim
    <3>3. Claimed(i, n)'
      BY <1>0, <3>1, <3>2, BusyClaim, ClaimsStay
    <3>. QED  BY <1>7, <2>2, <3>2, <3>3 DEF Claimed
  <2>. QED  BY <2>1, <2>2
<1>10. \A u \in Workers \ {w} : Busy(u) /\ run[u].job = j => run[u].version # v
  BY <1>8, BusyClaim
<1>11. ClaimsDiffer'
  BY <1>5, <1>7, <1>10 DEF RunInv, ClaimsDiffer, Busy, InPhase
<1>. QED  BY <1>6, <1>9, <1>11 DEF RunInv

LEMMA RunInvStep == StoreInv /\ RunInv /\ [RunnerNext]_runnerVars => RunInv'
<1> SUFFICES ASSUME StoreInv, RunInv, [RunnerNext]_runnerVars PROVE RunInv'
  OBVIOUS
<1>0. /\ run \in [Workers -> Run] /\ faults \in 0 .. MaxFaults /\ MaxFaults \in Nat
      /\ (faults < MaxFaults => faults + 1 \in 0 .. MaxFaults)
  BY RunnerAssumption DEF RunInv
<1>1. ASSUME NEW w \in Workers, NEW r \in Run, run' = [run EXCEPT ![w] = r],
             \/ r.phase = "polling"
             \/ Busy(w) /\ r.job = run[w].job /\ r.version = run[w].version,
             faults' = faults \/ Fault
      PROVE  RunInv'
  <2>1. /\ run' \in [Workers -> Run] /\ run'[w] = r
        /\ \A u \in Workers \ {w} : run'[u] = run[u]
    BY <1>0, <1>1
  <2>2. faults' \in 0 .. MaxFaults
    BY <1>0, <1>1 DEF Fault
  <2>3. \A u \in Workers : \/ run'[u].phase = "polling"
                           \/ /\ Busy(u)
                              /\ run'[u].job = run[u].job /\ run'[u].version = run[u].version
    BY <1>1, <2>1 DEF Busy, InPhase
  <2>. QED  BY <2>1, <2>2, <2>3, NoClaimTaken
<1>2. ASSUME run' = run, faults' = faults \/ Fault PROVE RunInv'
  <2>1. faults' \in 0 .. MaxFaults
    BY <1>0, <1>2 DEF Fault
  <2>2. \A u \in Workers : \/ run'[u].phase = "polling"
                           \/ /\ Busy(u)
                              /\ run'[u].job = run[u].job /\ run'[u].version = run[u].version
    BY <1>2 DEF Busy, InPhase
  <2>. QED  BY <1>0, <1>2, <2>1, <2>2, NoClaimTaken
<1>3. ASSUME NEW w \in Workers, Done(w), faults' = faults \/ Fault PROVE RunInv'
  BY <1>1, <1>3, RunUpdates DEF Done
<1>4. ASSUME NEW w \in Workers, Busy(w), NEW phase \in {"completing", "failing"},
             Goto(w, phase), faults' = faults \/ Fault
      PROVE  RunInv'
  BY <1>1, <1>4, RunUpdates
<1>5. ASSUME NEW w \in Workers, Tick(w) \/ CompleteThrows(w) \/ FailThrows(w) \/ Crash(w)
      PROVE  RunInv'
  <2>1. CASE Poll(w)
    BY <1>2, <2>1 DEF Poll
  <2>2. CASE TakeClaim(w)
    BY <2>2, ClaimTaken
  <2>3. CASE WorkerReturns(w) \/ WorkerThrows(w)
    BY <1>4, <2>3 DEF WorkerReturns, WorkerThrows, Busy, InPhase
  <2>4. CASE CompleteClaim(w) \/ FailClaim(w) \/ FailThrows(w) \/ Crash(w)
    BY <1>3, <2>4 DEF CompleteClaim, FailClaim, FailThrows, Crash
  <2>5. CASE CompleteThrows(w)
    BY <1>4, <2>5 DEF CompleteThrows, Busy, InPhase
  <2>. QED  BY <1>5, <2>1, <2>2, <2>3, <2>4, <2>5 DEF Tick
<1>6. CASE \E j \in Jobs : BackoffRunsOut(j) \/ LeaseRunsOut(j)
  BY <1>2, <1>6 DEF BackoffRunsOut, LeaseRunsOut
<1>7. CASE Submit \/ Sweep \/ \E c \in Clients : SubmitFamily(c)
  BY <1>2, <1>7 DEF Submit, SubmitFamily, Sweep
<1>8. CASE UNCHANGED runnerVars
  BY <1>2, <1>8 DEF runnerVars
<1>. QED  BY <1>5, <1>6, <1>7, <1>8 DEF RunnerNext

LEMMA RunnerInvInit == RunnerInit => StoreInv /\ RunInv
<1> SUFFICES ASSUME RunnerInit PROVE StoreInv /\ RunInv
  OBVIOUS
<1>1. StoreInv
  BY StoreInvInit DEF RunnerInit
<1>2. Polling \in Run /\ Polling.phase = "polling"
  BY DEF Polling, Run
<1>3. \A w \in Workers : ~Busy(w)
  BY <1>2 DEF RunnerInit, Busy, InPhase
<1>. QED
  BY <1>1, <1>2, <1>3, RunnerAssumption DEF RunnerInit, RunInv, ClaimsRecorded, ClaimsDiffer

-----------------------------------------------------------------------------
\* No claim is ever in the hands of two ticks, and of the ticks at work on one
\* job only one can still end it: processNext may be late, or run twice.
THEOREM OneTickCorrect == RunnerSpec => []OneTickPerClaim
<1>1. RunInv => OneTickPerClaim
  BY DEF RunInv, ClaimsDiffer, OneTickPerClaim, Holds
<1>. QED
  BY <1>1, RunnerInvInit, StoreInvRuns, RunInvStep, PTL DEF RunnerSpec

\* complete and fail of a tick that lost its claim change neither the row nor
\* its history.
THEOREM LateTickCorrect == RunnerSpec => LateTickWritesNothing
<1>1. StoreInv /\ RunInv /\ [RunnerNext]_runnerVars =>
        [\A w \in Workers :
           /\ Busy(w) /\ ~Holds(run[w].job, run[w].version)
           /\ run'[w] # run[w]
           => UNCHANGED <<jobs_current, job_attempts>>]_runnerVars
  <2> SUFFICES ASSUME StoreInv, RunInv, RunnerNext, NEW w \in Workers,
                      Busy(w), ~Holds(run[w].job, run[w].version), run'[w] # run[w]
               PROVE  UNCHANGED <<jobs_current, job_attempts>>
    BY DEF runnerVars
  <2>1. PICK j \in Jobs, v \in Versions : j = run[w].job /\ v = run[w].version
    BY BusyClaim
  <2>2. job_attempts[j][v] # "running"
    BY <2>1 DEF StoreInv, AttemptsMatchRows, Holds
  <2>3. StaleCall(j, v) => UNCHANGED <<jobs_current, job_attempts>>
    <3> SUFFICES ASSUME StaleCall(j, v) PROVE job_attempts' = job_attempts
      BY DEF StaleCall
    <3>1. job_attempts' = [job_attempts EXCEPT ![j][v] = IF @ = "running" THEN "lease_lost" ELSE @]
      BY DEF StaleCall, MarkAttempt
    <3>. QED  BY <2>2, <3>1 DEF StoreInv, ClaimInv, TypeOK
  <2>4. ~Complete(j, v) /\ ~Fail(j, v)
    BY <2>1 DEF Complete, Fail
  <2>5. Miss(j, v) => UNCHANGED <<jobs_current, job_attempts>>
    BY <2>3 DEF Miss, vars
  <2>6. \E u \in Workers : Tick(u) \/ CompleteThrows(u) \/ FailThrows(u) \/ Crash(u)
    BY DEF RunnerNext, BackoffRunsOut, LeaseRunsOut, SubmitFamily, Submit, Sweep
  <2>7. ASSUME NEW u \in Workers,
               Tick(u) \/ CompleteThrows(u) \/ FailThrows(u) \/ Crash(u), ~Poll(u)
        PROVE  \E r : run' = [run EXCEPT ![u] = r]
    BY <2>7 DEF Tick, TakeClaim, WorkerReturns, WorkerThrows, CompleteClaim, CompleteThrows,
                FailClaim, FailThrows, Crash, Done, Goto
  <2>8. Tick(w) \/ CompleteThrows(w) \/ FailThrows(w) \/ Crash(w)
    BY <2>6, <2>7 DEF Poll, RunInv
  <2>9. CASE Poll(w) \/ TakeClaim(w)
    BY <2>9 DEF Poll, TakeClaim, Busy
  <2>10. CASE WorkerReturns(w) \/ WorkerThrows(w) \/ FailThrows(w) \/ Crash(w)
    BY <2>10 DEF WorkerReturns, WorkerThrows, FailThrows, Crash, vars
  <2>11. CASE CompleteClaim(w) \/ CompleteThrows(w) \/ FailClaim(w)
    BY <2>1, <2>4, <2>5, <2>11 DEF CompleteClaim, CompleteThrows, FailClaim, vars
  <2>. QED  BY <2>8, <2>9, <2>10, <2>11 DEF Tick
<1>. QED
  BY <1>1, RunnerInvInit, StoreInvRuns, RunInvStep, PTL DEF RunnerSpec, LateTickWritesNothing

\* What the store promises to any caller it promises to the consumer, whose
\* ticks crash in the middle of a transaction: the cap of every key, the row
\* that a claim has chosen, and the agreement of the two tables.
THEOREM RunnerKeepsStore ==
  RunnerSpec => [](KeyCapHeld /\ ChosenStaysPending /\ AttemptsMatchRows)
<1>1. StoreInv => KeyCapHeld /\ ChosenStaysPending /\ AttemptsMatchRows
  BY DEF StoreInv, ClaimInv, RowLocksHold, ChoiceHolds, ChosenStaysPending
<1>. QED
  BY <1>1, RunnerInvInit, StoreInvRuns, RunInvStep, PTL DEF RunnerSpec

=============================================================================
