----------------------------- MODULE PgJobStore -----------------------------
(***************************************************************************)
(* The durable job store of src/jobs/pg-store.ts: the tables jobs_current  *)
(* and job_attempts and every operation of class PgJobStore that writes    *)
(* them, under PostgreSQL's READ COMMITTED isolation.                      *)
(*                                                                         *)
(* The callers are as general as the interface allows: any holder of a     *)
(* claim, however old, may call heartbeat, complete, fail or cancel at any *)
(* time.  PgJobRunner restricts them to the loop of src/jobs/pg-runner.ts. *)
(*                                                                         *)
(* claimNext is several statements that other transactions can fall        *)
(* between, and so is the enqueue of a search.rebuild request: their steps *)
(* are actions of their own.  Every other operation takes the lock of the  *)
(* one row it is about in its first statement, and is one action.          *)
(*                                                                         *)
(* Times are abstracted to the comparisons the code makes with them:       *)
(* "due" is next_attempt_at <= now, "expired" is lease_expires_at < now.   *)
(*                                                                         *)
(* A definition named ..._Bug precedes the one it is a broken variant of.  *)
(* It is no part of the specification: put in the other's place it must    *)
(* make a property fail.                                                   *)
(***************************************************************************)
EXTENDS Naturals, FiniteSets

CONSTANTS
  Jobs,            \* the job_key values
  Workers,         \* the processes (or ticks of one process) that claim
  Clients,         \* the callers of enqueue for a job with a family
  Keys,            \* the concurrency_key values
  Families,        \* the job_family_key values of search.rebuild
  Reasons,         \* the triggerReason values of search.rebuild requests
  NoJob, NoFamily, \* no key, and the family of a job that has none
  ConcurrencyKey,  \* concurrency_key of each job
  Family,          \* job_family_key of each job
  Priority,        \* rank of the job's execution_class, 1 the first
  MaxAttempts,     \* max_attempts of each job
  Cap,             \* getConcurrencyCap of each concurrency key
  Thinkers,        \* the jobs of type cognition.thinker
  GlobalCap,       \* getConcurrencyCap("cognition.thinker:global")
  BatchSize,       \* CLAIM_SCAN_BATCH_SIZE
  MaxClaims        \* bound of the model: claims of one row

ASSUME JobsAssumption ==
  /\ IsFiniteSet(Jobs)
  /\ NoJob \notin Jobs
  /\ NoFamily \notin Families
  /\ ConcurrencyKey \in [Jobs -> Keys]
  /\ Family \in [Jobs -> Families \cup {NoFamily}]
  /\ Priority \in [Jobs -> Nat]
  /\ Thinkers \subseteq Jobs

ASSUME LimitsAssumption ==
  /\ MaxAttempts \in [Jobs -> Nat \ {0}]
  /\ Cap \in [Keys -> Nat \ {0}]
  /\ GlobalCap \in Nat \ {0}
  /\ BatchSize \in Nat \ {0}
  /\ MaxClaims \in Nat

VARIABLES
  jobs_current,    \* the row of each job key, status "none" when there is none
  job_attempts,    \* the outcome of each claim of each job key
  tx,              \* the claimNext transaction each worker has open
  enq              \* the search.rebuild enqueue each client has open

vars == <<jobs_current, job_attempts, tx, enq>>

Active   == {"pending", "running"}
Terminal == {"succeeded", "failed_terminal", "cancelled"}
Statuses == {"none"} \cup Active \cup Terminal
Outcomes == {"none", "running", "succeeded", "failed_retry_scheduled",
             "failed_terminal", "cancelled", "lease_lost"}
Versions == 1 .. MaxClaims

Row == [status : Statuses, claim_version : Nat, attempt_count : Nat,
        due : BOOLEAN, expired : BOOLEAN,
        rerunRequested : BOOLEAN, reasons : SUBSET Reasons]

NoRow == [status |-> "none", claim_version |-> 0, attempt_count |-> 0,
          due |-> FALSE, expired |-> FALSE,
          rerunRequested |-> FALSE, reasons |-> {}]

NewRow(due, reasons) ==
  [NoRow EXCEPT !.status = "pending", !.due = due, !.reasons = reasons]

\* What the UPDATE statements make of a row.  Every one that ends a claim sets
\* lease_expires_at to NULL.
Started(row)         == [row EXCEPT !.status = "running", !.expired = FALSE,
                                    !.claim_version = @ + 1, !.attempt_count = @ + 1]
Ended(row, status)   == [row EXCEPT !.status = status, !.expired = FALSE]

\* The outcome of the attempt written to the row.
Requeued_Bug(row, due) ==
  [row EXCEPT !.status = "failed_retry_scheduled", !.expired = FALSE, !.due = due]
Requeued(row, due)   == [row EXCEPT !.status = "pending", !.expired = FALSE, !.due = due]
WithLease(row, gone) == [row EXCEPT !.expired = gone]

\* A claimNext in progress.  locks: the rows it holds FOR UPDATE; cands: those
\* of the last batch not yet tried; offset: how many the batches had in all;
\* keys: the advisory locks taken; job: the candidate that passed the checks.
Tx == [phase : {"idle", "scanning", "claiming"}, locks : SUBSET Jobs,
       cands : SUBSET Jobs, offset : Nat, keys : SUBSET Keys, job : Jobs \cup {NoJob}]

NoTx == [phase |-> "idle", locks |-> {}, cands |-> {}, offset |-> 0,
         keys |-> {}, job |-> NoJob]

\* A search.rebuild enqueue in progress: the key and the reason it brings, and
\* the row its SELECT ... FOR UPDATE found, whose lock it waits for.
Enq == [phase : {"idle", "lookup", "insert", "recheck", "again"},
        job : Jobs \cup {NoJob}, row : Jobs \cup {NoJob}, reasons : SUBSET Reasons]

Request(phase, job, reasons) ==
  [phase |-> phase, job |-> job, row |-> NoJob, reasons |-> reasons]

NoEnq == Request("idle", NoJob, {})

TypeOK ==
  /\ jobs_current \in [Jobs -> Row]
  /\ job_attempts \in [Jobs -> [Versions -> Outcomes]]
  /\ tx \in [Workers -> Tx]
  /\ enq \in [Clients -> Enq]

Init ==
  /\ jobs_current = [j \in Jobs |-> NoRow]
  /\ job_attempts = [j \in Jobs |-> [v \in Versions |-> "none"]]
  /\ tx = [w \in Workers |-> NoTx]
  /\ enq = [c \in Clients |-> NoEnq]

-----------------------------------------------------------------------------
(* What the statements read. *)

InStatus(S)  == {j \in Jobs : jobs_current[j].status \in S}
RunningOf(k) == {j \in InStatus({"running"}) : ConcurrencyKey[j] = k}
ActiveOf(f)  == {j \in InStatus(Active) : Family[j] = f}
RunningThinkers == InStatus({"running"}) \cap Thinkers

\* No advisory lock.
KeyLockedBut_Bug(w, k) == FALSE

RowLocked(j)       == \E w \in Workers : j \in tx[w].locks
RowLockedBut(w, j) == \E u \in Workers \ {w} : j \in tx[u].locks
KeyLockedBut(w, k) == \E u \in Workers \ {w} : k \in tx[u].keys

\* No unique index on the attempts.
Claimed_Bug(j, v) == FALSE

\* A claim <<j, v>> that some worker was given holds an attempt record.
Claimed(j, v) == job_attempts[j][v] # "none"

\* A fence that forgets the claim_version.
Holds_Bug(j, v) == jobs_current[j].status = "running"

\* The fence of every operation on a claim: WHERE job_key, claim_version
\* and status = 'running'.
Holds(j, v) == /\ jobs_current[j].status = "running"
               /\ jobs_current[j].claim_version = v

-----------------------------------------------------------------------------
(* enqueue.  A job without a family is INSERT ... ON CONFLICT DO NOTHING:   *)
(* a key that has a row, in any status, is a duplicate and changes nothing. *)

Enqueue(j) ==
  /\ Family[j] = NoFamily
  /\ jobs_current[j].status = "none"
  /\ \E due \in BOOLEAN :
       jobs_current' = [jobs_current EXCEPT ![j] = NewRow(due, {})]
  /\ UNCHANGED <<job_attempts, tx, enq>>

\* A request key holds a fresh UUID: it never had a row nor an attempt.
FreshKeys(f) ==
  {j \in Jobs : /\ Family[j] = f
                /\ jobs_current[j].status = "none"
                /\ \A v \in Versions : ~Claimed(j, v)
                /\ \A c \in Clients : enq[c].job # j}

\* Bound of the model: a key is left for the successor of every row that
\* owes one, so that the supply of keys never holds complete up.
KeysLeft(f) ==
  Cardinality({j \in ActiveOf(f) : jobs_current[j].rerunRequested})
     < Cardinality(FreshKeys(f))

\* A later request that is absorbed takes the rerun back.
CoalescedInto_Bug(row, r) ==
  [row EXCEPT !.rerunRequested = row.status = "running" /\ r \notin row.reasons,
              !.reasons = @ \cup {r}]

\* buildCoalescedSearchRebuildFamilyState: a reason the running row does not
\* count yet asks for a rerun, any other request is absorbed.
CoalescedInto(row, r) ==
  [row EXCEPT !.rerunRequested = @ \/ (row.status = "running" /\ r \notin row.reasons),
              !.reasons = @ \cup {r}]

\* SELECT ... FOR UPDATE LIMIT 1 of the family's active row: one is found and
\* its lock is waited for, or there is none.
SelectActive(c, request, otherwise) ==
  \/ \E a \in ActiveOf(Family[request.job]) :
       enq' = [enq EXCEPT ![c] = [request EXCEPT !.row = a]]
  \/ /\ ActiveOf(Family[request.job]) = {}
     /\ enq' = [enq EXCEPT ![c] = otherwise]

StillActive(a) == jobs_current[a].status \in Active

\* The lock is free.  A row that ended meanwhile no longer matches, and the
\* SELECT returns nothing, even when the family has a newer active row.
MergeInto(c, gone) ==
  LET a == enq[c].row IN
  /\ ~RowLocked(a)
  /\ \/ /\ StillActive(a)
        /\ \E r \in enq[c].reasons :
             jobs_current' = [jobs_current EXCEPT ![a] = CoalescedInto(@, r)]
        /\ enq' = [enq EXCEPT ![c] = NoEnq]
     \/ /\ ~StillActive(a)
        /\ enq' = [enq EXCEPT ![c] = gone]
        /\ UNCHANGED jobs_current

EnqueueLookup(c) ==
  /\ enq[c].phase = "idle"
  /\ \E f \in Families : \E j \in FreshKeys(f) : \E r \in Reasons :
       /\ KeysLeft(f)
       /\ SelectActive(c, Request("lookup", j, {r}), Request("insert", j, {r}))
  /\ UNCHANGED <<jobs_current, job_attempts, tx>>

EnqueueMerge(c) ==
  /\ enq[c].phase = "lookup"
  /\ MergeInto(c, Request("insert", enq[c].job, enq[c].reasons))
  /\ UNCHANGED <<job_attempts, tx>>

\* No unique index on the family of the active rows.
Conflicts_Bug(j) == jobs_current[j].status # "none"
Conflicts(j)     == jobs_current[j].status # "none" \/ ActiveOf(Family[j]) # {}

\* INSERT ... ON CONFLICT DO NOTHING against the primary key and the partial
\* unique index on the family of the active rows.
EnqueueInsert(c) ==
  LET j == enq[c].job IN
  /\ enq[c].phase = "insert"
  /\ \/ /\ ~Conflicts(j)
        /\ jobs_current' = [jobs_current EXCEPT ![j] = NewRow(TRUE, enq[c].reasons)]
        /\ enq' = [enq EXCEPT ![c] = NoEnq]
     \/ /\ Conflicts(j)
        /\ enq' = [enq EXCEPT ![c] = Request("recheck", j, enq[c].reasons)]
        /\ UNCHANGED jobs_current
  /\ UNCHANGED <<job_attempts, tx>>

\* After the conflict: the row is the caller's own (duplicate), or the family's
\* active row is looked up again; when that finds none, enqueue throws.
EnqueueRecheck(c) ==
  /\ enq[c].phase = "recheck"
  /\ IF jobs_current[enq[c].job].status # "none"
     THEN enq' = [enq EXCEPT ![c] = NoEnq]
     ELSE SelectActive(c, Request("again", enq[c].job, enq[c].reasons), NoEnq)
  /\ UNCHANGED <<jobs_current, job_attempts, tx>>

EnqueueMergeAgain(c) ==
  /\ enq[c].phase = "again"
  /\ MergeInto(c, NoEnq)
  /\ UNCHANGED <<job_attempts, tx>>

-----------------------------------------------------------------------------
(* claimNext.  Each scan takes the next batch of the due pending rows, in    *)
(* the order of their rank, and locks it.  A row that another transaction    *)
(* has locked is skipped (an enqueue may be holding the row it merges into). *)

\* A job whose attempts are used up is not claimed once more.
Claimable_Bug(j) ==
  /\ jobs_current[j].status = "pending"
  /\ jobs_current[j].due
  /\ jobs_current[j].attempt_count < MaxAttempts[j]
  /\ jobs_current[j].claim_version < MaxClaims

Claimable(j) ==
  /\ jobs_current[j].status = "pending"
  /\ jobs_current[j].due
  /\ jobs_current[j].claim_version < MaxClaims   \* bound of the model

Scanned(t, passed, S) ==
  [t EXCEPT !.phase = "scanning", !.locks = @ \cup passed \cup S, !.cands = S,
            !.offset = @ + Cardinality(S)]

\* S is the first n of the rows R: ORDER BY the rank of execution_class.  Ties
\* are broken by next_attempt_at, which is abstracted: any order of them.
FirstOf(S, n, R) ==
  /\ S \subseteq R
  /\ Cardinality(S) = n
  /\ \A j \in S, k \in R \ S : Priority[j] <= Priority[k]

\* The sets of rows that a scan of w may see.
Views(w) ==
  LET free    == {j \in Jobs : Claimable(j) /\ ~RowLockedBut(w, j)}
      merging == {j \in free : \E c \in Clients : enq[c].row = j}
  IN  {free \ M : M \in SUBSET merging}

AtMost(m, n) == IF m < n THEN m ELSE n

\* SELECT ... LIMIT ... OFFSET ... FOR UPDATE SKIP LOCKED.  The offset counts
\* rows the scan of now returns, whatever the earlier scans returned: a row may
\* be tried twice, and one be missed.  The rows passed by are locked as well.
ClaimScan(w) ==
  /\ tx[w].phase \in {"idle", "scanning"} /\ tx[w].cands = {}
  /\ \E R \in Views(w) : \E passed \in SUBSET R : \E S \in (SUBSET (R \ passed)) \ {{}} :
       /\ FirstOf(passed, tx[w].offset, R)
       /\ FirstOf(S, AtMost(BatchSize, Cardinality(R \ passed)), R \ passed)
       /\ tx' = [tx EXCEPT ![w] = Scanned(tx[w], passed, S)]
  /\ UNCHANGED <<jobs_current, job_attempts, enq>>

\* The candidates of a batch are tried in the order of the scan.
IsNext(w, j) ==
  /\ tx[w].phase = "scanning"
  /\ j \in tx[w].cands
  /\ \A k \in tx[w].cands : Priority[j] <= Priority[k]

\* One job too many.
BelowCap_OffByOneBug(j) ==
  Cardinality(RunningOf(ConcurrencyKey[j])) <= Cap[ConcurrencyKey[j]]

BelowCap(j) ==
  /\ Cardinality(RunningOf(ConcurrencyKey[j])) < Cap[ConcurrencyKey[j]]
  /\ j \in Thinkers => Cardinality(RunningThinkers) < GlobalCap

WithKeyOf(t, j)  == [t EXCEPT !.keys = @ \cup {ConcurrencyKey[j]}]
PassedOver(t, j) == [t EXCEPT !.cands = @ \ {j}]
Chosen(t, j)     == [t EXCEPT !.phase = "claiming", !.job = j]

\* pg_try_advisory_xact_lock fails: the candidate is passed over.
ClaimSkipLocked(w, j) ==
  /\ IsNext(w, j)
  /\ KeyLockedBut(w, ConcurrencyKey[j])
  /\ tx' = [tx EXCEPT ![w] = PassedOver(tx[w], j)]
  /\ UNCHANGED <<jobs_current, job_attempts, enq>>

\* A cap is reached: passed over too, but the advisory lock stays taken.
ClaimSkipFull(w, j) ==
  /\ IsNext(w, j)
  /\ ~KeyLockedBut(w, ConcurrencyKey[j])
  /\ ~BelowCap(j)
  /\ tx' = [tx EXCEPT ![w] = PassedOver(WithKeyOf(tx[w], j), j)]
  /\ UNCHANGED <<jobs_current, job_attempts, enq>>

\* The counts were below the caps; the UPDATE is not committed yet, so no
\* other transaction counts this claim.
ClaimChoose(w, j) ==
  /\ IsNext(w, j)
  /\ ~KeyLockedBut(w, ConcurrencyKey[j])
  /\ BelowCap(j)
  /\ tx' = [tx EXCEPT ![w] = Chosen(WithKeyOf(tx[w], j), j)]
  /\ UNCHANGED <<jobs_current, job_attempts, enq>>

\* UPDATE ... WHERE status = 'pending', INSERT INTO job_attempts, COMMIT.
ClaimCommit(w) ==
  LET j == tx[w].job
      v == jobs_current[j].claim_version + 1
  IN
  /\ tx[w].phase = "claiming"
  /\ jobs_current[j].status = "pending"
  /\ ~Claimed(j, v)
  /\ jobs_current' = [jobs_current EXCEPT ![j] = Started(@)]
  /\ job_attempts' = [job_attempts EXCEPT ![j][v] = "running"]
  /\ tx' = [tx EXCEPT ![w] = NoTx]
  /\ UNCHANGED enq

\* The transaction ends and changes nothing: a scan returns no row; or the
\* attempt record of this claim_version exists already, and the unique index
\* ux_job_attempts_job_key_claim_version makes the INSERT throw.
ClaimEnd(w) ==
  /\ \/ /\ tx[w].phase = "scanning" /\ tx[w].cands = {}
        /\ \E R \in Views(w) : Cardinality(R) <= tx[w].offset
     \/ /\ tx[w].phase = "claiming"
        /\ Claimed(tx[w].job, jobs_current[tx[w].job].claim_version + 1)
  /\ tx' = [tx EXCEPT ![w] = NoTx]
  /\ UNCHANGED <<jobs_current, job_attempts, enq>>

\* The process or its connection dies: PostgreSQL rolls the transaction back.
ClaimAbort(w) ==
  /\ tx[w].phase # "idle"
  /\ tx' = [tx EXCEPT ![w] = NoTx]
  /\ UNCHANGED <<jobs_current, job_attempts, enq>>

-----------------------------------------------------------------------------
(* The operations on a claim <<j, v>>. *)

\* No WHERE outcome = 'running'.
MarkAttempt_Bug(j, v, outcome) ==
  job_attempts' = [job_attempts EXCEPT ![j][v] = outcome]

\* UPDATE job_attempts ... WHERE outcome = 'running'.
MarkAttempt(j, v, outcome) ==
  job_attempts' = [job_attempts EXCEPT ![j][v] = IF @ = "running" THEN outcome ELSE @]

\* The attempt of the row's own claim_version is marked lost.
StaleCall_Bug(j, v) ==
  /\ Claimed(j, v)
  /\ jobs_current[j].status # "none"
  /\ jobs_current[j].claim_version # v
  /\ MarkAttempt(j, jobs_current[j].claim_version, "lease_lost")
  /\ UNCHANGED <<jobs_current, tx, enq>>

\* classifyFenceMiss says stale_claim: the claim's attempt is marked lost.
\* The other misses, not_found and not_running, change nothing.
StaleCall(j, v) ==
  /\ Claimed(j, v)
  /\ jobs_current[j].status # "none"
  /\ jobs_current[j].claim_version # v
  /\ MarkAttempt(j, v, "lease_lost")
  /\ UNCHANGED <<jobs_current, tx, enq>>

Heartbeat(j, v) ==
  /\ Holds(j, v)
  /\ jobs_current' = [jobs_current EXCEPT ![j] = WithLease(@, FALSE)]
  /\ UNCHANGED <<job_attempts, tx, enq>>

\* A completed search.rebuild row that owes a rerun is followed, in the same
\* transaction, by a pending row of the same family that keeps the reasons.
Complete(j, v) ==
  /\ Holds(j, v)
  /\ IF Family[j] # NoFamily /\ jobs_current[j].rerunRequested
     THEN \E k \in FreshKeys(Family[j]) :
            jobs_current' = [jobs_current EXCEPT
                               ![j] = Ended(@, "succeeded"),
                               ![k] = NewRow(TRUE, jobs_current[j].reasons)]
     ELSE jobs_current' = [jobs_current EXCEPT ![j] = Ended(@, "succeeded")]
  /\ MarkAttempt(j, v, "succeeded")
  /\ UNCHANGED <<tx, enq>>

MayRetry(j) == jobs_current[j].attempt_count < MaxAttempts[j]

Fail(j, v) ==
  /\ Holds(j, v)
  /\ IF MayRetry(j)
     THEN /\ jobs_current' = [jobs_current EXCEPT ![j] = Requeued(@, FALSE)]
          /\ MarkAttempt(j, v, "failed_retry_scheduled")
     ELSE /\ jobs_current' = [jobs_current EXCEPT ![j] = Ended(@, "failed_terminal")]
          /\ MarkAttempt(j, v, "failed_terminal")
  /\ UNCHANGED <<tx, enq>>

Cancel(j, v) ==
  /\ Holds(j, v)
  /\ jobs_current' = [jobs_current EXCEPT ![j] = Ended(@, "cancelled")]
  /\ MarkAttempt(j, v, "cancelled")
  /\ UNCHANGED <<tx, enq>>

-----------------------------------------------------------------------------
(* Maintenance, and the passing of time. *)

ExpiredLeases == {j \in InStatus({"running"}) : jobs_current[j].expired}

\* One transaction for all of them.  claim_version and attempt_count stay.
ReclaimExpiredLeases ==
  /\ ExpiredLeases # {}
  /\ jobs_current' = [j \in Jobs |->
       IF j \in ExpiredLeases
       THEN Requeued(jobs_current[j], TRUE)
       ELSE jobs_current[j]]
  /\ job_attempts' = [j \in Jobs |-> [v \in Versions |->
       IF /\ j \in ExpiredLeases
          /\ jobs_current[j].claim_version = v
          /\ job_attempts[j][v] = "running"
       THEN "lease_lost" ELSE job_attempts[j][v]]]
  /\ UNCHANGED <<tx, enq>>

\* The windows are the caller's, by default and per family: one DELETE
\* statement may take any set of terminal rows.  The attempts stay.
CleanupTerminal ==
  \E S \in (SUBSET InStatus(Terminal)) \ {{}} :
    /\ jobs_current' = [j \in Jobs |-> IF j \in S THEN NoRow ELSE jobs_current[j]]
    /\ UNCHANGED <<job_attempts, tx, enq>>

BackoffElapses(j) ==
  /\ jobs_current[j].status = "pending"
  /\ ~jobs_current[j].due
  /\ jobs_current' = [jobs_current EXCEPT ![j] = Requeued(@, TRUE)]
  /\ UNCHANGED <<job_attempts, tx, enq>>

LeaseExpires(j) ==
  /\ jobs_current[j].status = "running"
  /\ ~jobs_current[j].expired
  /\ jobs_current' = [jobs_current EXCEPT ![j] = WithLease(@, TRUE)]
  /\ UNCHANGED <<job_attempts, tx, enq>>

-----------------------------------------------------------------------------
EnqueueFamily(c) == EnqueueLookup(c) \/ EnqueueMerge(c) \/ EnqueueInsert(c)
                      \/ EnqueueRecheck(c) \/ EnqueueMergeAgain(c)

ClaimTry(w, j) == ClaimSkipLocked(w, j) \/ ClaimSkipFull(w, j) \/ ClaimChoose(w, j)

ClaimCall(j, v) == StaleCall(j, v) \/ Heartbeat(j, v) \/ Complete(j, v)
                     \/ Fail(j, v) \/ Cancel(j, v)

TimePasses(j) == BackoffElapses(j) \/ LeaseExpires(j)

Next ==
  \/ \E j \in Jobs : Enqueue(j) \/ TimePasses(j)
  \/ \E c \in Clients : EnqueueFamily(c)
  \/ \E w \in Workers : ClaimScan(w) \/ ClaimCommit(w) \/ ClaimEnd(w) \/ ClaimAbort(w)
  \/ \E w \in Workers, j \in Jobs : ClaimTry(w, j)
  \/ \E j \in Jobs, v \in Versions : ClaimCall(j, v)
  \/ ReclaimExpiredLeases
  \/ CleanupTerminal

Spec == Init /\ [][Next]_vars

-----------------------------------------------------------------------------
(* Properties. *)

\* claimNext never runs more jobs of one concurrency key than its cap, though
\* the count and the UPDATE are separate statements of concurrent
\* transactions: the advisory lock of the key serializes them.
KeyCapHeld ==
  \A k \in Keys : Cardinality(RunningOf(k)) <= Cap[k]

\* The same for the cap across sessions, which claimNext only counts.
GlobalCapHeld ==
  Cardinality(RunningThinkers) <= GlobalCap

\* The two tables agree at every commit: an attempt is "running" exactly when
\* its row is running at that claim_version, through retries, reclaims,
\* cleanup and re-enqueue.  So a claim that was reclaimed is never still open.
AttemptsMatchRows ==
  \A j \in Jobs : \A v \in Versions :
    job_attempts[j][v] = "running" <=>
      jobs_current[j].status = "running" /\ jobs_current[j].claim_version = v

\* The row a claim transaction is about to update is still pending: nothing
\* that runs between its SELECT and its UPDATE (a coalescing enqueue, a
\* reclaim, a retry) takes the row away, and no other claim has it.
ChosenStaysPending ==
  \A w \in Workers : tx[w].phase = "claiming" =>
    /\ jobs_current[tx[w].job].status = "pending"
    /\ \A u \in Workers \ {w} : tx[w].job \notin tx[u].locks

\* At most one row of a family is pending or running, whatever enqueues,
\* completions with a successor and retries race: the successor that complete
\* inserts never meets the unique index.
OneActivePerFamily ==
  \A f \in Families : \A j, k \in ActiveOf(f) : j = k

\* A job key succeeds at most once, even when cleanupTerminal has removed its
\* row and the same key is enqueued again.
OneSuccessPerKey ==
  \A j \in Jobs : \A u, v \in Versions :
    job_attempts[j][u] = "succeeded" /\ job_attempts[j][v] = "succeeded" => u = v

FailureOutcomes == {"failed_retry_scheduled", "failed_terminal"}

\* fail spends at most max_attempts attempts of a key, whatever is reclaimed
\* in between; and it gives up only on the last of them or later.
FailuresBounded ==
  \A j \in Jobs :
    /\ Cardinality({v \in Versions : job_attempts[j][v] \in FailureOutcomes})
         <= MaxAttempts[j]
    /\ \A v \in Versions :
         job_attempts[j][v] = "failed_terminal" => v >= MaxAttempts[j]

\* History is append-only: the outcome of an attempt that ended never changes,
\* not by a late call of the worker that lost it, nor by a second life of the
\* key after cleanup.
HistoryIsFinal ==
  [][\A j \in Jobs : \A v \in Versions :
       job_attempts[j][v] \notin {"none", "running"} =>
         job_attempts'[j][v] = job_attempts[j][v]]_vars

\* A terminal row changes no more, and only cleanupTerminal removes it: no
\* coalesced request is ever recorded in a row that will not run again.
TerminalIsFinal ==
  [][\A j \in Jobs : jobs_current[j].status \in Terminal =>
       jobs_current'[j] \in {jobs_current[j], NoRow}]_vars

\* A rerun that was asked for while the row ran is kept by a retry and a
\* reclaim, and is not lost by success: the family goes on, in the same
\* commit, with another row that starts afresh and counts every reason so far.
\* Only giving up (failed_terminal) and cancelling drop it.
RerunSurvives ==
  [][\A j \in InStatus(Active) : jobs_current[j].rerunRequested =>
       \/ jobs_current'[j].status \in Active /\ jobs_current'[j].rerunRequested
       \/ jobs_current'[j].status \in {"failed_terminal", "cancelled"}
       \/ \E k \in Jobs \ {j} :
            /\ Family[k] = Family[j]
            /\ jobs_current'[k].status = "pending"
            /\ ~jobs_current'[k].rerunRequested
            /\ jobs_current[j].reasons \subseteq jobs_current'[k].reasons]_vars

-----------------------------------------------------------------------------
(* Refinement. *)

QueueState(status) ==
  CASE status = "none"    -> "absent"
    [] status = "pending" -> "waiting"
    [] status = "running" -> "granted"
    [] status \in Terminal -> "finished"

Queue == INSTANCE JobQueue
           WITH state <- [j \in Jobs |-> QueueState(jobs_current[j].status)]

\* The store is a JobQueue: what claimNext does in a scan, two counts, an
\* UPDATE and an INSERT, with other transactions in between, and what enqueue
\* does in up to three statements, are single steps to anyone who reads
\* committed rows, and the cap and the family rule hold at each.
ImplementsQueue == Queue!QueueSpec

=============================================================================
