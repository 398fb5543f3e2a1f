-------------------------- MODULE PgJobStoreProofs --------------------------
(***************************************************************************)
(* Theorems about PgJobStore, for every set of jobs, workers, clients,     *)
(* keys, families and reasons, and for all caps, priorities and bounds.    *)
(***************************************************************************)
EXTENDS PgJobStore, FiniteSetTheorems, TLAPS

-----------------------------------------------------------------------------
(* What the row updates are and change. *)

\* An insert gives a well-formed pending row, and no row is well-formed.
LEMMA NewRowFacts ==
  ASSUME NEW due \in BOOLEAN, NEW reasons \in SUBSET Reasons
  PROVE  /\ NewRow(due, reasons) \in Row
         /\ NewRow(due, reasons).status = "pending"
BY Zenon DEF NewRow, NoRow, Row, Statuses, Active

LEMMA NoRowFacts == NoRow \in Row /\ NoRow.status = "none"
BY DEF NoRow, Row, Statuses

\* The claim's UPDATE starts the row at the next claim_version.
LEMMA StartedFacts ==
  ASSUME NEW row \in Row
  PROVE  /\ Started(row) \in Row
         /\ Started(row).status = "running"
         /\ Started(row).claim_version = row.claim_version + 1
<1>1. /\ row = [status |-> row.status, claim_version |-> row.claim_version,
                attempt_count |-> row.attempt_count, due |-> row.due,
                expired |-> row.expired, rerunRequested |-> row.rerunRequested,
                reasons |-> row.reasons]
      /\ row.claim_version + 1 \in Nat
      /\ row.attempt_count + 1 \in Nat
  BY DEF Row
<1>2. "running" \in Statuses
  BY DEF Statuses, Active
<1>. QED  BY <1>1, <1>2, Zenon DEF Started, Row

\* The UPDATE that ends a claim sets the status it names and no other column
\* of the claim.
LEMMA EndedFacts ==
  ASSUME NEW row \in Row, NEW status \in Statuses
  PROVE  /\ Ended(row, status) \in Row
         /\ Ended(row, status).status = status
         /\ Ended(row, status).claim_version = row.claim_version
BY Zenon DEF Ended, Row

\* A row that goes back to pending keeps its claim_version.
LEMMA RequeuedFacts ==
  ASSUME NEW row \in Row, NEW due \in BOOLEAN
  PROVE  /\ Requeued(row, due) \in Row
         /\ Requeued(row, due).status = "pending"
         /\ Requeued(row, due).claim_version = row.claim_version
BY Zenon DEF Requeued, Row, Statuses, Active

\* A lease that is renewed or runs out leaves the rest of the row alone.
LEMMA WithLeaseFacts ==
  ASSUME NEW row \in Row, NEW gone \in BOOLEAN
  PROVE  /\ WithLease(row, gone) \in Row
         /\ WithLease(row, gone).status = row.status
         /\ WithLease(row, gone).claim_version = row.claim_version
BY Zenon DEF WithLease, Row

\* A coalesced request changes the family state of the row only.
LEMMA CoalescedFacts ==
  ASSUME NEW row \in Row, NEW r \in Reasons
  PROVE  /\ CoalescedInto(row, r) \in Row
         /\ CoalescedInto(row, r).status = row.status
         /\ CoalescedInto(row, r).claim_version = row.claim_version
<1>1. /\ row.reasons \cup {r} \in SUBSET Reasons
      /\ (row.rerunRequested \/ (row.status = "running" /\ r \notin row.reasons)) \in BOOLEAN
  BY Zenon DEF Row
<1>. QED  BY <1>1, Zenon DEF CoalescedInto, Row

\* A scan adds the rows of its batch, and those it passed by, to the locks.
LEMMA ScannedFacts ==
  ASSUME NEW t \in Tx, NEW passed \in SUBSET Jobs, NEW S \in SUBSET Jobs
  PROVE  Scanned(t, passed, S) \in Tx
<1>1. Cardinality(S) \in Nat
  BY JobsAssumption, FS_Subset, FS_CardinalityType
<1>2. /\ t.locks \cup passed \cup S \in SUBSET Jobs
      /\ t.offset + Cardinality(S) \in Nat
  BY <1>1 DEF Tx
<1>. QED  BY <1>2, Zenon DEF Scanned, Tx

\* Taking an advisory lock adds the key of the candidate.
LEMMA WithKeyOfFacts ==
  ASSUME NEW t \in Tx, NEW j \in Jobs
  PROVE  /\ WithKeyOf(t, j) \in Tx
         /\ WithKeyOf(t, j).phase = t.phase
         /\ WithKeyOf(t, j).locks = t.locks
         /\ WithKeyOf(t, j).cands = t.cands
         /\ WithKeyOf(t, j).keys = t.keys \cup {ConcurrencyKey[j]}
<1>1. t.keys \cup {ConcurrencyKey[j]} \in SUBSET Keys
  BY JobsAssumption DEF Tx
<1>2. WithKeyOf(t, j) \in Tx
  BY <1>1, Zenon DEF WithKeyOf, Tx
<1>. QED  BY <1>2, Zenon DEF WithKeyOf, Tx

\* A candidate that is passed over stays locked.
LEMMA PassedOverFacts ==
  ASSUME NEW t \in Tx, NEW j \in Jobs
  PROVE  /\ PassedOver(t, j) \in Tx
         /\ PassedOver(t, j).phase = t.phase
         /\ PassedOver(t, j).locks = t.locks
         /\ PassedOver(t, j).cands = t.cands \ {j}
         /\ PassedOver(t, j).keys = t.keys
<1>1. t.cands \ {j} \in SUBSET Jobs
  BY JobsAssumption DEF Tx
<1>2. PassedOver(t, j) \in Tx
  BY <1>1, Zenon DEF PassedOver, Tx
<1>. QED  BY <1>2, Zenon DEF PassedOver, Tx

\* Choosing a candidate changes no lock.
LEMMA ChosenFacts ==
  ASSUME NEW t \in Tx, NEW j \in Jobs
  PROVE  /\ Chosen(t, j) \in Tx
         /\ Chosen(t, j).phase = "claiming"
         /\ Chosen(t, j).locks = t.locks
         /\ Chosen(t, j).cands = t.cands
         /\ Chosen(t, j).keys = t.keys
         /\ Chosen(t, j).job = j
<1>1. j \in Jobs \cup {NoJob}
  BY JobsAssumption DEF Tx
<1>2. Chosen(t, j) \in Tx
  BY <1>1, Zenon DEF Chosen, Tx
<1>. QED  BY <1>2, Zenon DEF Chosen, Tx

LEMMA NoTxFacts ==
  /\ NoTx \in Tx /\ NoTx.phase = "idle"
  /\ NoTx.locks = {} /\ NoTx.cands = {} /\ NoTx.keys = {}
BY DEF NoTx, Tx

LEMMA RequestFacts ==
  ASSUME NEW job \in Jobs, NEW reasons \in SUBSET Reasons,
         NEW phase \in {"lookup", "insert", "recheck", "again"}
  PROVE  Request(phase, job, reasons) \in Enq /\ NoEnq \in Enq
BY DEF Request, NoEnq, Enq

-----------------------------------------------------------------------------
(* Type correctness. *)

LEMMA MergeType ==
  ASSUME TypeOK, NEW c \in Clients, NEW gone \in Enq, MergeInto(c, gone)
  PROVE  jobs_current' \in [Jobs -> Row] /\ enq' \in [Clients -> Enq]
<1>1. NoEnq \in Enq
  BY DEF NoEnq, Request, Enq
<1>2. \A a \in Jobs, r \in Reasons : CoalescedInto(jobs_current[a], r) \in Row
  BY CoalescedFacts DEF TypeOK
<1>3. enq[c].reasons \subseteq Reasons
  BY DEF TypeOK, Enq
<1>. QED  BY <1>1, <1>2, <1>3 DEF MergeInto, StillActive, TypeOK

LEMMA MarkAttemptType ==
  ASSUME TypeOK, NEW j \in Jobs, NEW v \in Versions, NEW outcome \in Outcomes,
         MarkAttempt(j, v, outcome)
  PROVE  job_attempts' \in [Jobs -> [Versions -> Outcomes]]
BY DEF TypeOK, MarkAttempt

LEMMA TypeInit == Init => TypeOK
<1> SUFFICES ASSUME Init PROVE TypeOK
  OBVIOUS
<1>1. job_attempts \in [Jobs -> [Versions -> Outcomes]]
  BY DEF Init, Outcomes
<1>2. NoEnq \in Enq
  BY DEF NoEnq, Request, Enq
<1>. QED  BY <1>1, <1>2, NoRowFacts, NoTxFacts DEF Init, TypeOK

LEMMA EnqueueType ==
  ASSUME TypeOK, NEW c \in Clients, EnqueueFamily(c)
  PROVE  TypeOK'
<1> USE DEF TypeOK
<1>1. CASE EnqueueLookup(c)
  <2>1. PICK j \in Jobs, r \in Reasons :
          SelectActive(c, Request("lookup", j, {r}), Request("insert", j, {r}))
    BY <1>1 DEF EnqueueLookup, FreshKeys
  <2>2. {r} \in SUBSET Reasons
    OBVIOUS
  <2>3. Request("insert", j, {r}) \in Enq
    BY <2>2, RequestFacts
  <2>4. \A a \in Jobs : [Request("lookup", j, {r}) EXCEPT !.row = a] \in Enq
    BY <2>2 DEF Request, Enq
  <2>5. ActiveOf(Family[Request("lookup", j, {r}).job]) \subseteq Jobs
    BY DEF ActiveOf, InStatus
  <2>6. enq' \in [Clients -> Enq]
    <3>1. \/ enq' = [enq EXCEPT ![c] = Request("insert", j, {r})]
          \/ \E a \in Jobs : enq' = [enq EXCEPT ![c] = [Request("lookup", j, {r}) EXCEPT !.row = a]]
      BY <2>1, <2>5 DEF SelectActive
    <3>. QED  BY <2>3, <2>4, <3>1
  <2>7. UNCHANGED <<jobs_current, job_attempts, tx>>
    BY <1>1 DEF EnqueueLookup
  <2>. QED  BY <2>6, <2>7
<1>2. CASE EnqueueMerge(c)
  <2>1. enq[c].reasons \in SUBSET Reasons /\ enq[c].job \in Jobs \cup {NoJob}
    BY DEF Enq
  <2>2. Request("insert", enq[c].job, enq[c].reasons) \in Enq
    BY <2>1 DEF Request, Enq
  <2>. QED  BY <1>2, <2>2, MergeType DEF EnqueueMerge
<1>3. CASE EnqueueInsert(c)
  <2>1. enq[c].reasons \in SUBSET Reasons /\ enq[c].job \in Jobs \cup {NoJob}
    BY DEF Enq
  <2>2. NewRow(TRUE, enq[c].reasons) \in Row
    BY <2>1, NewRowFacts
  <2>3. Request("recheck", enq[c].job, enq[c].reasons) \in Enq /\ NoEnq \in Enq
    BY <2>1 DEF Request, NoEnq, Enq
  <2>. QED  BY <1>3, <2>2, <2>3 DEF EnqueueInsert
<1>4. CASE EnqueueRecheck(c)
  <2>1. enq[c].reasons \in SUBSET Reasons /\ enq[c].job \in Jobs \cup {NoJob}
    BY DEF Enq
  <2>2. \A a \in Jobs :
          [Request("again", enq[c].job, enq[c].reasons) EXCEPT !.row = a] \in Enq
    BY <2>1 DEF Request, Enq
  <2>3. ActiveOf(Family[Request("again", enq[c].job, enq[c].reasons).job]) \subseteq Jobs
    BY DEF ActiveOf, InStatus
  <2>4. NoEnq \in Enq
    BY DEF Request, NoEnq, Enq
  <2>5. enq' \in [Clients -> Enq]
    BY <1>4, <2>2, <2>3, <2>4 DEF EnqueueRecheck, SelectActive
  <2>. QED  BY <1>4, <2>5 DEF EnqueueRecheck
<1>5. CASE EnqueueMergeAgain(c)
  <2>1. NoEnq \in Enq
    BY DEF Request, NoEnq, Enq
  <2>. QED  BY <1>5, <2>1, MergeType DEF EnqueueMergeAgain
<1>. QED  BY <1>1, <1>2, <1>3, <1>4, <1>5 DEF EnqueueFamily

LEMMA ClaimTryType ==
  ASSUME TypeOK, NEW w \in Workers, NEW j \in Jobs, ClaimTry(w, j)
  PROVE  TypeOK'
<1>1. tx[w] \in Tx /\ WithKeyOf(tx[w], j) \in Tx
  BY WithKeyOfFacts DEF TypeOK
<1>2. /\ PassedOver(tx[w], j) \in Tx
      /\ PassedOver(WithKeyOf(tx[w], j), j) \in Tx
      /\ Chosen(WithKeyOf(tx[w], j), j) \in Tx
  BY <1>1, PassedOverFacts, ChosenFacts
<1>. QED
  BY <1>2 DEF TypeOK, ClaimTry, ClaimSkipLocked, ClaimSkipFull, ClaimChoose

LEMMA ClaimCommitType ==
  ASSUME TypeOK, NEW w \in Workers, ClaimCommit(w)
  PROVE  TypeOK'
<1> DEFINE j == tx[w].job
           v == jobs_current[j].claim_version + 1
<1>1. \A i \in Jobs : Started(jobs_current[i]) \in Row
  BY StartedFacts DEF TypeOK
<1>2. "running" \in Outcomes
  BY DEF Outcomes
<1>3. /\ jobs_current' = [jobs_current EXCEPT ![j] = Started(@)]
      /\ job_attempts' = [job_attempts EXCEPT ![j][v] = "running"]
      /\ tx' = [tx EXCEPT ![w] = NoTx]
      /\ enq' = enq
  BY DEF ClaimCommit
<1> HIDE DEF j, v
<1>4. jobs_current' \in [Jobs -> Row]
  BY <1>1, <1>3 DEF TypeOK
<1>5. job_attempts' \in [Jobs -> [Versions -> Outcomes]]
  BY <1>2, <1>3 DEF TypeOK
<1>. QED  BY <1>3, <1>4, <1>5, NoTxFacts DEF TypeOK

LEMMA ClaimCallType ==
  ASSUME TypeOK, NEW j \in Jobs, NEW v \in Versions, ClaimCall(j, v)
  PROVE  TypeOK'
<1> USE DEF TypeOK
<1>1. /\ {"lease_lost", "succeeded", "failed_retry_scheduled",
          "failed_terminal", "cancelled"} \subseteq Outcomes
      /\ {"succeeded", "failed_terminal", "cancelled"} \subseteq Statuses
  BY DEF Outcomes, Statuses, Terminal
<1>2. \A i \in Jobs : /\ Ended(jobs_current[i], "succeeded") \in Row
                      /\ Ended(jobs_current[i], "failed_terminal") \in Row
                      /\ Ended(jobs_current[i], "cancelled") \in Row
                      /\ Requeued(jobs_current[i], FALSE) \in Row
                      /\ WithLease(jobs_current[i], FALSE) \in Row
                      /\ NewRow(TRUE, jobs_current[i].reasons) \in Row
  <2> SUFFICES ASSUME NEW i \in Jobs
               PROVE  /\ Ended(jobs_current[i], "succeeded") \in Row
                      /\ Ended(jobs_current[i], "failed_terminal") \in Row
                      /\ Ended(jobs_current[i], "cancelled") \in Row
                      /\ Requeued(jobs_current[i], FALSE) \in Row
                      /\ WithLease(jobs_current[i], FALSE) \in Row
                      /\ NewRow(TRUE, jobs_current[i].reasons) \in Row
    OBVIOUS
  <2>1. jobs_current[i] \in Row /\ jobs_current[i].reasons \in SUBSET Reasons
    BY DEF Row
  <2>. QED  BY <1>1, <2>1, EndedFacts, RequeuedFacts, WithLeaseFacts, NewRowFacts
<1>3. CASE StaleCall(j, v)
  BY <1>1, <1>3, MarkAttemptType DEF StaleCall
<1>4. CASE Heartbeat(j, v)
  BY <1>2, <1>4 DEF Heartbeat
<1>5. CASE Complete(j, v)
  <2>1. job_attempts' \in [Jobs -> [Versions -> Outcomes]] /\ UNCHANGED <<tx, enq>>
    BY <1>1, <1>5, MarkAttemptType DEF Complete
  <2>2. FreshKeys(Family[j]) \subseteq Jobs
    BY DEF FreshKeys
  <2>3. jobs_current' \in [Jobs -> Row]
    BY <1>2, <1>5, <2>2 DEF Complete
  <2>. QED  BY <2>1, <2>3
<1>6. CASE Fail(j, v)
  <2>1. job_attempts' \in [Jobs -> [Versions -> Outcomes]] /\ UNCHANGED <<tx, enq>>
    BY <1>1, <1>6, MarkAttemptType DEF Fail
  <2>2. jobs_current' \in [Jobs -> Row]
    BY <1>2, <1>6 DEF Fail
  <2>. QED  BY <2>1, <2>2
<1>7. CASE Cancel(j, v)
  BY <1>1, <1>2, <1>7, MarkAttemptType DEF Cancel
<1>. QED  BY <1>3, <1>4, <1>5, <1>6, <1>7 DEF ClaimCall

\* The rows of a scan are pending, and no other transaction has locked them.
LEMMA ScanTakes ==
  ASSUME NEW w \in Workers, ClaimScan(w)
  PROVE  \E passed, S \in SUBSET Jobs :
           /\ tx' = [tx EXCEPT ![w] = Scanned(tx[w], passed, S)]
           /\ \A j \in passed \cup S : jobs_current[j].status = "pending" /\ ~RowLockedBut(w, j)
<1>1. \A R \in Views(w) : \A j \in R :
        j \in Jobs /\ jobs_current[j].status = "pending" /\ ~RowLockedBut(w, j)
  BY DEF Views, Claimable
<1>2. PICK R \in Views(w) : \E passed \in SUBSET R : \E S \in (SUBSET (R \ passed)) \ {{}} :
        tx' = [tx EXCEPT ![w] = Scanned(tx[w], passed, S)]
  BY DEF ClaimScan
<1>3. PICK passed \in SUBSET R : \E S \in (SUBSET (R \ passed)) \ {{}} :
        tx' = [tx EXCEPT ![w] = Scanned(tx[w], passed, S)]
  BY <1>2
<1>4. PICK S \in SUBSET (R \ passed) : tx' = [tx EXCEPT ![w] = Scanned(tx[w], passed, S)]
  BY <1>3
<1>5. passed \in SUBSET Jobs /\ S \in SUBSET Jobs
  BY <1>1
<1>6. \A j \in passed \cup S : jobs_current[j].status = "pending" /\ ~RowLockedBut(w, j)
  BY <1>1
<1>. QED  BY <1>4, <1>5, <1>6

LEMMA TypeStep == TypeOK /\ [Next]_vars => TypeOK'
<1> SUFFICES ASSUME TypeOK, [Next]_vars PROVE TypeOK'
  OBVIOUS
<1> USE DEF TypeOK
<1>1. ASSUME NEW j \in Jobs, Enqueue(j) PROVE TypeOK'
  <2>1. \A due \in BOOLEAN : NewRow(due, {}) \in Row
    BY NewRowFacts
  <2>. QED  BY <1>1, <2>1 DEF Enqueue
<1>2. ASSUME NEW j \in Jobs, TimePasses(j) PROVE TypeOK'
  <2>1. Requeued(jobs_current[j], TRUE) \in Row /\ WithLease(jobs_current[j], TRUE) \in Row
    BY RequeuedFacts, WithLeaseFacts
  <2>. QED  BY <1>2, <2>1 DEF TimePasses, BackoffElapses, LeaseExpires
<1>3. ASSUME NEW w \in Workers, ClaimScan(w) PROVE TypeOK'
  <2>1. PICK passed \in SUBSET Jobs, S \in SUBSET Jobs :
          tx' = [tx EXCEPT ![w] = Scanned(tx[w], passed, S)]
    BY <1>3, ScanTakes
  <2>2. Scanned(tx[w], passed, S) \in Tx
    BY ScannedFacts
  <2>. QED  BY <1>3, <2>1, <2>2 DEF ClaimScan
<1>4. ASSUME NEW w \in Workers, ClaimEnd(w) \/ ClaimAbort(w) PROVE TypeOK'
  BY <1>4, NoTxFacts DEF ClaimEnd, ClaimAbort
<1>5. CASE ReclaimExpiredLeases
  <2>1. \A j \in Jobs : Requeued(jobs_current[j], TRUE) \in Row
    BY RequeuedFacts
  <2>2. "lease_lost" \in Outcomes
    BY DEF Outcomes
  <2>. QED  BY <1>5, <2>1, <2>2 DEF ReclaimExpiredLeases
<1>6. CASE CleanupTerminal
  BY <1>6, NoRowFacts DEF CleanupTerminal
<1>7. CASE UNCHANGED vars
  BY <1>7 DEF vars
<1>. QED
  BY <1>1, <1>2, <1>3, <1>4, <1>5, <1>6, <1>7,
     EnqueueType, ClaimTryType, ClaimCommitType, ClaimCallType DEF Next

\* The rows, the attempts, the claim transactions and the enqueues keep their
\* types under every operation of the store.
THEOREM TypeCorrect == Spec => []TypeOK
BY TypeInit, TypeStep, PTL DEF Spec

-----------------------------------------------------------------------------
(***************************************************************************)
(* The caps.  claimNext counts the running jobs of a concurrency key in    *)
(* one statement and starts one more in another.  These theorems say that  *)
(* its locks make the two safe, for any number of concurrent claims.       *)
(***************************************************************************)
\* The rows a transaction has locked are pending, and nobody else's.
RowLocksHold ==
  /\ \A w \in Workers : tx[w].cands \subseteq tx[w].locks
  /\ \A w \in Workers : \A j \in tx[w].locks : jobs_current[j].status = "pending"
  /\ \A w, u \in Workers : w # u => tx[w].locks \cap tx[u].locks = {}

\* The advisory lock of a key is one transaction's.
KeyLocksHold ==
  \A w, u \in Workers : w # u => tx[w].keys \cap tx[u].keys = {}

\* A transaction that has chosen a job holds its row and its key, and the key
\* still has room.
ChoiceHolds ==
  \A w \in Workers : tx[w].phase = "claiming" =>
    /\ tx[w].job \in tx[w].locks
    /\ ConcurrencyKey[tx[w].job] \in tx[w].keys
    /\ Cardinality(RunningOf(ConcurrencyKey[tx[w].job]))
         < Cap[ConcurrencyKey[tx[w].job]]

ClaimInv == TypeOK /\ RowLocksHold /\ KeyLocksHold /\ ChoiceHolds /\ KeyCapHeld

-----------------------------------------------------------------------------
\* The running jobs of a key are finitely many.
LEMMA RunningFinite ==
  ASSUME NEW k
  PROVE  /\ RunningOf(k) \subseteq Jobs
         /\ IsFiniteSet(RunningOf(k))
         /\ Cardinality(RunningOf(k)) \in Nat
<1>1. RunningOf(k) \subseteq Jobs
  BY DEF RunningOf, InStatus
<1>. QED  BY <1>1, JobsAssumption, FS_Subset, FS_CardinalityType

LEMMA ClaimInvInit == Init => ClaimInv
<1> SUFFICES ASSUME Init PROVE ClaimInv
  OBVIOUS
<1>1. /\ \A w \in Workers : tx[w] = NoTx
      /\ \A j \in Jobs : jobs_current[j].status = "none"
  BY NoRowFacts DEF Init
<1>2. \A k : RunningOf(k) = {}
  BY <1>1 DEF RunningOf, InStatus
<1>3. KeyCapHeld
  BY <1>2, FS_EmptySet, LimitsAssumption DEF KeyCapHeld
<1>. QED
  BY <1>1, <1>3, TypeInit, NoTxFacts
  DEF ClaimInv, RowLocksHold, KeyLocksHold, ChoiceHolds

\* A step outside claimNext starts no job and takes no pending row away.
Quiet ==
  /\ tx' = tx
  /\ \A j \in Jobs : jobs_current'[j].status = "running" => jobs_current[j].status = "running"
  /\ \A j \in Jobs : jobs_current[j].status = "pending" => jobs_current'[j].status = "pending"

LEMMA QuietPreserves == ClaimInv /\ TypeOK' /\ Quiet => ClaimInv'
<1> SUFFICES ASSUME ClaimInv, TypeOK', Quiet PROVE ClaimInv'
  OBVIOUS
<1> USE DEF ClaimInv
<1>1. \A w \in Workers : tx[w] \in Tx /\ tx[w].locks \subseteq Jobs
  BY DEF TypeOK, Tx
<1>2. RowLocksHold' /\ KeyLocksHold'
  BY <1>1 DEF Quiet, RowLocksHold, KeyLocksHold
<1>3. ASSUME NEW k
      PROVE  Cardinality(RunningOf(k))' <= Cardinality(RunningOf(k))
  <2>1. RunningOf(k)' \subseteq RunningOf(k)
    BY DEF Quiet, RunningOf, InStatus
  <2>. QED  BY <2>1, RunningFinite, FS_Subset
<1>4. \A k : Cardinality(RunningOf(k))' \in Nat /\ Cardinality(RunningOf(k)) \in Nat
  <2>1. TAKE k
  <2>2. IsFiniteSet(RunningOf(k)')
    <3>1. RunningOf(k)' \subseteq Jobs
      BY DEF RunningOf, InStatus
    <3>. QED  BY <3>1, JobsAssumption, FS_Subset
  <2>. QED  BY <2>2, RunningFinite, FS_CardinalityType
<1>5. KeyCapHeld'
  BY <1>3, <1>4, LimitsAssumption DEF KeyCapHeld
<1>6. ChoiceHolds'
  <2> SUFFICES ASSUME NEW w \in Workers, (tx[w].phase = "claiming")'
               PROVE  (/\ tx[w].job \in tx[w].locks
                       /\ ConcurrencyKey[tx[w].job] \in tx[w].keys
                       /\ Cardinality(RunningOf(ConcurrencyKey[tx[w].job]))
                            < Cap[ConcurrencyKey[tx[w].job]])'
    BY DEF ChoiceHolds
  <2>1. tx' = tx
    BY DEF Quiet
  <2>k. PICK k : k = ConcurrencyKey[tx[w].job]
    OBVIOUS
  <2>2. /\ tx[w].job \in tx[w].locks
        /\ k \in tx[w].keys
        /\ Cardinality(RunningOf(k)) < Cap[k]
    BY <2>1, <2>k DEF ChoiceHolds
  <2>3. Cap[k] \in Nat
    BY <1>1, <2>2, <2>k, JobsAssumption, LimitsAssumption
  <2>4. Cardinality(RunningOf(k)') < Cap[k]
    BY <1>3, <1>4, <2>2, <2>3
  <2>. QED  BY <2>1, <2>2, <2>4, <2>k
<1>. QED  BY <1>2, <1>5, <1>6

-----------------------------------------------------------------------------
\* Steps of claimNext that only change the transaction of w, and leave it with
\* locks that nobody else holds.
LEMMA TxStepPreserves ==
  ASSUME ClaimInv, TypeOK', NEW w \in Workers, NEW t \in Tx,
         tx' = [tx EXCEPT ![w] = t], jobs_current' = jobs_current,
         t.cands \subseteq t.locks,
         \A j \in t.locks : jobs_current[j].status = "pending",
         \A u \in Workers \ {w} : /\ t.locks \cap tx[u].locks = {}
                                  /\ t.keys \cap tx[u].keys = {},
         t.phase = "claiming" =>
           /\ t.job \in t.locks
           /\ ConcurrencyKey[t.job] \in t.keys
           /\ Cardinality(RunningOf(ConcurrencyKey[t.job])) < Cap[ConcurrencyKey[t.job]]
  PROVE  ClaimInv'
<1> USE DEF ClaimInv
<1>1. tx'[w] = t /\ \A u \in Workers \ {w} : tx'[u] = tx[u]
  BY DEF TypeOK
<1>2. RowLocksHold'
  <2>1. \A u \in Workers : tx'[u].cands \subseteq tx'[u].locks
    BY <1>1 DEF RowLocksHold
  <2>2. \A u \in Workers : \A j \in tx'[u].locks : jobs_current[j].status = "pending"
    BY <1>1 DEF RowLocksHold
  <2>3. \A v, u \in Workers : v # u => tx'[v].locks \cap tx'[u].locks = {}
    BY <1>1 DEF RowLocksHold
  <2>. QED  BY <2>1, <2>2, <2>3 DEF RowLocksHold
<1>3. KeyLocksHold'
  BY <1>1 DEF KeyLocksHold
<1>4. \A k : RunningOf(k)' = RunningOf(k)
  BY DEF RunningOf, InStatus
<1>5. KeyCapHeld'
  BY <1>4 DEF KeyCapHeld
<1>6. ChoiceHolds'
  <2> SUFFICES ASSUME NEW u \in Workers, (tx[u].phase = "claiming")'
               PROVE  (/\ tx[u].job \in tx[u].locks
                       /\ ConcurrencyKey[tx[u].job] \in tx[u].keys
                       /\ Cardinality(RunningOf(ConcurrencyKey[tx[u].job]))
                            < Cap[ConcurrencyKey[tx[u].job]])'
    BY DEF ChoiceHolds
  <2>1. PICK x : x = tx'[u]
    OBVIOUS
  <2>2. /\ x.job \in x.locks
        /\ ConcurrencyKey[x.job] \in x.keys
        /\ Cardinality(RunningOf(ConcurrencyKey[x.job])) < Cap[ConcurrencyKey[x.job]]
    BY <1>1, <2>1 DEF ChoiceHolds
  <2>3. RunningOf(ConcurrencyKey[x.job])' = RunningOf(ConcurrencyKey[x.job])
    BY <1>4
  <2>. QED  BY <2>1, <2>2, <2>3
<1>. QED  BY <1>2, <1>3, <1>5, <1>6

\* The scan locks rows nobody has locked; a candidate that is passed over or
\* chosen adds at most a key whose lock nobody has.
LEMMA ScanPreserves ==
  ASSUME ClaimInv, TypeOK', NEW w \in Workers, ClaimScan(w)
  PROVE  ClaimInv'
<1>1. PICK passed \in SUBSET Jobs, S \in SUBSET Jobs :
        /\ tx' = [tx EXCEPT ![w] = Scanned(tx[w], passed, S)]
        /\ \A j \in passed \cup S : jobs_current[j].status = "pending" /\ ~RowLockedBut(w, j)
  BY ScanTakes
<1>2. tx[w] \in Tx
  BY DEF ClaimInv, TypeOK
<1>s. PICK t : t = Scanned(tx[w], passed, S)
  OBVIOUS
<1>3. /\ t \in Tx
      /\ t.phase = "scanning"
      /\ t.locks = tx[w].locks \cup passed \cup S
      /\ t.cands = S
      /\ t.keys = tx[w].keys
  <2>1. t \in Tx
    BY <1>2, <1>s, ScannedFacts
  <2>2. /\ t.phase = "scanning"
        /\ t.locks = tx[w].locks \cup passed \cup S
        /\ t.cands = S
        /\ t.keys = tx[w].keys
    BY <1>2, <1>s, Zenon DEF Scanned, Tx
  <2>. QED  BY <2>1, <2>2
<1>4. t.cands \subseteq t.locks /\ jobs_current' = jobs_current
  BY <1>3 DEF ClaimScan
<1>5. \A j \in t.locks : jobs_current[j].status = "pending"
  BY <1>1, <1>3 DEF ClaimInv, RowLocksHold
<1>6. \A u \in Workers \ {w} : t.locks \cap tx[u].locks = {}
  <2>1. \A u \in Workers \ {w} : tx[w].locks \cap tx[u].locks = {}
    BY DEF ClaimInv, RowLocksHold
  <2>2. \A j \in passed \cup S : \A u \in Workers \ {w} : j \notin tx[u].locks
    BY <1>1 DEF RowLockedBut
  <2>. QED  BY <1>3, <2>1, <2>2
<1>7. \A u \in Workers \ {w} : t.keys \cap tx[u].keys = {}
  BY <1>3 DEF ClaimInv, KeyLocksHold
<1>8. tx' = [tx EXCEPT ![w] = t] /\ t.phase # "claiming"
  BY <1>1, <1>s, <1>3
<1>. QED  BY <1>3, <1>4, <1>5, <1>6, <1>7, <1>8, TxStepPreserves

LEMMA TryPreserves ==
  ASSUME ClaimInv, TypeOK', NEW w \in Workers, NEW j \in Jobs, ClaimTry(w, j)
  PROVE  ClaimInv'
<1> DEFINE k == ConcurrencyKey[j]
<1>1. /\ tx[w] \in Tx
      /\ tx[w].phase = "scanning"
      /\ j \in tx[w].cands
      /\ jobs_current' = jobs_current
  BY DEF ClaimInv, TypeOK, ClaimTry, ClaimSkipLocked, ClaimSkipFull, ClaimChoose, IsNext
<1>2. /\ tx[w].cands \subseteq tx[w].locks
      /\ \A i \in tx[w].locks : jobs_current[i].status = "pending"
      /\ \A u \in Workers \ {w} : /\ tx[w].locks \cap tx[u].locks = {}
                                  /\ tx[w].keys \cap tx[u].keys = {}
  BY DEF ClaimInv, RowLocksHold, KeyLocksHold
<1>3. ~KeyLockedBut(w, k) =>
        \A u \in Workers \ {w} : (tx[w].keys \cup {k}) \cap tx[u].keys = {}
  BY <1>2 DEF KeyLockedBut
<1>4. PICK s \in Tx : /\ s = WithKeyOf(tx[w], j)
                     /\ s.phase = "scanning" /\ s.locks = tx[w].locks
                     /\ s.cands = tx[w].cands /\ s.keys = tx[w].keys \cup {k}
  BY <1>1, WithKeyOfFacts
<1>5. CASE ClaimSkipLocked(w, j)
  <2>1. PICK t \in Tx : /\ t = PassedOver(tx[w], j)
                       /\ t.phase = "scanning" /\ t.locks = tx[w].locks
                       /\ t.cands = tx[w].cands \ {j} /\ t.keys = tx[w].keys
    BY <1>1, PassedOverFacts
  <2>2. tx' = [tx EXCEPT ![w] = t]
    BY <1>5, <2>1 DEF ClaimSkipLocked
  <2>3. t.cands \subseteq t.locks /\ \A i \in t.locks : jobs_current[i].status = "pending"
    BY <1>2, <2>1
  <2>4. \A u \in Workers \ {w} : t.locks \cap tx[u].locks = {} /\ t.keys \cap tx[u].keys = {}
    BY <1>2, <2>1
  <2>. QED  BY <1>1, <2>1, <2>2, <2>3, <2>4, TxStepPreserves
<1>6. CASE ClaimSkipFull(w, j)
  <2>1. PICK t \in Tx : /\ t = PassedOver(s, j)
                       /\ t.phase = "scanning" /\ t.locks = tx[w].locks
                       /\ t.cands = tx[w].cands \ {j} /\ t.keys = tx[w].keys \cup {k}
    BY <1>4, PassedOverFacts
  <2>2. tx' = [tx EXCEPT ![w] = t]
    BY <1>4, <1>6, <2>1 DEF ClaimSkipFull
  <2>3. t.cands \subseteq t.locks /\ \A i \in t.locks : jobs_current[i].status = "pending"
    BY <1>2, <2>1
  <2>4. ~KeyLockedBut(w, k)
    BY <1>6 DEF ClaimSkipFull
  <2>5. \A u \in Workers \ {w} : t.locks \cap tx[u].locks = {} /\ t.keys \cap tx[u].keys = {}
    BY <1>2, <1>3, <2>1, <2>4
  <2>. QED  BY <1>1, <2>1, <2>2, <2>3, <2>5, TxStepPreserves
<1>7. CASE ClaimChoose(w, j)
  <2>1. PICK t \in Tx : /\ t = Chosen(s, j)
                       /\ t.phase = "claiming" /\ t.locks = tx[w].locks
                       /\ t.cands = tx[w].cands /\ t.keys = tx[w].keys \cup {k}
                       /\ t.job = j
    BY <1>4, ChosenFacts
  <2>2. tx' = [tx EXCEPT ![w] = t]
    BY <1>4, <1>7, <2>1 DEF ClaimChoose
  <2>3. t.cands \subseteq t.locks /\ \A i \in t.locks : jobs_current[i].status = "pending"
    BY <1>2, <2>1
  <2>4. ~KeyLockedBut(w, k) /\ Cardinality(RunningOf(k)) < Cap[k]
    BY <1>7 DEF ClaimChoose, BelowCap
  <2>5. \A u \in Workers \ {w} : t.locks \cap tx[u].locks = {} /\ t.keys \cap tx[u].keys = {}
    BY <1>2, <1>3, <2>1, <2>4
  <2>6. t.job \in t.locks /\ ConcurrencyKey[t.job] \in t.keys
    BY <1>1, <1>2, <2>1
  <2>7. Cardinality(RunningOf(ConcurrencyKey[t.job])) < Cap[ConcurrencyKey[t.job]]
    BY <2>1, <2>4
  <2>. QED  BY <1>1, <2>1, <2>2, <2>3, <2>5, <2>6, <2>7, TxStepPreserves
<1>. QED  BY <1>5, <1>6, <1>7 DEF ClaimTry

\* COMMIT without an UPDATE and ROLLBACK release every lock of w.
LEMMA EndPreserves ==
  ASSUME ClaimInv, TypeOK', NEW w \in Workers, ClaimEnd(w) \/ ClaimAbort(w)
  PROVE  ClaimInv'
<1>1. tx' = [tx EXCEPT ![w] = NoTx] /\ jobs_current' = jobs_current
  BY DEF ClaimEnd, ClaimAbort
<1>. QED  BY <1>1, NoTxFacts, TxStepPreserves

\* The UPDATE starts the chosen job: its key had room, and no other
\* transaction has chosen a job of that key or locked that row.
LEMMA CommitPreserves ==
  ASSUME ClaimInv, TypeOK', NEW w \in Workers, ClaimCommit(w)
  PROVE  ClaimInv'
<1>1. PICK j : j = tx[w].job
  OBVIOUS
<1>2. PICK k : k = ConcurrencyKey[j]
  OBVIOUS
<1>3. /\ j \in tx[w].locks /\ j \in Jobs
      /\ k \in tx[w].keys /\ k \in Keys
      /\ Cardinality(RunningOf(k)) < Cap[k]
  <2>1. /\ j \in tx[w].locks /\ k \in tx[w].keys
        /\ Cardinality(RunningOf(k)) < Cap[k]
    BY <1>1, <1>2 DEF ClaimCommit, ClaimInv, ChoiceHolds
  <2>2. tx[w].locks \subseteq Jobs
    BY DEF ClaimInv, TypeOK, Tx
  <2>. QED  BY <1>2, <2>1, <2>2, JobsAssumption
<1>4. /\ jobs_current' = [jobs_current EXCEPT ![j] = Started(@)]
      /\ tx' = [tx EXCEPT ![w] = NoTx]
      /\ jobs_current[j].status = "pending"
  BY <1>1 DEF ClaimCommit
<1>5. /\ jobs_current'[j].status = "running"
      /\ \A i \in Jobs \ {j} : jobs_current'[i] = jobs_current[i]
  BY <1>3, <1>4, StartedFacts DEF ClaimInv, TypeOK
<1>6. /\ tx'[w] = NoTx
      /\ \A u \in Workers \ {w} : tx'[u] = tx[u]
  BY <1>4 DEF ClaimInv, TypeOK
<1>7. \A u \in Workers \ {w} : /\ j \notin tx[u].locks
                               /\ k \notin tx[u].keys
  BY <1>3 DEF ClaimInv, RowLocksHold, KeyLocksHold
<1>8. RowLocksHold'
  <2>1. \A u \in Workers : tx'[u].cands \subseteq tx'[u].locks
    BY <1>6, NoTxFacts DEF ClaimInv, RowLocksHold
  <2>2. \A u \in Workers : tx[u].locks \subseteq Jobs
    BY DEF ClaimInv, TypeOK, Tx
  <2>3. \A u \in Workers : \A i \in tx'[u].locks : jobs_current'[i].status = "pending"
    BY <1>5, <1>6, <1>7, <2>2, NoTxFacts DEF ClaimInv, RowLocksHold
  <2>4. \A v, u \in Workers : v # u => tx'[v].locks \cap tx'[u].locks = {}
    BY <1>6, NoTxFacts DEF ClaimInv, RowLocksHold
  <2>. QED  BY <2>1, <2>3, <2>4 DEF RowLocksHold
<1>9. KeyLocksHold'
  BY <1>6, NoTxFacts DEF ClaimInv, KeyLocksHold
<1>10. /\ RunningOf(k)' = RunningOf(k) \cup {j}
       /\ j \notin RunningOf(k)
       /\ \A h : h # k => RunningOf(h)' = RunningOf(h)
  BY <1>2, <1>3, <1>4, <1>5 DEF RunningOf, InStatus
<1>11. KeyCapHeld'
  <2> SUFFICES ASSUME NEW h \in Keys
               PROVE  Cardinality(RunningOf(h)') <= Cap[h]
    BY DEF KeyCapHeld
  <2>1. CASE h = k
    <3>1. Cardinality(RunningOf(k)') = Cardinality(RunningOf(k)) + 1
      BY <1>10, RunningFinite, FS_AddElement
    <3>2. Cardinality(RunningOf(k)) \in Nat /\ Cap[k] \in Nat
      BY <1>3, RunningFinite, LimitsAssumption
    <3>. QED  BY <1>3, <2>1, <3>1, <3>2
  <2>2. CASE h # k
    BY <1>10, <2>2 DEF ClaimInv, KeyCapHeld
  <2>. QED  BY <2>1, <2>2
<1>12. ChoiceHolds'
  <2> SUFFICES ASSUME NEW u \in Workers, (tx[u].phase = "claiming")'
               PROVE  (/\ tx[u].job \in tx[u].locks
                       /\ ConcurrencyKey[tx[u].job] \in tx[u].keys
                       /\ Cardinality(RunningOf(ConcurrencyKey[tx[u].job]))
                            < Cap[ConcurrencyKey[tx[u].job]])'
    BY DEF ChoiceHolds
  <2>1. PICK x : x = tx'[u]
    OBVIOUS
  <2>2. u # w /\ x = tx[u] /\ x.phase = "claiming"
    BY <1>6, <2>1, NoTxFacts
  <2>3. /\ x.job \in x.locks
        /\ ConcurrencyKey[x.job] \in x.keys
        /\ Cardinality(RunningOf(ConcurrencyKey[x.job])) < Cap[ConcurrencyKey[x.job]]
    BY <2>2 DEF ClaimInv, ChoiceHolds
  <2>4. RunningOf(ConcurrencyKey[x.job])' = RunningOf(ConcurrencyKey[x.job])
    BY <1>7, <1>10, <2>2, <2>3
  <2>. QED  BY <2>1, <2>3, <2>4
<1>. QED  BY <1>8, <1>9, <1>11, <1>12 DEF ClaimInv

-----------------------------------------------------------------------------
\* Every operation but claimNext is quiet.
LEMMA EnqueueQuiet ==
  ASSUME TypeOK, NEW c \in Clients, EnqueueFamily(c)
  PROVE  Quiet
<1>1. ASSUME NEW gone \in Enq, MergeInto(c, gone), tx' = tx
      PROVE  Quiet
  <2>1. \A a \in Jobs, r \in Reasons :
          CoalescedInto(jobs_current[a], r).status = jobs_current[a].status
    BY CoalescedFacts DEF TypeOK
  <2>2. enq[c].reasons \subseteq Reasons
    BY DEF TypeOK, Enq
  <2>3. PICK a : a = enq[c].row
    OBVIOUS
  <2>4. CASE jobs_current' = jobs_current
    BY <1>1, <2>4 DEF Quiet
  <2>5. ASSUME NEW r \in Reasons,
               jobs_current' = [jobs_current EXCEPT ![a] = CoalescedInto(@, r)]
        PROVE  Quiet
    BY <1>1, <2>1, <2>5 DEF TypeOK, Quiet
  <2>6. \/ jobs_current' = jobs_current
        \/ \E r \in enq[c].reasons :
             jobs_current' = [jobs_current EXCEPT ![a] = CoalescedInto(@, r)]
    BY <1>1, <2>3 DEF MergeInto, StillActive
  <2>. QED  BY <2>2, <2>4, <2>5, <2>6
<1>2. enq[c].job \in Jobs \cup {NoJob} /\ enq[c].reasons \in SUBSET Reasons
  BY DEF TypeOK, Enq
<1>3. CASE EnqueueLookup(c)
  BY <1>3 DEF EnqueueLookup, Quiet
<1>4. CASE EnqueueMerge(c)
  <2>1. Request("insert", enq[c].job, enq[c].reasons) \in Enq
    BY <1>2 DEF Request, Enq
  <2>. QED  BY <1>1, <1>4, <2>1 DEF EnqueueMerge
<1>5. CASE EnqueueInsert(c)
  <2>1. NewRow(TRUE, enq[c].reasons).status = "pending"
    BY <1>2, NewRowFacts
  <2>. QED  BY <1>5, <2>1 DEF EnqueueInsert, Conflicts, TypeOK, Quiet
<1>6. CASE EnqueueRecheck(c)
  BY <1>6 DEF EnqueueRecheck, Quiet
<1>7. CASE EnqueueMergeAgain(c)
  <2>1. NoEnq \in Enq
    BY DEF NoEnq, Request, Enq
  <2>. QED  BY <1>1, <1>7, <2>1 DEF EnqueueMergeAgain
<1>. QED  BY <1>3, <1>4, <1>5, <1>6, <1>7 DEF EnqueueFamily

LEMMA ClaimCallQuiet ==
  ASSUME TypeOK, NEW j \in Jobs, NEW v \in Versions, ClaimCall(j, v)
  PROVE  Quiet
<1>1. jobs_current[j] \in Row /\ jobs_current[j].reasons \in SUBSET Reasons
  BY DEF TypeOK, Row
<1>2. {"succeeded", "failed_terminal", "cancelled"} \subseteq Statuses
  BY DEF Statuses, Terminal
<1>3. CASE StaleCall(j, v)
  BY <1>3 DEF StaleCall, Quiet
<1>4. CASE Heartbeat(j, v)
  <2>1. WithLease(jobs_current[j], FALSE).status = jobs_current[j].status
    BY <1>1, WithLeaseFacts
  <2>. QED  BY <1>4, <2>1 DEF Heartbeat, TypeOK, Quiet
<1>5. CASE Complete(j, v)
  <2>1. Ended(jobs_current[j], "succeeded").status = "succeeded"
    BY <1>1, <1>2, EndedFacts
  <2>2. NewRow(TRUE, jobs_current[j].reasons).status = "pending"
    BY <1>1, NewRowFacts
  <2>3. /\ jobs_current[j].status = "running" /\ tx' = tx
        /\ \/ jobs_current' = [jobs_current EXCEPT ![j] = Ended(@, "succeeded")]
           \/ \E k \in Jobs : /\ jobs_current[k].status = "none"
                              /\ jobs_current' = [jobs_current EXCEPT
                                   ![j] = Ended(@, "succeeded"),
                                   ![k] = NewRow(TRUE, jobs_current[j].reasons)]
    BY <1>5 DEF Complete, Holds, FreshKeys
  <2>. QED  BY <2>1, <2>2, <2>3 DEF TypeOK, Quiet
<1>6. CASE Fail(j, v)
  <2>1. /\ Requeued(jobs_current[j], FALSE).status = "pending"
        /\ Ended(jobs_current[j], "failed_terminal").status = "failed_terminal"
    BY <1>1, <1>2, RequeuedFacts, EndedFacts
  <2>. QED  BY <1>6, <2>1 DEF Fail, Holds, TypeOK, Quiet
<1>7. CASE Cancel(j, v)
  <2>1. Ended(jobs_current[j], "cancelled").status = "cancelled"
    BY <1>1, <1>2, EndedFacts
  <2>. QED  BY <1>7, <2>1 DEF Cancel, Holds, TypeOK, Quiet
<1>. QED  BY <1>3, <1>4, <1>5, <1>6, <1>7 DEF ClaimCall

LEMMA ClaimInvStep == ClaimInv /\ [Next]_vars => ClaimInv'
<1> SUFFICES ASSUME ClaimInv, [Next]_vars PROVE ClaimInv'
  OBVIOUS
<1>0. TypeOK /\ TypeOK'
  BY TypeStep DEF ClaimInv
<1> USE DEF TypeOK
<1>1. ASSUME NEW j \in Jobs, Enqueue(j) PROVE Quiet
  <2>1. \A due \in BOOLEAN : NewRow(due, {}).status = "pending"
    BY NewRowFacts
  <2>. QED  BY <1>0, <1>1, <2>1 DEF Enqueue, Quiet
<1>2. ASSUME NEW j \in Jobs, TimePasses(j) PROVE Quiet
  <2>1. /\ Requeued(jobs_current[j], TRUE).status = "pending"
        /\ WithLease(jobs_current[j], TRUE).status = jobs_current[j].status
    BY <1>0, RequeuedFacts, WithLeaseFacts
  <2>. QED  BY <1>0, <1>2, <2>1 DEF TimePasses, BackoffElapses, LeaseExpires, Quiet
<1>3. CASE ReclaimExpiredLeases
  <2>1. \A j \in Jobs : Requeued(jobs_current[j], TRUE).status = "pending"
    BY <1>0, RequeuedFacts
  <2>. QED  BY <1>0, <1>3, <2>1, QuietPreserves
            DEF ReclaimExpiredLeases, ExpiredLeases, InStatus, Quiet
<1>4. CASE CleanupTerminal
  <2>1. Quiet
    BY <1>0, <1>4, NoRowFacts DEF CleanupTerminal, InStatus, Terminal, Quiet
  <2>. QED  BY <1>0, <2>1, QuietPreserves
<1>5. CASE UNCHANGED vars
  BY <1>0, <1>5, QuietPreserves DEF vars, Quiet
<1>. QED
  BY <1>0, <1>1, <1>2, <1>3, <1>4, <1>5, EnqueueQuiet, ClaimCallQuiet, QuietPreserves,
     ScanPreserves, TryPreserves, EndPreserves, CommitPreserves DEF Next

\* claimNext never runs more jobs of a concurrency key than its cap.
THEOREM KeyCapCorrect == Spec => []KeyCapHeld
<1>1. ClaimInv => KeyCapHeld
  BY DEF ClaimInv
<1>. QED  BY <1>1, ClaimInvInit, ClaimInvStep, PTL DEF Spec

\* The row a claim transaction is about to update is still pending and its own.
THEOREM ChosenCorrect == Spec => []ChosenStaysPending
<1>1. ClaimInv => ChosenStaysPending
  BY DEF ClaimInv, RowLocksHold, ChoiceHolds, ChosenStaysPending
<1>. QED  BY <1>1, ClaimInvInit, ClaimInvStep, PTL DEF Spec

=============================================================================
