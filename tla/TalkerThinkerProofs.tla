------------------------ MODULE TalkerThinkerProofs ------------------------
(***************************************************************************)
(* Theorems about TalkerThinker for any number of turns, ticks and faults. *)
(*                                                                         *)
(* Whatever the Talker, the ticks and the sweeper do, the ledger changes   *)
(* by one of five marks, each a function of the status it finds.  A mark   *)
(* takes a status to a status, and a done one to a done one.               *)
(***************************************************************************)
EXTENDS TalkerThinker, FiniteSetTheorems, SequenceTheorems, TLAPS

\* Each turn's settlement has a status.
LedgerTyped == ledger \in [Turns -> Statuses]

\* What a mark may make of the status s.
Marked(s) ==
  {AppliedStatus(s), NoopStatus(s), CommittedStatus(s), ProjectingStatus(s),
   FailedStatus(s, "failed_retryable"), FailedStatus(s, "failed_terminal")}

\* The step leaves the ledger alone or marks one settlement.
MarksOne ==
  \/ ledger' = ledger
  \/ \E v : \E s \in Marked(ledger[v]) : ledger' = [ledger EXCEPT ![v] = s]

\* A mark takes a status to a status, and a done one to a done one.
LEMMA MarkKeeps ==
  ASSUME NEW s \in Statuses, NEW t \in Marked(s)
  PROVE  /\ t \in Statuses
         /\ s \in DoneStatuses => t \in DoneStatuses
BY DEF Marked, Statuses, DoneStatuses, AppliedStatus, NoopStatus, CommittedStatus,
       ProjectingStatus, FailedStatus

\* A mark of the worker, with a ledger or without, is a mark.
LEMMA WorkerMark ==
  ASSUME NEW v, NEW s \in Marked(ledger[v]), Mark(v, s)
  PROVE  MarksOne
BY DEF Mark, Record, MarksOne

\* Every step of the pipeline leaves the ledger alone or marks one settlement.
LEMMA StepMarksOne == Next => MarksOne
<1> SUFFICES ASSUME Next PROVE MarksOne
  OBVIOUS
<1>1. ASSUME NEW v \in Turns, CommitTurn(v) \/ TalkerStep(v) \/ TalkerCrash(v) \/ Age(v)
      PROVE  MarksOne
  <2>1. CASE MarkTalkerCommitted(v)
    BY <2>1 DEF MarkTalkerCommitted, Record, MarksOne, Marked
  <2>2. CASE CommitTurn(v) \/ EnqueueTurn(v) \/ TalkerCrash(v) \/ Age(v)
    BY <2>2 DEF CommitTurn, EnqueueTurn, TalkerCrash, Age, MarksOne
  <2> QED
    BY <1>1, <2>1, <2>2 DEF TalkerStep
<1>2. ASSUME NEW w \in Workers, Claim(w) \/ WorkerStep(w) \/ Throw(w) \/ Crash(w)
      PROVE  MarksOne
  <2>1. CASE Skip(w)
    <3> DEFINE v == TurnOf(work[w].job)
    <3>1. Mark(v, NoopStatus(ledger[v]))
      BY <2>1 DEF Skip
    <3> QED
      BY <3>1, WorkerMark DEF Marked
  <2>2. CASE Think(w)
    <3> DEFINE v == work[w].top
    <3>1. Mark(v, ProjectingStatus(ledger[v]))
      BY <2>2 DEF Think
    <3> QED
      BY <3>1, WorkerMark DEF Marked
  <2>3. CASE MarkApplied(w)
    <3> DEFINE v == work[w].top
    <3>1. Mark(v, AppliedStatus(ledger[v]))
      BY <2>3 DEF MarkApplied
    <3> QED
      BY <3>1, WorkerMark DEF Marked
  <2>4. CASE MarkMember(w)
    <3>1. PICK v \in work[w].members : Mark(v, NoopStatus(ledger[v]))
      BY <2>4 DEF MarkMember
    <3> QED
      BY <3>1, WorkerMark DEF Marked
  <2>5. CASE MarkFailed(w)
    <3> DEFINE v == TurnOf(work[w].job)
    <3>1. Mark(v, FailedStatus(ledger[v], "failed_retryable"))
      BY <2>5 DEF MarkFailed
    <3> QED
      BY <3>1, WorkerMark DEF Marked
  <2>6. CASE MarkTopFailed(w)
    <3> DEFINE v == work[w].top
    <3>1. Mark(v, FailedStatus(ledger[v], "failed_retryable"))
      BY <2>6 DEF MarkTopFailed
    <3> QED
      BY <3>1, WorkerMark DEF Marked
  <2>7. CASE Claim(w) \/ Check(w) \/ List(w) \/ Split(w) \/ Project(w) \/ Throw(w)
    BY <2>7 DEF Claim, Check, List, Split, Project, Throw, MarksOne
  <2>8. CASE Complete(w) \/ Fail(w) \/ Crash(w)
    BY <2>8 DEF Complete, Fail, Crash, MarksOne
  <2> QED
    BY <1>2, <2>1, <2>2, <2>3, <2>4, <2>5, <2>6, <2>7, <2>8 DEF WorkerStep
<1>3. ASSUME NEW j \in JobIds, BackoffElapses(j) \/ Reclaim(j)
      PROVE  MarksOne
  BY <1>3 DEF BackoffElapses, Reclaim, MarksOne
<1>4. CASE SweepStep
  <2>1. CASE SweepAct
    BY <2>1 DEF SweepAct, Record, MarksOne, Marked
  <2> QED
    BY <1>4, <2>1 DEF SweepStep, SweepStart, SweepLook, MarksOne
<1> QED
  BY <1>1, <1>2, <1>3, <1>4 DEF Next

\* A step that marks one settlement keeps the ledger typed and what is done done.
LEMMA MarksOneKeeps ==
  ASSUME LedgerTyped, MarksOne
  PROVE  /\ LedgerTyped'
         /\ \A v \in Turns : ledger[v] \in DoneStatuses => ledger'[v] \in DoneStatuses
<1>1. CASE ledger' = ledger
  BY <1>1 DEF LedgerTyped
<1>2. ASSUME NEW u, NEW s \in Marked(ledger[u]), ledger' = [ledger EXCEPT ![u] = s]
      PROVE  /\ LedgerTyped'
             /\ \A v \in Turns : ledger[v] \in DoneStatuses => ledger'[v] \in DoneStatuses
  <2>1. u \in Turns => s \in Statuses /\ (ledger[u] \in DoneStatuses => s \in DoneStatuses)
    BY <1>2, MarkKeeps DEF LedgerTyped
  <2> QED
    BY <1>2, <2>1 DEF LedgerTyped
<1> QED
  BY <1>1, <1>2 DEF MarksOne

\* The ledger holds a status for every turn, in every reachable state.
THEOREM LedgerTypeCorrect == Spec => []LedgerTyped
<1>1. Init => LedgerTyped
  BY DEF Init, LedgerTyped, Statuses
<1>2. LedgerTyped /\ [Next]_vars => LedgerTyped'
  <2> SUFFICES ASSUME LedgerTyped, [Next]_vars PROVE LedgerTyped'
    OBVIOUS
  <2>1. CASE Next
    BY <2>1, StepMarksOne, MarksOneKeeps
  <2>2. CASE UNCHANGED vars
    BY <2>2 DEF vars, LedgerTyped
  <2> QED
    BY <2>1, <2>2
<1> QED
  BY <1>1, <1>2, PTL DEF Spec

\* A settlement that is done stays done, whichever marks of the Talker, of the
\* ticks (some of lost claims) and of the sweeper come later, in any order.
THEOREM DoneStaysDoneCorrect == Spec => DoneStaysDone
<1>1. LedgerTyped /\ [Next]_vars =>
        [\A v \in Turns : ledger[v] \in DoneStatuses => ledger'[v] \in DoneStatuses]_vars
  BY StepMarksOne, MarksOneKeeps
<1> QED
  BY <1>1, LedgerTypeCorrect, PTL DEF Spec, DoneStaysDone

-----------------------------------------------------------------------------
(* The entries of a batch. *)

\* A set of numbers has a least one, and one that is bounded a greatest.
LEMMA Least ==
  ASSUME NEW S \in SUBSET Nat, S # {}
  PROVE  \E m \in S : \A k \in S : m <= k
<1>1. PICK m \in S : \A k \in S : ~ <<k, m>> \in OpToRel(<, Nat)
  BY NatLessThanWellFounded, WFMin
<1>2. \A k \in S : ~ k < m
  BY <1>1 DEF OpToRel
<1>. QED  BY <1>2

LEMMA Greatest ==
  ASSUME NEW n \in Nat, NEW S \in SUBSET (1 .. n), S # {}
  PROVE  \E m \in S : \A k \in S : k <= m
<1> DEFINE T == {n - k : k \in S}
<1>1. T \in SUBSET Nat
  BY \A k \in 1 .. n : n - k \in Nat
<1>2. T # {}
  OBVIOUS
<1>3. PICK m \in T : \A k \in T : m <= k
  BY <1>1, <1>2, Least
<1>4. PICK x \in S : m = n - x
  OBVIOUS
<1>5. \A k \in S : n - x <= n - k
  BY <1>3, <1>4
<1>. QED  BY <1>4, <1>5

LEMMA JobIdsFacts ==
  /\ IsFiniteSet(JobIds)
  /\ \A j \in JobIds : j[1] \in {"main", "split"} /\ TurnOf(j) \in Turns /\ j = <<j[1], TurnOf(j)>>
  /\ \A v \in Turns : <<"main", v>> \in JobIds /\ <<"split", v>> \in JobIds
<1>1. IsFiniteSet(Turns)
  BY PipelineAssumption, FS_Interval DEF Turns
<1>2. IsFiniteSet({"main", "split"})
  <2>1. IsFiniteSet({"main"} \cup {"split"})
    BY FS_Singleton, FS_AddElement
  <2>2. {"main"} \cup {"split"} = {"main", "split"}
    OBVIOUS
  <2>. QED  BY <2>1, <2>2
<1>. QED  BY <1>1, <1>2, FS_Product DEF JobIds, TurnOf

\* The entries are in a total order.
LEMMA BeforeIsTotal ==
  ASSUME NEW i \in JobIds, NEW j \in JobIds, NEW k \in JobIds
  PROVE  /\ ~Before(i, i)
         /\ i # j => Before(i, j) \/ Before(j, i)
         /\ Before(i, j) /\ Before(j, k) => Before(i, k)
BY JobIdsFacts DEF Before, Turns

\* A batch of n entries has one in each of the positions 1 to n.
LEMMA Positions ==
  ASSUME NEW E \in SUBSET JobIds
  PROVE  /\ Cardinality(E) \in Nat
         /\ \A j \in E : Position(E, j) \in 1 .. Cardinality(E)
         /\ \A k \in 1 .. Cardinality(E) : \E j \in E : Position(E, j) = k
<1> DEFINE n == Cardinality(E)
           Ahead(j) == {i \in E : Before(i, j)}
<1>1. IsFiniteSet(E) /\ n \in Nat
  BY JobIdsFacts, FS_Subset, FS_CardinalityType
<1>2. ASSUME NEW j \in E
      PROVE  /\ IsFiniteSet(Ahead(j)) /\ Cardinality(Ahead(j)) \in Nat
             /\ Cardinality(Ahead(j)) < n
  <2>1. j \notin Ahead(j)
    BY BeforeIsTotal
  <2>2. IsFiniteSet(Ahead(j)) /\ Cardinality(Ahead(j)) <= n /\ (n = Cardinality(Ahead(j)) => E = Ahead(j))
    BY <1>1, FS_Subset
  <2>3. Cardinality(Ahead(j)) \in Nat
    BY <2>2, FS_CardinalityType
  <2>. QED  BY <1>1, <2>1, <2>2, <2>3
<1>3. ASSUME NEW j \in E PROVE Position(E, j) \in 1 .. n
  <2>1. Position(E, j) = 1 + Cardinality(Ahead(j))
    BY DEF Position
  <2>. QED  BY <1>1, <1>2, <2>1
<1>4. ASSUME NEW i \in E, NEW j \in E, Before(i, j)
      PROVE  Position(E, i) # Position(E, j)
  <2>1. Ahead(i) \subseteq Ahead(j) /\ i \in Ahead(j) /\ i \notin Ahead(i)
    BY <1>4, BeforeIsTotal
  <2>2. Cardinality(Ahead(i)) # Cardinality(Ahead(j))
    BY <1>2, <2>1, FS_Subset
  <2>3. Position(E, i) = 1 + Cardinality(Ahead(i)) /\ Position(E, j) = 1 + Cardinality(Ahead(j))
    BY DEF Position
  <2>. QED  BY <1>2, <2>2, <2>3
<1> DEFINE f == [j \in E |-> Position(E, j)]
<1>5. f \in [E -> 1 .. n]
  BY <1>3
<1>6. f \in Injection(E, 1 .. n)
  <2>1. \A i, j \in E : f[i] = f[j] => i = j
    BY <1>4, BeforeIsTotal
  <2>. QED  BY <1>5, <2>1 DEF Injection, IsInjective
<1>7. IsFiniteSet(1 .. n) /\ Cardinality(1 .. n) = n
  BY <1>1, FS_Interval
<1>8. f \in Surjection(E, 1 .. n)
  BY <1>6, <1>7, FS_Injection
<1>9. \A k \in 1 .. n : \E j \in E : Position(E, j) = k
  BY <1>8 DEF Surjection
<1>. QED  BY <1>1, <1>3, <1>9

\* TurnAt finds the turn of a position that is taken.
LEMMA TurnAtFacts ==
  ASSUME NEW E \in SUBSET JobIds, NEW k \in 1 .. Cardinality(E)
  PROVE  TurnAt(E, k) \in Turns
<1>1. PICK j \in E : Position(E, j) = k
  BY Positions
<1>2. j \in Between(E, k, k)
  BY <1>1, Positions DEF Between
<1>3. TurnOf(j) \in Turns /\ TurnOf(j) \in TurnsOf(Between(E, k, k))
  BY <1>2, JobIdsFacts DEF TurnsOf
<1>. QED  BY <1>3 DEF TurnAt

\* The worker's own part of n sketches ends within them.
LEMMA OwnEndFacts ==
  ASSUME NEW n \in Nat \ {0}
  PROVE  OwnEnd(n) \in 1 .. n
<1>1. Oldest(n) \in 1 .. n
  BY PipelineAssumption DEF Oldest
<1>. QED  BY <1>1, PipelineAssumption DEF OwnEnd

\* No sub-batch is empty.
LEMMA SubBatchFacts ==
  ASSUME NEW E \in SUBSET JobIds, NEW n \in 1 .. Cardinality(E)
  PROVE  SubBatches(E, n) \subseteq (SUBSET Turns) \ {{}}
<1>1. Cardinality(E) \in Nat /\ n \in Nat \ {0}
  BY Positions
<1> SUFFICES ASSUME NEW k \in OwnEnd(n) + 1 .. n, NEW hi \in k .. n
             PROVE  TurnsOf(Between(E, k, hi)) \in (SUBSET Turns) \ {{}}
  <2>1. OwnEnd(n) \in 1 .. n
    BY <1>1, OwnEndFacts
  <2>2. \A k \in OwnEnd(n) + 1 .. n :
          (IF k + SplitThreshold - 1 < n THEN k + SplitThreshold - 1 ELSE n) \in k .. n
    BY <1>1, <2>1, PipelineAssumption
  <2>. QED  BY <2>2 DEF SubBatches
<1>2. OwnEnd(n) \in 1 .. n
  BY <1>1, OwnEndFacts
<1>3. k \in 1 .. Cardinality(E)
  BY <1>1, <1>2
<1>4. PICK j \in E : Position(E, j) = k
  BY <1>3, Positions
<1>5. j \in Between(E, k, hi)
  BY <1>3, <1>4, Positions DEF Between
<1>6. Between(E, k, hi) \subseteq JobIds
  BY DEF Between
<1>. QED  BY <1>5, <1>6, JobIdsFacts DEF TurnsOf

\* The highest turn of the worker's own part is a turn, its members are below.
LEMMA BatchFacts ==
  ASSUME NEW E \in SUBSET JobIds, NEW n \in 1 .. Cardinality(E)
  PROVE  /\ Effective(E, n) \in Turns
         /\ Members(E, n) \subseteq Turns
         /\ \A v \in Members(E, n) : v < Effective(E, n)
<1>1. Cardinality(E) \in Nat /\ n \in Nat \ {0}
  BY Positions
<1>2. OwnEnd(n) \in 1 .. Cardinality(E)
  BY <1>1, OwnEndFacts
<1>3. Effective(E, n) \in Turns
  BY <1>2, TurnAtFacts DEF Effective
<1>. QED  BY <1>3, JobIdsFacts DEF Members, TurnsOf

\* A sub-batch is keyed to one of its turns.
LEMMA SplitKeyFacts ==
  ASSUME NEW S \in (SUBSET Turns) \ {{}}
  PROVE  SplitKey(S) \in S
<1>1. \E m \in S : \A k \in S : k <= m
  BY PipelineAssumption, Greatest DEF Turns
<1>. QED  BY <1>1 DEF SplitKey

-----------------------------------------------------------------------------
(* The job rows and the order in which they are due. *)

JobsOK ==
  /\ jobs \in [JobIds -> Row]
  /\ \A j \in JobIds : jobs[j].status = "running" <=> jobs[j].holder # NoWorker

ReadyOK ==
  /\ ready \in Seq(JobIds)
  /\ \A i, k \in DOMAIN ready : ready[i] = ready[k] => i = k
  /\ \A j \in Due : jobs[j].status = "pending"

QueueOK == JobsOK /\ ReadyOK

LEMMA DueFacts ==
  ASSUME ReadyOK
  PROVE  /\ Len(ready) \in Nat /\ DOMAIN ready = 1 .. Len(ready)
         /\ \A i \in DOMAIN ready : ready[i] \in JobIds
         /\ Due \subseteq JobIds
         /\ Due = {ready[i] : i \in 1 .. Len(ready)}
BY LenProperties DEF ReadyOK, Due

\* The row of one job changes, and the rows that are due stay.
LEMMA RowChanges ==
  ASSUME QueueOK, NEW j \in JobIds, NEW row \in Row, j \notin Due,
         row.status = "running" <=> row.holder # NoWorker,
         jobs' = [jobs EXCEPT ![j] = row], ready' = ready
  PROVE  QueueOK'
<1>1. JobsOK'
  BY DEF QueueOK, JobsOK
<1>2. ReadyOK'
  BY DEF QueueOK, JobsOK, ReadyOK, Due
<1>. QED  BY <1>1, <1>2 DEF QueueOK

LEMMA MakeDueKeeps ==
  ASSUME QueueOK, NEW j \in JobIds, NEW row \in Row, j \notin Due,
         row.status = "pending", row.holder = NoWorker, MakeDue(j, row)
  PROVE  QueueOK'
<1>1. /\ jobs' = [jobs EXCEPT ![j] = row]
      /\ ready' = Append(ready, j)
  BY DEF MakeDue
<1>2. JobsOK'
  BY <1>1 DEF QueueOK, JobsOK
<1>3. /\ ready' \in Seq(JobIds)
      /\ Len(ready') = Len(ready) + 1
      /\ \A i \in 1 .. Len(ready) : ready'[i] = ready[i]
      /\ ready'[Len(ready) + 1] = j
  BY <1>1, AppendProperties DEF QueueOK, ReadyOK
<1>4. /\ Len(ready) \in Nat /\ DOMAIN ready = 1 .. Len(ready)
      /\ DOMAIN ready' = 1 .. Len(ready) + 1
  BY <1>3, DueFacts, LenProperties DEF QueueOK
<1>5. \A i \in DOMAIN ready : ready[i] # j
  BY DEF Due
<1>6. \A i, k \in DOMAIN ready' : ready'[i] = ready'[k] => i = k
  BY <1>3, <1>4, <1>5 DEF QueueOK, ReadyOK
<1>7. \A i \in Due' : i = j \/ (i \in Due /\ i # j)
  BY <1>3, <1>4, <1>5 DEF Due
<1>8. \A i \in Due' : jobs'[i].status = "pending"
  BY <1>1, <1>7, DueFacts DEF QueueOK, JobsOK, ReadyOK
<1>. QED  BY <1>2, <1>3, <1>6, <1>8 DEF QueueOK, ReadyOK

LEMMA EnqueueKeeps ==
  ASSUME QueueOK, NEW j \in JobIds, Enqueue(j)
  PROVE  QueueOK'
<1>1. CASE jobs[j].status = "none"
  <2>1. PICK row : row = [NoRow EXCEPT !.status = "pending"]
    OBVIOUS
  <2>2. row \in Row /\ row.status = "pending" /\ row.holder = NoWorker
    BY <2>1 DEF NoRow, Row
  <2>3. j \notin Due
    BY <1>1 DEF QueueOK, ReadyOK
  <2>4. MakeDue(j, row)
    BY <1>1, <2>1 DEF Enqueue
  <2>. QED  BY <2>2, <2>3, <2>4, MakeDueKeeps
<1>2. CASE UNCHANGED queue
  BY <1>2 DEF queue, QueueOK, JobsOK, ReadyOK, Due
<1>. QED  BY <1>1, <1>2 DEF Enqueue

LEMMA EndedKeeps ==
  ASSUME QueueOK, NEW j \in JobIds, jobs[j].holder # NoWorker,
         NEW status \in {"pending", "succeeded", "failed_terminal"},
         jobs' = Ended(j, status), ready' = ready
  PROVE  QueueOK'
<1>1. jobs[j] \in Row /\ jobs[j].status = "running"
  BY DEF QueueOK, JobsOK
<1>2. PICK row : row = [status |-> status, attempts |-> jobs[j].attempts, holder |-> NoWorker]
  OBVIOUS
<1>3. row \in Row /\ row.status # "running" /\ row.holder = NoWorker
  BY <1>1, <1>2 DEF Row
<1>4. jobs' = [jobs EXCEPT ![j] = row]
  BY <1>1, <1>2 DEF Ended, QueueOK, JobsOK, Row
<1>5. j \notin Due
  BY <1>1 DEF QueueOK, ReadyOK
<1>. QED  BY <1>3, <1>4, <1>5, RowChanges

\* The claim takes one row out of those that are due.
LEMMA ClaimKeeps ==
  ASSUME QueueOK, NEW w \in Workers, Claim(w)
  PROVE  QueueOK'
<1>1. PICK i \in DOMAIN ready :
        /\ jobs' = [jobs EXCEPT ![ready[i]] = [status |-> "running", holder |-> w,
                                               attempts |-> @.attempts + 1]]
        /\ ready' = RemoveAt(ready, i)
  BY DEF Claim
<1>2. PICK j : j = ready[i]
  OBVIOUS
<1>3. /\ Len(ready) \in Nat /\ DOMAIN ready = 1 .. Len(ready) /\ j \in JobIds
      /\ \A k \in 1 .. Len(ready) : ready[k] \in JobIds
  BY <1>2, DueFacts DEF QueueOK
<1> DEFINE before == SubSeq(ready, 1, i - 1)
           after  == SubSeq(ready, i + 1, Len(ready))
<1>4. /\ before \in Seq(JobIds) /\ Len(before) = i - 1
      /\ \A k \in 1 .. i - 1 : before[k] = ready[k]
  BY <1>3, SubSeqProperties
<1>5. /\ after \in Seq(JobIds) /\ Len(after) = Len(ready) - i
      /\ \A k \in 1 .. Len(ready) - i : after[k] = ready[k + i]
  BY <1>3, SubSeqProperties
<1>6. /\ ready' \in Seq(JobIds)
      /\ Len(ready') = Len(ready) - 1
      /\ \A k \in 1 .. Len(ready) - 1 : ready'[k] = IF k < i THEN ready[k] ELSE ready[k + 1]
  <2>1. ready' = before \o after
    BY <1>1, <1>4, <1>5 DEF RemoveAt
  <2> HIDE DEF before, after
  <2>2. /\ ready' \in Seq(JobIds)
        /\ Len(ready') = Len(before) + Len(after)
        /\ \A k \in 1 .. Len(before) + Len(after) :
             ready'[k] = IF k <= Len(before) THEN before[k] ELSE after[k - Len(before)]
    BY <1>4, <1>5, <2>1, ConcatProperties
  <2>3. Len(before) + Len(after) = Len(ready) - 1
    BY <1>3, <1>4, <1>5
  <2>4. ASSUME NEW k \in 1 .. Len(ready) - 1
        PROVE  ready'[k] = IF k < i THEN ready[k] ELSE ready[k + 1]
    <3>1. CASE k < i
      <4>1. k \in 1 .. i - 1 /\ k <= i - 1
        BY <3>1, <1>3
      <4>. QED  BY <3>1, <4>1, <1>4, <2>2, <2>3
    <3>2. CASE ~ k < i
      <4>1. k - (i - 1) \in 1 .. Len(ready) - i /\ (k - (i - 1)) + i = k + 1 /\ ~ k <= i - 1
        BY <3>2, <1>3
      <4>2. ready'[k] = after[k - (i - 1)]
        BY <4>1, <1>4, <2>2, <2>3
      <4>. QED  BY <3>2, <4>1, <4>2, <1>5
    <3>. QED  BY <3>1, <3>2
  <2>. QED  BY <2>2, <2>3, <2>4
<1>7. DOMAIN ready' = 1 .. Len(ready) - 1
  BY <1>6, LenProperties
<1>8. \A h, k \in DOMAIN ready' : ready'[h] = ready'[k] => h = k
  <2>1. \A h, k \in DOMAIN ready : ready[h] = ready[k] => h = k
    BY DEF QueueOK, ReadyOK
  <2>2. \A k \in DOMAIN ready' : k \in DOMAIN ready /\ k + 1 \in DOMAIN ready
    BY <1>3, <1>7
  <2>. QED  BY <1>3, <1>6, <1>7, <2>1, <2>2
<1>9. \A h \in Due' : h \in Due /\ h # j
  <2>1. \A k \in DOMAIN ready' : \E h \in DOMAIN ready : ready'[k] = ready[h] /\ h # i
    <3> TAKE k \in DOMAIN ready'
    <3>1. CASE k < i
      <4>1. k \in DOMAIN ready /\ k # i
        BY <3>1, <1>3, <1>7
      <4>. QED  BY <3>1, <4>1, <1>6, <1>7
    <3>2. CASE ~ k < i
      <4>1. k + 1 \in DOMAIN ready /\ k + 1 # i
        BY <3>2, <1>3, <1>7
      <4>. QED  BY <3>2, <4>1, <1>6, <1>7
    <3>. QED  BY <3>1, <3>2
  <2>. QED  BY <1>2, <2>1 DEF Due, QueueOK, ReadyOK
<1>10. PICK row : row = [status |-> "running", holder |-> w, attempts |-> jobs[j].attempts + 1]
  OBVIOUS
<1>11. row \in Row /\ row.status = "running" /\ row.holder # NoWorker
  <2>1. jobs[j].attempts \in Nat
    BY <1>3 DEF QueueOK, JobsOK, Row
  <2>. QED  BY <1>10, <2>1, PipelineAssumption DEF Row
<1>12. jobs' = [jobs EXCEPT ![j] = row]
  BY <1>1, <1>2, <1>10
<1>13. JobsOK'
  BY <1>3, <1>11, <1>12 DEF QueueOK, JobsOK
<1>14. \A h \in Due' : jobs'[h].status = "pending"
  BY <1>3, <1>9, <1>12, DueFacts DEF QueueOK, JobsOK, ReadyOK
<1>. QED  BY <1>6, <1>8, <1>13, <1>14 DEF QueueOK, ReadyOK

-----------------------------------------------------------------------------
(* The runs of the worker. *)

\* The run r is consistent with the slot s and the projections p.  A run has a
\* job; a batch's members are not above its highest turn; a run that skips its
\* turn, or marks what it has projected, does so with right.
RunOK(r, s, p) ==
  /\ r \in Work
  /\ r.phase # "idle" => r.job \in JobIds
  /\ {} \notin r.subs
  /\ r.phase \in {"checking", "listing"} => ~r.batch /\ r.members = {}
  /\ r.phase \in {"splitting", "thinking", "projecting"} =>
       /\ r.top \in Turns
       /\ r.members # {} => r.batch
       /\ \A v \in r.members : v <= r.top
  /\ r.phase = "skipping" => TurnOf(r.job) <= s.version
  /\ r.phase = "applying" =>
       /\ \A v \in r.members : v <= s.version
       /\ r.top # 0 => r.top \in Turns /\ p[r.top] > 0

RunsOK ==
  /\ work \in [Workers -> Work]
  /\ \A w \in Workers : RunOK(work[w], slot, projected)

CountsOK == slot \in Slot /\ projected \in [Turns -> Nat]

\* The version and the projections of a turn only grow.
Grows ==
  /\ CountsOK'
  /\ slot.version <= slot'.version
  /\ \A v \in Turns : projected[v] <= projected'[v]

LEMMA SameGrows ==
  ASSUME CountsOK, UNCHANGED <<slot, projected>>
  PROVE  Grows
BY DEF CountsOK, Grows, Slot

\* What a run may rely on is not taken away.
LEMMA RunKept ==
  ASSUME CountsOK, Grows, NEW r, RunOK(r, slot, projected)
  PROVE  RunOK(r, slot', projected')
<1>1. r \in Work /\ r.members \subseteq Turns /\ (r.phase # "idle" => TurnOf(r.job) \in Turns)
  BY JobIdsFacts DEF RunOK, Work
<1>2. \A v \in Turns : v <= slot.version => v <= slot'.version
  BY DEF CountsOK, Grows, Slot, Turns
<1>3. \A v \in Turns : projected[v] > 0 => projected'[v] > 0
  BY DEF CountsOK, Grows
<1>4. r.phase = "skipping" => TurnOf(r.job) <= slot'.version
  BY <1>1, <1>2 DEF RunOK
<1>5. r.phase = "applying" =>
        /\ \A v \in r.members : v <= slot'.version
        /\ r.top # 0 => r.top \in Turns /\ projected'[r.top] > 0
  BY <1>1, <1>2, <1>3 DEF RunOK
<1>. QED  BY <1>4, <1>5 DEF RunOK

\* One run takes a step, the others wait.
LEMMA RunSteps ==
  ASSUME CountsOK, RunsOK, Grows, NEW w \in Workers, NEW r,
         RunOK(r, slot', projected'), work' = [work EXCEPT ![w] = r]
  PROVE  RunsOK'
<1>1. r \in Work
  BY DEF RunOK
<1>2. work' \in [Workers -> Work] /\ work'[w] = r
  BY <1>1 DEF RunsOK
<1>3. ASSUME NEW u \in Workers PROVE RunOK(work'[u], slot', projected')
  <2>1. CASE u = w
    BY <1>2, <2>1
  <2>2. CASE u # w
    <3>1. work'[u] = work[u]
      BY <2>2 DEF RunsOK
    <3>. QED  BY <3>1, RunKept DEF RunsOK
  <2>. QED  BY <2>1, <2>2
<1>. QED  BY <1>2, <1>3 DEF RunsOK

LEMMA RunsWait ==
  ASSUME CountsOK, RunsOK, Grows, work' = work
  PROVE  RunsOK'
BY RunKept DEF RunsOK

\* A run goes to another phase that asks for no more than the one it is in.
LEMMA GotoKeeps ==
  ASSUME CountsOK, RunsOK, Grows, NEW w \in Workers, NEW phase \in Phases,
         work[w].phase # "idle", Goto(w, phase),
         phase = "listing" => work[w].phase = "checking",
         phase = "projecting" => work[w].phase = "thinking",
         phase = "skipping" => TurnOf(work[w].job) <= slot'.version,
         phase \notin {"checking", "splitting", "thinking", "applying"}
  PROVE  RunsOK'
<1>1. PICK r : r = work[w]
  OBVIOUS
<1>2. RunOK(r, slot', projected')
  BY <1>1, RunKept DEF RunsOK
<1>3. PICK q : q = [r EXCEPT !.phase = phase]
  OBVIOUS
<1>4. /\ q \in Work /\ q.phase = phase /\ q.job = r.job /\ q.batch = r.batch
      /\ q.top = r.top /\ q.members = r.members /\ q.subs = r.subs
  BY <1>2, <1>3 DEF RunOK, Work
<1>5. RunOK(q, slot', projected')
  BY <1>1, <1>2, <1>4 DEF RunOK
<1>6. work' = [work EXCEPT ![w] = q]
  BY <1>1, <1>3 DEF Goto
<1>. QED  BY <1>5, <1>6, RunSteps

LEMMA IdleOK == \A s, p : RunOK(Idle, s, p)
<1>1. PICK job, jobIds : job = <<>> /\ jobIds = JobIds \cup {<<>>}
  OBVIOUS
<1>2. job \in jobIds
  BY <1>1, Zenon
<1>3. Idle = [phase |-> "idle", job |-> job, batch |-> FALSE, chain |-> {},
              top |-> 0, members |-> {}, subs |-> {}]
  BY <1>1, Zenon DEF Idle
<1>4. Work = [phase : Phases, job : jobIds, batch : BOOLEAN, chain : SUBSET Turns,
              top : Nat, members : SUBSET Turns, subs : SUBSET SUBSET Turns]
  BY <1>1, Zenon DEF Work
<1>5. Idle \in Work
  BY <1>2, <1>3, <1>4 DEF Phases
<1>. QED  BY <1>3, <1>5 DEF RunOK

LEMMA GivenOK ==
  ASSUME NEW j \in JobIds
  PROVE  \A s, p : RunOK(Given(j), s, p)
<1>1. PICK idle : idle = Idle
  OBVIOUS
<1>2. idle \in Work
  BY <1>1, IdleOK DEF RunOK
<1>3. ~idle.batch /\ idle.members = {} /\ idle.subs = {}
  BY <1>1, Zenon DEF Idle
<1>4. PICK r : r = [idle EXCEPT !.phase = "checking", !.job = j]
  OBVIOUS
<1>5. /\ r \in Work /\ r.phase = "checking" /\ r.job = j
      /\ ~r.batch /\ r.members = {} /\ r.subs = {}
  BY <1>2, <1>3, <1>4 DEF Work, Phases
<1>6. Given(j) = r
  BY <1>1, <1>4 DEF Given
<1>. QED  BY <1>5, <1>6 DEF RunOK

-----------------------------------------------------------------------------
(* The steps of a run. *)

\* The batch that is listed is one the worker may work on.
LEMMA ChosenOK ==
  ASSUME NEW r, NEW s, NEW p, NEW E \in SUBSET JobIds, NEW n \in 0 .. Cardinality(E),
         RunOK(r, s, p), r.phase = "listing"
  PROVE  RunOK(IF n <= 1 THEN Single(r) ELSE Batch(r, E, n), s, p)
<1>1. r \in Work /\ r.job \in JobIds /\ ~r.batch /\ r.members = {} /\ {} \notin r.subs
  BY DEF RunOK
<1>2. CASE n <= 1
  <2>1. PICK v : v = TurnOf(r.job)
    OBVIOUS
  <2>2. v \in Turns
    BY <1>1, <2>1, JobIdsFacts
  <2>3. PICK q : q = [r EXCEPT !.phase = "thinking", !.chain = {v}, !.top = v]
    OBVIOUS
  <2>4. q = Single(r)
    BY <2>1, <2>3 DEF Single
  <2>5. v \in Nat
    BY <2>2 DEF Turns
  <2>6. /\ q \in Work /\ q.phase = "thinking" /\ q.job = r.job /\ q.top = v
        /\ q.members = {} /\ q.subs = r.subs
    BY <1>1, <2>2, <2>3, <2>5 DEF Work, Phases
  <2>7. RunOK(q, s, p)
    BY <1>1, <2>2, <2>6 DEF RunOK
  <2>. QED  BY <1>2, <2>4, <2>7
<1>3. CASE ~ n <= 1
  <2>1. n \in 1 .. Cardinality(E)
    BY <1>3, Positions
  <2>2. PICK phase : phase = IF SubBatches(E, n) = {} THEN "thinking" ELSE "splitting"
    OBVIOUS
  <2>3. PICK chain : chain = TurnsOf(Between(E, Oldest(n), OwnEnd(n)))
    OBVIOUS
  <2>4. PICK top, members : top = Effective(E, n) /\ members = Members(E, n)
    OBVIOUS
  <2>5. PICK subs : subs = SubBatches(E, n)
    OBVIOUS
  <2>6. phase \in {"thinking", "splitting"}
    BY <2>2
  <2>7. chain \subseteq Turns
    BY <2>3, JobIdsFacts DEF TurnsOf, Between
  <2>8. top \in Turns /\ members \subseteq Turns /\ \A v \in members : v <= top
    BY <2>1, <2>4, BatchFacts DEF Turns
  <2>9. subs \subseteq (SUBSET Turns) \ {{}}
    BY <2>1, <2>5, SubBatchFacts
  <2>10. PICK q : q = [r EXCEPT !.phase = phase, !.batch = TRUE, !.chain = chain,
                                !.top = top, !.members = members, !.subs = subs]
    OBVIOUS
  <2>11. q = Batch(r, E, n)
    BY <2>2, <2>3, <2>4, <2>5, <2>10, Zenon DEF Batch
  <2>12. top \in Nat
    BY <2>8 DEF Turns
  <2>13. /\ q \in Work /\ q.phase = phase /\ q.job = r.job /\ q.batch = TRUE
         /\ q.top = top /\ q.members = members /\ q.subs = subs
    BY <1>1, <2>6, <2>7, <2>8, <2>9, <2>10, <2>12 DEF Work, Phases
  <2>14. RunOK(q, s, p)
    BY <1>1, <2>6, <2>8, <2>9, <2>13 DEF RunOK
  <2>. QED  BY <1>3, <2>11, <2>14
<1>. QED  BY <1>2, <1>3

LEMMA ListKeeps ==
  ASSUME CountsOK, RunsOK, ReadyOK, NEW w \in Workers, List(w)
  PROVE  RunsOK'
<1>1. Grows
  BY SameGrows DEF List, history
<1>2. PICK r : r = work[w]
  OBVIOUS
<1>3. RunOK(r, slot', projected') /\ r.phase = "listing"
  BY <1>1, <1>2, RunKept DEF RunsOK, List
<1>4. PICK E : E = {r.job} \cup OtherPending(TurnOf(r.job))
  OBVIOUS
<1>5. E \in SUBSET JobIds
  BY <1>3, <1>4, DueFacts DEF RunOK, OtherPending
<1>6. Cardinality(E) \in Nat
  BY <1>5, Positions
<1>7. PICK n \in 0 .. Cardinality(E) :
        work' = [work EXCEPT ![w] = IF n <= 1 THEN Single(r) ELSE Batch(r, E, n)]
  BY <1>2, <1>4, <1>6 DEF List
<1>8. PICK q : q = IF n <= 1 THEN Single(r) ELSE Batch(r, E, n)
  OBVIOUS
<1>9. RunOK(q, slot', projected')
  BY <1>3, <1>5, <1>8, ChosenOK
<1>10. work' = [work EXCEPT ![w] = q]
  BY <1>7, <1>8
<1>. QED  BY <1>1, <1>9, <1>10, RunSteps

LEMMA SplitKeeps ==
  ASSUME CountsOK, RunsOK, NEW w \in Workers, Split(w)
  PROVE  RunsOK'
<1>1. Grows
  BY SameGrows DEF Split
<1>2. PICK r : r = work[w]
  OBVIOUS
<1>3. RunOK(r, slot', projected') /\ r.phase = "splitting"
  BY <1>1, <1>2, RunKept DEF RunsOK, Split
<1>4. PICK S \in r.subs :
        work' = [work EXCEPT ![w].subs = @ \ {S},
                             ![w].phase = IF r.subs = {S} THEN "thinking" ELSE @]
  BY <1>2 DEF Split
<1>5. PICK phase, subs : /\ phase = IF r.subs = {S} THEN "thinking" ELSE r.phase
                         /\ subs = r.subs \ {S}
  OBVIOUS
<1>6. PICK q : q = [r EXCEPT !.subs = subs, !.phase = phase]
  OBVIOUS
<1>7. phase \in {"thinking", "splitting"} /\ subs \subseteq r.subs
  BY <1>3, <1>5
<1>8. /\ q \in Work /\ q.phase = phase /\ q.job = r.job /\ q.batch = r.batch
      /\ q.top = r.top /\ q.members = r.members /\ q.subs = subs
  BY <1>3, <1>6, <1>7 DEF RunOK, Work, Phases
<1>9. RunOK(q, slot', projected')
  BY <1>3, <1>7, <1>8 DEF RunOK
<1>10. work' = [work EXCEPT ![w] = q]
  BY <1>2, <1>4, <1>5, <1>6 DEF RunsOK
<1>. QED  BY <1>1, <1>9, <1>10, RunSteps

\* The projection transaction moves the version to the batch's highest turn at
\* least, and counts under it.
LEMMA ProjectGrows ==
  ASSUME CountsOK, RunsOK, NEW w \in Workers, Project(w)
  PROVE  /\ Grows
         /\ work[w].top \in Turns
         /\ projected'[work[w].top] > 0
         /\ work[w].batch => work[w].top <= slot'.version
<1>1. PICK r, top : r = work[w] /\ top = r.top
  OBVIOUS
<1>2. /\ RunOK(r, slot, projected) /\ r.phase = "projecting"
      /\ projected' = [projected EXCEPT ![top] = @ + 1]
  BY <1>1 DEF RunsOK, Project
<1>3. top \in Turns /\ top \in Nat
  BY <1>1, <1>2 DEF RunOK, Turns
<1>4. slot.counter \in Nat /\ slot.version \in Nat
  BY DEF CountsOK, Slot
<1>5. PICK version : version = Advanced(r)
  OBVIOUS
<1>6. version \in Nat /\ slot.version <= version /\ (r.batch => top <= version)
  BY <1>1, <1>3, <1>4, <1>5 DEF Advanced
<1>7. slot' = [slot EXCEPT !.version = version]
  BY <1>1, <1>5 DEF Project
<1>8. slot' \in Slot /\ slot'.version = version
  BY <1>6, <1>7 DEF CountsOK, Slot
<1>9. /\ projected' \in [Turns -> Nat] /\ projected'[top] > 0
      /\ \A v \in Turns : projected[v] <= projected'[v]
  BY <1>2, <1>3 DEF CountsOK
<1>. QED  BY <1>1, <1>3, <1>6, <1>8, <1>9 DEF Grows, CountsOK

LEMMA ProjectKeeps ==
  ASSUME CountsOK, RunsOK, NEW w \in Workers, Project(w)
  PROVE  RunsOK'
<1>1. PICK r : r = work[w]
  OBVIOUS
<1>2. /\ Grows /\ r.top \in Turns /\ projected'[r.top] > 0
      /\ r.batch => r.top <= slot'.version
  BY <1>1, ProjectGrows
<1>3. RunOK(r, slot', projected') /\ r.phase = "projecting"
  BY <1>1, <1>2, RunKept DEF RunsOK, Project
<1>4. PICK q : q = [r EXCEPT !.phase = "applying"]
  OBVIOUS
<1>5. /\ q \in Work /\ q.phase = "applying" /\ q.job = r.job
      /\ q.top = r.top /\ q.members = r.members /\ q.subs = r.subs
  BY <1>3, <1>4 DEF RunOK, Work, Phases
<1>6. \A v \in r.members : v <= slot'.version
  <2>1. slot'.version \in Nat
    BY <1>2 DEF Grows, CountsOK, Slot
  <2>2. r.members \subseteq Turns /\ r.top \in Nat /\ \A v \in r.members : v <= r.top /\ r.batch
    BY <1>2, <1>3 DEF RunOK, Work, Turns
  <2>3. \A v \in r.members : v \in Nat
    BY <2>2 DEF Turns
  <2>. QED  BY <1>2, <2>1, <2>2, <2>3
<1>7. RunOK(q, slot', projected')
  BY <1>2, <1>3, <1>5, <1>6 DEF RunOK
<1>8. work' = [work EXCEPT ![w] = q]
  BY <1>1, <1>4 DEF Project, Goto
<1>. QED  BY <1>2, <1>7, <1>8, RunSteps

\* Marking: the settlement or the member that is marked leaves the run.
LEMMA MarkingKeeps ==
  ASSUME CountsOK, RunsOK, NEW w \in Workers, MarkApplied(w) \/ MarkMember(w)
  PROVE  RunsOK'
<1>1. Grows
  BY SameGrows DEF MarkApplied, MarkMember, history
<1>2. PICK r : r = work[w]
  OBVIOUS
<1>3. RunOK(r, slot', projected') /\ r.phase = "applying"
  BY <1>1, <1>2, RunKept DEF RunsOK, MarkApplied, MarkMember
<1>4. PICK phase \in {"applying", "completing"}, members \in SUBSET r.members :
        work' = [work EXCEPT ![w] = [r EXCEPT !.phase = phase, !.members = members, !.top = 0]]
  <2>1. CASE MarkApplied(w)
    <3>1. PICK phase : phase = IF r.members = {} THEN "completing" ELSE r.phase
      OBVIOUS
    <3>2. work' = [work EXCEPT ![w] = [r EXCEPT !.top = 0, !.phase = phase]]
      BY <1>2, <2>1, <3>1 DEF MarkApplied, RunsOK
    <3>3. [r EXCEPT !.top = 0, !.phase = phase]
            = [r EXCEPT !.phase = phase, !.members = r.members, !.top = 0]
      BY <1>3 DEF RunOK, Work
    <3>. QED  BY <1>3, <3>1, <3>2, <3>3
  <2>2. CASE MarkMember(w)
    <3>1. PICK v \in r.members :
            work' = [work EXCEPT ![w].members = @ \ {v},
                                 ![w].phase = IF r.members = {v} THEN "completing" ELSE @]
      BY <1>2, <2>2 DEF MarkMember
    <3>2. PICK phase, members : /\ phase = IF r.members = {v} THEN "completing" ELSE r.phase
                                /\ members = r.members \ {v}
      OBVIOUS
    <3>3. work' = [work EXCEPT ![w] = [r EXCEPT !.members = members, !.phase = phase]]
      BY <1>2, <3>1, <3>2 DEF RunsOK
    <3>4. r.top = 0
      BY <1>2, <2>2 DEF MarkMember
    <3>5. [r EXCEPT !.members = members, !.phase = phase]
            = [r EXCEPT !.phase = phase, !.members = members, !.top = 0]
      BY <1>3, <3>4 DEF RunOK, Work
    <3>6. phase \in {"applying", "completing"} /\ members \in SUBSET r.members
      BY <1>3, <3>2
    <3>7. work' = [work EXCEPT ![w] = [r EXCEPT !.phase = phase, !.members = members, !.top = 0]]
      BY <3>3, <3>5
    <3>. QED  BY <3>6, <3>7
  <2>. QED  BY <2>1, <2>2
<1>5. PICK q : q = [r EXCEPT !.phase = phase, !.members = members, !.top = 0]
  OBVIOUS
<1>6. /\ q \in Work /\ q.phase = phase /\ q.job = r.job
      /\ q.top = 0 /\ q.members = members /\ q.subs = r.subs
  BY <1>3, <1>5 DEF RunOK, Work, Phases
<1>7. RunOK(q, slot', projected')
  BY <1>3, <1>6 DEF RunOK
<1>8. work' = [work EXCEPT ![w] = q]
  BY <1>4, <1>5
<1>. QED  BY <1>1, <1>7, <1>8, RunSteps

\* The run is over.
LEMMA EndKeeps ==
  ASSUME CountsOK, RunsOK, NEW w \in Workers, Complete(w) \/ Fail(w) \/ Crash(w)
  PROVE  RunsOK'
<1>1. Grows
  BY SameGrows DEF Complete, Fail, Crash, history
<1>2. work' = [work EXCEPT ![w] = Idle]
  BY DEF Complete, Fail, Crash
<1>3. RunOK(Idle, slot', projected')
  BY IdleOK
<1>. QED  BY <1>1, <1>2, <1>3, RunSteps

LEMMA ClaimStarts ==
  ASSUME CountsOK, RunsOK, ReadyOK, NEW w \in Workers, Claim(w)
  PROVE  RunsOK'
<1>1. Grows
  BY SameGrows DEF Claim, history
<1>2. PICK j \in JobIds : work' = [work EXCEPT ![w] = Given(j)]
  BY DueFacts DEF Claim
<1>3. RunOK(Given(j), slot', projected')
  BY <1>2, GivenOK
<1>. QED  BY <1>1, <1>2, <1>3, RunSteps

\* The steps that change a run's phase alone.
LEMMA PhaseKeeps ==
  ASSUME CountsOK, RunsOK, NEW w \in Workers,
         Check(w) \/ Skip(w) \/ Think(w) \/ Throw(w) \/ MarkFailed(w) \/ MarkTopFailed(w)
  PROVE  RunsOK'
<1>1. Grows
  BY SameGrows DEF Check, Skip, Think, Throw, MarkFailed, MarkTopFailed, history
<1>2. CASE Check(w)
  <2>1. PICK phase : phase = IF AlreadyDone(TurnOf(work[w].job)) THEN "skipping" ELSE "listing"
    OBVIOUS
  <2>2. work[w].phase = "checking" /\ Goto(w, phase) /\ slot' = slot
    BY <1>2, <2>1 DEF Check
  <2>3. phase \in {"skipping", "listing"} /\ phase \in Phases
    BY <2>1 DEF Phases
  <2>4. phase = "skipping" => TurnOf(work[w].job) <= slot'.version
    <3>1. TurnOf(work[w].job) \in Nat
      BY <2>2, JobIdsFacts DEF RunsOK, RunOK, Turns
    <3>2. slot.version \in Nat
      BY DEF CountsOK, Slot
    <3>. QED  BY <2>1, <2>2, <3>1, <3>2 DEF AlreadyDone
  <2>. QED  BY <1>1, <2>2, <2>3, <2>4, GotoKeeps
<1>3. CASE ~Check(w)
  <2>1. PICK phase \in {"completing", "projecting", "failing", "failingTop", "reporting"} :
          /\ Goto(w, phase)
          /\ work[w].phase # "idle"
          /\ phase = "projecting" => work[w].phase = "thinking"
    BY <1>3 DEF Skip, Think, Throw, MarkFailed, MarkTopFailed
  <2>2. phase \in Phases
    BY DEF Phases
  <2>. QED  BY <1>1, <2>1, <2>2, GotoKeeps
<1>. QED  BY <1>2, <1>3

\* The steps of the Talker and of the sweeper, and those of the store that are
\* no worker's.
Others ==
  \/ \E v \in Turns : CommitTurn(v) \/ TalkerStep(v) \/ TalkerCrash(v) \/ Age(v)
  \/ \E j \in JobIds : BackoffElapses(j) \/ Reclaim(j)
  \/ SweepStep

LEMMA OthersGrow ==
  ASSUME CountsOK, Others
  PROVE  Grows /\ work' = work
<1>1. ASSUME NEW v \in Turns, CommitTurn(v) PROVE Grows /\ work' = work
  <2>1. slot' = [slot EXCEPT !.counter = v] /\ projected' = projected /\ work' = work
    BY <1>1 DEF CommitTurn, history
  <2>2. slot' \in Slot /\ slot'.version = slot.version /\ slot.version \in Nat
    BY <2>1 DEF CountsOK, Slot, Turns
  <2>. QED  BY <2>1, <2>2 DEF Grows, CountsOK
<1>2. ASSUME NEW v \in Turns, TalkerStep(v) \/ TalkerCrash(v) \/ Age(v)
      PROVE  UNCHANGED <<slot, projected, work>>
  BY <1>2 DEF TalkerStep, MarkTalkerCommitted, EnqueueTurn, TalkerCrash, Age, history
<1>3. ASSUME NEW j \in JobIds, BackoffElapses(j) \/ Reclaim(j)
      PROVE  UNCHANGED <<slot, projected, work>>
  BY <1>3 DEF BackoffElapses, Reclaim, history
<1>4. ASSUME SweepStep PROVE UNCHANGED <<slot, projected, work>>
  BY <1>4 DEF SweepStep, SweepStart, SweepLook, SweepAct, history
<1>. QED  BY <1>1, <1>2, <1>3, <1>4, SameGrows DEF Others

\* Every step keeps the runs, and takes nothing away from them.
LEMMA RunsStep ==
  ASSUME CountsOK, RunsOK, ReadyOK, Next
  PROVE  RunsOK' /\ Grows
<1>1. ASSUME NEW w \in Workers, Claim(w) \/ WorkerStep(w) \/ Throw(w) \/ Crash(w)
      PROVE  RunsOK' /\ Grows
  <2>1. CASE Project(w)
    BY <2>1, ProjectKeeps, ProjectGrows
  <2>2. CASE ~Project(w)
    <3>1. Grows
      BY <1>1, <2>2, SameGrows DEF WorkerStep, Claim, Check, Skip, List, Split, Think,
         MarkApplied, MarkMember, MarkFailed, MarkTopFailed, Complete, Fail, Throw, Crash, history
    <3>. QED  BY <1>1, <2>2, <3>1, ClaimStarts, ListKeeps, SplitKeeps, MarkingKeeps, EndKeeps,
                 PhaseKeeps DEF WorkerStep
  <2>. QED  BY <2>1, <2>2
<1>2. CASE Others
  BY <1>2, OthersGrow, RunsWait
<1>. QED  BY <1>1, <1>2 DEF Next, Others

-----------------------------------------------------------------------------
(* The rows, under every step. *)

SweepTyped == sweep \in [todo : SUBSET Turns, found : Turns \cup {0}]

LEMMA RowsOfOthers ==
  ASSUME QueueOK, SweepTyped, Others
  PROVE  QueueOK'
<1> SUFFICES ASSUME ~UNCHANGED queue PROVE QueueOK'
  BY DEF queue, QueueOK, JobsOK, ReadyOK, Due
<1>1. ASSUME NEW v \in Turns, CommitTurn(v) \/ TalkerStep(v) \/ TalkerCrash(v) \/ Age(v)
      PROVE  QueueOK'
  <2>1. Enqueue(<<"main", v>>)
    BY <1>1 DEF CommitTurn, TalkerStep, MarkTalkerCommitted, EnqueueTurn, TalkerCrash, Age
  <2>. QED  BY <2>1, EnqueueKeeps DEF JobIds
<1>2. ASSUME NEW j \in JobIds, BackoffElapses(j) PROVE QueueOK'
  <2>1. PICK row : row = jobs[j]
    OBVIOUS
  <2>2. row \in Row /\ row.status = "pending" /\ row.holder = NoWorker
    BY <1>2, <2>1 DEF BackoffElapses, QueueOK, JobsOK, Row
  <2>. QED  BY <1>2, <2>1, <2>2, MakeDueKeeps DEF BackoffElapses
<1>3. ASSUME NEW j \in JobIds, Reclaim(j) PROVE QueueOK'
  <2>1. PICK row : row = [jobs[j] EXCEPT !.status = "pending", !.holder = NoWorker]
    OBVIOUS
  <2>2. jobs[j] \in Row /\ j \notin Due
    BY <1>3 DEF Reclaim, QueueOK, JobsOK, ReadyOK
  <2>3. row \in Row /\ row.status = "pending" /\ row.holder = NoWorker
    BY <2>1, <2>2 DEF Row
  <2>. QED  BY <1>3, <2>1, <2>2, <2>3, MakeDueKeeps DEF Reclaim
<1>4. ASSUME SweepStep PROVE QueueOK'
  <2>1. PICK v : v = sweep.found
    OBVIOUS
  <2>2. Enqueue(<<"main", v>>) /\ v # 0
    BY <1>4, <2>1 DEF SweepStep, SweepStart, SweepLook, SweepAct
  <2>3. v \in Turns
    BY <2>1, <2>2 DEF SweepTyped
  <2>. QED  BY <2>2, <2>3, EnqueueKeeps DEF JobIds
<1>. QED  BY <1>1, <1>2, <1>3, <1>4 DEF Others

LEMMA RowsOfWorkers ==
  ASSUME QueueOK, RunsOK, NEW w \in Workers,
         Claim(w) \/ WorkerStep(w) \/ Throw(w) \/ Crash(w)
  PROVE  QueueOK'
<1> SUFFICES ASSUME ~UNCHANGED queue PROVE QueueOK'
  BY DEF queue, QueueOK, JobsOK, ReadyOK, Due
<1>1. CASE Claim(w)
  BY <1>1, ClaimKeeps
<1>2. CASE Split(w)
  <2>1. PICK S \in work[w].subs : Enqueue(<<"split", SplitKey(S)>>)
    BY <1>2 DEF Split
  <2>2. S \in (SUBSET Turns) \ {{}}
    BY <2>1 DEF RunsOK, RunOK, Work
  <2>3. SplitKey(S) \in Turns
    BY <2>2, SplitKeyFacts
  <2>. QED  BY <2>1, <2>3, EnqueueKeeps DEF JobIds
<1>3. CASE Complete(w) \/ Fail(w)
  <2>1. PICK j : j = work[w].job
    OBVIOUS
  <2>2. j \in JobIds
    BY <1>3, <2>1 DEF Complete, Fail, RunsOK, RunOK
  <2>3. jobs' # jobs /\ ready' = ready
    BY <1>3 DEF Complete, Fail, queue
  <2>4. jobs[j].holder # NoWorker
    BY <1>3, <2>1, <2>3, PipelineAssumption DEF Complete, Fail, Holds
  <2>5. PICK status \in {"pending", "succeeded", "failed_terminal"} : jobs' = Ended(j, status)
    BY <1>3, <2>1, <2>3 DEF Complete, Fail
  <2>. QED  BY <2>2, <2>3, <2>4, <2>5, EndedKeeps
<1>. QED
  BY <1>1, <1>2, <1>3 DEF WorkerStep, Check, Skip, List, Think, Project, MarkApplied, MarkMember,
     MarkFailed, MarkTopFailed, Throw, Crash

LEMMA QueueStep ==
  ASSUME QueueOK, RunsOK, SweepTyped, Next
  PROVE  QueueOK'
BY RowsOfOthers, RowsOfWorkers DEF Next, Others

-----------------------------------------------------------------------------
(* The rest of the state. *)

RestTyped ==
  /\ talker \in [Turns -> {"none", "marking", "enqueuing", "retrying", "done", "lost"}]
  /\ SweepTyped
  /\ aged \subseteq Turns
  /\ faults \in Nat
  /\ thought \in [Turns -> Nat]
  /\ hardFailed \subseteq Turns
  /\ handed \in [Turns -> SUBSET Turns]

LEMMA FaultsStep ==
  ASSUME faults \in Nat, Next
  PROVE  faults' \in Nat
<1>1. ASSUME NEW v \in Turns, CommitTurn(v) \/ TalkerStep(v) \/ TalkerCrash(v) \/ Age(v)
      PROVE  faults' \in Nat
  BY <1>1 DEF CommitTurn, TalkerStep, MarkTalkerCommitted, EnqueueTurn, TalkerCrash, Age, NoFault, Fault
<1>2. ASSUME NEW w \in Workers, Check(w) \/ List(w) \/ Split(w) \/ Project(w)
      PROVE  faults' \in Nat
  <2>1. CASE List(w)
    <3>1. NoFault \/ Fault("sketch")
      BY <2>1, Zenon DEF List
    <3>. QED  BY <3>1 DEF NoFault, Fault
  <2>2. CASE Split(w)
    <3>1. NoFault \/ Fault("enqueue")
      BY <2>2, Zenon DEF Split
    <3>. QED  BY <3>1 DEF NoFault, Fault
  <2>. QED  BY <1>2, <2>1, <2>2 DEF Check, Project
<1>3. ASSUME NEW w \in Workers,
             \/ Skip(w) \/ Think(w) \/ MarkApplied(w) \/ MarkMember(w)
             \/ MarkFailed(w) \/ MarkTopFailed(w)
      PROVE  faults' \in Nat
  <2>1. \E v, s : Mark(v, s)
    BY <1>3, Zenon DEF Skip, Think, MarkApplied, MarkMember, MarkFailed, MarkTopFailed
  <2>. QED  BY <2>1 DEF Mark, NoFault, Fault
<1>4. ASSUME NEW w \in Workers, Claim(w) \/ Complete(w) \/ Fail(w) \/ Throw(w) \/ Crash(w)
      PROVE  faults' \in Nat
  BY <1>4 DEF Claim, Complete, Fail, Throw, Crash, NoFault, Fault
<1>5. ASSUME NEW j \in JobIds, BackoffElapses(j) \/ Reclaim(j)
      PROVE  faults' \in Nat
  BY <1>5 DEF BackoffElapses, Reclaim, NoFault, Fault
<1>6. ASSUME SweepStep PROVE faults' \in Nat
  BY <1>6 DEF SweepStep, SweepStart, SweepLook, SweepAct, NoFault, Fault
<1>. QED  BY <1>1, <1>2, <1>3, <1>4, <1>5, <1>6 DEF Next, WorkerStep

LEMMA RestStep ==
  ASSUME RestTyped, RunsOK, Next
  PROVE  RestTyped'
<1>1. faults' \in Nat
  BY FaultsStep DEF RestTyped
<1>2. ASSUME NEW v \in Turns, CommitTurn(v) \/ TalkerStep(v) \/ TalkerCrash(v) \/ Age(v)
      PROVE  RestTyped'
  <2>1. talker' = talker
          \/ \E s \in {"marking", "enqueuing", "retrying", "done", "lost"} :
               talker' = [talker EXCEPT ![v] = s]
    <3>1. CASE EnqueueTurn(v)
      <4>1. PICK s : s = IF talker[v] = "enqueuing" THEN "retrying" ELSE "lost"
        OBVIOUS
      <4>. QED  BY <3>1, <4>1 DEF EnqueueTurn
    <3>. QED
      BY <1>2, <3>1 DEF CommitTurn, TalkerStep, MarkTalkerCommitted, TalkerCrash, Age
  <2>2. UNCHANGED <<sweep, thought, hardFailed, handed>> /\ aged' \in SUBSET Turns
    BY <1>2 DEF RestTyped, CommitTurn, TalkerStep, MarkTalkerCommitted, EnqueueTurn, TalkerCrash, Age,
       history
  <2>3. talker' \in [Turns -> {"none", "marking", "enqueuing", "retrying", "done", "lost"}]
    BY <2>1 DEF RestTyped
  <2>. QED  BY <1>1, <2>2, <2>3 DEF RestTyped, SweepTyped
<1>3. ASSUME NEW w \in Workers, Split(w) PROVE RestTyped'
  <2>1. PICK S \in work[w].subs :
          handed' = handed \/ handed' = [handed EXCEPT ![SplitKey(S)] = @ \cup S]
    BY <1>3 DEF Split
  <2>2. S \in SUBSET Turns
    BY <2>1 DEF RunsOK, RunOK, Work
  <2>3. handed' \in [Turns -> SUBSET Turns]
    BY <2>1, <2>2 DEF RestTyped
  <2>4. UNCHANGED <<talker, sweep, aged, thought, hardFailed>>
    BY <1>3 DEF Split
  <2>. QED  BY <1>1, <2>3, <2>4 DEF RestTyped, SweepTyped
<1>4. ASSUME NEW w \in Workers, Project(w) PROVE RestTyped'
  <2>1. thought' \in [Turns -> Nat]
    BY <1>4 DEF Project, RestTyped
  <2>. QED  BY <1>1, <1>4, <2>1 DEF Project, RestTyped, SweepTyped
<1>5. ASSUME NEW w \in Workers, Claim(w) \/ WorkerStep(w) \/ Throw(w) \/ Crash(w),
             ~Split(w), ~Project(w)
      PROVE  RestTyped'
  <2>1. UNCHANGED <<talker, sweep, aged, thought, hardFailed, handed>>
    BY <1>5 DEF WorkerStep, Claim, Check, Skip, List, Think, MarkApplied, MarkMember, MarkFailed,
       MarkTopFailed, Complete, Fail, Throw, Crash, history
  <2>. QED  BY <1>1, <2>1 DEF RestTyped, SweepTyped
<1>6. ASSUME NEW j \in JobIds, BackoffElapses(j) \/ Reclaim(j) PROVE RestTyped'
  BY <1>1, <1>6 DEF BackoffElapses, Reclaim, RestTyped, SweepTyped, history
<1>7. ASSUME SweepStep PROVE RestTyped'
  <2>1. SweepTyped'
    BY <1>7 DEF SweepStep, SweepStart, SweepLook, SweepAct, RestTyped, SweepTyped, NoSweep, Missing
  <2>2. hardFailed' \in SUBSET Turns
    BY <1>7 DEF SweepStep, SweepStart, SweepLook, SweepAct, RestTyped, SweepTyped, history
  <2>3. UNCHANGED <<talker, aged, thought, handed>>
    BY <1>7 DEF SweepStep, SweepStart, SweepLook, SweepAct, history
  <2>. QED  BY <1>1, <2>1, <2>2, <2>3 DEF RestTyped
<1>. QED  BY <1>2, <1>3, <1>4, <1>5, <1>6, <1>7 DEF Next

-----------------------------------------------------------------------------
(* What the ledger calls done. *)

\* The step gives a settlement a done status only with right.
EarnsOnly ==
  \A v \in Turns :
    /\ ledger'[v] = "applied" => ledger[v] = "applied" \/ projected[v] > 0
    /\ ledger'[v] = "replayed_noop" => ledger[v] = "replayed_noop" \/ v <= slot.version

\* A mark to which the run is entitled.
LEMMA MarkEarns ==
  ASSUME LedgerTyped, NEW v, NEW s, Mark(v, s),
         s = "applied" => ledger[v] = "applied" \/ (v \in Turns => projected[v] > 0),
         s = "replayed_noop" => ledger[v] = "replayed_noop" \/ v <= slot.version
  PROVE  EarnsOnly
BY DEF Mark, Record, LedgerTyped, EarnsOnly

LEMMA StepEarns ==
  ASSUME LedgerTyped, RunsOK, Next
  PROVE  EarnsOnly
<1> USE DEF AppliedStatus, NoopStatus, FailedStatus, CommittedStatus, ProjectingStatus
<1>1. ASSUME NEW w \in Workers, Skip(w) PROVE EarnsOnly
  <2>1. PICK v : v = TurnOf(work[w].job)
    OBVIOUS
  <2>2. v <= slot.version /\ Mark(v, NoopStatus(ledger[v]))
    BY <1>1, <2>1 DEF Skip, RunsOK, RunOK
  <2>. QED  BY <2>2, MarkEarns
<1>2. ASSUME NEW w \in Workers, MarkApplied(w) PROVE EarnsOnly
  <2>1. PICK v : v = work[w].top
    OBVIOUS
  <2>2. projected[v] > 0 /\ Mark(v, AppliedStatus(ledger[v]))
    BY <1>2, <2>1 DEF MarkApplied, RunsOK, RunOK
  <2>. QED  BY <2>2, MarkEarns
<1>3. ASSUME NEW w \in Workers, MarkMember(w) PROVE EarnsOnly
  <2>1. PICK v \in work[w].members : Mark(v, NoopStatus(ledger[v]))
    BY <1>3 DEF MarkMember
  <2>2. v <= slot.version
    BY <1>3, <2>1 DEF MarkMember, RunsOK, RunOK
  <2>. QED  BY <2>1, <2>2, MarkEarns
<1>4. ASSUME NEW w \in Workers, Think(w) PROVE EarnsOnly
  <2>1. PICK v : Mark(v, ProjectingStatus(ledger[v]))
    BY <1>4 DEF Think
  <2>. QED  BY <2>1, MarkEarns
<1>5. ASSUME NEW w \in Workers, MarkFailed(w) \/ MarkTopFailed(w) PROVE EarnsOnly
  <2>1. PICK v : Mark(v, FailedStatus(ledger[v], "failed_retryable"))
    BY <1>5 DEF MarkFailed, MarkTopFailed
  <2>. QED  BY <2>1, MarkEarns
<1>6. ASSUME NEW v \in Turns, MarkTalkerCommitted(v) PROVE EarnsOnly
  BY <1>6 DEF MarkTalkerCommitted, Record, LedgerTyped, EarnsOnly
<1>7. CASE SweepAct
  BY <1>7 DEF SweepAct, Record, LedgerTyped, EarnsOnly
<1>8. ASSUME ledger' = ledger PROVE EarnsOnly
  BY <1>8 DEF EarnsOnly
<1>9. ASSUME NEW v \in Turns, CommitTurn(v) \/ EnqueueTurn(v) \/ TalkerCrash(v) \/ Age(v)
      PROVE  ledger' = ledger
  BY <1>9 DEF CommitTurn, EnqueueTurn, TalkerCrash, Age
<1>10. ASSUME NEW w \in Workers,
              \/ Claim(w) \/ Check(w) \/ List(w) \/ Split(w) \/ Project(w)
              \/ Complete(w) \/ Fail(w) \/ Throw(w) \/ Crash(w)
       PROVE  ledger' = ledger
  BY <1>10 DEF Claim, Check, List, Split, Project, Complete, Fail, Throw, Crash
<1>11. ASSUME (\E j \in JobIds : BackoffElapses(j) \/ Reclaim(j)) \/ SweepStart \/ SweepLook
       PROVE  ledger' = ledger
  BY <1>11 DEF BackoffElapses, Reclaim, SweepStart, SweepLook
<1>. QED
  BY <1>1, <1>2, <1>3, <1>4, <1>5, <1>6, <1>7, <1>8, <1>9, <1>10, <1>11
     DEF Next, TalkerStep, WorkerStep, SweepStep

\* What was earned stays earned, since the version and the projections grow.
LEMMA EarnedKept ==
  ASSUME CountsOK, LedgerTyped, DoneIsEarned, EarnsOnly, Grows
  PROVE  DoneIsEarned'
<1>1. \A v \in Turns : v <= slot.version => v <= slot'.version
  BY DEF CountsOK, Grows, Slot, Turns
<1>2. \A v \in Turns : projected[v] > 0 => projected'[v] > 0
  BY DEF CountsOK, Grows
<1>. QED  BY <1>1, <1>2 DEF DoneIsEarned, EarnsOnly

-----------------------------------------------------------------------------
(* The invariant of the pipeline. *)

PipelineInv ==
  /\ CountsOK
  /\ LedgerTyped
  /\ QueueOK
  /\ RunsOK
  /\ RestTyped
  /\ DoneIsEarned

LEMMA PipelineStep == PipelineInv /\ [Next]_vars => PipelineInv' /\ Grows
<1> SUFFICES ASSUME PipelineInv, [Next]_vars PROVE PipelineInv' /\ Grows
  OBVIOUS
<1>1. CASE Next
  <2>1. SweepTyped /\ ReadyOK
    BY DEF PipelineInv, RestTyped, QueueOK
  <2>2. RunsOK' /\ Grows
    BY <1>1, <2>1, RunsStep DEF PipelineInv
  <2>3. CountsOK'
    BY <2>2 DEF Grows
  <2>4. LedgerTyped'
    BY <1>1, StepMarksOne, MarksOneKeeps DEF PipelineInv
  <2>5. QueueOK'
    BY <1>1, <2>1, QueueStep DEF PipelineInv
  <2>6. RestTyped'
    BY <1>1, RestStep DEF PipelineInv
  <2>7. DoneIsEarned'
    BY <1>1, <2>2, StepEarns, EarnedKept DEF PipelineInv
  <2>. QED  BY <2>2, <2>3, <2>4, <2>5, <2>6, <2>7 DEF PipelineInv
<1>2. CASE UNCHANGED vars
  <2>1. Grows
    BY <1>2, SameGrows DEF PipelineInv, vars, history
  <2>2. RunsOK'
    BY <1>2, <2>1, RunsWait DEF PipelineInv, vars
  <2>. QED
    BY <1>2, <2>1, <2>2 DEF PipelineInv, vars, queue, history, CountsOK, LedgerTyped, QueueOK, JobsOK,
       ReadyOK, Due, RestTyped, SweepTyped, DoneIsEarned
<1>. QED  BY <1>1, <1>2

LEMMA PipelineStarts == Init => PipelineInv
<1> SUFFICES ASSUME Init PROVE PipelineInv
  OBVIOUS
<1>1. CountsOK
  BY DEF Init, CountsOK, Slot
<1>2. LedgerTyped /\ DoneIsEarned
  BY DEF Init, LedgerTyped, Statuses, DoneIsEarned
<1>3. QueueOK
  <2>1. JobsOK
    BY DEF Init, JobsOK, Row, NoRow
  <2>2. ready \in Seq(JobIds) /\ DOMAIN ready = {}
    BY EmptySeq, LenProperties DEF Init
  <2>. QED  BY <2>1, <2>2 DEF QueueOK, ReadyOK, Due
<1>4. RunsOK
  <2>1. work = [w \in Workers |-> Idle] /\ Idle \in Work
    BY IdleOK DEF Init, RunOK
  <2>. QED  BY <2>1, IdleOK DEF RunsOK
<1>5. RestTyped
  BY DEF Init, RestTyped, SweepTyped, NoSweep
<1>. QED  BY <1>1, <1>2, <1>3, <1>4, <1>5 DEF PipelineInv

LEMMA PipelineInvariant == Spec => []PipelineInv
BY PipelineStarts, PipelineStep, PTL DEF Spec

\* The pipeline's state has its type in every reachable state: no row is held
\* unless it runs, no row is due twice, and those that are due are pending.
THEOREM PipelineTypeCorrect == Spec => []TypeOK
<1>1. PipelineInv => TypeOK
  BY DEF PipelineInv, CountsOK, LedgerTyped, QueueOK, JobsOK, ReadyOK, RunsOK, RestTyped, SweepTyped,
     TypeOK
<1>. QED  BY <1>1, PipelineInvariant, PTL

\* Whatever runs race, crash and lose their claims, an applied settlement was
\* projected under its own id, and a replayed noop is one the version speaks for
\* (thinker-worker.ts:344, :804, :815).
THEOREM DoneIsEarnedCorrect == Spec => []DoneIsEarned
<1>1. PipelineInv => DoneIsEarned
  BY DEF PipelineInv
<1>. QED  BY <1>1, PipelineInvariant, PTL

\* The slot's version never goes back: not by a batch that ends after a later
\* one, nor by a run that has lost its claim (recent-cognition-slot-repo.ts).
THEOREM VersionNeverRegressesCorrect == Spec => VersionNeverRegresses
<1>1. PipelineInv /\ [Next]_vars => [slot'.version >= slot.version]_vars
  <2> SUFFICES ASSUME PipelineInv, [Next]_vars PROVE slot'.version >= slot.version
    OBVIOUS
  <2>1. Grows
    BY PipelineStep
  <2>2. slot.version \in Nat /\ slot'.version \in Nat
    BY <2>1 DEF PipelineInv, CountsOK, Grows, Slot
  <2>. QED  BY <2>1, <2>2 DEF Grows
<1>. QED  BY <1>1, PipelineInvariant, PTL DEF Spec, VersionNeverRegresses

-----------------------------------------------------------------------------
(* The calm pipeline: nothing fails, turns follow each other, and a run splits *)
(* off what it does not take.  As long as no run has, the jobs run in the      *)
(* order of their turns, and each projects what lies between the version and   *)
(* its highest turn.                                                           *)

Calm == FaultKinds = {} /\ SerialTurns /\ SplitThreshold < SoftCap

\* Of the turns up to the counter all but the last have their job's row; the
\* sweeper asks about no others.
TalkerCalm ==
  /\ \A v \in Turns : talker[v] \notin {"retrying", "lost"}
  /\ \A v \in Turns : v < slot.counter => talker[v] = "done"
  /\ \A v \in Turns : slot.counter < v => talker[v] = "none"
  /\ \A v \in Turns : talker[v] = "done" => jobs[<<"main", v>>].status # "none"
  /\ \A v \in Turns : jobs[<<"main", v>>].status # "none" => v <= slot.counter
  /\ \A v \in sweep.todo : v <= slot.counter
  /\ sweep.found <= slot.counter

\* One job runs at a time, what is pending is due, and a turn whose job has
\* succeeded is one the version has reached.
RowsCalm ==
  /\ \A v \in Turns : jobs[<<"split", v>>].status = "none"
  /\ \A j \in JobIds : jobs[j].status = "pending" => j \in Due
  /\ \A j \in JobIds : jobs[j].status # "failed_terminal"
  /\ \A j \in JobIds : jobs[j].status = "succeeded" => TurnOf(j) <= slot.version
  /\ \A i, j \in JobIds : jobs[i].status = "running" /\ jobs[j].status = "running" => i = j

\* Jobs are due in the order of their turns, behind the one that runs.
OrderCalm ==
  /\ \A i, k \in DOMAIN ready : i < k => TurnOf(ready[i]) < TurnOf(ready[k])
  /\ \A j \in JobIds : jobs[j].status = "running" => \A i \in Due : TurnOf(j) < TurnOf(i)

\* The run r of w holds its job, and what it is about to project is exactly
\* what lies between the version and its highest turn.
RunCalm(r, w, s, rows) ==
  /\ r.phase \notin {"failing", "failingTop", "reporting"}
  /\ r.phase # "idle" => rows[r.job].holder = w
  /\ r.phase = "listing" => s.version < TurnOf(r.job)
  /\ r.phase \in {"thinking", "projecting"} =>
       /\ r.chain = {v \in Turns : s.version < v /\ v <= r.top}
       /\ s.version < r.top /\ TurnOf(r.job) <= r.top
       /\ ~r.batch => r.top = s.version + 1
  /\ r.phase \in {"skipping", "applying", "completing"} => TurnOf(r.job) <= s.version

RunsCalm ==
  /\ \A w \in Workers : RunCalm(work[w], w, slot, jobs)
  /\ \A j \in JobIds : jobs[j].status = "running" => work[jobs[j].holder].job = j

\* The turns the version has reached were thought about once, the others not.
ThoughtCalm == \A v \in Turns : thought[v] = IF v <= slot.version THEN 1 ELSE 0

CalmInv == TalkerCalm /\ RowsCalm /\ OrderCalm /\ RunsCalm /\ ThoughtCalm

\* An entry that is before another has the lower position.
LEMMA PositionOrder ==
  ASSUME NEW E \in SUBSET JobIds, NEW i \in E, NEW j \in E, Before(i, j)
  PROVE  Position(E, i) < Position(E, j)
<1> DEFINE Ahead(k) == {h \in E : Before(h, k)}
<1>1. IsFiniteSet(Ahead(i)) /\ IsFiniteSet(Ahead(j))
  BY JobIdsFacts, FS_Subset
<1>2. Ahead(i) \subseteq Ahead(j) /\ i \in Ahead(j) /\ i \notin Ahead(i)
  BY BeforeIsTotal
<1>3. /\ Cardinality(Ahead(i)) \in Nat /\ Cardinality(Ahead(j)) \in Nat
      /\ Cardinality(Ahead(i)) <= Cardinality(Ahead(j))
      /\ Cardinality(Ahead(i)) # Cardinality(Ahead(j))
  BY <1>1, <1>2, FS_Subset, FS_CardinalityType
<1>4. Position(E, i) = 1 + Cardinality(Ahead(i)) /\ Position(E, j) = 1 + Cardinality(Ahead(j))
  BY DEF Position
<1>. QED  BY <1>3, <1>4

\* A batch that is not split is the whole list, and its highest turn the list's.
LEMMA WholeBatch ==
  ASSUME Calm, NEW E \in SUBSET JobIds, NEW n \in 1 .. Cardinality(E), n = Cardinality(E),
         SubBatches(E, n) = {}
  PROVE  /\ TurnsOf(Between(E, Oldest(n), OwnEnd(n))) = TurnsOf(E)
         /\ Effective(E, n) \in TurnsOf(E)
         /\ \A v \in TurnsOf(E) : v <= Effective(E, n)
<1>1. n \in Nat \ {0} /\ OwnEnd(n) \in 1 .. n
  BY Positions, OwnEndFacts
<1>2. OwnEnd(n) = n
  <2> SUFFICES ASSUME OwnEnd(n) # n PROVE FALSE
    OBVIOUS
  <2>1. PICK k : k = OwnEnd(n) + 1
    OBVIOUS
  <2>2. k \in OwnEnd(n) + 1 .. n /\ k - OwnEnd(n) = 1
    BY <1>1, <2>1
  <2>3. (k - OwnEnd(n)) % SplitThreshold = 1 % SplitThreshold
    BY <2>2
  <2>. QED  BY <2>2, <2>3 DEF SubBatches
<1>3. Oldest(n) = 1
  BY <1>1, <1>2, PipelineAssumption DEF Calm, Oldest, OwnEnd
<1>4. Between(E, 1, n) = E
  BY Positions DEF Between
<1>5. PICK j \in E : Position(E, j) = n
  BY Positions
<1>6. ASSUME NEW i \in E PROVE TurnOf(i) <= TurnOf(j)
  <2>1. ~Before(j, i)
    BY <1>1, <1>5, Positions, PositionOrder
  <2>2. i = j \/ Before(i, j)
    BY <2>1, BeforeIsTotal
  <2>. QED  BY <2>2, JobIdsFacts DEF Before, Turns
<1>7. ASSUME NEW i \in Between(E, n, n) PROVE i \in E /\ TurnOf(i) = TurnOf(j)
  <2>1. i \in E /\ Position(E, i) = n
    BY <1>1, Positions DEF Between
  <2>2. ~Before(i, j) /\ ~Before(j, i)
    BY <1>1, <1>5, <2>1, PositionOrder
  <2>. QED  BY <2>1, <2>2, BeforeIsTotal
<1>8. TurnsOf(Between(E, n, n)) = {TurnOf(j)}
  <2>1. j \in Between(E, n, n)
    BY <1>1, <1>5 DEF Between
  <2>. QED  BY <1>7, <2>1 DEF TurnsOf
<1>9. Effective(E, n) = TurnOf(j)
  <2>1. TurnOf(j) \in Turns
    BY JobIdsFacts
  <2>. QED  BY <1>2, <1>8, <2>1 DEF Effective, TurnAt
<1>. QED  BY <1>2, <1>3, <1>4, <1>6, <1>9 DEF TurnsOf

\* A run at work holds the one job that runs, and the other workers are idle.
LEMMA RunAlone ==
  ASSUME QueueOK, RunsOK, RowsCalm, RunsCalm, NEW w \in Workers, work[w].phase # "idle"
  PROVE  /\ work[w] \in Work /\ work[w].job \in JobIds
         /\ jobs[work[w].job].status = "running" /\ jobs[work[w].job].holder = w
         /\ \A u \in Workers \ {w} : work[u].phase = "idle"
         /\ \A j \in JobIds : jobs[j].status = "running" => j = work[w].job
<1>1. ASSUME NEW u \in Workers, work[u].phase # "idle"
      PROVE  /\ work[u] \in Work /\ work[u].job \in JobIds
             /\ jobs[work[u].job].status = "running" /\ jobs[work[u].job].holder = u
  <2>1. work[u] \in Work /\ work[u].job \in JobIds
    BY <1>1 DEF RunsOK, RunOK
  <2>2. jobs[work[u].job].holder = u
    BY <1>1 DEF RunsCalm, RunCalm
  <2>. QED  BY <2>1, <2>2, PipelineAssumption DEF QueueOK, JobsOK
<1>2. \A u \in Workers \ {w} : work[u].phase = "idle"
  BY <1>1 DEF RowsCalm
<1>. QED  BY <1>1, <1>2 DEF RowsCalm

\* A run goes on with its job, the others stay idle.
LEMMA RunGoesOn ==
  ASSUME QueueOK, RunsOK, RowsCalm, RunsCalm, NEW w \in Workers, NEW q \in Work,
         work[w].phase # "idle", q.job = work[w].job, jobs' = jobs,
         work' = [work EXCEPT ![w] = q], RunCalm(q, w, slot', jobs')
  PROVE  RunsCalm'
<1>1. work' \in [Workers -> Work] /\ work'[w] = q /\ \A u \in Workers \ {w} : work'[u] = work[u]
  BY DEF RunsOK
<1>2. \A u \in Workers \ {w} : work'[u].phase = "idle"
  BY <1>1, RunAlone
<1>3. \A u \in Workers \ {w} : RunCalm(work'[u], u, slot', jobs')
  BY <1>2 DEF RunCalm
<1>4. \A j \in JobIds : jobs'[j].status = "running" => work'[jobs'[j].holder].job = j
  BY <1>1, RunAlone
<1>. QED  BY <1>1, <1>3, <1>4 DEF RunsCalm

\* What a run lists is every turn from the one after the version to the highest
\* listed: all of them have rows, none of which has ended.
LEMMA ListIsWhole ==
  ASSUME QueueOK, RunsOK, TalkerCalm, RowsCalm, OrderCalm, RunsCalm, CountsOK, NEW w \in Workers,
         work[w].phase = "listing", NEW E, E = {work[w].job} \cup OtherPending(TurnOf(work[w].job))
  PROVE  /\ E \in SUBSET JobIds
         /\ \A v \in TurnsOf(E) : v \in Turns /\ slot.version < v /\ TurnOf(work[w].job) <= v
         /\ \A v \in Turns, top \in TurnsOf(E) : slot.version < v /\ v <= top => v \in TurnsOf(E)
<1>1. PICK job : job = work[w].job
  OBVIOUS
<1>2. /\ job \in JobIds /\ jobs[job].status = "running"
      /\ \A j \in JobIds : jobs[j].status = "running" => j = job
  BY <1>1, RunAlone
<1>3. slot.version < TurnOf(job) /\ slot.version \in Nat /\ slot.counter \in Nat
  BY <1>1 DEF RunsCalm, RunCalm, CountsOK, Slot
<1>4. E = {job} \cup {j \in Due : TurnOf(j) # TurnOf(job)}
  BY <1>1 DEF OtherPending
<1>5. E \in SUBSET JobIds
  BY <1>2, <1>4, DueFacts DEF QueueOK
<1>6. ASSUME NEW j \in E
      PROVE  /\ TurnOf(j) \in Turns /\ TurnOf(job) <= TurnOf(j) /\ slot.version < TurnOf(j)
             /\ jobs[j].status \in {"pending", "running"} /\ TurnOf(j) <= slot.counter
  <2>1. TurnOf(job) \in Turns /\ TurnOf(j) \in Turns /\ j \in JobIds
    BY <1>2, <1>5, JobIdsFacts
  <2>2. j = job \/ (j \in Due /\ TurnOf(job) < TurnOf(j))
    BY <1>2, <1>4 DEF OrderCalm
  <2>3. TurnOf(job) <= TurnOf(j) /\ slot.version < TurnOf(j)
    BY <1>3, <2>1, <2>2 DEF Turns
  <2>4. jobs[j].status \in {"pending", "running"}
    BY <1>2, <2>2 DEF QueueOK, ReadyOK
  <2>5. j = <<"main", TurnOf(j)>>
    BY <2>1, <2>4, JobIdsFacts DEF RowsCalm
  <2>6. TurnOf(j) <= slot.counter
    BY <2>1, <2>4, <2>5 DEF TalkerCalm
  <2>. QED  BY <2>1, <2>3, <2>4, <2>6
<1>7. ASSUME NEW v \in Turns, NEW i \in E, slot.version < v, v <= TurnOf(i)
      PROVE  v \in TurnsOf(E)
  <2>1. CASE v = TurnOf(i)
    BY <2>1 DEF TurnsOf
  <2>2. CASE v # TurnOf(i)
    <3>1. PICK j : j = <<"main", v>>
      OBVIOUS
    <3>2. j \in JobIds /\ TurnOf(j) = v
      BY <3>1, JobIdsFacts DEF TurnOf
    <3>3. v < slot.counter
      BY <1>3, <1>6, <1>7, <2>2 DEF Turns
    <3>4. jobs[j].status # "none"
      BY <3>1, <3>3 DEF TalkerCalm
    <3>5. jobs[j].status # "succeeded" /\ jobs[j].status # "failed_terminal"
      BY <1>3, <1>7, <3>2 DEF RowsCalm, Turns
    <3>6. jobs[j].status \in {"pending", "running"}
      BY <3>2, <3>4, <3>5 DEF QueueOK, JobsOK, Row
    <3>7. j \in Due \/ j = job
      BY <1>2, <3>2, <3>6 DEF RowsCalm
    <3>8. v = TurnOf(job) \/ j \in E
      BY <1>4, <3>2, <3>7
    <3>. QED  BY <1>4, <3>2, <3>8 DEF TurnsOf
  <2>. QED  BY <2>1, <2>2
<1>. QED  BY <1>1, <1>5, <1>6, <1>7 DEF TurnsOf

\* What is chosen from the list is projected as a whole, or split.
LEMMA ListCalm ==
  ASSUME Calm, QueueOK, RunsOK, TalkerCalm, RowsCalm, OrderCalm, RunsCalm, CountsOK,
         NEW w \in Workers, List(w)
  PROVE  RunsCalm'
<1>1. PICK r, E, n : /\ r = work[w] /\ E = {r.job} \cup OtherPending(TurnOf(r.job))
                     /\ n = Cardinality(E)
  OBVIOUS
<1>2. /\ r.phase = "listing" /\ r \in Work /\ r.job \in JobIds /\ RunOK(r, slot, projected)
      /\ jobs[r.job].holder = w
  BY <1>1, RunAlone DEF List, RunsOK
<1>3. PICK q : q = IF n <= 1 THEN Single(r) ELSE Batch(r, E, n)
  OBVIOUS
<1>4. work' = [work EXCEPT ![w] = q] /\ slot' = slot /\ jobs' = jobs
  BY <1>1, <1>3 DEF List, Calm, Fault, queue
<1>5. /\ E \in SUBSET JobIds
      /\ \A v \in TurnsOf(E) : v \in Turns /\ slot.version < v /\ TurnOf(r.job) <= v
      /\ \A v \in Turns, top \in TurnsOf(E) : slot.version < v /\ v <= top => v \in TurnsOf(E)
  BY <1>1, <1>2, ListIsWhole
<1>6. n \in Nat /\ slot.version \in Nat
  BY <1>1, <1>5, Positions DEF CountsOK, Slot
<1>7. q \in Work
  <2>1. n \in 0 .. Cardinality(E)
    BY <1>1, <1>6
  <2>. QED  BY <1>2, <1>3, <1>5, <2>1, ChosenOK DEF RunOK
<1>8. r.job \in E /\ TurnOf(r.job) \in TurnsOf(E)
  BY <1>1 DEF TurnsOf
<1>9. ~r.batch
  BY <1>2 DEF RunOK
<1>10. q.job = r.job /\ RunCalm(q, w, slot, jobs)
  <2>1. CASE n <= 1
    <3>1. E = {r.job}
      <4>1. IsFiniteSet(E) /\ IsFiniteSet({r.job}) /\ Cardinality({r.job}) = 1
        BY <1>5, JobIdsFacts, FS_Subset, FS_Singleton
      <4>2. {r.job} \subseteq E /\ Cardinality({r.job}) <= Cardinality(E)
        BY <1>8, <4>1, FS_Subset
      <4>3. Cardinality({r.job}) = Cardinality(E)
        BY <1>1, <1>6, <2>1, <4>1, <4>2
      <4>. QED  BY <4>1, <4>2, <4>3, FS_Subset
    <3>2. PICK v : v = TurnOf(r.job)
      OBVIOUS
    <3>3. TurnsOf(E) = {v}
      BY <3>1, <3>2 DEF TurnsOf
    <3>4. v \in Turns /\ slot.version < v /\ \A u \in Turns : slot.version < u /\ u <= v => u = v
      BY <1>5, <3>3
    <3>5. v = slot.version + 1
      BY <1>6, <3>4, PipelineAssumption DEF Turns
    <3>6. {v} = {u \in Turns : slot.version < u /\ u <= v}
      BY <3>4 DEF Turns
    <3>7. q = [r EXCEPT !.phase = "thinking", !.chain = {v}, !.top = v]
      BY <1>3, <2>1, <3>2 DEF Single
    <3>8. q.phase = "thinking" /\ q.chain = {v} /\ q.top = v /\ q.job = r.job
      BY <1>2, <3>7 DEF Work
    <3>. QED  BY <1>2, <3>2, <3>4, <3>5, <3>6, <3>8 DEF RunCalm, Turns
  <2>2. CASE ~ n <= 1
    <3>1. PICK chain, top : /\ chain = TurnsOf(Between(E, Oldest(n), OwnEnd(n)))
                            /\ top = Effective(E, n)
      OBVIOUS
    <3>2. PICK phase, members, subs : /\ phase = IF SubBatches(E, n) = {} THEN "thinking" ELSE "splitting"
                                      /\ members = Members(E, n) /\ subs = SubBatches(E, n)
      OBVIOUS
    <3>3. q = [r EXCEPT !.phase = phase, !.batch = TRUE, !.chain = chain,
                        !.top = top, !.members = members, !.subs = subs]
      BY <1>3, <2>2, <3>1, <3>2, Zenon DEF Batch
    <3>4. q.phase = phase /\ q.batch = TRUE /\ q.chain = chain /\ q.top = top /\ q.job = r.job
      BY <1>2, <3>3 DEF Work
    <3>5. ASSUME SubBatches(E, n) = {}
          PROVE  /\ chain = {u \in Turns : slot.version < u /\ u <= top}
                 /\ slot.version < top /\ TurnOf(r.job) <= top
      <4>1. n \in 1 .. Cardinality(E)
        BY <1>1, <1>6, <2>2
      <4>2. n = Cardinality(E) /\ E \in SUBSET JobIds
        BY <1>1, <1>5
      <4>3. /\ TurnsOf(Between(E, Oldest(n), OwnEnd(n))) = TurnsOf(E)
            /\ Effective(E, n) \in TurnsOf(E)
            /\ \A v \in TurnsOf(E) : v <= Effective(E, n)
        BY <3>5, <4>1, <4>2, WholeBatch
      <4>4. chain = TurnsOf(E) /\ top \in TurnsOf(E) /\ \A v \in TurnsOf(E) : v <= top
        BY <3>1, <4>3
      <4>. QED  BY <1>5, <4>4
    <3>6. phase = "thinking" => SubBatches(E, n) = {}
      BY <3>2
    <3>7. phase \in {"thinking", "splitting"}
      BY <3>2
    <3>. QED  BY <1>2, <3>4, <3>5, <3>6, <3>7 DEF RunCalm
  <2>. QED  BY <2>1, <2>2
<1>. QED  BY <1>1, <1>2, <1>4, <1>7, <1>10, RunGoesOn

\* A split hands turns to a job of their own.
LEMMA SplitHands ==
  ASSUME Calm, RunsOK, RestTyped, NEW w \in Workers, Split(w)
  PROVE  ~Unsplit'
<1>1. PICK S \in work[w].subs : handed' = [handed EXCEPT ![SplitKey(S)] = @ \cup S]
  BY DEF Split, Calm, Fault
<1>2. S \in (SUBSET Turns) \ {{}}
  BY <1>1 DEF Split, RunsOK, RunOK, Work
<1>3. SplitKey(S) \in S /\ SplitKey(S) \in Turns
  BY <1>2, SplitKeyFacts
<1>4. handed'[SplitKey(S)] # {}
  BY <1>1, <1>3 DEF RestTyped
<1>. QED  BY <1>3, <1>4 DEF Unsplit

\* The steps of a run that leave the version, the rows and what was thought alone.
LEMMA RunCalmStep ==
  ASSUME Calm, QueueOK, RunsOK, TalkerCalm, RowsCalm, OrderCalm, RunsCalm, CountsOK,
         NEW w \in Workers,
         Check(w) \/ Skip(w) \/ List(w) \/ Think(w) \/ MarkApplied(w) \/ MarkMember(w)
  PROVE  RunsCalm'
<1>1. PICK r : r = work[w]
  OBVIOUS
<1>2. r.phase # "idle" /\ UNCHANGED <<slot, jobs>>
  BY <1>1 DEF Check, Skip, List, Think, MarkApplied, MarkMember, queue
<1>3. r \in Work /\ r.job \in JobIds /\ jobs[r.job].holder = w /\ RunCalm(r, w, slot, jobs)
  BY <1>1, <1>2, RunAlone DEF RunsCalm
<1>4. slot.version \in Nat /\ TurnOf(r.job) \in Nat
  BY <1>3, JobIdsFacts DEF CountsOK, Slot, Turns
<1>5. CASE List(w)
  BY <1>5, ListCalm
<1>6. ASSUME NEW q \in Work, work' = [work EXCEPT ![w] = q], q.job = r.job,
             \/ q.phase = "listing" /\ slot.version < TurnOf(r.job)
             \/ q.phase \in {"skipping", "applying", "completing"} /\ TurnOf(r.job) <= slot.version
             \/ /\ q.phase = "projecting" /\ r.phase = "thinking"
                /\ q.chain = r.chain /\ q.top = r.top /\ q.batch = r.batch
      PROVE  RunsCalm'
  <2>1. RunCalm(q, w, slot', jobs')
    BY <1>2, <1>3, <1>6 DEF RunCalm
  <2>. QED  BY <1>1, <1>2, <1>6, <2>1, RunGoesOn
<1>7. CASE Check(w) \/ Skip(w) \/ Think(w)
  <2>1. PICK phase \in {"skipping", "listing", "completing", "projecting"} :
          /\ Goto(w, phase)
          /\ phase = "skipping" => AlreadyDone(TurnOf(r.job))
          /\ phase = "listing" => ~AlreadyDone(TurnOf(r.job))
          /\ phase = "completing" => r.phase = "skipping"
          /\ phase = "projecting" => r.phase = "thinking"
    BY <1>1, <1>7 DEF Check, Skip, Think
  <2>2. PICK q : q = [r EXCEPT !.phase = phase]
    OBVIOUS
  <2>3. /\ q \in Work /\ q.phase = phase /\ q.job = r.job
        /\ q.chain = r.chain /\ q.top = r.top /\ q.batch = r.batch
    BY <1>3, <2>2 DEF Work, Phases
  <2>4. work' = [work EXCEPT ![w] = q]
    BY <1>1, <2>1, <2>2 DEF Goto
  <2>5. \/ q.phase = "listing" /\ slot.version < TurnOf(r.job)
        \/ q.phase \in {"skipping", "applying", "completing"} /\ TurnOf(r.job) <= slot.version
        \/ q.phase = "projecting" /\ r.phase = "thinking"
    BY <1>3, <1>4, <2>1, <2>3 DEF AlreadyDone, RunCalm
  <2>. QED  BY <1>6, <2>3, <2>4, <2>5
<1>8. CASE MarkApplied(w) \/ MarkMember(w)
  <2>1. PICK phase \in {"applying", "completing"}, members \in SUBSET r.members :
          \/ work' = [work EXCEPT ![w] = [r EXCEPT !.top = 0, !.phase = phase]]
          \/ work' = [work EXCEPT ![w] = [r EXCEPT !.members = members, !.phase = phase]]
    <3>1. CASE MarkApplied(w)
      <4>1. PICK phase : phase = IF r.members = {} THEN "completing" ELSE r.phase
        OBVIOUS
      <4>2. work' = [work EXCEPT ![w] = [r EXCEPT !.top = 0, !.phase = phase]]
        BY <1>1, <3>1, <4>1 DEF MarkApplied, RunsOK
      <4>3. phase \in {"applying", "completing"}
        BY <1>1, <3>1, <4>1 DEF MarkApplied
      <4>. QED  BY <4>2, <4>3
    <3>2. CASE MarkMember(w)
      <4>1. PICK v \in r.members :
              work' = [work EXCEPT ![w].members = @ \ {v},
                                   ![w].phase = IF r.members = {v} THEN "completing" ELSE @]
        BY <1>1, <3>2 DEF MarkMember
      <4>2. PICK phase, members : /\ phase = IF r.members = {v} THEN "completing" ELSE r.phase
                                  /\ members = r.members \ {v}
        OBVIOUS
      <4>3. work' = [work EXCEPT ![w] = [r EXCEPT !.members = members, !.phase = phase]]
        BY <1>1, <4>1, <4>2 DEF RunsOK
      <4>4. phase \in {"applying", "completing"} /\ members \in SUBSET r.members
        BY <1>1, <3>2, <4>2 DEF MarkMember
      <4>. QED  BY <4>3, <4>4
    <3>. QED  BY <1>8, <3>1, <3>2
  <2>2. PICK q : /\ \/ q = [r EXCEPT !.top = 0, !.phase = phase]
                    \/ q = [r EXCEPT !.members = members, !.phase = phase]
                 /\ work' = [work EXCEPT ![w] = q]
    BY <2>1
  <2>3. q \in Work /\ q.phase = phase /\ q.job = r.job
    <3>1. phase \in Phases /\ members \in SUBSET Turns /\ 0 \in Nat
      BY <1>3, <2>1 DEF Work, Phases
    <3>2. CASE q = [r EXCEPT !.top = 0, !.phase = phase]
      BY <1>3, <3>1, <3>2 DEF Work
    <3>3. CASE q = [r EXCEPT !.members = members, !.phase = phase]
      BY <1>3, <3>1, <3>3 DEF Work
    <3>. QED  BY <2>2, <3>2, <3>3
  <2>4. TurnOf(r.job) <= slot.version
    BY <1>1, <1>3, <1>8 DEF RunCalm, MarkApplied, MarkMember
  <2>. QED  BY <1>6, <2>2, <2>3, <2>4
<1>. QED  BY <1>5, <1>7, <1>8

\* The projection takes the version to the run's highest turn, and counts the
\* turns it passes, each for the first time.
LEMMA ProjectCalm ==
  ASSUME QueueOK, RunsOK, RowsCalm, RunsCalm, CountsOK, RestTyped, ThoughtCalm,
         NEW w \in Workers, Project(w)
  PROVE  RunsCalm' /\ ThoughtCalm' /\ slot'.version >= slot.version
<1>1. PICK r, top, version : r = work[w] /\ top = r.top /\ version = slot.version
  OBVIOUS
<1>2. r.phase = "projecting" /\ jobs' = jobs
  BY <1>1 DEF Project, queue
<1>3. r \in Work /\ r.job \in JobIds /\ jobs[r.job].holder = w /\ RunCalm(r, w, slot, jobs)
  BY <1>1, <1>2, RunAlone DEF RunsCalm
<1>4. version \in Nat /\ top \in Nat /\ TurnOf(r.job) \in Nat
  BY <1>1, <1>3, JobIdsFacts DEF CountsOK, Slot, Turns, Work
<1>5. /\ r.chain = {v \in Turns : version < v /\ v <= top} /\ version < top
      /\ TurnOf(r.job) <= top /\ (~r.batch => top = version + 1)
  BY <1>1, <1>2, <1>3 DEF RunCalm
<1>6. Advanced(r) = top
  BY <1>1, <1>5 DEF Advanced
<1>7. slot' = [slot EXCEPT !.version = top]
  BY <1>1, <1>6 DEF Project
<1>8. slot'.version = top
  BY <1>7 DEF CountsOK, Slot
<1>9. PICK q : q = [r EXCEPT !.phase = "applying"]
  OBVIOUS
<1>10. q \in Work /\ q.phase = "applying" /\ q.job = r.job
  BY <1>3, <1>9 DEF Work, Phases
<1>11. work' = [work EXCEPT ![w] = q]
  BY <1>1, <1>9 DEF Project, Goto
<1>12. RunCalm(q, w, slot', jobs')
  BY <1>2, <1>3, <1>5, <1>8, <1>10 DEF RunCalm
<1>13. RunsCalm'
  BY <1>1, <1>2, <1>10, <1>11, <1>12, RunGoesOn
<1>14. ThoughtCalm'
  <2>1. thought' = [v \in Turns |-> IF v \in r.chain THEN thought[v] + 1 ELSE thought[v]]
    BY <1>1 DEF Project
  <2>2. ASSUME NEW v \in Turns PROVE thought'[v] = IF v <= slot'.version THEN 1 ELSE 0
    <3>1. v \in Nat /\ thought[v] = IF v <= version THEN 1 ELSE 0
      BY <1>1 DEF Turns, ThoughtCalm
    <3>2. thought'[v] = IF v \in r.chain THEN thought[v] + 1 ELSE thought[v]
      BY <2>1
    <3>. QED  BY <1>4, <1>5, <1>8, <3>1, <3>2
  <2>. QED  BY <2>2 DEF ThoughtCalm
<1>. QED  BY <1>1, <1>4, <1>5, <1>8, <1>13, <1>14

\* No other worker's job is in the way when there is none that runs.
LEMMA AllIdle ==
  ASSUME QueueOK, RunsOK, RunsCalm, InStatus({"running"}) = {}, NEW w \in Workers
  PROVE  work[w].phase = "idle"
<1> SUFFICES ASSUME work[w].phase # "idle" PROVE FALSE
  OBVIOUS
<1>1. PICK j : j = work[w].job
  OBVIOUS
<1>2. j \in JobIds /\ jobs[j].holder = w
  BY <1>1 DEF RunsOK, RunOK, RunsCalm, RunCalm
<1>3. jobs[j].status = "running"
  BY <1>2, PipelineAssumption DEF QueueOK, JobsOK
<1>. QED  BY <1>2, <1>3 DEF InStatus

\* The claim takes the job that has been due the longest, the lowest turn.
LEMMA ClaimCalm ==
  ASSUME Calm, QueueOK, RunsOK, CountsOK, RowsCalm, OrderCalm, RunsCalm, TalkerCalm,
         NEW w \in Workers, Claim(w)
  PROVE  RowsCalm' /\ OrderCalm' /\ RunsCalm' /\ TalkerCalm'
<1>1. /\ 1 \in DOMAIN ready
      /\ jobs' = [jobs EXCEPT ![ready[1]] = [status |-> "running", holder |-> w,
                                             attempts |-> @.attempts + 1]]
      /\ ready' = RemoveAt(ready, 1)
      /\ work' = [work EXCEPT ![w] = Given(ready[1])]
  BY DEF Claim, Calm, Fault
<1>2. PICK j : j = ready[1]
  OBVIOUS
<1>3. /\ Len(ready) \in Nat /\ DOMAIN ready = 1 .. Len(ready) /\ j \in JobIds
      /\ \A k \in 1 .. Len(ready) : ready[k] \in JobIds
      /\ Due = {ready[k] : k \in 1 .. Len(ready)}
  BY <1>1, <1>2, DueFacts DEF QueueOK
<1>4. UNCHANGED <<slot, talker, sweep>>
  BY DEF Claim
<1> DEFINE before == SubSeq(ready, 1, 0)
           after  == SubSeq(ready, 2, Len(ready))
<1>5. before \in Seq(JobIds) /\ Len(before) = 0
  BY <1>3, SubSeqProperties
<1>6. /\ after \in Seq(JobIds) /\ Len(after) = Len(ready) - 1
      /\ \A k \in 1 .. Len(ready) - 1 : after[k] = ready[k + 1]
  BY <1>1, <1>3, SubSeqProperties
<1>7. /\ Len(ready') = Len(ready) - 1 /\ DOMAIN ready' = 1 .. Len(ready) - 1
      /\ \A k \in 1 .. Len(ready) - 1 : ready'[k] = ready[k + 1]
  <2>1. ready' = before \o after
    BY <1>1, <1>5, <1>6 DEF RemoveAt
  <2> HIDE DEF before, after
  <2>2. /\ ready' \in Seq(JobIds)
        /\ Len(ready') = Len(before) + Len(after)
        /\ \A k \in 1 .. Len(before) + Len(after) :
             ready'[k] = IF k <= Len(before) THEN before[k] ELSE after[k - Len(before)]
    BY <1>5, <1>6, <2>1, ConcatProperties
  <2>3. Len(ready) - 1 \in Nat
    BY <1>1, <1>3
  <2>4. Len(ready') = Len(ready) - 1 /\ DOMAIN ready' = 1 .. Len(ready) - 1
    BY <1>5, <1>6, <2>2, <2>3, LenProperties
  <2>. QED  BY <1>5, <1>6, <2>2, <2>3, <2>4
<1>8. \A i \in Due : i = j \/ i \in Due'
  <2>1. ASSUME NEW k \in 1 .. Len(ready), k # 1 PROVE ready[k] \in Due'
    <3>1. k - 1 \in 1 .. Len(ready) - 1 /\ (k - 1) + 1 = k
      BY <1>3, <2>1
    <3>2. ready'[k - 1] = ready[k]
      BY <1>7, <3>1
    <3>. QED  BY <1>7, <3>1, <3>2 DEF Due
  <2>. QED  BY <1>2, <1>3, <2>1
<1>9. ASSUME NEW i \in Due' PROVE TurnOf(j) < TurnOf(i)
  <2>1. PICK k \in 1 .. Len(ready) - 1 : i = ready'[k]
    BY <1>7 DEF Due
  <2>2. k + 1 \in DOMAIN ready /\ 1 < k + 1 /\ i = ready[k + 1]
    BY <1>3, <1>7, <2>1
  <2>. QED  BY <1>1, <1>2, <2>2 DEF OrderCalm
<1>10. ASSUME NEW i \in DOMAIN ready', NEW k \in DOMAIN ready', i < k
       PROVE  TurnOf(ready'[i]) < TurnOf(ready'[k])
  <2>1. i + 1 \in DOMAIN ready /\ k + 1 \in DOMAIN ready /\ i + 1 < k + 1
    BY <1>3, <1>7, <1>10
  <2>2. ready'[i] = ready[i + 1] /\ ready'[k] = ready[k + 1]
    BY <1>7
  <2>. QED  BY <2>1, <2>2 DEF OrderCalm
<1>11. /\ \A i \in JobIds \ {j} : jobs'[i] = jobs[i]
       /\ jobs'[j].status = "running" /\ jobs'[j].holder = w
  BY <1>1, <1>2, <1>3 DEF QueueOK, JobsOK
<1>12. \A i \in JobIds : jobs'[i].status = "running" => i = j
  BY <1>11 DEF Claim, InStatus
<1>13. jobs[j].status = "pending"
  BY <1>2, <1>1 DEF QueueOK, ReadyOK, Due
<1>14. RowsCalm'
  <2>1. \A v \in Turns : <<"split", v>> \in JobIds \ {j}
    BY <1>13, JobIdsFacts DEF RowsCalm
  <2>2. \A v \in Turns : jobs'[<<"split", v>>].status = "none"
    BY <1>11, <2>1 DEF RowsCalm
  <2>3. \A i \in JobIds : jobs'[i].status = "pending" => i \in Due'
    BY <1>8, <1>11 DEF RowsCalm
  <2>4. \A i \in JobIds : jobs'[i].status # "failed_terminal"
    BY <1>11 DEF RowsCalm
  <2>5. \A i \in JobIds : jobs'[i].status = "succeeded" => TurnOf(i) <= slot'.version
    BY <1>4, <1>11 DEF RowsCalm
  <2>. QED  BY <1>12, <2>2, <2>3, <2>4, <2>5 DEF RowsCalm
<1>15. OrderCalm'
  BY <1>9, <1>10, <1>12 DEF OrderCalm
<1>16. TalkerCalm'
  <2>1. \A i \in JobIds : jobs'[i].status = "none" <=> jobs[i].status = "none"
    BY <1>11, <1>13
  <2>. QED  BY <1>4, <2>1, JobIdsFacts DEF TalkerCalm
<1>17. RunsCalm'
  <2>1. PICK q : q = Given(j)
    OBVIOUS
  <2>2. q.phase = "checking" /\ q.job = j
    BY <2>1, Zenon DEF Given, Idle
  <2>3. work' \in [Workers -> Work] /\ work'[w] = q /\ \A u \in Workers \ {w} : work'[u] = work[u]
    BY <1>1, <1>2, <2>1, GivenOK, <1>3 DEF RunsOK, RunOK
  <2>4. \A u \in Workers \ {w} : work'[u].phase = "idle"
    BY <2>3, AllIdle DEF Claim
  <2>5. RunCalm(q, w, slot', jobs')
    BY <1>11, <2>2 DEF RunCalm
  <2>6. \A u \in Workers \ {w} : RunCalm(work'[u], u, slot', jobs')
    BY <2>4 DEF RunCalm
  <2>. QED  BY <1>11, <1>12, <2>2, <2>3, <2>5, <2>6 DEF RunsCalm
<1>. QED  BY <1>14, <1>15, <1>16, <1>17

\* A run that completes holds its job, and its turn is one the version has reached.
LEMMA CompleteCalm ==
  ASSUME QueueOK, RunsOK, CountsOK, RowsCalm, OrderCalm, RunsCalm, TalkerCalm,
         NEW w \in Workers, Complete(w)
  PROVE  RowsCalm' /\ OrderCalm' /\ RunsCalm' /\ TalkerCalm'
<1>1. PICK j : j = work[w].job
  OBVIOUS
<1>2. work[w].phase = "completing" /\ UNCHANGED <<slot, talker, ready, sweep>>
  BY DEF Complete
<1>3. /\ j \in JobIds /\ jobs[j].status = "running" /\ jobs[j].holder = w
      /\ \A u \in Workers \ {w} : work[u].phase = "idle"
      /\ \A i \in JobIds : jobs[i].status = "running" => i = j
  BY <1>1, <1>2, RunAlone
<1>4. TurnOf(j) <= slot.version
  BY <1>1, <1>2 DEF RunsCalm, RunCalm
<1>5. jobs' = Ended(j, "succeeded") /\ work' = [work EXCEPT ![w] = Idle]
  BY <1>1, <1>3 DEF Complete, Holds
<1>6. jobs'[j].status = "succeeded" /\ \A i \in JobIds \ {j} : jobs'[i] = jobs[i]
  BY <1>3, <1>5 DEF Ended, QueueOK, JobsOK, Row
<1>7. Due' = Due
  BY <1>2 DEF Due
<1>8. \A i \in JobIds : jobs'[i].status # "running"
  BY <1>3, <1>6
<1>9. RowsCalm'
  <2>1. \A v \in Turns : <<"split", v>> \in JobIds \ {j}
    BY <1>3, JobIdsFacts DEF RowsCalm
  <2>2. \A v \in Turns : jobs'[<<"split", v>>].status = "none"
    BY <1>6, <2>1 DEF RowsCalm
  <2>3. \A i \in JobIds : jobs'[i].status = "pending" => i \in Due'
    BY <1>6, <1>7 DEF RowsCalm
  <2>4. \A i \in JobIds : jobs'[i].status # "failed_terminal"
    BY <1>6 DEF RowsCalm
  <2>5. \A i \in JobIds : jobs'[i].status = "succeeded" => TurnOf(i) <= slot'.version
    BY <1>2, <1>4, <1>6 DEF RowsCalm
  <2>. QED  BY <1>8, <2>2, <2>3, <2>4, <2>5 DEF RowsCalm
<1>10. OrderCalm'
  BY <1>2, <1>8 DEF OrderCalm
<1>11. TalkerCalm'
  <2>1. \A i \in JobIds : jobs'[i].status = "none" <=> jobs[i].status = "none"
    BY <1>3, <1>6
  <2>. QED  BY <1>2, <2>1, JobIdsFacts DEF TalkerCalm
<1>12. RunsCalm'
  <2>1. Idle \in Work /\ Idle.phase = "idle"
    BY IdleOK, Zenon DEF RunOK, Idle
  <2>2. \A u \in Workers : work'[u].phase = "idle"
    BY <1>3, <1>5, <2>1 DEF RunsOK
  <2>. QED  BY <1>8, <2>2 DEF RunsCalm, RunCalm
<1>. QED  BY <1>9, <1>10, <1>11, <1>12

\* A turn whose job has no row is the last of the Talker's, so that its job
\* comes behind all those that are due.
LEMMA EnqueueCalm ==
  ASSUME QueueOK, RunsOK, CountsOK, RowsCalm, OrderCalm, RunsCalm, TalkerCalm,
         NEW v \in Turns, v <= slot.counter, Enqueue(<<"main", v>>), UNCHANGED <<slot, work>>
  PROVE  /\ RowsCalm' /\ OrderCalm' /\ RunsCalm'
         /\ jobs'[<<"main", v>>].status # "none"
         /\ \A u \in Turns \ {v} : jobs'[<<"main", u>>] = jobs[<<"main", u>>]
<1>1. PICK j : j = <<"main", v>>
  OBVIOUS
<1>2. j \in JobIds /\ TurnOf(j) = v
  BY <1>1, JobIdsFacts DEF TurnOf
<1>3. CASE jobs[j].status # "none"
  <2>1. UNCHANGED <<jobs, ready>>
    BY <1>1, <1>3 DEF Enqueue, queue
  <2>. QED
    BY <1>1, <1>3, <2>1 DEF RowsCalm, OrderCalm, RunsCalm, Due
<1>4. CASE jobs[j].status = "none"
  <2>1. PICK row : row = [NoRow EXCEPT !.status = "pending"]
    OBVIOUS
  <2>2. row.status = "pending" /\ jobs' = [jobs EXCEPT ![j] = row] /\ ready' = Append(ready, j)
    BY <1>1, <1>4, <2>1 DEF Enqueue, MakeDue, NoRow
  <2>3. jobs'[j].status = "pending" /\ \A i \in JobIds \ {j} : jobs'[i] = jobs[i]
    BY <1>2, <2>2 DEF QueueOK, JobsOK
  <2>4. ASSUME NEW i \in JobIds, jobs[i].status # "none" PROVE TurnOf(i) < TurnOf(j)
    <3>1. PICK u \in Turns : u = TurnOf(i)
      BY JobIdsFacts
    <3>2. i = <<"main", u>>
      BY <2>4, <3>1, JobIdsFacts DEF RowsCalm
    <3>3. u <= slot.counter /\ ~ v < slot.counter /\ u # v
      BY <1>1, <1>4, <2>4, <3>2 DEF TalkerCalm
    <3>. QED  BY <1>2, <3>1, <3>3 DEF Turns, CountsOK, Slot
  <2>5. /\ Len(ready) \in Nat /\ DOMAIN ready = 1 .. Len(ready)
        /\ \A k \in 1 .. Len(ready) : ready[k] \in JobIds
    BY DueFacts DEF QueueOK
  <2>6. /\ DOMAIN ready' = 1 .. Len(ready) + 1
        /\ \A k \in 1 .. Len(ready) : ready'[k] = ready[k]
        /\ ready'[Len(ready) + 1] = j
    BY <1>2, <2>2, <2>5, AppendProperties, LenProperties DEF QueueOK, ReadyOK
  <2>7. \A k \in 1 .. Len(ready) : TurnOf(ready[k]) < TurnOf(j)
    BY <2>4, <2>5 DEF QueueOK, ReadyOK, Due
  <2>8. ASSUME NEW i \in DOMAIN ready', NEW k \in DOMAIN ready', i < k
        PROVE  TurnOf(ready'[i]) < TurnOf(ready'[k])
    <3>1. i \in 1 .. Len(ready) /\ ready'[i] = ready[i]
      BY <2>5, <2>6, <2>8
    <3>2. CASE k = Len(ready) + 1
      BY <2>6, <2>7, <3>1, <3>2
    <3>3. CASE k # Len(ready) + 1
      <4>1. k \in 1 .. Len(ready) /\ ready'[k] = ready[k]
        BY <2>5, <2>6, <3>3
      <4>. QED  BY <2>5, <2>8, <3>1, <4>1 DEF OrderCalm
    <3>. QED  BY <3>2, <3>3
  <2>9. Due' = Due \cup {j}
    <3>1. \A i : i \in Due <=> \E k \in 1 .. Len(ready) : i = ready[k]
      BY <2>5 DEF Due
    <3>2. \A i : i \in Due' <=> \E k \in 1 .. Len(ready) + 1 : i = ready'[k]
      BY <2>6 DEF Due
    <3>3. \A k : k \in 1 .. Len(ready) + 1 <=> k \in 1 .. Len(ready) \/ k = Len(ready) + 1
      BY <2>5
    <3>4. \A i : i \in Due' <=> i \in Due \/ i = j
      BY <2>6, <3>1, <3>2, <3>3
    <3>. QED  BY <3>4
  <2>10. ASSUME NEW i \in JobIds, jobs'[i].status = "running", NEW k \in Due'
         PROVE  TurnOf(i) < TurnOf(k)
    <3>1. i # j /\ jobs[i].status = "running"
      BY <2>3, <2>10
    <3>. QED  BY <2>4, <2>9, <3>1 DEF OrderCalm
  <2>11. OrderCalm'
    BY <2>8, <2>10 DEF OrderCalm
  <2>12. RowsCalm'
    <3>1. \A u \in Turns : <<"split", u>> # j /\ <<"split", u>> \in JobIds
      BY <1>1, JobIdsFacts
    <3>. QED  BY <2>3, <2>9, <3>1 DEF RowsCalm
  <2>13. RunsCalm'
    <3>1. ASSUME NEW w \in Workers PROVE RunCalm(work[w], w, slot, jobs')
      <4>1. CASE work[w].phase = "idle"
        BY <4>1 DEF RunCalm
      <4>2. CASE work[w].phase # "idle"
        <5>1. work[w].job \in JobIds /\ jobs[work[w].job].status = "running"
          BY <4>2, RunAlone
        <5>2. jobs'[work[w].job] = jobs[work[w].job]
          BY <1>4, <2>3, <5>1
        <5>. QED  BY <5>2 DEF RunsCalm, RunCalm
      <4>. QED  BY <4>1, <4>2
    <3>. QED  BY <2>3, <3>1 DEF RunsCalm
  <2>. QED  BY <1>1, <2>3, <2>11, <2>12, <2>13, JobIdsFacts
<1>. QED  BY <1>3, <1>4

\* The Talker's steps: one turn after the other, each with its job at the end.
LEMMA TalkerStepCalm ==
  ASSUME Calm, PipelineInv, CalmInv, NEW v \in Turns,
         CommitTurn(v) \/ TalkerStep(v) \/ TalkerCrash(v) \/ Age(v)
  PROVE  CalmInv'
<1>1. /\ slot.counter \in Nat /\ slot.version \in Nat /\ v \in Nat
      /\ talker \in [Turns -> {"none", "marking", "enqueuing", "retrying", "done", "lost"}]
  BY DEF PipelineInv, CountsOK, Slot, RestTyped, Turns
<1>2. UNCHANGED <<work, sweep, thought>>
  BY DEF CommitTurn, TalkerStep, MarkTalkerCommitted, EnqueueTurn, TalkerCrash, Age, history
<1>3. ~TalkerCrash(v) /\ ~Age(v)
  BY DEF Calm, TalkerCrash, Age, Fault
<1>4. CASE CommitTurn(v)
  <2>1. /\ slot' = [slot EXCEPT !.counter = v] /\ v = slot.counter + 1
        /\ talker' = [talker EXCEPT ![v] = "marking"] /\ UNCHANGED <<jobs, ready>>
        /\ \A u \in Settled : talker[u] \in {"done", "lost"}
    BY <1>4 DEF CommitTurn, Calm, queue
  <2>2. slot'.counter = v /\ slot'.version = slot.version
    BY <2>1 DEF PipelineInv, CountsOK, Slot
  <2>3. TalkerCalm'
    <3>1. \A u \in Turns : u < v => talker[u] = "done"
      BY <1>1, <2>1 DEF Settled, CalmInv, TalkerCalm, Turns
    <3>2. \A u \in Turns : u <= slot.counter => u <= v
      BY <1>1, <2>1 DEF Turns
    <3>3. \A u \in Turns : v < u => slot.counter < u
      BY <1>1, <2>1 DEF Turns
    <3>4. sweep.todo \subseteq Turns /\ sweep.found \in Turns \cup {0}
      BY DEF PipelineInv, RestTyped, SweepTyped
    <3>5. (\A u \in sweep.todo : u <= v) /\ sweep.found <= v
      BY <1>1, <2>1, <3>4 DEF CalmInv, TalkerCalm, Turns
    <3>. QED  BY <1>1, <1>2, <2>1, <2>2, <3>1, <3>2, <3>3, <3>5 DEF CalmInv, TalkerCalm
  <2>4. RowsCalm' /\ OrderCalm'
    BY <2>1, <2>2 DEF CalmInv, RowsCalm, OrderCalm, Due
  <2>5. RunsCalm' /\ ThoughtCalm'
    BY <1>2, <2>1, <2>2 DEF CalmInv, RunsCalm, RunCalm, ThoughtCalm
  <2>. QED  BY <2>3, <2>4, <2>5 DEF CalmInv
<1>5. CASE MarkTalkerCommitted(v)
  <2>1. /\ talker[v] = "marking" /\ talker' = [talker EXCEPT ![v] = "enqueuing"]
        /\ UNCHANGED <<slot, jobs, ready>>
    BY <1>5 DEF MarkTalkerCommitted, queue
  <2>2. TalkerCalm'
    BY <1>1, <1>2, <2>1 DEF CalmInv, TalkerCalm
  <2>. QED
    BY <1>2, <2>1, <2>2 DEF CalmInv, RowsCalm, OrderCalm, Due, RunsCalm, RunCalm, ThoughtCalm
<1>6. CASE EnqueueTurn(v)
  <2>1. /\ talker[v] \in {"enqueuing", "retrying"} /\ Enqueue(<<"main", v>>)
        /\ talker' = [talker EXCEPT ![v] = "done"] /\ slot' = slot
    BY <1>6 DEF EnqueueTurn, Calm, Fault
  <2>2. v <= slot.counter
    BY <1>1, <2>1 DEF CalmInv, TalkerCalm
  <2>3. /\ RowsCalm' /\ OrderCalm' /\ RunsCalm' /\ jobs'[<<"main", v>>].status # "none"
        /\ \A u \in Turns \ {v} : jobs'[<<"main", u>>] = jobs[<<"main", u>>]
    BY <1>2, <2>1, <2>2, EnqueueCalm DEF PipelineInv, CalmInv
  <2>4. TalkerCalm'
    <3>1. \A u \in Turns : talker'[u] = IF u = v THEN "done" ELSE talker[u]
      BY <1>1, <2>1
    <3>2. \A u \in Turns : slot'.counter < u => talker'[u] = "none"
      BY <1>1, <2>1, <2>2, <3>1 DEF CalmInv, TalkerCalm
    <3>3. \A u \in Turns : jobs'[<<"main", u>>].status # "none" => u <= slot'.counter
      BY <2>1, <2>2, <2>3 DEF CalmInv, TalkerCalm
    <3>4. \A u \in Turns : talker'[u] = "done" => jobs'[<<"main", u>>].status # "none"
      BY <2>3, <3>1 DEF CalmInv, TalkerCalm
    <3>. QED  BY <1>2, <2>1, <3>1, <3>2, <3>3, <3>4 DEF CalmInv, TalkerCalm
  <2>5. ThoughtCalm'
    BY <1>2, <2>1 DEF CalmInv, ThoughtCalm
  <2>. QED  BY <2>3, <2>4, <2>5 DEF CalmInv
<1>. QED  BY <1>3, <1>4, <1>5, <1>6 DEF TalkerStep

\* The sweeper asks about committed turns, and enqueues nothing out of order.
LEMMA SweepCalm ==
  ASSUME Calm, PipelineInv, CalmInv, SweepStep
  PROVE  CalmInv'
<1>1. UNCHANGED <<slot, talker, work, thought>>
  BY DEF SweepStep, SweepStart, SweepLook, SweepAct, history
<1>2. sweep.todo \subseteq Turns /\ sweep.found \in Turns \cup {0} /\ slot.counter \in Nat
  BY DEF PipelineInv, RestTyped, SweepTyped, CountsOK, Slot
<1>3. (\A v \in sweep'.todo : v <= slot.counter) /\ sweep'.found <= slot.counter
  <2>1. CASE SweepStart
    BY <1>2, <2>1 DEF SweepStart, NoSweep, Missing
  <2>2. CASE SweepLook
    <3>1. PICK v \in sweep.todo :
            sweep' = [todo |-> sweep.todo \ {v},
                      found |-> IF \E j \in InStatus({"pending", "running"}) : TurnOf(j) = v
                                THEN 0 ELSE v]
      BY <2>2 DEF SweepLook
    <3>2. sweep'.todo \subseteq sweep.todo /\ sweep'.found \in {0, v}
      BY <3>1
    <3>. QED  BY <1>2, <3>1, <3>2 DEF CalmInv, TalkerCalm
  <2>3. CASE SweepAct
    <3>1. sweep' = [sweep EXCEPT !.found = 0]
      BY <2>3 DEF SweepAct
    <3>2. sweep'.todo = sweep.todo /\ sweep'.found = 0
      BY <3>1 DEF PipelineInv, RestTyped, SweepTyped
    <3>. QED  BY <1>2, <3>2 DEF CalmInv, TalkerCalm
  <2>. QED  BY <2>1, <2>2, <2>3 DEF SweepStep
<1>4. CASE UNCHANGED queue
  <2>1. TalkerCalm'
    BY <1>1, <1>3, <1>4 DEF queue, CalmInv, TalkerCalm
  <2>. QED
    BY <1>1, <1>4, <2>1 DEF queue, CalmInv, RowsCalm, OrderCalm, Due, RunsCalm, RunCalm, ThoughtCalm
<1>5. CASE ~UNCHANGED queue
  <2>1. PICK v : v = sweep.found
    OBVIOUS
  <2>2. Enqueue(<<"main", v>>) /\ v # 0
    BY <1>5, <2>1 DEF SweepStep, SweepStart, SweepLook, SweepAct
  <2>3. v \in Turns /\ v <= slot.counter
    BY <1>2, <2>1, <2>2 DEF CalmInv, TalkerCalm
  <2>4. /\ RowsCalm' /\ OrderCalm' /\ RunsCalm' /\ jobs'[<<"main", v>>].status # "none"
        /\ \A u \in Turns \ {v} : jobs'[<<"main", u>>] = jobs[<<"main", u>>]
    BY <1>1, <2>2, <2>3, EnqueueCalm DEF PipelineInv, CalmInv
  <2>5. TalkerCalm'
    BY <1>1, <1>3, <2>3, <2>4 DEF CalmInv, TalkerCalm
  <2>. QED  BY <1>1, <2>4, <2>5 DEF CalmInv, ThoughtCalm
<1>. QED  BY <1>4, <1>5

\* Nothing becomes due again and nothing is reclaimed: what is pending is due,
\* and what runs is at work.
LEMMA NothingReturns ==
  ASSUME Calm, PipelineInv, CalmInv, NEW j \in JobIds
  PROVE  ~BackoffElapses(j) /\ ~Reclaim(j)
BY DEF Calm, CalmInv, RowsCalm, RunsCalm, BackoffElapses, Reclaim, Fault

\* No run fails.
LEMMA NothingFails ==
  ASSUME Calm, PipelineInv, CalmInv, NEW w \in Workers
  PROVE  ~Throw(w) /\ ~Crash(w) /\ ~MarkFailed(w) /\ ~MarkTopFailed(w) /\ ~Fail(w)
BY DEF Calm, CalmInv, RunsCalm, RunCalm, Throw, Crash, MarkFailed, MarkTopFailed, Fail, Fault

\* The steps of a tick, as long as none splits a batch.
LEMMA WorkerCalm ==
  ASSUME Calm, PipelineInv, CalmInv, Unsplit', NEW w \in Workers,
         Claim(w) \/ WorkerStep(w) \/ Throw(w) \/ Crash(w)
  PROVE  CalmInv'
<1>1. QueueOK /\ RunsOK /\ CountsOK /\ RestTyped
  BY DEF PipelineInv
<1>2. TalkerCalm /\ RowsCalm /\ OrderCalm /\ RunsCalm /\ ThoughtCalm
  BY DEF CalmInv
<1>3. CASE Claim(w) \/ Complete(w)
  <2>1. RowsCalm' /\ OrderCalm' /\ RunsCalm' /\ TalkerCalm'
    BY <1>1, <1>2, <1>3, ClaimCalm, CompleteCalm
  <2>2. UNCHANGED <<slot, thought>>
    BY <1>3 DEF Claim, Complete, history
  <2>3. ThoughtCalm'
    BY <1>2, <2>2 DEF ThoughtCalm
  <2>. QED  BY <2>1, <2>3 DEF CalmInv
<1>4. CASE Check(w) \/ Skip(w) \/ List(w) \/ Think(w) \/ MarkApplied(w) \/ MarkMember(w)
  <2>1. RunsCalm'
    BY <1>1, <1>2, <1>4, RunCalmStep
  <2>2. UNCHANGED <<slot, talker, jobs, ready, sweep, thought>>
    BY <1>4 DEF Check, Skip, List, Think, MarkApplied, MarkMember, queue, history
  <2>3. TalkerCalm' /\ RowsCalm' /\ OrderCalm' /\ ThoughtCalm'
    BY <1>2, <2>2 DEF TalkerCalm, RowsCalm, OrderCalm, Due, ThoughtCalm
  <2>. QED  BY <2>1, <2>3 DEF CalmInv
<1>5. CASE Project(w)
  <2>1. RunsCalm' /\ ThoughtCalm' /\ slot'.version >= slot.version
    BY <1>1, <1>2, <1>5, ProjectCalm
  <2>2. UNCHANGED <<talker, jobs, ready, sweep>> /\ slot' = [slot EXCEPT !.version = Advanced(work[w])]
    BY <1>5 DEF Project, queue
  <2>3. slot'.counter = slot.counter /\ slot.version \in Nat /\ slot'.version \in Nat
    BY <1>1, <1>5, <2>2, ProjectGrows DEF CountsOK, Slot, Grows
  <2>4. TalkerCalm' /\ OrderCalm'
    BY <1>2, <2>2, <2>3 DEF TalkerCalm, OrderCalm, Due
  <2>5. \A j \in JobIds : jobs'[j].status = "succeeded" => TurnOf(j) <= slot'.version
    BY <1>2, <2>1, <2>2, <2>3, JobIdsFacts DEF RowsCalm, Turns
  <2>6. RowsCalm'
    BY <1>2, <2>2, <2>5 DEF RowsCalm, Due
  <2>. QED  BY <2>1, <2>4, <2>6 DEF CalmInv
<1>. QED
  BY <1>1, <1>3, <1>4, <1>5, SplitHands, NothingFails DEF WorkerStep

\* Once turns were handed to a split job, they were.
LEMMA SplitOnce ==
  ASSUME RunsOK, RestTyped, [Next]_vars, Unsplit'
  PROVE  Unsplit
<1>1. CASE handed' = handed
  BY <1>1 DEF Unsplit
<1>2. ASSUME NEW w \in Workers, Split(w) PROVE Unsplit
  <2>1. PICK S \in work[w].subs :
          handed' = handed \/ handed' = [handed EXCEPT ![SplitKey(S)] = @ \cup S]
    BY <1>2 DEF Split
  <2>2. \A v \in Turns : handed[v] \subseteq handed'[v]
    BY <2>1 DEF RestTyped
  <2>. QED  BY <2>2 DEF Unsplit
<1>3. ASSUME NEW v \in Turns, CommitTurn(v) \/ TalkerStep(v) \/ TalkerCrash(v) \/ Age(v)
      PROVE  handed' = handed
  BY <1>3 DEF CommitTurn, TalkerStep, MarkTalkerCommitted, EnqueueTurn, TalkerCrash, Age, history
<1>4. ASSUME NEW w \in Workers, Claim(w) \/ WorkerStep(w) \/ Throw(w) \/ Crash(w), ~Split(w)
      PROVE  handed' = handed
  BY <1>4 DEF WorkerStep, Claim, Check, Skip, List, Think, Project, MarkApplied, MarkMember,
     MarkFailed, MarkTopFailed, Complete, Fail, Throw, Crash, history
<1>5. ASSUME NEW j \in JobIds, BackoffElapses(j) \/ Reclaim(j) PROVE handed' = handed
  BY <1>5 DEF BackoffElapses, Reclaim, history
<1>6. ASSUME SweepStep PROVE handed' = handed
  BY <1>6 DEF SweepStep, SweepStart, SweepLook, SweepAct, history
<1>7. ASSUME UNCHANGED vars PROVE handed' = handed
  BY <1>7 DEF vars, history
<1>. QED  BY <1>1, <1>2, <1>3, <1>4, <1>5, <1>6, <1>7 DEF Next

\* The calm invariant is inductive beside that of the pipeline.
LEMMA CalmStep ==
  ASSUME Calm
  PROVE  PipelineInv /\ (Unsplit => CalmInv) /\ [Next]_vars => (Unsplit' => CalmInv')
<1> SUFFICES ASSUME PipelineInv, Unsplit => CalmInv, [Next]_vars, Unsplit' PROVE CalmInv'
  OBVIOUS
<1>1. CalmInv
  BY SplitOnce DEF PipelineInv
<1>2. ASSUME NEW v \in Turns, CommitTurn(v) \/ TalkerStep(v) \/ TalkerCrash(v) \/ Age(v)
      PROVE  CalmInv'
  BY <1>1, <1>2, TalkerStepCalm
<1>3. ASSUME NEW w \in Workers, Claim(w) \/ WorkerStep(w) \/ Throw(w) \/ Crash(w)
      PROVE  CalmInv'
  BY <1>1, <1>3, WorkerCalm
<1>4. ASSUME NEW j \in JobIds, BackoffElapses(j) \/ Reclaim(j) PROVE CalmInv'
  BY <1>1, <1>4, NothingReturns
<1>5. CASE SweepStep
  BY <1>1, <1>5, SweepCalm
<1>6. CASE UNCHANGED vars
  BY <1>1, <1>6 DEF vars, queue, history, CalmInv, TalkerCalm, RowsCalm, OrderCalm, Due, RunsCalm,
     RunCalm, ThoughtCalm
<1>. QED  BY <1>2, <1>3, <1>4, <1>5, <1>6 DEF Next

LEMMA CalmStarts == Init => CalmInv
<1> SUFFICES ASSUME Init PROVE CalmInv
  OBVIOUS
<1>1. \A j \in JobIds : jobs[j].status = "none"
  BY DEF Init, NoRow
<1>2. /\ slot.counter = 0 /\ slot.version = 0 /\ sweep.todo = {} /\ sweep.found = 0
      /\ \A v \in Turns : talker[v] = "none" /\ thought[v] = 0
  BY DEF Init, NoSweep
<1>3. ready = <<>> /\ DOMAIN ready = {} /\ Due = {}
  BY EmptySeq, LenProperties DEF Init, Due
<1>4. \A w \in Workers : work[w].phase = "idle"
  BY Zenon DEF Init, Idle
<1>5. TalkerCalm
  <2>1. ASSUME NEW v \in Turns
        PROVE  jobs[<<"main", v>>].status = "none" /\ talker[v] = "none" /\ ~ v < slot.counter
    <3>1. <<"main", v>> \in JobIds
      BY JobIdsFacts
    <3>. QED  BY <1>1, <1>2, <3>1 DEF Turns
  <2>2. (\A v \in sweep.todo : v <= slot.counter) /\ sweep.found <= slot.counter
    BY <1>2
  <2>. QED  BY <2>1, <2>2 DEF TalkerCalm
<1>6. RowsCalm /\ OrderCalm
  BY <1>1, <1>3, JobIdsFacts DEF RowsCalm, OrderCalm
<1>7. RunsCalm
  BY <1>1, <1>4 DEF RunsCalm, RunCalm
<1>8. ThoughtCalm
  BY <1>2 DEF ThoughtCalm, Turns
<1>. QED  BY <1>5, <1>6, <1>7, <1>8 DEF CalmInv

LEMMA CalmInvariant ==
  ASSUME Calm
  PROVE  Spec => [](Unsplit => CalmInv)
<1>1. Init => (Unsplit => CalmInv)
  BY CalmStarts
<1>2. PipelineInv /\ (Unsplit => CalmInv) /\ [Next]_vars => (Unsplit => CalmInv)'
  BY CalmStep DEF Unsplit
<1>. QED  BY <1>1, <1>2, PipelineInvariant, PTL DEF Spec

\* Without faults, and as long as no batch was split, the slot's version speaks
\* for every turn up to it: no turn is passed over by the idempotency check
\* (thinker-worker.ts:342) that is not in a committed projection.
THEOREM VersionSpeaksForAllCorrect ==
  ASSUME Calm
  PROVE  Spec => []VersionSpeaksForAll
<1>1. (Unsplit => CalmInv) => VersionSpeaksForAll
  BY DEF CalmInv, ThoughtCalm, VersionSpeaksForAll
<1>. QED  BY <1>1, CalmInvariant, PTL

\* Without faults, and as long as no batch was split, no turn is in two
\* committed projections: a job whose turn a batch took finds it done
\* (thinker-worker.ts:342, :374).
THEOREM ThoughtOnceCorrect ==
  ASSUME Calm
  PROVE  Spec => []ThoughtOnce
<1>1. (Unsplit => CalmInv) => ThoughtOnce
  BY DEF CalmInv, ThoughtCalm, ThoughtOnce
<1>. QED  BY <1>1, CalmInvariant, PTL

=============================================================================
