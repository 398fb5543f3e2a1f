---------------------- MODULE PgJobStoreHistoryProofs -----------------------
(***************************************************************************)
(* What jobs_current and job_attempts say together: the theorems about the *)
(* fence (claim_version), the append-only history, the rows that are over, *)
(* the one active row of a family, the one success of a key, its failures, *)
(* the rerun that is not lost, and the queue that all of it implements.    *)
(***************************************************************************)
EXTENDS PgJobStoreProofs

\* A commit starts a pending row that exists.
LEMMA CommitFacts ==
  ASSUME ClaimInv, NEW w \in Workers, ClaimCommit(w)
  PROVE  \E j \in Jobs :
           /\ j = tx[w].job /\ j \in tx[w].locks
           /\ jobs_current[j].status = "pending"
           /\ ~Claimed(j, jobs_current[j].claim_version + 1)
           /\ jobs_current' = [jobs_current EXCEPT ![j] = Started(@)]
           /\ job_attempts' = [job_attempts EXCEPT
                                 ![j][jobs_current[j].claim_version + 1] = "running"]
<1>1. PICK j : j = tx[w].job
  OBVIOUS
<1>2. j \in tx[w].locks
  BY <1>1 DEF ClaimCommit, ClaimInv, ChoiceHolds
<1>3. j \in Jobs
  BY <1>2 DEF ClaimInv, TypeOK, Tx
<1>4. /\ jobs_current[j].status = "pending"
      /\ ~Claimed(j, jobs_current[j].claim_version + 1)
      /\ jobs_current' = [jobs_current EXCEPT ![j] = Started(@)]
      /\ job_attempts' = [job_attempts EXCEPT
                            ![j][jobs_current[j].claim_version + 1] = "running"]
  BY <1>1 DEF ClaimCommit
<1>. QED  BY <1>1, <1>2, <1>3, <1>4

\* An operation on the claim <<j, v>> changes row j as one of these does, and
\* may insert one row that did not exist.
LEMMA ClaimCallFacts ==
  ASSUME TypeOK, NEW j \in Jobs, NEW v \in Versions, ClaimCall(j, v), ~StaleCall(j, v)
  PROVE  /\ Holds(j, v)
         /\ \/ /\ jobs_current' = [jobs_current EXCEPT ![j] = WithLease(@, FALSE)]
               /\ job_attempts' = job_attempts
            \/ /\ \/ \E status \in Terminal :
                       jobs_current' = [jobs_current EXCEPT ![j] = Ended(@, status)]
                  \/ \E k \in Jobs :
                       /\ k # j
                       /\ jobs_current[k].status = "none"
                       /\ Family[k] = Family[j]
                       /\ jobs_current' = [jobs_current EXCEPT
                            ![j] = Ended(@, "succeeded"),
                            ![k] = NewRow(TRUE, jobs_current[j].reasons)]
                  \/ jobs_current' = [jobs_current EXCEPT ![j] = Requeued(@, FALSE)]
               /\ \E outcome \in Outcomes \ {"none", "running"} : MarkAttempt(j, v, outcome)
<1>1. /\ {"lease_lost", "succeeded", "failed_retry_scheduled",
          "failed_terminal", "cancelled"} \subseteq Outcomes \ {"none", "running"}
      /\ {"succeeded", "failed_terminal", "cancelled"} \subseteq Terminal
  BY DEF Outcomes, Terminal
<1>2. CASE Heartbeat(j, v)
  BY <1>2 DEF Heartbeat
<1>3. CASE Complete(j, v)
  <2>1. Holds(j, v) /\ MarkAttempt(j, v, "succeeded")
    BY <1>3 DEF Complete
  <2>2. \A k \in FreshKeys(Family[j]) :
          k \in Jobs /\ k # j /\ jobs_current[k].status = "none" /\ Family[k] = Family[j]
    BY <2>1 DEF FreshKeys, Holds
  <2>3. \/ jobs_current' = [jobs_current EXCEPT ![j] = Ended(@, "succeeded")]
        \/ \E k \in FreshKeys(Family[j]) :
             jobs_current' = [jobs_current EXCEPT
                                ![j] = Ended(@, "succeeded"),
                                ![k] = NewRow(TRUE, jobs_current[j].reasons)]
    BY <1>3 DEF Complete
  <2>. QED  BY <1>1, <2>1, <2>2, <2>3
<1>4. CASE Fail(j, v)
  BY <1>1, <1>4 DEF Fail
<1>5. CASE Cancel(j, v)
  BY <1>1, <1>5 DEF Cancel
<1>. QED  BY <1>2, <1>3, <1>4, <1>5 DEF ClaimCall

\* Every step of an enqueue either leaves the rows alone, or coalesces into an
\* active row, or inserts a pending row of a family that has no active one.
LEMMA EnqueueFacts ==
  ASSUME TypeOK, NEW c \in Clients, EnqueueFamily(c)
  PROVE  /\ job_attempts' = job_attempts
         /\ \/ jobs_current' = jobs_current
            \/ \E a : \E r \in Reasons :
                 /\ a \in Jobs => jobs_current[a].status \in Active
                 /\ jobs_current' = [jobs_current EXCEPT ![a] = CoalescedInto(@, r)]
            \/ \E j : \E reasons \in SUBSET Reasons :
                 /\ jobs_current[j].status = "none"
                 /\ ActiveOf(Family[j]) = {}
                 /\ jobs_current' = [jobs_current EXCEPT ![j] = NewRow(TRUE, reasons)]
<1>1. enq[c].reasons \in SUBSET Reasons
  BY DEF TypeOK, Enq
<1>2. PICK a : a = enq[c].row
  OBVIOUS
<1>3. ASSUME NEW gone, MergeInto(c, gone)
      PROVE  \/ jobs_current' = jobs_current
             \/ \E r \in Reasons :
                  /\ jobs_current[a].status \in Active
                  /\ jobs_current' = [jobs_current EXCEPT ![a] = CoalescedInto(@, r)]
  BY <1>1, <1>2, <1>3 DEF MergeInto, StillActive
<1>4. CASE EnqueueMerge(c)
  BY <1>3, <1>4 DEF EnqueueMerge
<1>5. CASE EnqueueMergeAgain(c)
  BY <1>3, <1>5 DEF EnqueueMergeAgain
<1>6. CASE EnqueueInsert(c)
  <2>1. PICK j : j = enq[c].job
    OBVIOUS
  <2>. QED  BY <1>1, <1>6, <2>1 DEF EnqueueInsert, Conflicts
<1>7. CASE EnqueueLookup(c) \/ EnqueueRecheck(c)
  BY <1>7 DEF EnqueueLookup, EnqueueRecheck
<1>. QED  BY <1>4, <1>5, <1>6, <1>7 DEF EnqueueFamily

-----------------------------------------------------------------------------
(* The two tables agree. *)

LEMMA AttemptsInit == Init => AttemptsMatchRows
BY NoRowFacts DEF Init, AttemptsMatchRows

\* The rows keep what the fence reads, and the attempts stay.
LEMMA AttemptsKept ==
  ASSUME TypeOK, AttemptsMatchRows, job_attempts' = job_attempts,
         \A j \in Jobs :
           /\ jobs_current'[j].status = "running" <=> jobs_current[j].status = "running"
           /\ jobs_current[j].status = "running" =>
                jobs_current'[j].claim_version = jobs_current[j].claim_version
  PROVE  AttemptsMatchRows'
BY DEF AttemptsMatchRows

LEMMA AttemptsStep ==
  ClaimInv /\ TypeOK' /\ AttemptsMatchRows /\ [Next]_vars => AttemptsMatchRows'
<1> SUFFICES ASSUME ClaimInv, TypeOK', AttemptsMatchRows, [Next]_vars
             PROVE  AttemptsMatchRows'
  OBVIOUS
<1>0. TypeOK
  BY DEF ClaimInv
<1>1. ASSUME NEW j \in Jobs, Enqueue(j) PROVE AttemptsMatchRows'
  <2>1. \A due \in BOOLEAN : NewRow(due, {}).status = "pending"
    BY NewRowFacts
  <2>. QED  BY <1>0, <1>1, <2>1, AttemptsKept DEF Enqueue, TypeOK
<1>2. ASSUME NEW j \in Jobs, TimePasses(j) PROVE AttemptsMatchRows'
  <2>1. /\ Requeued(jobs_current[j], TRUE).status = "pending"
        /\ WithLease(jobs_current[j], TRUE).status = jobs_current[j].status
        /\ WithLease(jobs_current[j], TRUE).claim_version = jobs_current[j].claim_version
    BY <1>0, RequeuedFacts, WithLeaseFacts DEF TypeOK
  <2>. QED  BY <1>0, <1>2, <2>1, AttemptsKept DEF TimePasses, BackoffElapses, LeaseExpires, TypeOK
<1>3. ASSUME NEW c \in Clients, EnqueueFamily(c) PROVE AttemptsMatchRows'
  <2>1. job_attempts' = job_attempts
    BY <1>0, <1>3, EnqueueFacts
  <2>2. CASE jobs_current' = jobs_current
    BY <1>0, <2>1, <2>2, AttemptsKept
  <2>3. ASSUME NEW a, NEW r \in Reasons,
               jobs_current' = [jobs_current EXCEPT ![a] = CoalescedInto(@, r)]
        PROVE  AttemptsMatchRows'
    <3>1. \A j \in Jobs : /\ CoalescedInto(jobs_current[j], r).status = jobs_current[j].status
                          /\ CoalescedInto(jobs_current[j], r).claim_version
                               = jobs_current[j].claim_version
      BY <1>0, CoalescedFacts DEF TypeOK
    <3>. QED  BY <1>0, <2>1, <2>3, <3>1, AttemptsKept DEF TypeOK
  <2>4. ASSUME NEW j, NEW reasons \in SUBSET Reasons, jobs_current[j].status = "none",
               jobs_current' = [jobs_current EXCEPT ![j] = NewRow(TRUE, reasons)]
        PROVE  AttemptsMatchRows'
    <3>1. NewRow(TRUE, reasons).status = "pending"
      BY NewRowFacts
    <3>. QED  BY <1>0, <2>1, <2>4, <3>1, AttemptsKept DEF TypeOK
  <2>. QED  BY <1>0, <1>3, <2>2, <2>3, <2>4, EnqueueFacts
<1>4. ASSUME NEW w \in Workers, ClaimScan(w) \/ ClaimEnd(w) \/ ClaimAbort(w)
      PROVE  AttemptsMatchRows'
  BY <1>0, <1>4, AttemptsKept DEF ClaimScan, ClaimEnd, ClaimAbort
<1>5. ASSUME NEW w \in Workers, NEW j \in Jobs, ClaimTry(w, j) PROVE AttemptsMatchRows'
  BY <1>0, <1>5, AttemptsKept DEF ClaimTry, ClaimSkipLocked, ClaimSkipFull, ClaimChoose
<1>6. ASSUME NEW w \in Workers, ClaimCommit(w) PROVE AttemptsMatchRows'
  <2>1. PICK j \in Jobs :
          /\ jobs_current[j].status = "pending"
          /\ jobs_current' = [jobs_current EXCEPT ![j] = Started(@)]
          /\ job_attempts' = [job_attempts EXCEPT
                                ![j][jobs_current[j].claim_version + 1] = "running"]
    BY <1>6, CommitFacts
  <2>2. PICK v : v = jobs_current[j].claim_version + 1
    OBVIOUS
  <2>3. /\ jobs_current'[j].status = "running" /\ jobs_current'[j].claim_version = v
        /\ \A i \in Jobs \ {j} : jobs_current'[i] = jobs_current[i]
    BY <1>0, <2>1, <2>2, StartedFacts DEF TypeOK
  <2>4. /\ \A u \in Versions : job_attempts'[j][u] = IF u = v THEN "running" ELSE job_attempts[j][u]
        /\ \A i \in Jobs \ {j} : job_attempts'[i] = job_attempts[i]
    BY <1>0, <2>1, <2>2 DEF TypeOK
  <2>. QED  BY <2>1, <2>3, <2>4 DEF AttemptsMatchRows
<1>7. ASSUME NEW j \in Jobs, NEW v \in Versions, ClaimCall(j, v) PROVE AttemptsMatchRows'
  <2>1. CASE StaleCall(j, v)
    <3>1. job_attempts[j][v] # "running"
      BY <2>1 DEF StaleCall, AttemptsMatchRows
    <3>2. job_attempts' = job_attempts
      BY <1>0, <2>1, <3>1 DEF StaleCall, MarkAttempt, TypeOK
    <3>. QED  BY <1>0, <2>1, <3>2, AttemptsKept DEF StaleCall
  <2>2. CASE jobs_current' = [jobs_current EXCEPT ![j] = WithLease(@, FALSE)]
             /\ job_attempts' = job_attempts
    <3>1. /\ WithLease(jobs_current[j], FALSE).status = jobs_current[j].status
          /\ WithLease(jobs_current[j], FALSE).claim_version = jobs_current[j].claim_version
      BY <1>0, WithLeaseFacts DEF TypeOK
    <3>. QED  BY <1>0, <2>2, <3>1, AttemptsKept DEF TypeOK
  <2>3. ASSUME Holds(j, v), NEW outcome \in Outcomes \ {"none", "running"},
               MarkAttempt(j, v, outcome),
               jobs_current'[j].status # "running",
               \A i \in Jobs \ {j} : \/ jobs_current'[i] = jobs_current[i]
                                     \/ /\ jobs_current[i].status = "none"
                                        /\ jobs_current'[i].status = "pending"
        PROVE  AttemptsMatchRows'
    <3>1. /\ \A u \in Versions \ {v} : job_attempts'[j][u] = job_attempts[j][u]
          /\ job_attempts'[j][v] # "running"
          /\ \A i \in Jobs \ {j} : job_attempts'[i] = job_attempts[i]
      BY <1>0, <2>3 DEF MarkAttempt, TypeOK
    <3>2. \A u \in Versions \ {v} : job_attempts[j][u] # "running"
      BY <2>3 DEF Holds, AttemptsMatchRows
    <3>. QED  BY <2>3, <3>1, <3>2 DEF AttemptsMatchRows
  <2>4. ASSUME NEW status \in Terminal,
               jobs_current' = [jobs_current EXCEPT ![j] = Ended(@, status)]
        PROVE  /\ jobs_current'[j].status # "running"
               /\ \A i \in Jobs \ {j} : jobs_current'[i] = jobs_current[i]
    <3>1. status \in Statuses /\ status # "running"
      BY DEF Terminal, Statuses
    <3>2. Ended(jobs_current[j], status).status = status
      BY <1>0, <3>1, EndedFacts DEF TypeOK
    <3>. QED  BY <1>0, <2>4, <3>1, <3>2 DEF TypeOK
  <2>5. ASSUME NEW k \in Jobs, k # j, jobs_current[k].status = "none",
               jobs_current' = [jobs_current EXCEPT
                                  ![j] = Ended(@, "succeeded"),
                                  ![k] = NewRow(TRUE, jobs_current[j].reasons)]
        PROVE  /\ jobs_current'[j].status # "running"
               /\ \A i \in Jobs \ {j} : \/ jobs_current'[i] = jobs_current[i]
                                        \/ /\ jobs_current[i].status = "none"
                                           /\ jobs_current'[i].status = "pending"
    <3>1. "succeeded" \in Statuses /\ jobs_current[j].reasons \in SUBSET Reasons
      BY <1>0 DEF Statuses, Terminal, TypeOK, Row
    <3>2. /\ Ended(jobs_current[j], "succeeded").status = "succeeded"
          /\ NewRow(TRUE, jobs_current[j].reasons).status = "pending"
      BY <1>0, <3>1, EndedFacts, NewRowFacts DEF TypeOK
    <3>. QED  BY <1>0, <2>5, <3>2 DEF TypeOK
  <2>6. ASSUME jobs_current' = [jobs_current EXCEPT ![j] = Requeued(@, FALSE)]
        PROVE  /\ jobs_current'[j].status # "running"
               /\ \A i \in Jobs \ {j} : jobs_current'[i] = jobs_current[i]
    <3>1. Requeued(jobs_current[j], FALSE).status = "pending"
      BY <1>0, RequeuedFacts DEF TypeOK
    <3>. QED  BY <1>0, <2>6, <3>1 DEF TypeOK
  <2>. QED  BY <1>0, <1>7, <2>1, <2>2, <2>3, <2>4, <2>5, <2>6, ClaimCallFacts
<1>8. CASE ReclaimExpiredLeases
  <2>1. \A j \in Jobs : Requeued(jobs_current[j], TRUE).status = "pending"
    BY <1>0, RequeuedFacts DEF TypeOK
  <2>2. PICK E : E = ExpiredLeases
    OBVIOUS
  <2>3. /\ jobs_current' = [j \in Jobs |->
             IF j \in E THEN Requeued(jobs_current[j], TRUE) ELSE jobs_current[j]]
        /\ job_attempts' = [j \in Jobs |-> [v \in Versions |->
             IF j \in E /\ jobs_current[j].claim_version = v /\ job_attempts[j][v] = "running"
             THEN "lease_lost" ELSE job_attempts[j][v]]]
    BY <1>8, <2>2 DEF ReclaimExpiredLeases
  <2>4. \A j \in Jobs : \A v \in Versions :
          job_attempts'[j][v] =
            IF j \in E /\ jobs_current[j].claim_version = v /\ job_attempts[j][v] = "running"
            THEN "lease_lost" ELSE job_attempts[j][v]
    BY <2>3
  <2>5. \A j \in Jobs : \/ j \in E /\ jobs_current'[j].status = "pending"
                        \/ j \notin E /\ jobs_current'[j] = jobs_current[j]
    BY <2>1, <2>3
  <2>. QED  BY <2>4, <2>5 DEF AttemptsMatchRows
<1>9. CASE CleanupTerminal
  <2>1. \A j \in Jobs : \/ jobs_current'[j] = jobs_current[j]
                        \/ /\ jobs_current[j].status # "running"
                           /\ jobs_current'[j].status = "none"
    BY <1>9, NoRowFacts DEF CleanupTerminal, InStatus, Terminal
  <2>. QED  BY <1>0, <1>9, <2>1, AttemptsKept DEF CleanupTerminal
<1>10. CASE UNCHANGED vars
  BY <1>0, <1>10, AttemptsKept DEF vars
<1>. QED
  BY <1>1, <1>2, <1>3, <1>4, <1>5, <1>6, <1>7, <1>8, <1>9, <1>10 DEF Next

\* An attempt is open exactly while its row runs at that claim_version, so no
\* reclaimed claim is ever still open.
THEOREM AttemptsCorrect == Spec => []AttemptsMatchRows
<1>1. ClaimInv /\ [Next]_vars => TypeOK'
  BY ClaimInvStep DEF ClaimInv
<1>. QED
  BY <1>1, ClaimInvInit, ClaimInvStep, AttemptsInit, AttemptsStep, PTL DEF Spec

-----------------------------------------------------------------------------
(* The history is append-only. *)

\* Outside the commit, the calls on a claim and the sweep, no attempt changes.
LEMMA AttemptsUntouched ==
  ASSUME ClaimInv, [Next]_vars,
         ~ReclaimExpiredLeases,
         ~\E w \in Workers : ClaimCommit(w),
         ~\E j \in Jobs, v \in Versions : ClaimCall(j, v)
  PROVE  job_attempts' = job_attempts
<1>1. ASSUME NEW j \in Jobs, Enqueue(j) \/ TimePasses(j) PROVE job_attempts' = job_attempts
  BY <1>1 DEF Enqueue, TimePasses, BackoffElapses, LeaseExpires
<1>2. ASSUME NEW c \in Clients, EnqueueFamily(c) PROVE job_attempts' = job_attempts
  BY <1>2, EnqueueFacts DEF ClaimInv
<1>3. ASSUME NEW w \in Workers, ClaimScan(w) \/ ClaimEnd(w) \/ ClaimAbort(w)
      PROVE  job_attempts' = job_attempts
  BY <1>3 DEF ClaimScan, ClaimEnd, ClaimAbort
<1>4. ASSUME NEW w \in Workers, NEW j \in Jobs, ClaimTry(w, j)
      PROVE  job_attempts' = job_attempts
  BY <1>4 DEF ClaimTry, ClaimSkipLocked, ClaimSkipFull, ClaimChoose
<1>5. CASE CleanupTerminal
  BY <1>5 DEF CleanupTerminal
<1>6. CASE UNCHANGED vars
  BY <1>6 DEF vars
<1>. QED  BY <1>1, <1>2, <1>3, <1>4, <1>5, <1>6 DEF Next

\* The outcome of an attempt that ended never changes.
THEOREM HistoryCorrect == Spec => HistoryIsFinal
<1> DEFINE Final == \A j \in Jobs : \A v \in Versions :
                      job_attempts[j][v] \notin {"none", "running"} =>
                        job_attempts'[j][v] = job_attempts[j][v]
<1>1. ClaimInv /\ [Next]_vars => Final
  <2> SUFFICES ASSUME ClaimInv, [Next]_vars PROVE Final
    OBVIOUS
  <2>0. TypeOK
    BY DEF ClaimInv
  <2>1. ASSUME NEW w \in Workers, ClaimCommit(w) PROVE Final
    <3>1. PICK j \in Jobs :
            /\ ~Claimed(j, jobs_current[j].claim_version + 1)
            /\ job_attempts' = [job_attempts EXCEPT
                                  ![j][jobs_current[j].claim_version + 1] = "running"]
      BY <2>1, CommitFacts
    <3>2. PICK u : u = jobs_current[j].claim_version + 1
      OBVIOUS
    <3>. QED  BY <2>0, <3>1, <3>2 DEF TypeOK, Claimed
  <2>2. ASSUME NEW j \in Jobs, NEW v \in Versions, ClaimCall(j, v) PROVE Final
    <3>1. \/ job_attempts' = job_attempts
          \/ \E outcome : MarkAttempt(j, v, outcome)
      BY <2>0, <2>2, ClaimCallFacts DEF StaleCall
    <3>. QED  BY <2>0, <3>1 DEF MarkAttempt, TypeOK
  <2>3. CASE ReclaimExpiredLeases
    <3>1. PICK E : E = ExpiredLeases
      OBVIOUS
    <3>. QED  BY <2>3, <3>1 DEF ReclaimExpiredLeases
  <2>. QED  BY <2>1, <2>2, <2>3, AttemptsUntouched
<1>. QED
  BY <1>1, ClaimInvInit, ClaimInvStep, PTL DEF Spec, HistoryIsFinal

-----------------------------------------------------------------------------
(* A terminal row is final. *)

\* A step writes a row that is over only to remove it.
LEMMA TerminalStep ==
  ASSUME ClaimInv, [Next]_vars, NEW t \in Jobs, jobs_current[t].status \in Terminal
  PROVE  jobs_current'[t] \in {jobs_current[t], NoRow}
<1>0. TypeOK /\ jobs_current \in [Jobs -> Row]
  BY DEF ClaimInv, TypeOK
<1>1. jobs_current[t].status \notin {"none", "pending", "running"}
  BY DEF Terminal
<1>a. ASSUME NEW j, NEW row, jobs_current' = [jobs_current EXCEPT ![j] = row], j # t
      PROVE  jobs_current'[t] = jobs_current[t]
  BY <1>0, <1>a
<1>2. ASSUME NEW j \in Jobs, Enqueue(j) \/ TimePasses(j)
      PROVE  jobs_current'[t] = jobs_current[t]
  BY <1>1, <1>2, <1>a DEF Enqueue, TimePasses, BackoffElapses, LeaseExpires
<1>3. ASSUME NEW c \in Clients, EnqueueFamily(c) PROVE jobs_current'[t] = jobs_current[t]
  <2>1. Active \subseteq {"pending", "running"}
    BY DEF Active
  <2>2. ASSUME NEW a, NEW r \in Reasons, a \in Jobs => jobs_current[a].status \in Active,
               jobs_current' = [jobs_current EXCEPT ![a] = CoalescedInto(@, r)]
        PROVE  jobs_current'[t] = jobs_current[t]
    BY <1>1, <1>a, <2>1, <2>2
  <2>3. ASSUME NEW j, NEW reasons \in SUBSET Reasons, jobs_current[j].status = "none",
               jobs_current' = [jobs_current EXCEPT ![j] = NewRow(TRUE, reasons)]
        PROVE  jobs_current'[t] = jobs_current[t]
    BY <1>1, <1>a, <2>3
  <2>. QED  BY <1>0, <1>3, <2>2, <2>3, EnqueueFacts
<1>4. ASSUME NEW w \in Workers, ClaimScan(w) \/ ClaimEnd(w) \/ ClaimAbort(w)
      PROVE  jobs_current'[t] = jobs_current[t]
  BY <1>4 DEF ClaimScan, ClaimEnd, ClaimAbort
<1>5. ASSUME NEW w \in Workers, NEW j \in Jobs, ClaimTry(w, j)
      PROVE  jobs_current'[t] = jobs_current[t]
  BY <1>5 DEF ClaimTry, ClaimSkipLocked, ClaimSkipFull, ClaimChoose
<1>6. ASSUME NEW w \in Workers, ClaimCommit(w) PROVE jobs_current'[t] = jobs_current[t]
  <2>1. PICK j \in Jobs : /\ jobs_current[j].status = "pending"
                          /\ jobs_current' = [jobs_current EXCEPT ![j] = Started(@)]
    BY <1>6, CommitFacts
  <2>. QED  BY <1>1, <1>a, <2>1
<1>7. ASSUME NEW j \in Jobs, NEW v \in Versions, ClaimCall(j, v)
      PROVE  jobs_current'[t] = jobs_current[t]
  <2>1. CASE StaleCall(j, v)
    BY <2>1 DEF StaleCall
  <2>2. CASE ~StaleCall(j, v)
    <3>1. j # t
      BY <1>0, <1>1, <1>7, <2>2, ClaimCallFacts DEF Holds
    <3>2. \/ \E row : jobs_current' = [jobs_current EXCEPT ![j] = row]
          \/ \E k \in Jobs :
               /\ jobs_current[k].status = "none"
               /\ jobs_current' = [jobs_current EXCEPT
                    ![j] = Ended(@, "succeeded"),
                    ![k] = NewRow(TRUE, jobs_current[j].reasons)]
      <4>. HIDE DEF TypeOK
      <4>. QED  BY <1>0, <1>7, <2>2, ClaimCallFacts
    <3>3. ASSUME NEW k \in Jobs, jobs_current[k].status = "none",
                 jobs_current' = [jobs_current EXCEPT
                    ![j] = Ended(@, "succeeded"),
                    ![k] = NewRow(TRUE, jobs_current[j].reasons)]
          PROVE  jobs_current'[t] = jobs_current[t]
      BY <1>0, <1>1, <3>1, <3>3
    <3>. QED  BY <1>a, <3>1, <3>2, <3>3
  <2>. QED  BY <2>1, <2>2
<1>8. ASSUME ReclaimExpiredLeases PROVE jobs_current'[t] = jobs_current[t]
  BY <1>1, <1>8 DEF ReclaimExpiredLeases, ExpiredLeases, InStatus
<1>9. ASSUME CleanupTerminal PROVE jobs_current'[t] \in {jobs_current[t], NoRow}
  BY <1>9 DEF CleanupTerminal
<1>10. ASSUME UNCHANGED vars PROVE jobs_current'[t] = jobs_current[t]
  BY <1>10 DEF vars
<1>. QED
  BY <1>2, <1>3, <1>4, <1>5, <1>6, <1>7, <1>8, <1>9, <1>10 DEF Next

\* A row that is over is only ever removed: no late call of a worker, retry or
\* coalesced request is recorded in it.
THEOREM TerminalCorrect == Spec => TerminalIsFinal
<1>1. ClaimInv /\ [Next]_vars =>
        \A j \in Jobs : jobs_current[j].status \in Terminal =>
          jobs_current'[j] \in {jobs_current[j], NoRow}
  BY TerminalStep
<1>. QED
  BY <1>1, ClaimInvInit, ClaimInvStep, PTL DEF Spec, TerminalIsFinal

-----------------------------------------------------------------------------
(* One active row of a family. *)

\* No row becomes active.
LEMMA FamilyKept ==
  ASSUME OneActivePerFamily,
         \A j \in Jobs : jobs_current'[j].status \in Active => jobs_current[j].status \in Active
  PROVE  OneActivePerFamily'
BY DEF OneActivePerFamily, ActiveOf, InStatus

LEMMA FamilyStep ==
  ClaimInv /\ TypeOK' /\ OneActivePerFamily /\ [Next]_vars => OneActivePerFamily'
<1> SUFFICES ASSUME ClaimInv, TypeOK', OneActivePerFamily, [Next]_vars
             PROVE  OneActivePerFamily'
  OBVIOUS
<1>0. TypeOK
  BY DEF ClaimInv
<1>1. ASSUME NEW j \in Jobs, Enqueue(j) PROVE OneActivePerFamily'
  <2>1. Family[j] \notin Families /\ \A i \in Jobs \ {j} : jobs_current'[i] = jobs_current[i]
    BY <1>0, <1>1, JobsAssumption DEF Enqueue, TypeOK
  <2>. QED  BY <2>1 DEF OneActivePerFamily, ActiveOf, InStatus
<1>2. ASSUME NEW j \in Jobs, TimePasses(j) PROVE OneActivePerFamily'
  <2>1. WithLease(jobs_current[j], TRUE).status = jobs_current[j].status
    BY <1>0, WithLeaseFacts DEF TypeOK
  <2>. QED  BY <1>0, <1>2, <2>1, FamilyKept
            DEF TimePasses, BackoffElapses, LeaseExpires, TypeOK, Active
<1>3. ASSUME NEW c \in Clients, EnqueueFamily(c) PROVE OneActivePerFamily'
  <2>1. CASE jobs_current' = jobs_current
    BY <2>1, FamilyKept
  <2>2. ASSUME NEW a, NEW r \in Reasons,
               jobs_current' = [jobs_current EXCEPT ![a] = CoalescedInto(@, r)]
        PROVE  OneActivePerFamily'
    <3>1. \A j \in Jobs : CoalescedInto(jobs_current[j], r).status = jobs_current[j].status
      BY <1>0, CoalescedFacts DEF TypeOK
    <3>. QED  BY <1>0, <2>2, <3>1, FamilyKept DEF TypeOK
  <2>3. ASSUME NEW j, NEW reasons \in SUBSET Reasons, ActiveOf(Family[j]) = {},
               jobs_current' = [jobs_current EXCEPT ![j] = NewRow(TRUE, reasons)]
        PROVE  OneActivePerFamily'
    <3>1. \A i \in Jobs \ {j} : jobs_current'[i] = jobs_current[i]
      BY <1>0, <2>3 DEF TypeOK
    <3>. QED  BY <2>3, <3>1 DEF OneActivePerFamily, ActiveOf, InStatus
  <2>. QED  BY <1>0, <1>3, <2>1, <2>2, <2>3, EnqueueFacts
<1>4. ASSUME NEW w \in Workers, ClaimScan(w) \/ ClaimEnd(w) \/ ClaimAbort(w)
      PROVE  OneActivePerFamily'
  BY <1>4, FamilyKept DEF ClaimScan, ClaimEnd, ClaimAbort
<1>5. ASSUME NEW w \in Workers, NEW j \in Jobs, ClaimTry(w, j) PROVE OneActivePerFamily'
  BY <1>5, FamilyKept DEF ClaimTry, ClaimSkipLocked, ClaimSkipFull, ClaimChoose
<1>6. ASSUME NEW w \in Workers, ClaimCommit(w) PROVE OneActivePerFamily'
  <2>1. PICK j \in Jobs : /\ jobs_current[j].status = "pending"
                          /\ jobs_current' = [jobs_current EXCEPT ![j] = Started(@)]
    BY <1>6, CommitFacts
  <2>. QED  BY <1>0, <2>1, FamilyKept DEF TypeOK, Active
<1>7. ASSUME NEW j \in Jobs, NEW v \in Versions, ClaimCall(j, v) PROVE OneActivePerFamily'
  <2>1. CASE StaleCall(j, v)
    BY <2>1, FamilyKept DEF StaleCall
  <2>2. ASSUME NEW k \in Jobs, k # j, Family[k] = Family[j], jobs_current[j].status = "running",
               jobs_current' = [jobs_current EXCEPT
                                  ![j] = Ended(@, "succeeded"),
                                  ![k] = NewRow(TRUE, jobs_current[j].reasons)]
        PROVE  OneActivePerFamily'
    <3>1. "succeeded" \in Statuses
      BY DEF Statuses, Terminal
    <3>2. Ended(jobs_current[j], "succeeded").status = "succeeded"
      BY <1>0, <3>1, EndedFacts DEF TypeOK
    <3>3. /\ jobs_current'[j].status \notin Active
          /\ \A i \in Jobs \ {j, k} : jobs_current'[i] = jobs_current[i]
      BY <1>0, <2>2, <3>2 DEF TypeOK, Active
    <3>4. ASSUME NEW f \in Families, NEW i \in ActiveOf(f)', NEW h \in ActiveOf(f)'
          PROVE  i = h
      <4>1. \A x \in ActiveOf(f)' : x = k \/ (x # j /\ x \in ActiveOf(f))
        BY <3>3 DEF ActiveOf, InStatus
      <4>2. \A x, y \in ActiveOf(f) : x = y
        BY DEF OneActivePerFamily
      <4>3. f = Family[j] => j \in ActiveOf(f)
        BY <2>2 DEF ActiveOf, InStatus, Active
      <4>4. k \in ActiveOf(f)' => f = Family[j]
        BY <2>2 DEF ActiveOf
      <4>. QED  BY <4>1, <4>2, <4>3, <4>4
    <3>. QED  BY <3>4 DEF OneActivePerFamily
  <2>3. ASSUME jobs_current[j].status = "running",
               \A i \in Jobs \ {j} : jobs_current'[i] = jobs_current[i]
        PROVE  OneActivePerFamily'
    BY <2>3, FamilyKept DEF Active
  <2>4. CASE ~StaleCall(j, v)
    <3>1. jobs_current[j].status = "running"
      BY <1>0, <1>7, <2>4, ClaimCallFacts DEF Holds
    <3>2. \/ \E row : jobs_current' = [jobs_current EXCEPT ![j] = row]
          \/ \E k \in Jobs :
               /\ k # j
               /\ Family[k] = Family[j]
               /\ jobs_current' = [jobs_current EXCEPT
                    ![j] = Ended(@, "succeeded"),
                    ![k] = NewRow(TRUE, jobs_current[j].reasons)]
      <4>. HIDE DEF TypeOK
      <4>. QED  BY <1>0, <1>7, <2>4, ClaimCallFacts
    <3>3. CASE \E row : jobs_current' = [jobs_current EXCEPT ![j] = row]
      <4>1. \A i \in Jobs \ {j} : jobs_current'[i] = jobs_current[i]
        BY <1>0, <3>3 DEF TypeOK
      <4>. QED  BY <2>3, <3>1, <4>1
    <3>4. CASE \E k \in Jobs :
               /\ k # j
               /\ Family[k] = Family[j]
               /\ jobs_current' = [jobs_current EXCEPT
                    ![j] = Ended(@, "succeeded"),
                    ![k] = NewRow(TRUE, jobs_current[j].reasons)]
      BY <2>2, <3>1, <3>4
    <3>. QED  BY <3>2, <3>3, <3>4
  <2>. QED  BY <2>1, <2>4
<1>8. CASE ReclaimExpiredLeases
  <2>1. \A i \in Jobs : \/ jobs_current'[i] = jobs_current[i]
                        \/ jobs_current[i].status = "running"
    BY <1>8 DEF ReclaimExpiredLeases, ExpiredLeases, InStatus
  <2>. QED  BY <2>1, FamilyKept DEF Active
<1>9. CASE CleanupTerminal
  <2>1. \A i \in Jobs : \/ jobs_current'[i] = jobs_current[i]
                        \/ jobs_current'[i].status = "none"
    BY <1>9, NoRowFacts DEF CleanupTerminal
  <2>. QED  BY <2>1, FamilyKept DEF Active
<1>10. CASE UNCHANGED vars
  BY <1>10, FamilyKept DEF vars
<1>. QED
  BY <1>1, <1>2, <1>3, <1>4, <1>5, <1>6, <1>7, <1>8, <1>9, <1>10 DEF Next

\* A family never has two rows pending or running: the INSERT of a successor
\* never meets the unique index.
THEOREM FamilyCorrect == Spec => []OneActivePerFamily
<1>1. Init => OneActivePerFamily
  BY NoRowFacts DEF Init, OneActivePerFamily, ActiveOf, InStatus, Active
<1>2. ClaimInv /\ [Next]_vars => TypeOK'
  BY ClaimInvStep DEF ClaimInv
<1>. QED
  BY <1>1, <1>2, ClaimInvInit, ClaimInvStep, FamilyStep, PTL DEF Spec

-----------------------------------------------------------------------------
(***************************************************************************)
(* A job key succeeds once, whatever is reclaimed, cleaned up and enqueued *)
(* again.  The attempts of a key are numbered without a gap, and those of  *)
(* a row that was claimed end at its claim_version.  So a row with a       *)
(* success is over; when its key is enqueued again the row starts at       *)
(* claim_version 0, and the unique index on the attempts refuses its first *)
(* claim.                                                                  *)
(***************************************************************************)
NoGaps ==
  \A j \in Jobs : \A u, v \in Versions : u <= v /\ Claimed(j, v) => Claimed(j, u)

\* claim_version 0 is that of a row nobody has claimed.
CountsClaims ==
  \A j \in Jobs :
    /\ jobs_current[j].status = "running" => jobs_current[j].claim_version # 0
    /\ jobs_current[j].claim_version # 0 =>
         \A v \in Versions : Claimed(j, v) <=> v <= jobs_current[j].claim_version

\* Success, giving up and cancelling end the row with the attempt.
EndIsOver ==
  \A j \in Jobs : \A v \in Versions : job_attempts[j][v] \in Terminal =>
    jobs_current[j].status = job_attempts[j][v] \/ jobs_current[j].claim_version = 0

EndsOnce ==
  \A j \in Jobs : \A u, v \in Versions :
    job_attempts[j][u] \in Terminal /\ job_attempts[j][v] \in Terminal => u = v

SuccessInv == NoGaps /\ CountsClaims /\ EndIsOver /\ EndsOnce

-----------------------------------------------------------------------------
LEMMA FreshRowFacts ==
  ASSUME NEW due \in BOOLEAN, NEW reasons \in SUBSET Reasons
  PROVE  /\ NewRow(due, reasons).claim_version = 0
         /\ NoRow.claim_version = 0
BY Zenon DEF NewRow, NoRow

\* No attempt changes, and no row but those that are inserted or removed
\* changes what the fence reads.
LEMMA SuccessKept ==
  ASSUME SuccessInv, job_attempts' = job_attempts,
         \A j \in Jobs :
           \/ /\ jobs_current'[j].status = jobs_current[j].status
              /\ jobs_current'[j].claim_version = jobs_current[j].claim_version
           \/ /\ jobs_current'[j].status \in {"none", "pending"}
              /\ jobs_current'[j].claim_version = 0
           \/ /\ jobs_current[j].status = "pending" /\ jobs_current'[j].status = "pending"
              /\ jobs_current'[j].claim_version = jobs_current[j].claim_version
  PROVE  SuccessInv'
<1>1. NoGaps' /\ EndsOnce'
  BY DEF SuccessInv, NoGaps, EndsOnce, Claimed
<1>2. CountsClaims'
  BY DEF SuccessInv, CountsClaims, Claimed
<1>3. EndIsOver'
  BY DEF SuccessInv, EndIsOver, Terminal
<1>. QED  BY <1>1, <1>2, <1>3 DEF SuccessInv

\* The holder of a claim ends its attempt; with success it ends the row too.
LEMMA SuccessOfHolder ==
  ASSUME TypeOK, SuccessInv, NEW j \in Jobs, NEW v \in Versions, Holds(j, v),
         NEW outcome \in Outcomes \ {"none", "running"}, MarkAttempt(j, v, outcome),
         jobs_current'[j].status # "running",
         outcome \in Terminal => jobs_current'[j].status = outcome,
         jobs_current'[j].claim_version = jobs_current[j].claim_version,
         \A i \in Jobs \ {j} :
           \/ jobs_current'[i] = jobs_current[i]
           \/ /\ jobs_current'[i].status = "pending"
              /\ jobs_current'[i].claim_version = 0
  PROVE  SuccessInv'
<1>1. /\ \A u \in Versions \ {v} : job_attempts'[j][u] = job_attempts[j][u]
      /\ job_attempts'[j][v] \in {outcome, job_attempts[j][v]}
      /\ job_attempts'[j][v] = "none" <=> job_attempts[j][v] = "none"
      /\ \A i \in Jobs \ {j} : job_attempts'[i] = job_attempts[i]
  BY DEF MarkAttempt, TypeOK
<1>2. \A i \in Jobs : \A u \in Versions : Claimed(i, u)' <=> Claimed(i, u)
  BY <1>1 DEF Claimed
<1>3. \A u \in Versions : job_attempts[j][u] \notin Terminal
  BY DEF SuccessInv, EndIsOver, CountsClaims, Holds, Terminal
<1>4. NoGaps'
  BY <1>2 DEF SuccessInv, NoGaps
<1>5. CountsClaims'
  BY <1>2 DEF SuccessInv, CountsClaims
<1>6. EndIsOver'
  BY <1>1, <1>3 DEF SuccessInv, EndIsOver
<1>7. EndsOnce'
  BY <1>1, <1>3 DEF SuccessInv, EndsOnce
<1>. QED  BY <1>4, <1>5, <1>6, <1>7 DEF SuccessInv

\* What the calls on a claim leave, as SuccessOfHolder wants it.
LEMMA SuccessCall ==
  ASSUME TypeOK, AttemptsMatchRows, SuccessInv,
         NEW j \in Jobs, NEW v \in Versions, ClaimCall(j, v)
  PROVE  SuccessInv'
<1>0. /\ {"lease_lost", "succeeded", "failed_retry_scheduled",
          "failed_terminal", "cancelled"} \subseteq Outcomes \ {"none", "running"}
      /\ {"succeeded", "failed_terminal", "cancelled"} \subseteq Statuses
      /\ jobs_current[j] \in Row /\ jobs_current[j].reasons \in SUBSET Reasons
  BY DEF Outcomes, Statuses, Terminal, TypeOK, Row
<1>1. CASE StaleCall(j, v)
  <2>1. job_attempts' = job_attempts
    BY <1>1 DEF StaleCall, AttemptsMatchRows, MarkAttempt, TypeOK
  <2>. QED  BY <1>1, <2>1, SuccessKept DEF StaleCall
<1>2. CASE Heartbeat(j, v)
  <2>1. /\ WithLease(jobs_current[j], FALSE).status = jobs_current[j].status
        /\ WithLease(jobs_current[j], FALSE).claim_version = jobs_current[j].claim_version
    BY <1>0, WithLeaseFacts
  <2>. QED  BY <1>2, <2>1, SuccessKept DEF Heartbeat, TypeOK
<1>3. ASSUME Holds(j, v), NEW outcome \in Outcomes \ {"none", "running"},
             MarkAttempt(j, v, outcome), NEW status \in Statuses, status # "running",
             outcome \in Terminal => status = outcome,
             jobs_current' = [jobs_current EXCEPT ![j] = Ended(@, status)]
      PROVE  SuccessInv'
  <2>1. /\ Ended(jobs_current[j], status).status = status
        /\ Ended(jobs_current[j], status).claim_version = jobs_current[j].claim_version
    BY <1>0, EndedFacts
  <2>2. /\ jobs_current'[j].status = status
        /\ jobs_current'[j].claim_version = jobs_current[j].claim_version
        /\ \A i \in Jobs \ {j} : jobs_current'[i] = jobs_current[i]
    BY <1>3, <2>1 DEF TypeOK
  <2>. QED  BY <1>3, <2>2, SuccessOfHolder
<1>4. ASSUME NEW k \in FreshKeys(Family[j]), Holds(j, v),
             MarkAttempt(j, v, "succeeded"),
             jobs_current' = [jobs_current EXCEPT
                                ![j] = Ended(@, "succeeded"),
                                ![k] = NewRow(TRUE, jobs_current[j].reasons)]
      PROVE  SuccessInv'
  <2>1. /\ Ended(jobs_current[j], "succeeded").status = "succeeded"
        /\ Ended(jobs_current[j], "succeeded").claim_version = jobs_current[j].claim_version
        /\ NewRow(TRUE, jobs_current[j].reasons).status = "pending"
        /\ NewRow(TRUE, jobs_current[j].reasons).claim_version = 0
    BY <1>0, EndedFacts, NewRowFacts, FreshRowFacts
  <2>2. k \in Jobs /\ k # j
    BY <1>4 DEF FreshKeys, Holds
  <2>3. /\ jobs_current'[j].status = "succeeded"
        /\ jobs_current'[j].claim_version = jobs_current[j].claim_version
        /\ \A i \in Jobs \ {j} :
             \/ jobs_current'[i] = jobs_current[i]
             \/ jobs_current'[i].status = "pending" /\ jobs_current'[i].claim_version = 0
    BY <1>4, <2>1, <2>2 DEF TypeOK
  <2>. QED  BY <1>0, <1>4, <2>3, SuccessOfHolder
<1>5. CASE Complete(j, v)
  <2>1. /\ Holds(j, v) /\ MarkAttempt(j, v, "succeeded")
        /\ \/ jobs_current' = [jobs_current EXCEPT ![j] = Ended(@, "succeeded")]
           \/ \E k \in FreshKeys(Family[j]) :
                jobs_current' = [jobs_current EXCEPT
                                   ![j] = Ended(@, "succeeded"),
                                   ![k] = NewRow(TRUE, jobs_current[j].reasons)]
    BY <1>5 DEF Complete
  <2>. QED  BY <1>0, <1>3, <1>4, <2>1
<1>6. CASE Cancel(j, v)
  BY <1>0, <1>3, <1>6 DEF Cancel
<1>7. CASE Fail(j, v)
  <2>1. CASE MayRetry(j)
    <3>1. /\ Requeued(jobs_current[j], FALSE).status = "pending"
          /\ Requeued(jobs_current[j], FALSE).claim_version = jobs_current[j].claim_version
      BY <1>0, RequeuedFacts
    <3>2. /\ jobs_current'[j].status = "pending"
          /\ jobs_current'[j].claim_version = jobs_current[j].claim_version
          /\ \A i \in Jobs \ {j} : jobs_current'[i] = jobs_current[i]
      BY <1>7, <2>1, <3>1 DEF Fail, TypeOK
    <3>3. Holds(j, v) /\ MarkAttempt(j, v, "failed_retry_scheduled")
      BY <1>7, <2>1 DEF Fail
    <3>. QED  BY <1>0, <3>2, <3>3, SuccessOfHolder DEF Terminal
  <2>2. CASE ~MayRetry(j)
    BY <1>0, <1>3, <1>7, <2>2 DEF Fail
  <2>. QED  BY <2>1, <2>2
<1>. QED  BY <1>1, <1>2, <1>5, <1>6, <1>7 DEF ClaimCall

\* A claim begins the next attempt of a key that has no success.
LEMMA SuccessCommit ==
  ASSUME ClaimInv, SuccessInv, NEW w \in Workers, ClaimCommit(w)
  PROVE  SuccessInv'
<1>0. TypeOK
  BY DEF ClaimInv
<1>1. PICK j \in Jobs :
        /\ jobs_current[j].status = "pending"
        /\ ~Claimed(j, jobs_current[j].claim_version + 1)
        /\ jobs_current' = [jobs_current EXCEPT ![j] = Started(@)]
        /\ job_attempts' = [job_attempts EXCEPT
                              ![j][jobs_current[j].claim_version + 1] = "running"]
  BY CommitFacts
<1>2. PICK n : n = jobs_current[j].claim_version
  OBVIOUS
<1>3. n \in Nat
  BY <1>0, <1>2 DEF TypeOK, Row
<1>4. /\ jobs_current'[j].status = "running" /\ jobs_current'[j].claim_version = n + 1
      /\ \A i \in Jobs \ {j} : jobs_current'[i] = jobs_current[i]
  BY <1>0, <1>1, <1>2, StartedFacts DEF TypeOK
<1>5. /\ \A u \in Versions : job_attempts'[j][u] = IF u = n + 1 THEN "running" ELSE job_attempts[j][u]
      /\ \A i \in Jobs \ {j} : job_attempts'[i] = job_attempts[i]
  BY <1>0, <1>1, <1>2 DEF TypeOK
<1>6. \A u \in Versions : Claimed(j, u) <=> u <= n
  <2>1. CASE n # 0
    BY <1>2, <2>1 DEF SuccessInv, CountsClaims
  <2>2. CASE n = 0
    <3>1. ASSUME NEW u \in Versions PROVE ~Claimed(j, u)
      <4>1. 1 \in Versions /\ 1 <= u
        BY LimitsAssumption DEF Versions
      <4>. QED  BY <1>1, <1>2, <2>2, <4>1 DEF SuccessInv, NoGaps
    <3>. QED  BY <2>2, <3>1 DEF Versions
  <2>. QED  BY <2>1, <2>2
<1>7. \A u \in Versions : Claimed(j, u)' <=> u <= n + 1
  BY <1>3, <1>5, <1>6 DEF Claimed, Versions
<1>8. \A i \in Jobs \ {j} : \A u \in Versions : Claimed(i, u)' <=> Claimed(i, u)
  BY <1>5 DEF Claimed
<1>9. "running" \notin Terminal /\ \A u \in Versions : job_attempts[j][u] \notin Terminal
  <2>1. \A u \in Versions : job_attempts[j][u] \in Terminal => n = 0 /\ Claimed(j, u)
    BY <1>1, <1>2 DEF SuccessInv, EndIsOver, Claimed, Terminal
  <2>. QED  BY <1>6, <2>1 DEF Versions, Terminal
<1>10. NoGaps'
  <2>1. \A u, v \in Versions : u <= v /\ v <= n + 1 => u <= n + 1
    BY <1>3, LimitsAssumption DEF Versions
  <2>. QED  BY <1>7, <1>8, <2>1 DEF SuccessInv, NoGaps
<1>11. CountsClaims'
  BY <1>3, <1>4, <1>7, <1>8 DEF SuccessInv, CountsClaims
<1>12. EndIsOver'
  BY <1>4, <1>5, <1>9 DEF SuccessInv, EndIsOver
<1>13. EndsOnce'
  BY <1>5, <1>9 DEF SuccessInv, EndsOnce
<1>. QED  BY <1>10, <1>11, <1>12, <1>13 DEF SuccessInv

\* A reclaimed lease loses its attempt, and the row waits again.
LEMMA SuccessReclaim ==
  ASSUME TypeOK, SuccessInv, ReclaimExpiredLeases
  PROVE  SuccessInv'
<1>1. PICK E : E = ExpiredLeases
  OBVIOUS
<1>2. \A j \in Jobs : /\ Requeued(jobs_current[j], TRUE).status = "pending"
                      /\ Requeued(jobs_current[j], TRUE).claim_version
                           = jobs_current[j].claim_version
  BY RequeuedFacts DEF TypeOK
<1>3. \A j \in Jobs :
        /\ jobs_current'[j].claim_version = jobs_current[j].claim_version
        /\ \/ jobs_current'[j].status = jobs_current[j].status
           \/ jobs_current[j].status = "running" /\ jobs_current'[j].status = "pending"
  BY <1>2 DEF ReclaimExpiredLeases, ExpiredLeases, InStatus
<1>4. \A j \in Jobs : \A v \in Versions :
        job_attempts'[j][v] \in {job_attempts[j][v]}
          \cup (IF job_attempts[j][v] = "running" THEN {"lease_lost"} ELSE {})
  BY <1>1 DEF ReclaimExpiredLeases
<1>5. \A j \in Jobs : \A v \in Versions :
        /\ Claimed(j, v)' <=> Claimed(j, v)
        /\ job_attempts'[j][v] \in Terminal <=> job_attempts[j][v] \in Terminal
        /\ job_attempts[j][v] \in Terminal => job_attempts'[j][v] = job_attempts[j][v]
  BY <1>4 DEF Claimed, Terminal
<1>6. NoGaps' /\ EndsOnce'
  BY <1>5 DEF SuccessInv, NoGaps, EndsOnce
<1>7. CountsClaims'
  BY <1>3, <1>5 DEF SuccessInv, CountsClaims
<1>8. EndIsOver'
  BY <1>3, <1>5 DEF SuccessInv, EndIsOver, Terminal
<1>. QED  BY <1>6, <1>7, <1>8 DEF SuccessInv

-----------------------------------------------------------------------------
LEMMA SuccessInit == Init => SuccessInv
<1>1. NoRow.claim_version = 0 /\ NoRow.status = "none"
  BY FreshRowFacts, NoRowFacts
<1>. QED  BY <1>1 DEF Init, SuccessInv, NoGaps, CountsClaims, EndIsOver, EndsOnce, Claimed, Terminal

LEMMA SuccessStep ==
  ClaimInv /\ AttemptsMatchRows /\ SuccessInv /\ [Next]_vars => SuccessInv'
<1> SUFFICES ASSUME ClaimInv, AttemptsMatchRows, SuccessInv, [Next]_vars
             PROVE  SuccessInv'
  OBVIOUS
<1>0. TypeOK
  BY DEF ClaimInv
<1>1. ASSUME NEW j \in Jobs, Enqueue(j) PROVE SuccessInv'
  <2>1. \A due \in BOOLEAN : /\ NewRow(due, {}).status = "pending"
                             /\ NewRow(due, {}).claim_version = 0
    BY NewRowFacts, FreshRowFacts
  <2>. QED  BY <1>0, <1>1, <2>1, SuccessKept DEF Enqueue, TypeOK
<1>2. ASSUME NEW j \in Jobs, TimePasses(j) PROVE SuccessInv'
  <2>1. /\ Requeued(jobs_current[j], TRUE).status = "pending"
        /\ Requeued(jobs_current[j], TRUE).claim_version = jobs_current[j].claim_version
        /\ WithLease(jobs_current[j], TRUE).status = jobs_current[j].status
        /\ WithLease(jobs_current[j], TRUE).claim_version = jobs_current[j].claim_version
    BY <1>0, RequeuedFacts, WithLeaseFacts DEF TypeOK
  <2>. QED  BY <1>0, <1>2, <2>1, SuccessKept DEF TimePasses, BackoffElapses, LeaseExpires, TypeOK
<1>3. ASSUME NEW c \in Clients, EnqueueFamily(c) PROVE SuccessInv'
  <2>1. job_attempts' = job_attempts
    BY <1>0, <1>3, EnqueueFacts
  <2>2. CASE jobs_current' = jobs_current
    BY <2>1, <2>2, SuccessKept
  <2>3. ASSUME NEW a, NEW r \in Reasons,
               jobs_current' = [jobs_current EXCEPT ![a] = CoalescedInto(@, r)]
        PROVE  SuccessInv'
    <3>1. \A j \in Jobs : /\ CoalescedInto(jobs_current[j], r).status = jobs_current[j].status
                          /\ CoalescedInto(jobs_current[j], r).claim_version
                               = jobs_current[j].claim_version
      BY <1>0, CoalescedFacts DEF TypeOK
    <3>. QED  BY <1>0, <2>1, <2>3, <3>1, SuccessKept DEF TypeOK
  <2>4. ASSUME NEW j, NEW reasons \in SUBSET Reasons,
               jobs_current' = [jobs_current EXCEPT ![j] = NewRow(TRUE, reasons)]
        PROVE  SuccessInv'
    <3>1. NewRow(TRUE, reasons).status = "pending" /\ NewRow(TRUE, reasons).claim_version = 0
      BY NewRowFacts, FreshRowFacts
    <3>. QED  BY <1>0, <2>1, <2>4, <3>1, SuccessKept DEF TypeOK
  <2>. QED  BY <1>0, <1>3, <2>2, <2>3, <2>4, EnqueueFacts
<1>4. ASSUME NEW w \in Workers, ClaimScan(w) \/ ClaimEnd(w) \/ ClaimAbort(w)
      PROVE  SuccessInv'
  BY <1>4, SuccessKept DEF ClaimScan, ClaimEnd, ClaimAbort
<1>5. ASSUME NEW w \in Workers, NEW j \in Jobs, ClaimTry(w, j) PROVE SuccessInv'
  BY <1>5, SuccessKept DEF ClaimTry, ClaimSkipLocked, ClaimSkipFull, ClaimChoose
<1>6. ASSUME NEW w \in Workers, ClaimCommit(w) PROVE SuccessInv'
  BY <1>6, SuccessCommit
<1>7. ASSUME NEW j \in Jobs, NEW v \in Versions, ClaimCall(j, v) PROVE SuccessInv'
  BY <1>0, <1>7, SuccessCall
<1>8. CASE ReclaimExpiredLeases
  BY <1>0, <1>8, SuccessReclaim
<1>9. CASE CleanupTerminal
  <2>1. NoRow.claim_version = 0 /\ NoRow.status = "none"
    BY FreshRowFacts, NoRowFacts
  <2>. QED  BY <1>9, <2>1, SuccessKept DEF CleanupTerminal
<1>10. CASE UNCHANGED vars
  BY <1>10, SuccessKept DEF vars
<1>. QED
  BY <1>1, <1>2, <1>3, <1>4, <1>5, <1>6, <1>7, <1>8, <1>9, <1>10 DEF Next

\* No job key ever succeeds twice, though a terminal row is cleaned up and
\* its key enqueued again, and a reclaimed claim comes back late.
THEOREM SuccessCorrect == Spec => []OneSuccessPerKey
<1>1. ClaimInv /\ [Next]_vars => TypeOK'
  BY ClaimInvStep DEF ClaimInv
<1>2. SuccessInv => OneSuccessPerKey
  BY DEF SuccessInv, EndsOnce, OneSuccessPerKey, Terminal
<1>. QED
  BY <1>1, <1>2, ClaimInvInit, ClaimInvStep, AttemptsInit, AttemptsStep,
     SuccessInit, SuccessStep, PTL DEF Spec

-----------------------------------------------------------------------------
(***************************************************************************)
(* fail spends at most max_attempts attempts of a key.  A claim counts     *)
(* itself in claim_version and in attempt_count, and no other statement    *)
(* writes either but to start a row afresh, so the two agree and the       *)
(* retries that fail schedules are of versions below max_attempts; the     *)
(* attempt that gives up is one, since a key ends once.                    *)
(***************************************************************************)
Even(row) == row.attempt_count = row.claim_version

CountsAgree == \A j \in Jobs : Even(jobs_current[j])

FailuresPlaced ==
  \A j \in Jobs : \A v \in Versions :
    /\ job_attempts[j][v] = "failed_retry_scheduled" => v < MaxAttempts[j]
    /\ job_attempts[j][v] = "failed_terminal" => v >= MaxAttempts[j]

FailureInv == CountsAgree /\ FailuresPlaced

-----------------------------------------------------------------------------
LEMMA NewRowsEven ==
  ASSUME NEW due \in BOOLEAN, NEW reasons \in SUBSET Reasons
  PROVE  Even(NewRow(due, reasons)) /\ Even(NoRow)
BY Zenon DEF Even, NewRow, NoRow

LEMMA StartedEven ==
  ASSUME NEW row \in Row, Even(row)
  PROVE  Even(Started(row))
BY DEF Even, Started, Row

LEMMA UpdatesEven ==
  ASSUME NEW row \in Row, Even(row), NEW b \in BOOLEAN, NEW status
  PROVE  /\ Even(Ended(row, status))
         /\ Even(Requeued(row, b))
         /\ Even(WithLease(row, b))
BY Zenon DEF Even, Ended, Requeued, WithLease, Row

LEMMA CoalescedEven ==
  ASSUME NEW row \in Row, Even(row), NEW r
  PROVE  Even(CoalescedInto(row, r))
BY Zenon DEF Even, CoalescedInto, Row

\* Every step writes rows that count their claims twice alike.
LEMMA CountsStep ==
  ClaimInv /\ CountsAgree /\ [Next]_vars => CountsAgree'
<1> SUFFICES ASSUME ClaimInv, CountsAgree, [Next]_vars PROVE CountsAgree'
  OBVIOUS
<1>0. TypeOK /\ jobs_current \in [Jobs -> Row] /\ \A j \in Jobs : jobs_current[j] \in Row
  BY DEF ClaimInv, TypeOK
<1>a. ASSUME \A j \in Jobs : jobs_current'[j] = jobs_current[j] \/ Even(jobs_current'[j])
      PROVE  CountsAgree'
  <2>1. \A j \in Jobs : Even(jobs_current[j])'
    BY <1>a DEF CountsAgree, Even
  <2>. QED  BY <2>1 DEF CountsAgree
<1>b. ASSUME NEW j, NEW row, j \in Jobs => Even(row),
             jobs_current' = [jobs_current EXCEPT ![j] = row]
      PROVE  CountsAgree'
  BY <1>0, <1>a, <1>b
<1>c. \A j \in Jobs : Even(jobs_current[j])
  BY DEF CountsAgree
<1>1. ASSUME NEW j \in Jobs, Enqueue(j) PROVE CountsAgree'
  <2>1. \A due \in BOOLEAN : Even(NewRow(due, {}))
    BY NewRowsEven
  <2>. QED  BY <1>1, <1>b, <2>1 DEF Enqueue
<1>2. ASSUME NEW j \in Jobs, TimePasses(j) PROVE CountsAgree'
  <2>1. Even(Requeued(jobs_current[j], TRUE)) /\ Even(WithLease(jobs_current[j], TRUE))
    BY <1>0, <1>c, UpdatesEven
  <2>. QED  BY <1>2, <1>b, <2>1 DEF TimePasses, BackoffElapses, LeaseExpires
<1>3. ASSUME NEW c \in Clients, EnqueueFamily(c) PROVE CountsAgree'
  <2>1. CASE jobs_current' = jobs_current
    BY <1>a, <2>1
  <2>2. ASSUME NEW a, NEW r \in Reasons,
               jobs_current' = [jobs_current EXCEPT ![a] = CoalescedInto(@, r)]
        PROVE  CountsAgree'
    <3>1. \A j \in Jobs : Even(CoalescedInto(jobs_current[j], r))
      BY <1>0, <1>c, CoalescedEven
    <3>. QED  BY <1>b, <2>2, <3>1
  <2>3. ASSUME NEW j, NEW reasons \in SUBSET Reasons,
               jobs_current' = [jobs_current EXCEPT ![j] = NewRow(TRUE, reasons)]
        PROVE  CountsAgree'
    BY <1>b, <2>3, NewRowsEven
  <2>. QED  BY <1>0, <1>3, <2>1, <2>2, <2>3, EnqueueFacts
<1>4. ASSUME NEW w \in Workers, ClaimScan(w) \/ ClaimEnd(w) \/ ClaimAbort(w)
      PROVE  CountsAgree'
  BY <1>4, <1>a DEF ClaimScan, ClaimEnd, ClaimAbort
<1>5. ASSUME NEW w \in Workers, NEW j \in Jobs, ClaimTry(w, j) PROVE CountsAgree'
  BY <1>5, <1>a DEF ClaimTry, ClaimSkipLocked, ClaimSkipFull, ClaimChoose
<1>6. ASSUME NEW w \in Workers, ClaimCommit(w) PROVE CountsAgree'
  <2>1. PICK j \in Jobs : jobs_current' = [jobs_current EXCEPT ![j] = Started(@)]
    BY <1>6, CommitFacts
  <2>2. Even(Started(jobs_current[j]))
    BY <1>0, <1>c, StartedEven
  <2>. QED  BY <1>b, <2>1, <2>2
<1>7. ASSUME NEW j \in Jobs, NEW v \in Versions, ClaimCall(j, v) PROVE CountsAgree'
  <2>1. /\ \A status : Even(Ended(jobs_current[j], status))
        /\ Even(Requeued(jobs_current[j], FALSE))
        /\ Even(WithLease(jobs_current[j], FALSE))
        /\ Even(NewRow(TRUE, jobs_current[j].reasons))
    <3>1. jobs_current[j].reasons \in SUBSET Reasons
      BY <1>0 DEF Row
    <3>. QED  BY <1>0, <1>c, <3>1, UpdatesEven, NewRowsEven
  <2>2. CASE StaleCall(j, v)
    BY <1>a, <2>2 DEF StaleCall
  <2>3. CASE Heartbeat(j, v)
    BY <1>b, <2>1, <2>3 DEF Heartbeat
  <2>4. CASE Complete(j, v)
    <3>1. ASSUME NEW k \in FreshKeys(Family[j]),
                 jobs_current' = [jobs_current EXCEPT
                                    ![j] = Ended(@, "succeeded"),
                                    ![k] = NewRow(TRUE, jobs_current[j].reasons)]
          PROVE  CountsAgree'
      <4>1. \A i \in Jobs : jobs_current'[i] \in {jobs_current[i], Ended(jobs_current[j], "succeeded"),
                                                   NewRow(TRUE, jobs_current[j].reasons)}
        BY <1>0, <3>1
      <4>. QED  BY <1>a, <2>1, <4>1
    <3>. QED  BY <1>b, <2>1, <2>4, <3>1 DEF Complete
  <2>5. CASE Fail(j, v) \/ Cancel(j, v)
    BY <1>b, <2>1, <2>5 DEF Fail, Cancel
  <2>. QED  BY <1>7, <2>2, <2>3, <2>4, <2>5 DEF ClaimCall
<1>8. CASE ReclaimExpiredLeases
  <2>1. \A j \in Jobs : Even(Requeued(jobs_current[j], TRUE))
    BY <1>0, <1>c, UpdatesEven
  <2>. QED  BY <1>8, <1>a, <2>1 DEF ReclaimExpiredLeases
<1>9. CASE CleanupTerminal
  <2>1. Even(NoRow)
    BY NewRowsEven
  <2>. QED  BY <1>9, <1>a, <2>1 DEF CleanupTerminal
<1>10. CASE UNCHANGED vars
  BY <1>10, <1>a DEF vars
<1>. QED
  BY <1>1, <1>2, <1>3, <1>4, <1>5, <1>6, <1>7, <1>8, <1>9, <1>10 DEF Next

-----------------------------------------------------------------------------
\* No attempt becomes a failure.
LEMMA FailuresKept ==
  ASSUME FailuresPlaced,
         \A j \in Jobs : \A v \in Versions :
           \/ job_attempts'[j][v] = job_attempts[j][v]
           \/ job_attempts'[j][v] \notin FailureOutcomes
  PROVE  FailuresPlaced'
BY DEF FailuresPlaced, FailureOutcomes

\* Only fail writes a failure: to the version the row counts, and by the test
\* of attempt_count against max_attempts.
LEMMA FailuresCall ==
  ASSUME TypeOK, FailureInv, NEW j \in Jobs, NEW v \in Versions, ClaimCall(j, v)
  PROVE  FailuresPlaced'
<1>1. FailuresPlaced
  BY DEF FailureInv
<1>2. ASSUME NEW outcome, MarkAttempt(j, v, outcome), outcome \notin FailureOutcomes
      PROVE  FailuresPlaced'
  BY <1>1, <1>2, FailuresKept DEF MarkAttempt, TypeOK
<1>3. CASE Fail(j, v)
  <2>1. jobs_current[j].attempt_count = v /\ v \in Nat /\ MaxAttempts[j] \in Nat
    BY <1>3, LimitsAssumption DEF Fail, Holds, FailureInv, CountsAgree, Even, Versions
  <2>2. PICK outcome : /\ MarkAttempt(j, v, outcome)
                       /\ outcome = IF MayRetry(j) THEN "failed_retry_scheduled"
                                                   ELSE "failed_terminal"
    BY <1>3 DEF Fail
  <2>3. /\ outcome = "failed_retry_scheduled" => v < MaxAttempts[j]
        /\ outcome = "failed_terminal" => v >= MaxAttempts[j]
    BY <2>1, <2>2 DEF MayRetry
  <2>4. \A i \in Jobs : \A u \in Versions :
          \/ job_attempts'[i][u] = job_attempts[i][u]
          \/ i = j /\ u = v /\ job_attempts'[i][u] = outcome
    BY <2>2 DEF MarkAttempt, TypeOK
  <2>. QED  BY <1>1, <2>3, <2>4 DEF FailuresPlaced
<1>4. CASE StaleCall(j, v)
  BY <1>2, <1>4 DEF StaleCall, FailureOutcomes
<1>5. CASE Heartbeat(j, v)
  BY <1>1, <1>5, FailuresKept DEF Heartbeat
<1>6. CASE Complete(j, v) \/ Cancel(j, v)
  BY <1>2, <1>6 DEF Complete, Cancel, FailureOutcomes
<1>. QED  BY <1>3, <1>4, <1>5, <1>6 DEF ClaimCall

LEMMA FailureStep ==
  ClaimInv /\ FailureInv /\ [Next]_vars => FailureInv'
<1> SUFFICES ASSUME ClaimInv, FailureInv, [Next]_vars PROVE FailureInv'
  OBVIOUS
<1>0. TypeOK /\ CountsAgree /\ FailuresPlaced
  BY DEF ClaimInv, FailureInv
<1>1. CountsAgree'
  BY <1>0, CountsStep
<1>2. ASSUME NEW w \in Workers, ClaimCommit(w) PROVE FailuresPlaced'
  <2>1. PICK j \in Jobs :
          job_attempts' = [job_attempts EXCEPT
                             ![j][jobs_current[j].claim_version + 1] = "running"]
    BY <1>2, CommitFacts
  <2>2. PICK n : n = jobs_current[j].claim_version + 1
    OBVIOUS
  <2>3. \A i \in Jobs : \A u \in Versions :
          job_attempts'[i][u] \in {job_attempts[i][u], "running"}
    BY <1>0, <2>1, <2>2 DEF TypeOK
  <2>. QED  BY <1>0, <2>3, FailuresKept DEF FailureOutcomes
<1>3. ASSUME NEW j \in Jobs, NEW v \in Versions, ClaimCall(j, v) PROVE FailuresPlaced'
  BY <1>0, <1>3, FailuresCall
<1>4. ASSUME ReclaimExpiredLeases PROVE FailuresPlaced'
  <2>1. PICK E : E = ExpiredLeases
    OBVIOUS
  <2>2. \A i \in Jobs : \A u \in Versions :
          job_attempts'[i][u] \in {job_attempts[i][u], "lease_lost"}
    BY <1>4, <2>1 DEF ReclaimExpiredLeases
  <2>. QED  BY <1>0, <2>2, FailuresKept DEF FailureOutcomes
<1>5. ASSUME job_attempts' = job_attempts PROVE FailuresPlaced'
  BY <1>0, <1>5, FailuresKept
<1>. QED  BY <1>1, <1>2, <1>3, <1>4, <1>5, AttemptsUntouched DEF FailureInv

\* The failures of a key are among the versions below max_attempts and the
\* one that gave up.
LEMMA FailuresCounted ==
  ASSUME FailuresPlaced, EndsOnce
  PROVE  FailuresBounded
<1> SUFFICES ASSUME NEW j \in Jobs
             PROVE  Cardinality({v \in Versions : job_attempts[j][v] \in FailureOutcomes})
                      <= MaxAttempts[j]
  BY DEF FailuresPlaced, FailuresBounded
<1> DEFINE failed  == {v \in Versions : job_attempts[j][v] \in FailureOutcomes}
           retried == 1 .. MaxAttempts[j] - 1
<1>1. MaxAttempts[j] \in Nat /\ MaxAttempts[j] >= 1
  BY LimitsAssumption
<1>2. IsFiniteSet(retried) /\ Cardinality(retried) = MaxAttempts[j] - 1
  <2>1. PICK m \in Int : m = MaxAttempts[j] - 1 /\ m >= 0
    BY <1>1
  <2>2. IsFiniteSet(1 .. m) /\ Cardinality(1 .. m) = IF 1 > m THEN 0 ELSE m - 1 + 1
    BY FS_Interval
  <2>3. IsFiniteSet(1 .. m) /\ Cardinality(1 .. m) = m
    BY <2>1, <2>2
  <2>. QED  BY <2>1, <2>3
<1>3. PICK last : \A v \in failed : v \in retried \/ v = last
  <2>1. \A v \in failed : v \notin retried => job_attempts[j][v] = "failed_terminal"
    BY <1>1 DEF FailuresPlaced, FailureOutcomes, Versions
  <2>2. \A u, v \in failed : u \notin retried /\ v \notin retried => u = v
    BY <2>1 DEF EndsOnce, Terminal
  <2>. QED  BY <2>2
<1>4. /\ IsFiniteSet(retried \cup {last})
      /\ Cardinality(retried \cup {last}) \in Nat
      /\ Cardinality(retried \cup {last}) <= MaxAttempts[j]
  <2>1. /\ IsFiniteSet(retried \cup {last})
        /\ Cardinality(retried \cup {last})
             \in {Cardinality(retried), Cardinality(retried) + 1}
    BY <1>2, FS_AddElement
  <2>. QED  BY <1>1, <1>2, <2>1
<1>5. failed \subseteq retried \cup {last}
  BY <1>3
<1>6. Cardinality(failed) \in Nat /\ Cardinality(failed) <= Cardinality(retried \cup {last})
  BY <1>4, <1>5, FS_Subset, FS_CardinalityType
<1>. QED  BY <1>1, <1>4, <1>6

\* fail spends no more attempts of a key than max_attempts, through reclaims,
\* cleanups and second lives, and gives up only when they are spent.
THEOREM FailuresCorrect == Spec => []FailuresBounded
<1>1. Init => FailureInv
  <2>1. Even(NoRow)
    BY NewRowsEven
  <2>. QED  BY <2>1 DEF Init, FailureInv, CountsAgree, FailuresPlaced
<1>2. ClaimInv /\ [Next]_vars => TypeOK'
  BY ClaimInvStep DEF ClaimInv
<1>3. SuccessInv /\ FailureInv => FailuresBounded
  BY FailuresCounted DEF SuccessInv, FailureInv
<1>. QED
  BY <1>1, <1>2, <1>3, ClaimInvInit, ClaimInvStep, AttemptsInit, AttemptsStep,
     SuccessInit, SuccessStep, FailureStep, PTL DEF Spec

-----------------------------------------------------------------------------
(***************************************************************************)
(* A rerun that a search.rebuild request asked for is not lost.  complete  *)
(* looks at the family of the row before it looks at the rerun, so the     *)
(* proof needs that only rows of a family owe one, and for that, that an   *)
(* enqueue in progress only ever waits for such a row.                     *)
(***************************************************************************)
RerunsOfFamilies ==
  \A j \in Jobs : jobs_current[j].rerunRequested => Family[j] # NoFamily

RequestsOfFamilies ==
  \A c \in Clients :
    /\ enq[c].row \in Jobs => Family[enq[c].row] # NoFamily
    /\ enq[c].phase # "idle" => Family[enq[c].job] # NoFamily

RerunInv == RerunsOfFamilies /\ RequestsOfFamilies

\* RerunSurvives of one row.
Survives(j) ==
  jobs_current[j].status \in Active /\ jobs_current[j].rerunRequested =>
    \/ jobs_current'[j].status \in Active /\ jobs_current'[j].rerunRequested
    \/ jobs_current'[j].status \in {"failed_terminal", "cancelled"}
    \/ \E k \in Jobs \ {j} :
         /\ Family[k] = Family[j]
         /\ jobs_current'[k].status = "pending"
         /\ ~jobs_current'[k].rerunRequested
         /\ jobs_current[j].reasons \subseteq jobs_current'[k].reasons

AllSurvive == \A j \in Jobs : Survives(j)

-----------------------------------------------------------------------------
(* What the updates do to a rerun. *)

\* The UPDATEs of a claim, a retry, a reclaim and an end leave it alone.
LEMMA UpdatesKeepRerun ==
  ASSUME NEW row \in Row, NEW b \in BOOLEAN, NEW status \in Statuses
  PROVE  /\ Ended(row, status).rerunRequested = row.rerunRequested
         /\ Requeued(row, b).rerunRequested = row.rerunRequested
         /\ WithLease(row, b).rerunRequested = row.rerunRequested
BY Zenon DEF Ended, Requeued, WithLease, Row

LEMMA StartKeepsRerun ==
  ASSUME NEW row \in Row
  PROVE  Started(row).rerunRequested = row.rerunRequested
BY Zenon DEF Started, Row

\* A coalesced request never takes it back.
LEMMA CoalescingKeepsRerun ==
  ASSUME NEW row \in Row, NEW r \in Reasons, row.rerunRequested
  PROVE  CoalescedInto(row, r).rerunRequested
BY Zenon DEF CoalescedInto, Row

\* A new row owes none, and counts the reasons it is given.
LEMMA NewRowOwesNone ==
  ASSUME NEW due \in BOOLEAN, NEW reasons \in SUBSET Reasons
  PROVE  /\ ~NewRow(due, reasons).rerunRequested
         /\ NewRow(due, reasons).reasons = reasons
         /\ ~NoRow.rerunRequested
BY Zenon DEF NewRow, NoRow

LEMMA RequestFields ==
  ASSUME NEW phase, NEW job, NEW reasons, NEW a
  PROVE  /\ Request(phase, job, reasons).job = job
         /\ Request(phase, job, reasons).row = NoJob
         /\ [Request(phase, job, reasons) EXCEPT !.row = a].job = job
         /\ [Request(phase, job, reasons) EXCEPT !.row = a].row = a
         /\ NoEnq.row = NoJob /\ NoEnq.phase = "idle"
BY DEF Request, NoEnq

-----------------------------------------------------------------------------
(* The steps. *)

\* Every row stays, or keeps its rerun and is not over with success, or had no
\* rerun to lose.
LEMMA RerunKept ==
  ASSUME RequestsOfFamilies, RerunsOfFamilies, enq' = enq,
         \A j \in Jobs :
           \/ jobs_current'[j] = jobs_current[j]
           \/ /\ jobs_current'[j].rerunRequested = jobs_current[j].rerunRequested
              /\ jobs_current'[j].status \in Active \cup {"failed_terminal", "cancelled"}
           \/ /\ ~jobs_current'[j].rerunRequested
              /\ jobs_current[j].status \in Active => ~jobs_current[j].rerunRequested
  PROVE  AllSurvive /\ RerunInv'
<1>1. AllSurvive
  BY DEF AllSurvive, Survives
<1>2. RerunInv'
  BY DEF RerunInv, RerunsOfFamilies, RequestsOfFamilies
<1>. QED  BY <1>1, <1>2

\* Success with a rerun owed inserts the successor in the same commit.
LEMMA RerunComplete ==
  ASSUME TypeOK, RerunInv, NEW j \in Jobs, NEW v \in Versions, Complete(j, v)
  PROVE  AllSurvive /\ RerunInv'
<1>1. /\ jobs_current[j] \in Row /\ jobs_current[j].reasons \in SUBSET Reasons
      /\ "succeeded" \in Statuses
      /\ jobs_current[j].status = "running"
  BY DEF TypeOK, Row, Statuses, Terminal, Complete, Holds
<1>2. Ended(jobs_current[j], "succeeded").rerunRequested = jobs_current[j].rerunRequested
  BY <1>1, UpdatesKeepRerun
<1>3. enq' = enq
  BY DEF Complete
<1>4. CASE jobs_current[j].rerunRequested
  <2>1. Family[j] # NoFamily
    BY <1>4 DEF RerunInv, RerunsOfFamilies
  <2>2. PICK k \in FreshKeys(Family[j]) :
          jobs_current' = [jobs_current EXCEPT
                             ![j] = Ended(@, "succeeded"),
                             ![k] = NewRow(TRUE, jobs_current[j].reasons)]
    BY <1>4, <2>1 DEF Complete
  <2>3. k \in Jobs /\ k # j /\ Family[k] = Family[j] /\ jobs_current[k].status = "none"
    BY <1>1 DEF FreshKeys
  <2>4. /\ jobs_current'[k] = NewRow(TRUE, jobs_current[j].reasons)
        /\ jobs_current'[j].rerunRequested = jobs_current[j].rerunRequested
        /\ \A i \in Jobs \ {j, k} : jobs_current'[i] = jobs_current[i]
    BY <1>2, <2>2, <2>3 DEF TypeOK
  <2>5. /\ jobs_current'[k].status = "pending" /\ ~jobs_current'[k].rerunRequested
        /\ jobs_current'[k].reasons = jobs_current[j].reasons
    BY <1>1, <2>4, NewRowFacts, NewRowOwesNone
  <2>6. "none" \notin Active
    BY DEF Active
  <2>7. AllSurvive
    BY <2>3, <2>4, <2>5, <2>6 DEF AllSurvive, Survives
  <2>8. RerunInv'
    BY <1>3, <2>4, <2>5 DEF RerunInv, RerunsOfFamilies, RequestsOfFamilies
  <2>. QED  BY <2>7, <2>8
<1>5. CASE ~jobs_current[j].rerunRequested
  <2>1. jobs_current' = [jobs_current EXCEPT ![j] = Ended(@, "succeeded")]
    BY <1>5 DEF Complete
  <2>2. /\ ~jobs_current'[j].rerunRequested
        /\ \A i \in Jobs \ {j} : jobs_current'[i] = jobs_current[i]
    BY <1>2, <1>5, <2>1 DEF TypeOK
  <2>. QED  BY <1>3, <1>5, <2>2, RerunKept DEF RerunInv
<1>. QED  BY <1>4, <1>5

LEMMA RerunCall ==
  ASSUME TypeOK, RerunInv, NEW j \in Jobs, NEW v \in Versions, ClaimCall(j, v)
  PROVE  AllSurvive /\ RerunInv'
<1>1. /\ jobs_current[j] \in Row
      /\ {"pending", "running"} \subseteq Active
      /\ {"failed_terminal", "cancelled"} \subseteq Statuses
  BY DEF TypeOK, Active, Statuses, Terminal
<1>2. CASE StaleCall(j, v)
  BY <1>2, RerunKept DEF StaleCall, RerunInv
<1>3. ASSUME NEW row \in Row, jobs_current' = [jobs_current EXCEPT ![j] = row], enq' = enq,
             row.rerunRequested = jobs_current[j].rerunRequested,
             row.status \in Active \cup {"failed_terminal", "cancelled"}
      PROVE  AllSurvive /\ RerunInv'
  BY <1>3, RerunKept DEF RerunInv, TypeOK
<1>4. CASE Heartbeat(j, v)
  <2>1. /\ WithLease(jobs_current[j], FALSE) \in Row
        /\ WithLease(jobs_current[j], FALSE).rerunRequested = jobs_current[j].rerunRequested
        /\ WithLease(jobs_current[j], FALSE).status = "running"
    BY <1>1, <1>4, WithLeaseFacts, UpdatesKeepRerun DEF Heartbeat, Holds
  <2>. QED  BY <1>1, <1>3, <1>4, <2>1 DEF Heartbeat
<1>5. \A status \in {"failed_terminal", "cancelled"} :
        /\ Ended(jobs_current[j], status) \in Row
        /\ Ended(jobs_current[j], status).rerunRequested = jobs_current[j].rerunRequested
        /\ Ended(jobs_current[j], status).status = status
  BY <1>1, EndedFacts, UpdatesKeepRerun
<1>6. CASE Fail(j, v)
  <2>1. /\ Requeued(jobs_current[j], FALSE) \in Row
        /\ Requeued(jobs_current[j], FALSE).rerunRequested = jobs_current[j].rerunRequested
        /\ Requeued(jobs_current[j], FALSE).status = "pending"
    BY <1>1, RequeuedFacts, UpdatesKeepRerun
  <2>. QED  BY <1>1, <1>3, <1>5, <1>6, <2>1 DEF Fail
<1>7. CASE Cancel(j, v)
  BY <1>3, <1>5, <1>7 DEF Cancel
<1>. QED  BY <1>2, <1>4, <1>6, <1>7, RerunComplete DEF ClaimCall

\* The row found by SELECT ... FOR UPDATE is of the request's family.
LEMMA SelectOfFamily ==
  ASSUME NEW c \in Clients, TypeOK, RequestsOfFamilies, NEW phase, NEW job, NEW reasons,
         NEW otherwise, Family[job] # NoFamily,
         otherwise.row = NoJob, otherwise.phase # "idle" => otherwise.job = job,
         SelectActive(c, Request(phase, job, reasons), otherwise)
  PROVE  RequestsOfFamilies'
<1>1. \A a : /\ Request(phase, job, reasons).job = job
             /\ [Request(phase, job, reasons) EXCEPT !.row = a].job = job
             /\ [Request(phase, job, reasons) EXCEPT !.row = a].row = a
  BY RequestFields
<1>2. NoJob \notin Jobs
  BY JobsAssumption
<1>3. CASE enq' = [enq EXCEPT ![c] = otherwise]
  BY <1>2, <1>3 DEF RequestsOfFamilies, TypeOK
<1>4. CASE \E a \in ActiveOf(Family[job]) :
             enq' = [enq EXCEPT ![c] = [Request(phase, job, reasons) EXCEPT !.row = a]]
  <2>1. PICK a \in ActiveOf(Family[job]) :
          enq' = [enq EXCEPT ![c] = [Request(phase, job, reasons) EXCEPT !.row = a]]
    BY <1>4
  <2>2. Family[a] = Family[job]
    BY DEF ActiveOf
  <2>3. /\ enq'[c].job = job /\ enq'[c].row = a
        /\ \A d \in Clients \ {c} : enq'[d] = enq[d]
    BY <1>1, <2>1 DEF TypeOK
  <2>. QED  BY <2>2, <2>3 DEF RequestsOfFamilies
<1>. QED  BY <1>1, <1>3, <1>4 DEF SelectActive

\* A merge records its reason in a row of a family, or goes on without.
LEMMA RerunMerge ==
  ASSUME TypeOK, RerunInv, NEW c \in Clients, NEW gone, MergeInto(c, gone),
         gone.row = NoJob, gone.phase # "idle" => Family[gone.job] # NoFamily
  PROVE  AllSurvive /\ RerunInv'
<1>1. PICK a : a = enq[c].row
  OBVIOUS
<1>2. NoEnq.row = NoJob /\ NoEnq.phase = "idle" /\ NoJob \notin Jobs
  BY RequestFields, JobsAssumption
<1>3. RequestsOfFamilies'
  BY <1>2 DEF MergeInto, RerunInv, RequestsOfFamilies, TypeOK
<1>4. CASE jobs_current' = jobs_current
  BY <1>3, <1>4 DEF AllSurvive, Survives, RerunInv, RerunsOfFamilies
<1>5. ASSUME NEW r \in Reasons, jobs_current' = [jobs_current EXCEPT ![a] = CoalescedInto(@, r)]
      PROVE  AllSurvive /\ RerunInv'
  <2>1. \A j \in Jobs :
          /\ CoalescedInto(jobs_current[j], r).status = jobs_current[j].status
          /\ jobs_current[j].rerunRequested => CoalescedInto(jobs_current[j], r).rerunRequested
    BY CoalescedFacts, CoalescingKeepsRerun DEF TypeOK
  <2>2. \A j \in Jobs : /\ jobs_current'[j].status = jobs_current[j].status
                        /\ jobs_current[j].rerunRequested => jobs_current'[j].rerunRequested
                        /\ j # a => jobs_current'[j] = jobs_current[j]
    BY <1>5, <2>1 DEF TypeOK
  <2>3. a \in Jobs => Family[a] # NoFamily
    BY <1>1 DEF RerunInv, RequestsOfFamilies
  <2>4. AllSurvive
    BY <2>2 DEF AllSurvive, Survives
  <2>5. RerunsOfFamilies'
    BY <2>2, <2>3 DEF RerunInv, RerunsOfFamilies
  <2>. QED  BY <1>3, <2>4, <2>5 DEF RerunInv
<1>6. enq[c].reasons \in SUBSET Reasons
  BY DEF TypeOK, Enq
<1>. QED  BY <1>1, <1>4, <1>5, <1>6 DEF MergeInto

LEMMA RerunEnqueue ==
  ASSUME TypeOK, RerunInv, NEW c \in Clients, EnqueueFamily(c)
  PROVE  AllSurvive /\ RerunInv'
<1>1. \A phase : /\ Request(phase, enq[c].job, enq[c].reasons).job = enq[c].job
                 /\ Request(phase, enq[c].job, enq[c].reasons).row = NoJob
                 /\ NoEnq.row = NoJob /\ NoEnq.phase = "idle"
  BY RequestFields
<1>2. NoJob \notin Jobs
  BY JobsAssumption
<1>3. CASE EnqueueLookup(c)
  <2>1. PICK f \in Families, j \in Jobs, r \in Reasons :
          /\ Family[j] = f
          /\ SelectActive(c, Request("lookup", j, {r}), Request("insert", j, {r}))
    BY <1>3 DEF EnqueueLookup, FreshKeys
  <2>2. Family[j] # NoFamily
    BY <2>1, JobsAssumption
  <2>3. Request("insert", j, {r}).row = NoJob /\ Request("insert", j, {r}).job = j
    BY RequestFields
  <2>4. RequestsOfFamilies'
    BY <2>1, <2>2, <2>3, SelectOfFamily DEF RerunInv
  <2>. QED
    BY <1>3, <2>4 DEF EnqueueLookup, AllSurvive, Survives, RerunInv, RerunsOfFamilies
<1>4. CASE EnqueueMerge(c)
  <2>1. Family[enq[c].job] # NoFamily
    BY <1>4 DEF EnqueueMerge, RerunInv, RequestsOfFamilies
  <2>. QED  BY <1>1, <1>4, <2>1, RerunMerge DEF EnqueueMerge
<1>5. CASE EnqueueInsert(c)
  <2>1. PICK j : j = enq[c].job
    OBVIOUS
  <2>2. enq[c].reasons \in SUBSET Reasons /\ Family[j] # NoFamily
    BY <1>5, <2>1 DEF TypeOK, Enq, EnqueueInsert, RerunInv, RequestsOfFamilies
  <2>3. RequestsOfFamilies'
    <3>1. PICK next : /\ next \in {NoEnq, Request("recheck", j, enq[c].reasons)}
                      /\ enq' = [enq EXCEPT ![c] = next]
      BY <1>5, <2>1 DEF EnqueueInsert
    <3>2. next.row = NoJob /\ (next.phase # "idle" => next.job = j)
      BY <1>1, <2>1, <3>1
    <3>3. enq'[c] = next /\ \A d \in Clients \ {c} : enq'[d] = enq[d]
      BY <3>1 DEF TypeOK
    <3>. QED  BY <1>2, <2>2, <3>2, <3>3 DEF RerunInv, RequestsOfFamilies
  <2>4. ~NewRow(TRUE, enq[c].reasons).rerunRequested
    BY <2>2, NewRowOwesNone
  <2>5. \/ jobs_current' = jobs_current
        \/ /\ jobs_current[j].status = "none"
           /\ jobs_current' = [jobs_current EXCEPT ![j] = NewRow(TRUE, enq[c].reasons)]
    BY <1>5, <2>1 DEF EnqueueInsert, Conflicts
  <2>6. \A i \in Jobs : \/ jobs_current'[i] = jobs_current[i]
                        \/ jobs_current[i].status = "none" /\ ~jobs_current'[i].rerunRequested
    BY <2>4, <2>5 DEF TypeOK
  <2>7. "none" \notin Active
    BY DEF Active
  <2>. QED
    BY <2>3, <2>6, <2>7 DEF AllSurvive, Survives, RerunInv, RerunsOfFamilies
<1>6. CASE EnqueueRecheck(c)
  <2>1. Family[enq[c].job] # NoFamily
    BY <1>6 DEF EnqueueRecheck, RerunInv, RequestsOfFamilies
  <2>2. \/ enq' = [enq EXCEPT ![c] = NoEnq]
        \/ SelectActive(c, Request("again", enq[c].job, enq[c].reasons), NoEnq)
    BY <1>6 DEF EnqueueRecheck
  <2>3. RequestsOfFamilies'
    <3>1. CASE enq' = [enq EXCEPT ![c] = NoEnq]
      BY <1>1, <1>2, <3>1 DEF RerunInv, RequestsOfFamilies, TypeOK
    <3>2. CASE SelectActive(c, Request("again", enq[c].job, enq[c].reasons), NoEnq)
      BY <1>1, <2>1, <3>2, SelectOfFamily DEF RerunInv
    <3>. QED  BY <2>2, <3>1, <3>2
  <2>. QED
    BY <1>6, <2>3 DEF EnqueueRecheck, AllSurvive, Survives, RerunInv, RerunsOfFamilies
<1>7. CASE EnqueueMergeAgain(c)
  BY <1>1, <1>7, RerunMerge DEF EnqueueMergeAgain
<1>. QED  BY <1>3, <1>4, <1>5, <1>6, <1>7 DEF EnqueueFamily

-----------------------------------------------------------------------------
LEMMA RerunInit == Init => RerunInv
<1>1. ~NoRow.rerunRequested
  BY DEF NoRow
<1>2. NoEnq.row = NoJob /\ NoEnq.phase = "idle" /\ NoJob \notin Jobs
  BY RequestFields, JobsAssumption
<1>. QED  BY <1>1, <1>2 DEF Init, RerunInv, RerunsOfFamilies, RequestsOfFamilies

LEMMA RerunStep == ClaimInv /\ RerunInv /\ Next => AllSurvive /\ RerunInv'
<1> SUFFICES ASSUME ClaimInv, RerunInv, Next PROVE AllSurvive /\ RerunInv'
  OBVIOUS
<1>0. TypeOK /\ RequestsOfFamilies /\ RerunsOfFamilies
  BY DEF ClaimInv, RerunInv
<1>a. {"pending", "running"} \subseteq Active /\ "none" \notin Active
      /\ Active \cap Terminal = {}
  BY DEF Active, Terminal
<1>b. \A j \in Jobs :
        /\ Requeued(jobs_current[j], TRUE).status = "pending"
        /\ Requeued(jobs_current[j], TRUE).rerunRequested = jobs_current[j].rerunRequested
        /\ WithLease(jobs_current[j], TRUE).status = jobs_current[j].status
        /\ WithLease(jobs_current[j], TRUE).rerunRequested = jobs_current[j].rerunRequested
  <2>1. "none" \in Statuses
    BY DEF Statuses
  <2>. QED  BY <1>0, <2>1, RequeuedFacts, WithLeaseFacts, UpdatesKeepRerun DEF TypeOK
<1>1. ASSUME NEW j \in Jobs, Enqueue(j) PROVE AllSurvive /\ RerunInv'
  <2>1. \A due \in BOOLEAN : ~NewRow(due, {}).rerunRequested
    BY NewRowOwesNone
  <2>. QED  BY <1>0, <1>1, <1>a, <2>1, RerunKept DEF Enqueue, TypeOK
<1>2. ASSUME NEW j \in Jobs, TimePasses(j) PROVE AllSurvive /\ RerunInv'
  BY <1>0, <1>2, <1>a, <1>b, RerunKept DEF TimePasses, BackoffElapses, LeaseExpires, TypeOK
<1>3. ASSUME NEW c \in Clients, EnqueueFamily(c) PROVE AllSurvive /\ RerunInv'
  BY <1>0, <1>3, RerunEnqueue
<1>4. ASSUME NEW w \in Workers, ClaimScan(w) \/ ClaimEnd(w) \/ ClaimAbort(w)
      PROVE  AllSurvive /\ RerunInv'
  BY <1>0, <1>4, RerunKept DEF ClaimScan, ClaimEnd, ClaimAbort
<1>5. ASSUME NEW w \in Workers, NEW j \in Jobs, ClaimTry(w, j) PROVE AllSurvive /\ RerunInv'
  BY <1>0, <1>5, RerunKept DEF ClaimTry, ClaimSkipLocked, ClaimSkipFull, ClaimChoose
<1>6. ASSUME NEW w \in Workers, ClaimCommit(w) PROVE AllSurvive /\ RerunInv'
  <2>1. PICK j \in Jobs : jobs_current' = [jobs_current EXCEPT ![j] = Started(@)]
    BY <1>6, CommitFacts
  <2>2. Started(jobs_current[j]).status = "running"
        /\ Started(jobs_current[j]).rerunRequested = jobs_current[j].rerunRequested
    BY <1>0, StartedFacts, StartKeepsRerun DEF TypeOK
  <2>3. enq' = enq
    BY <1>6 DEF ClaimCommit
  <2>. QED  BY <1>0, <1>a, <2>1, <2>2, <2>3, RerunKept DEF TypeOK
<1>7. ASSUME NEW j \in Jobs, NEW v \in Versions, ClaimCall(j, v) PROVE AllSurvive /\ RerunInv'
  BY <1>0, <1>7, RerunCall
<1>8. CASE ReclaimExpiredLeases
  BY <1>0, <1>8, <1>a, <1>b, RerunKept DEF ReclaimExpiredLeases
<1>9. CASE CleanupTerminal
  <2>1. ~NoRow.rerunRequested
    BY DEF NoRow
  <2>. QED  BY <1>0, <1>9, <1>a, <2>1, RerunKept DEF CleanupTerminal, InStatus
<1>. QED
  BY <1>1, <1>2, <1>3, <1>4, <1>5, <1>6, <1>7, <1>8, <1>9 DEF Next

\* A rerun asked for while a rebuild runs is kept by retries, reclaims and
\* later requests, and success hands it to a new row of the family in the same
\* commit: only giving up and cancelling drop it.
THEOREM RerunCorrect == Spec => RerunSurvives
<1>1. RerunInv /\ UNCHANGED vars => RerunInv'
  BY DEF vars, RerunInv, RerunsOfFamilies, RequestsOfFamilies
<1>2. ClaimInv /\ RerunInv /\ [Next]_vars =>
        /\ RerunInv'
        /\ [\A j \in InStatus(Active) : jobs_current[j].rerunRequested =>
              \/ jobs_current'[j].status \in Active /\ jobs_current'[j].rerunRequested
              \/ jobs_current'[j].status \in {"failed_terminal", "cancelled"}
              \/ \E k \in Jobs \ {j} :
                   /\ Family[k] = Family[j]
                   /\ jobs_current'[k].status = "pending"
                   /\ ~jobs_current'[k].rerunRequested
                   /\ jobs_current[j].reasons \subseteq jobs_current'[k].reasons]_vars
  BY <1>1, RerunStep DEF AllSurvive, Survives, InStatus
<1>. QED
  BY <1>2, ClaimInvInit, ClaimInvStep, RerunInit, PTL DEF Spec, RerunSurvives

-----------------------------------------------------------------------------
(***************************************************************************)
(* PgJobStore implements JobQueue.  A claim takes effect at its commit, an *)
(* enqueue at its insert; every other step of claimNext and of an enqueue  *)
(* is a stutter of the queue, and so are the lease, the backoff and a      *)
(* stale call.  That a commit respects the cap when it takes effect, and   *)
(* an insert the family, is what ClaimInv and OneActivePerFamily are for.  *)
(***************************************************************************)
\* The state of the queue that the rows stand for.
State == [j \in Jobs |-> QueueState(jobs_current[j].status)]

LEMMA QueueStates ==
  /\ QueueState("none") = "absent"
  /\ QueueState("pending") = "waiting"
  /\ QueueState("running") = "granted"
  /\ \A status \in Terminal : QueueState(status) = "finished"
BY DEF QueueState, Terminal

\* Every row has one of the four states, and the state tells which.
LEMMA StateOfRow ==
  ASSUME TypeOK, NEW j \in Jobs
  PROVE  /\ State[j] = QueueState(jobs_current[j].status)
         /\ State[j] = "absent" <=> jobs_current[j].status = "none"
         /\ State[j] = "waiting" <=> jobs_current[j].status = "pending"
         /\ State[j] = "granted" <=> jobs_current[j].status = "running"
         /\ State[j] = "finished" <=> jobs_current[j].status \in Terminal
<1>1. jobs_current[j].status \in {"none", "pending", "running"} \cup Terminal
  BY DEF TypeOK, Row, Statuses, Active
<1>. QED  BY <1>1, QueueStates DEF State, Terminal

\* The sets that JobQueue speaks of are sets that PgJobStore speaks of.
LEMMA QueueSets ==
  ASSUME TypeOK
  PROVE  /\ Queue!In("granted") = InStatus({"running"})
         /\ Queue!In("finished") = InStatus(Terminal)
         /\ Queue!In("absent") = InStatus({"none"})
         /\ \A f : Queue!UnderWay(f) = ActiveOf(f)
         /\ \A k : {i \in Queue!In("granted") : ConcurrencyKey[i] = k} = RunningOf(k)
<1>1. \A s : Queue!In(s) = {j \in Jobs : State[j] = s}
  BY DEF Queue!In, State
<1>2. /\ Queue!In("granted") = InStatus({"running"})
      /\ Queue!In("finished") = InStatus(Terminal)
      /\ Queue!In("absent") = InStatus({"none"})
      /\ Queue!In("waiting") = InStatus({"pending"})
  BY <1>1, StateOfRow DEF InStatus
<1>3. \A f : Queue!UnderWay(f) = ActiveOf(f)
  BY <1>2 DEF Queue!UnderWay, ActiveOf, InStatus, Active
<1>. QED  BY <1>2, <1>3 DEF RunningOf

\* JobQueue counts as PgJobStore does.
LEMMA QueueCounts == \A S : Queue!Cardinality(S) = Cardinality(S)
BY Zenon DEF Queue!Cardinality, Cardinality

-----------------------------------------------------------------------------
(* The steps of the queue, by what they do to the rows. *)

\* The rows outside S keep their status.
Others(S) ==
  \A i \in Jobs \ S : jobs_current'[i].status = jobs_current[i].status

LEMMA Stutters ==
  ASSUME Others({})
  PROVE  State' = State
BY DEF Others, State

\* The rows of S all come to stand for the state s.
LEMMA Moves ==
  ASSUME NEW S, NEW s, Others(S),
         \A i \in S \cap Jobs : QueueState(jobs_current'[i].status) = s
  PROVE  Queue!Move(S, s)
<1>1. State' = [i \in Jobs |-> IF i \in S THEN s ELSE State[i]]
  BY DEF Others, State
<1>. QED  BY <1>1 DEF Queue!Move, State

\* One row is inserted.
LEMMA SubmitStep ==
  ASSUME TypeOK, TypeOK', NEW j \in Jobs, Others({j}),
         jobs_current[j].status = "none", jobs_current'[j].status = "pending",
         Family[j] # NoFamily => ActiveOf(Family[j]) = {}
  PROVE  Queue!QueueNext
<1>1. Queue!Move({j}, "waiting")
  BY Moves, QueueStates
<1>2. Queue!Submit(j)
  BY <1>1, StateOfRow, QueueSets DEF Queue!Submit, State
<1>3. State'[j] # State[j]
  BY StateOfRow, QueueStates DEF State
<1>. QED  BY <1>2, <1>3 DEF Queue!QueueNext, State

\* One pending row, of a key that has room, is started.
LEMMA GrantStep ==
  ASSUME TypeOK, TypeOK', NEW j \in Jobs, Others({j}),
         jobs_current[j].status = "pending", jobs_current'[j].status = "running",
         Cardinality(RunningOf(ConcurrencyKey[j])) < Cap[ConcurrencyKey[j]]
  PROVE  Queue!QueueNext
<1>1. Queue!Move({j}, "granted")
  BY Moves, QueueStates
<1>2. Queue!Cardinality({i \in Queue!In("granted") : ConcurrencyKey[i] = ConcurrencyKey[j]})
        < Cap[ConcurrencyKey[j]]
  <2>1. {i \in Queue!In("granted") : ConcurrencyKey[i] = ConcurrencyKey[j]}
          = RunningOf(ConcurrencyKey[j])
    BY QueueSets
  <2>. QED  BY <2>1, QueueCounts
<1>4. Queue!Grant(j)
  BY <1>1, <1>2, StateOfRow DEF Queue!Grant, State
<1>3. State'[j] # State[j]
  BY StateOfRow, QueueStates DEF State
<1>. QED  BY <1>3, <1>4 DEF Queue!QueueNext, State

\* One running row ends.
LEMMA FinishStep ==
  ASSUME TypeOK, TypeOK', NEW j \in Jobs, Others({j}),
         jobs_current[j].status = "running", jobs_current'[j].status \in Terminal
  PROVE  Queue!QueueNext
<1>1. Queue!Move({j}, "finished")
  BY Moves, QueueStates
<1>2. Queue!Finish(j)
  BY <1>1, StateOfRow DEF Queue!Finish, State
<1>3. State'[j] # State[j]
  BY StateOfRow, QueueStates DEF State, Terminal
<1>. QED  BY <1>2, <1>3 DEF Queue!QueueNext, State

\* A running row of a family succeeds, and another of its family is inserted.
LEMMA FollowStep ==
  ASSUME TypeOK, TypeOK', OneActivePerFamily, NEW j \in Jobs, NEW k \in Jobs, Others({j, k}),
         jobs_current[j].status = "running", jobs_current'[j].status = "succeeded",
         jobs_current[k].status = "none", jobs_current'[k].status = "pending",
         Family[k] = Family[j], Family[j] \in Families
  PROVE  Queue!QueueNext
<1>1. ActiveOf(Family[j]) = {j}
  BY DEF OneActivePerFamily, ActiveOf, InStatus, Active
<1>2. j \in Queue!In("granted") /\ k \in Queue!In("absent") /\ j # k
  BY QueueSets DEF InStatus
<1>3. State' = [i \in Jobs |-> IF i = j THEN "finished"
                               ELSE IF i = k THEN "waiting" ELSE State[i]]
  <2>1. "succeeded" \in Terminal
    BY DEF Terminal
  <2>. QED  BY <1>2, <2>1, QueueStates DEF State, Others
<1>4. Queue!UnderWay(Family[j]) = {j}
  BY <1>1, QueueSets
<1>5. Queue!FinishAndFollow(j, k)
  BY <1>3, <1>4, JobsAssumption DEF Queue!FinishAndFollow, State
<1>6. State'[j] # State[j]
  <2>1. State'[j] = "finished" /\ State[j] = "granted"
    BY <1>2, <1>3, StateOfRow
  <2>. QED  BY <2>1
<1>. QED  BY <1>2, <1>5, <1>6 DEF Queue!QueueNext, State

\* Running rows go back to pending together.
LEMMA RequeueStep ==
  ASSUME TypeOK, TypeOK', NEW S \in SUBSET InStatus({"running"}), S # {}, Others(S),
         \A i \in S : jobs_current'[i].status = "pending"
  PROVE  Queue!QueueNext
<1>1. Queue!Move(S, "waiting")
  BY Moves, QueueStates
<1>2. Queue!Requeue
  BY <1>1, QueueSets DEF Queue!Requeue
<1>3. State' # State
  <2>1. PICK i \in S : i \in Jobs /\ jobs_current[i].status = "running"
    BY DEF InStatus
  <2>2. State'[i] # State[i]
    BY <2>1, StateOfRow, QueueStates DEF State
  <2>. QED  BY <2>2
<1>. QED  BY <1>2, <1>3 DEF Queue!QueueNext, State

\* Terminal rows are removed together.
LEMMA ForgetStep ==
  ASSUME TypeOK, TypeOK', NEW S \in SUBSET InStatus(Terminal), S # {}, Others(S),
         \A i \in S : jobs_current'[i].status = "none"
  PROVE  Queue!QueueNext
<1>1. Queue!Move(S, "absent")
  BY Moves, QueueStates
<1>2. Queue!Forget
  BY <1>1, QueueSets DEF Queue!Forget
<1>3. State' # State
  <2>1. PICK i \in S : i \in Jobs /\ jobs_current[i].status \in Terminal
    BY DEF InStatus
  <2>2. State'[i] # State[i]
    BY <2>1, StateOfRow, QueueStates DEF State
  <2>. QED  BY <2>2
<1>. QED  BY <1>2, <1>3 DEF Queue!QueueNext, State

-----------------------------------------------------------------------------
(* The steps of the store. *)

LEMMA OneRowChanges ==
  ASSUME TypeOK, NEW j, NEW row, jobs_current' = [jobs_current EXCEPT ![j] = row]
  PROVE  /\ Others({j})
         /\ j \in Jobs => jobs_current'[j] = row
         /\ j \notin Jobs => Others({})
BY DEF TypeOK, Others

\* enqueue.
LEMMA EnqueueMaps ==
  ASSUME TypeOK, TypeOK', NEW c \in Clients, EnqueueFamily(c)
  PROVE  Queue!QueueNext \/ State' = State
<1>1. CASE jobs_current' = jobs_current
  BY <1>1, Stutters DEF Others
<1>2. ASSUME NEW a, NEW r \in Reasons,
             jobs_current' = [jobs_current EXCEPT ![a] = CoalescedInto(@, r)]
      PROVE  State' = State
  <2>1. Others({a}) /\ (a \in Jobs => jobs_current'[a] = CoalescedInto(jobs_current[a], r))
        /\ (a \notin Jobs => Others({}))
    BY <1>2, OneRowChanges
  <2>2. a \in Jobs => CoalescedInto(jobs_current[a], r).status = jobs_current[a].status
    BY CoalescedFacts DEF TypeOK
  <2>3. Others({})
    BY <2>1, <2>2 DEF Others
  <2>. QED  BY <2>3, Stutters
<1>3. ASSUME NEW j, NEW reasons \in SUBSET Reasons,
             jobs_current[j].status = "none", ActiveOf(Family[j]) = {},
             jobs_current' = [jobs_current EXCEPT ![j] = NewRow(TRUE, reasons)]
      PROVE  Queue!QueueNext \/ State' = State
  <2>1. Others({j}) /\ (j \in Jobs => jobs_current'[j] = NewRow(TRUE, reasons))
        /\ (j \notin Jobs => Others({}))
    BY <1>3, OneRowChanges
  <2>2. NewRow(TRUE, reasons).status = "pending"
    BY NewRowFacts
  <2>3. CASE j \in Jobs
    BY <1>3, <2>1, <2>2, <2>3, SubmitStep
  <2>4. CASE j \notin Jobs
    BY <2>1, <2>4, Stutters
  <2>. QED  BY <2>3, <2>4
<1>. QED  BY <1>1, <1>2, <1>3, EnqueueFacts

\* heartbeat, complete, fail and cancel.
LEMMA ClaimCallMaps ==
  ASSUME TypeOK, TypeOK', OneActivePerFamily,
         NEW j \in Jobs, NEW v \in Versions, ClaimCall(j, v)
  PROVE  Queue!QueueNext \/ State' = State
<1>0. /\ jobs_current[j] \in Row
      /\ {"succeeded", "failed_terminal", "cancelled"} \subseteq Terminal \cap Statuses
  BY DEF TypeOK, Terminal, Statuses
<1>1. ASSUME Holds(j, v), NEW status \in Terminal \cap Statuses,
             jobs_current' = [jobs_current EXCEPT ![j] = Ended(@, status)]
      PROVE  Queue!QueueNext
  <2>1. Others({j}) /\ jobs_current'[j] = Ended(jobs_current[j], status)
    BY <1>1, OneRowChanges
  <2>2. status \in Statuses /\ status \in Terminal
    BY <1>1
  <2>3. Ended(jobs_current[j], status).status = status
    BY <1>0, <2>2, EndedFacts, Zenon
  <2>. QED  BY <1>1, <2>1, <2>2, <2>3, FinishStep DEF Holds
<1>2. CASE StaleCall(j, v)
  BY <1>2, Stutters DEF StaleCall, Others
<1>3. CASE Heartbeat(j, v)
  <2>1. Others({j}) /\ jobs_current'[j] = WithLease(jobs_current[j], FALSE)
    BY <1>3, OneRowChanges DEF Heartbeat
  <2>2. jobs_current'[j].status = jobs_current[j].status
    BY <1>0, <2>1, WithLeaseFacts
  <2>. QED  BY <2>1, <2>2, Stutters DEF Others
<1>4. CASE Complete(j, v)
  <2>1. CASE jobs_current' = [jobs_current EXCEPT ![j] = Ended(@, "succeeded")]
    BY <1>0, <1>1, <1>4, <2>1 DEF Complete
  <2>2. ASSUME NEW k \in FreshKeys(Family[j]), Family[j] # NoFamily,
               jobs_current' = [jobs_current EXCEPT
                                  ![j] = Ended(@, "succeeded"),
                                  ![k] = NewRow(TRUE, jobs_current[j].reasons)]
        PROVE  Queue!QueueNext
    <3>1. /\ jobs_current[j].status = "running"
          /\ k \in Jobs /\ jobs_current[k].status = "none" /\ Family[k] = Family[j]
      BY <1>4 DEF Complete, Holds, FreshKeys
    <3>2. /\ Ended(jobs_current[j], "succeeded").status = "succeeded"
          /\ NewRow(TRUE, jobs_current[j].reasons).status = "pending"
      <4>1. jobs_current[j].reasons \in SUBSET Reasons
        BY <1>0 DEF Row
      <4>. QED  BY <1>0, <4>1, EndedFacts, NewRowFacts
    <3>3. /\ jobs_current'[j] = Ended(jobs_current[j], "succeeded")
          /\ jobs_current'[k] = NewRow(TRUE, jobs_current[j].reasons)
          /\ Others({j, k})
      BY <2>2, <3>1 DEF TypeOK, Others
    <3>4. Family[j] \in Families
      BY <2>2, JobsAssumption
    <3>. QED  BY <3>1, <3>2, <3>3, <3>4, FollowStep
  <2>. QED  BY <1>4, <2>1, <2>2 DEF Complete
<1>5. CASE Fail(j, v)
  <2>1. CASE jobs_current' = [jobs_current EXCEPT ![j] = Requeued(@, FALSE)]
    <3>1. Others({j}) /\ jobs_current'[j] = Requeued(jobs_current[j], FALSE)
      BY <2>1, OneRowChanges
    <3>2. jobs_current'[j].status = "pending"
      BY <1>0, <3>1, RequeuedFacts
    <3>3. {j} \in SUBSET InStatus({"running"})
      BY <1>5 DEF Fail, Holds, InStatus
    <3>. QED  BY <3>1, <3>2, <3>3, RequeueStep
  <2>2. CASE jobs_current' = [jobs_current EXCEPT ![j] = Ended(@, "failed_terminal")]
    BY <1>0, <1>1, <1>5, <2>2 DEF Fail
  <2>. QED  BY <1>5, <2>1, <2>2 DEF Fail
<1>6. CASE Cancel(j, v)
  BY <1>0, <1>1, <1>6 DEF Cancel
<1>. QED  BY <1>2, <1>3, <1>4, <1>5, <1>6 DEF ClaimCall

\* The UPDATE of claimNext, at its COMMIT.
LEMMA CommitMaps ==
  ASSUME ClaimInv, TypeOK', NEW w \in Workers, ClaimCommit(w)
  PROVE  Queue!QueueNext
<1>1. PICK j \in Jobs : /\ j = tx[w].job
                        /\ jobs_current[j].status = "pending"
                        /\ jobs_current' = [jobs_current EXCEPT ![j] = Started(@)]
  BY CommitFacts
<1>2. Cardinality(RunningOf(ConcurrencyKey[j])) < Cap[ConcurrencyKey[j]]
  BY <1>1 DEF ClaimCommit, ClaimInv, ChoiceHolds
<1>3. TypeOK
  BY DEF ClaimInv
<1>4. Others({j}) /\ jobs_current'[j].status = "running"
  <2>1. Others({j}) /\ jobs_current'[j] = Started(jobs_current[j])
    BY <1>1, <1>3, OneRowChanges
  <2>. QED  BY <1>3, <2>1, StartedFacts DEF TypeOK
<1>. QED  BY <1>1, <1>2, <1>3, <1>4, GrantStep

LEMMA QueueStep ==
  ClaimInv /\ TypeOK' /\ OneActivePerFamily /\ [Next]_vars
    => Queue!QueueNext \/ State' = State
<1> SUFFICES ASSUME ClaimInv, TypeOK', OneActivePerFamily, [Next]_vars
             PROVE  Queue!QueueNext \/ State' = State
  OBVIOUS
<1>0. TypeOK /\ \A j \in Jobs : jobs_current[j] \in Row
  BY DEF ClaimInv, TypeOK
<1>1. ASSUME NEW j \in Jobs, Enqueue(j) PROVE Queue!QueueNext
  <2>1. PICK due \in BOOLEAN : jobs_current' = [jobs_current EXCEPT ![j] = NewRow(due, {})]
    BY <1>1 DEF Enqueue
  <2>2. Others({j}) /\ jobs_current'[j] = NewRow(due, {})
    BY <1>0, <2>1, OneRowChanges
  <2>3. NewRow(due, {}).status = "pending"
    BY NewRowFacts
  <2>. QED  BY <1>0, <1>1, <2>2, <2>3, SubmitStep DEF Enqueue
<1>2. ASSUME NEW j \in Jobs, TimePasses(j) PROVE State' = State
  <2>1. /\ Requeued(jobs_current[j], TRUE).status = "pending"
        /\ WithLease(jobs_current[j], TRUE).status = jobs_current[j].status
    BY <1>0, RequeuedFacts, WithLeaseFacts
  <2>2. \/ /\ jobs_current' = [jobs_current EXCEPT ![j] = Requeued(jobs_current[j], TRUE)]
           /\ jobs_current[j].status = "pending"
        \/ jobs_current' = [jobs_current EXCEPT ![j] = WithLease(jobs_current[j], TRUE)]
    BY <1>2 DEF TimePasses, BackoffElapses, LeaseExpires
  <2>3. Others({j}) /\ jobs_current'[j].status = jobs_current[j].status
    BY <1>0, <2>1, <2>2, OneRowChanges
  <2>. QED  BY <2>3, Stutters DEF Others
<1>3. ASSUME jobs_current' = jobs_current PROVE State' = State
  BY <1>3, Stutters DEF Others
<1>4. ASSUME NEW w \in Workers, ClaimScan(w) \/ ClaimEnd(w) \/ ClaimAbort(w)
      PROVE  State' = State
  BY <1>3, <1>4 DEF ClaimScan, ClaimEnd, ClaimAbort
<1>5. ASSUME NEW w \in Workers, NEW j \in Jobs, ClaimTry(w, j) PROVE State' = State
  BY <1>3, <1>5 DEF ClaimTry, ClaimSkipLocked, ClaimSkipFull, ClaimChoose
<1>6. CASE ReclaimExpiredLeases
  <2>1. PICK E : E = ExpiredLeases
    OBVIOUS
  <2>2. /\ E # {} /\ E \in SUBSET InStatus({"running"})
        /\ jobs_current' = [j \in Jobs |-> IF j \in E THEN Requeued(jobs_current[j], TRUE)
                                           ELSE jobs_current[j]]
    BY <1>6, <2>1 DEF ReclaimExpiredLeases, ExpiredLeases
  <2>3. Others(E) /\ \A i \in E : jobs_current'[i].status = "pending"
    BY <1>0, <2>2, RequeuedFacts DEF Others, InStatus
  <2>. QED  BY <1>0, <2>2, <2>3, RequeueStep
<1>7. CASE CleanupTerminal
  <2>1. PICK S \in SUBSET InStatus(Terminal) :
          /\ S # {}
          /\ jobs_current' = [j \in Jobs |-> IF j \in S THEN NoRow ELSE jobs_current[j]]
    BY <1>7 DEF CleanupTerminal
  <2>2. Others(S) /\ \A i \in S : jobs_current'[i].status = "none"
    BY <2>1, NoRowFacts DEF Others, InStatus
  <2>. QED  BY <1>0, <2>1, <2>2, ForgetStep
<1>8. CASE UNCHANGED vars
  BY <1>3, <1>8 DEF vars
<1>. QED
  BY <1>0, <1>1, <1>2, <1>4, <1>5, <1>6, <1>7, <1>8,
     EnqueueMaps, ClaimCallMaps, CommitMaps DEF Next

\* The store implements the queue: a claim, an enqueue, and a completion with
\* its successor are single steps to whoever reads committed rows, the cap of
\* the key and the one active row of a family hold at each, and no other kind
\* of change is ever seen.
THEOREM QueueCorrect == Spec => ImplementsQueue
<1>1. Init => Queue!QueueInit
  BY NoRowFacts, QueueStates DEF Init, Queue!QueueInit
<1>2. ClaimInv /\ TypeOK' /\ OneActivePerFamily /\ [Next]_vars
        => [Queue!QueueNext]_State
  BY QueueStep
<1>3. ClaimInv /\ [Next]_vars => TypeOK'
  BY ClaimInvStep DEF ClaimInv
<1>. QED
  BY <1>1, <1>2, <1>3, ClaimInvInit, ClaimInvStep, FamilyCorrect, PTL
  DEF Spec, ImplementsQueue, Queue!QueueSpec, State

=============================================================================
