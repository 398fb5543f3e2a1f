----------------------------- MODULE MemoryFlush ----------------------------
(***************************************************************************)
(* The turns of one session that the Talker does not take, and the flush   *)
(* of its interaction log into memory.  A turn writes its messages to the  *)
(* log of the process; a successful buffered turn writes its settlement to *)
(* PostgreSQL as well.  When enough messages are unprocessed, and when the *)
(* session is closed, the range of unprocessed records is migrated by the  *)
(* memory task agent, one migration after the other, and then marked.      *)
(* JavaScript runs from one await to the next without interruption: that   *)
(* is a step.                                                              *)
(***************************************************************************)
EXTENDS Integers, Sequences, FiniteSets, FiniteSetsExt

CONSTANTS
  Requests,       \* request ids
  Executions,     \* executions of requests; a client may send one again
  Closer,         \* the handler that closes the session
  FlushThreshold, \* FLUSH_THRESHOLD
  NoRequest

ASSUME FlushAssumption ==
  /\ Closer \notin Executions
  /\ NoRequest \notin Requests
  /\ FlushThreshold \in Nat \ {0}

VARIABLES
  session,              \* the row of sessions
  records,              \* the log of the process; index i + 1 is record_index i
  interaction_records,  \* the rows in PostgreSQL
  call,                 \* what each execution, and the closer, is doing
  migrateTail           \* callers whose migrations wait, the head running

flushVars == <<session, records, interaction_records, call, migrateTail>>

Callers == Executions \cup {Closer}
Roles   == {"rp_agent", "maiden"}

\* A record remembers whether a migration that read it has committed and
\* whether a failed turn took it out of the log: neither is in the code.
Entry == [req : Requests, kind : {"user", "assistant", "status"},
          processed : BOOLEAN, migrated : BOOLEAN, failed : BOOLEAN]

NewEntry(q, k) == [req |-> q, kind |-> k, processed |-> FALSE,
                   migrated |-> FALSE, failed |-> FALSE]

\* idle, the two checks of executeUserTurn, the agent loop, the settlement,
\* flushIfDue, the flush; a failed turn; closeSession.
CallPhases ==
  {"idle", "open", "admitted", "running", "settling", "inserting", "due",
   "selected", "queued", "migrated", "failed", "closing", "ended"}

\* first is turnRangeStart, base what getMaxIndex returned, lo and hi the
\* range of the flush.
Call == [phase : CallPhases, req : Requests \cup {NoRequest},
         first : Nat, base : Nat, lo : Nat, hi : Nat]

IdleCall == [phase |-> "idle", req |-> NoRequest,
             first |-> 0, base |-> 0, lo |-> 0, hi |-> 0]

FlushInit ==
  /\ session = [status |-> "none", recovery |-> FALSE, role |-> "rp_agent"]
  /\ records = <<>>
  /\ interaction_records = {}
  /\ call = [c \in Callers |-> IdleCall]
  /\ migrateTail = <<>>

Reaches(c, p) == call' = [call EXCEPT ![c].phase = p]

\* An execution that is over, and a closer that may now close the session.
Over(c) == [IdleCall EXCEPT !.phase = IF c = Closer THEN "closing" ELSE "ended"]

Returns(c) == call' = [call EXCEPT ![c] = Over(c)]
-----------------------------------------------------------------------------
(***************************************************************************)
(* Sessions.                                                               *)
(***************************************************************************)
CreateSession(role) ==
  /\ session.status = "none"
  /\ session' = [session EXCEPT !.status = "open", !.role = role]
  /\ UNCHANGED <<records, interaction_records, call, migrateTail>>

\* executeUserTurn reads the row twice before it runs the turn.
CheckOpen(e, q) ==
  /\ call[e].phase = "idle"
  /\ session.status = "open"
  /\ call' = [call EXCEPT ![e].phase = "open", ![e].req = q]
  /\ UNCHANGED <<session, records, interaction_records, migrateTail>>

CheckRecovery(e) ==
  /\ call[e].phase = "open"
  /\ IF session.recovery THEN Returns(e) ELSE Reaches(e, "admitted")
  /\ UNCHANGED <<session, records, interaction_records, migrateTail>>

Recover ==
  /\ session.recovery
  /\ session' = [session EXCEPT !.recovery = FALSE]
  /\ UNCHANGED <<records, interaction_records, call, migrateTail>>
-----------------------------------------------------------------------------
(***************************************************************************)
(* A turn.                                                                 *)
(***************************************************************************)
UserRecordsOf(q) == {i \in DOMAIN records : records[i].req = q /\ records[i].kind = "user"}

\* A request sent again finds its user record, wherever in the log it is.
Start(e) ==
  LET mine == UserRecordsOf(call[e].req) IN
  /\ call[e].phase = "admitted"
  /\ records' = IF mine = {} THEN Append(records, NewEntry(call[e].req, "user"))
                             ELSE records
  /\ call' = [call EXCEPT ![e].phase = "running",
                          ![e].first = IF mine = {} THEN Len(records) + 1 ELSE Min(mine)]
  /\ UNCHANGED <<session, interaction_records, migrateTail>>

\* A streamed turn of a maiden that succeeds, with or without text.
StreamEnds(e, text) ==
  /\ call[e].phase = "running" /\ session.role = "maiden"
  /\ records' = IF text THEN Append(records, NewEntry(call[e].req, "assistant"))
                        ELSE records
  /\ Reaches(e, "due")
  /\ UNCHANGED <<session, interaction_records, migrateTail>>

SettlementOf(q) == {r \in interaction_records : r.req = q /\ r.kind = "settlement"}

\* The buffered turn of a role-playing agent has its answer and looks for a
\* settlement of the request; a database error here counts as none.
LookUp(e, answered) ==
  /\ call[e].phase = "running" /\ session.role = "rp_agent"
  /\ Reaches(e, IF answered /\ SettlementOf(call[e].req) # {} THEN "due" ELSE "settling")
  /\ UNCHANGED <<session, records, interaction_records, migrateTail>>

\* getMaxIndex and one more; indexes have no gaps.
NextIndex == Cardinality(interaction_records)

ReadIndex(e) ==
  /\ call[e].phase = "settling"
  /\ call' = [call EXCEPT ![e].phase = "inserting",
                          ![e].base = NextIndex]
  /\ UNCHANGED <<session, records, interaction_records, migrateTail>>

Rows(q, base, reply) ==
  {[index |-> base, req |-> q, kind |-> "user"],
   [index |-> base + 1, req |-> q, kind |-> "settlement"]}
    \cup IF reply THEN {[index |-> base + 2, req |-> q, kind |-> "assistant"]} ELSE {}

Conflicting_IndexBug(rows) ==
  \E new \in rows, old \in interaction_records :
    new.kind = "settlement" /\ old.kind = "settlement" /\ new.req = old.req

\* The keys of interaction_records: the id of a settlement is that of its
\* request, and an index is used once in a session.
Conflicting(rows) ==
  \E new \in rows, old \in interaction_records :
    \/ new.index = old.index
    \/ new.kind = "settlement" /\ old.kind = "settlement" /\ new.req = old.req

SettleTurn(e, reply) ==
  LET rows == Rows(call[e].req, call[e].base, reply) IN
  /\ call[e].phase = "inserting"
  /\ ~Conflicting(rows)
  /\ interaction_records' = interaction_records \cup rows
  /\ Reaches(e, "due")
  /\ UNCHANGED <<session, records, migrateTail>>

MarkRange(log, lo, hi) ==
  [i \in DOMAIN log |->
     IF i \in lo..hi THEN [log[i] EXCEPT !.processed = TRUE, !.failed = TRUE] ELSE log[i]]

\* handleFailedTurn: the agent loop failed, or the settlement's transaction
\* did (at a conflict it must).
FailTurn(e, visible) ==
  LET log == Append(records, NewEntry(call[e].req, "status")) IN
  /\ call[e].phase \in {"running", "settling", "inserting"}
  /\ records' = MarkRange(log, call[e].first, Len(log))
  /\ IF visible THEN Reaches(e, "failed") ELSE Returns(e)
  /\ UNCHANGED <<session, interaction_records, migrateTail>>

MarkRecoveryRequired(e) ==
  /\ call[e].phase = "failed"
  /\ session' = [session EXCEPT !.recovery = TRUE]
  /\ Returns(e)
  /\ UNCHANGED <<records, interaction_records, migrateTail>>

\* The consumer of the chunks goes away: nothing after the yield is run.
Abandon(e) ==
  /\ call[e].phase \in {"running", "settling", "inserting", "due"}
  /\ Returns(e)
  /\ UNCHANGED <<session, records, interaction_records, migrateTail>>
-----------------------------------------------------------------------------
(***************************************************************************)
(* The flush.                                                              *)
(***************************************************************************)
Unprocessed == {i \in DOMAIN records : ~records[i].processed}

CountUnprocessedRpTurns == Cardinality({i \in Unprocessed : records[i].kind = "user"})

Select(c) == call' = [call EXCEPT ![c].phase = "selected",
                                  ![c].lo = Min(Unprocessed), ![c].hi = Max(Unprocessed)]

FlushIfDue(e) ==
  /\ call[e].phase = "due"
  /\ IF CountUnprocessedRpTurns >= FlushThreshold THEN Select(e) ELSE Returns(e)
  /\ UNCHANGED <<session, records, interaction_records, migrateTail>>

FlushOnSessionClose ==
  /\ call[Closer].phase = "idle" /\ session.status # "none"
  /\ IF Unprocessed # {} THEN Select(Closer) ELSE Returns(Closer)
  /\ UNCHANGED <<session, records, interaction_records, migrateTail>>

\* The session's agent is looked up once more before runMigrate is called.
RunMigrate(c) ==
  /\ call[c].phase = "selected"
  /\ migrateTail' = Append(migrateTail, c)
  /\ Reaches(c, "queued")
  /\ UNCHANGED <<session, records, interaction_records>>

\* The write template refuses cognition to every role but rp_agent, which
\* ends the migration of a maiden's records before it has read the model.
MayWriteCognition == session.role = "rp_agent"

MigrationCommits(c) ==
  /\ migrateTail # <<>> /\ Head(migrateTail) = c /\ call[c].phase = "queued"
  /\ MayWriteCognition
  /\ records' = [i \in DOMAIN records |->
       IF i \in call[c].lo..call[c].hi THEN [records[i] EXCEPT !.migrated = TRUE]
                                       ELSE records[i]]
  /\ Reaches(c, "migrated")
  /\ UNCHANGED <<session, interaction_records, migrateTail>>

MigrationFails_Bug(c) ==
  /\ migrateTail # <<>> /\ Head(migrateTail) = c
  /\ Returns(c)
  /\ UNCHANGED <<session, records, interaction_records, migrateTail>>

\* Before the commit, or after it: updating the memory index and enqueuing
\* the organizer's jobs come later and may throw.  The tail swallows it.
MigrationFails(c) ==
  /\ migrateTail # <<>> /\ Head(migrateTail) = c
  /\ Returns(c)
  /\ migrateTail' = Tail(migrateTail)
  /\ UNCHANGED <<session, records, interaction_records>>

MarkedUpTo_Bug(c) == Len(records)

MarkedUpTo(c) == call[c].hi

\* runMigrate returns; the same microtask marks the range.
MarkProcessed(c) ==
  /\ call[c].phase = "migrated"
  /\ migrateTail' = Tail(migrateTail)
  /\ records' = [i \in DOMAIN records |->
       IF i <= MarkedUpTo(c) THEN [records[i] EXCEPT !.processed = TRUE] ELSE records[i]]
  /\ Returns(c)
  /\ UNCHANGED <<session, interaction_records>>

CloseSession ==
  /\ call[Closer].phase = "closing"
  /\ session' = [session EXCEPT !.status = "closed", !.recovery = FALSE]
  /\ call' = [call EXCEPT ![Closer] = IdleCall]
  /\ UNCHANGED <<records, interaction_records, migrateTail>>

\* The log of the process dies with it.
FlushCrash ==
  /\ session.status # "none"
  /\ records' = <<>>
  /\ migrateTail' = <<>>
  /\ call' = [c \in Callers |->
       IF call[c].phase = "idle" THEN call[c]
       ELSE IF c = Closer THEN IdleCall ELSE Over(c)]
  /\ UNCHANGED <<session, interaction_records>>

Turn(e) ==
  \/ \E q \in Requests : CheckOpen(e, q)
  \/ CheckRecovery(e)
  \/ Start(e)
  \/ \E text \in BOOLEAN : StreamEnds(e, text)
  \/ \E answered \in BOOLEAN : LookUp(e, answered)
  \/ ReadIndex(e)
  \/ \E reply \in BOOLEAN : SettleTurn(e, reply)
  \/ \E visible \in BOOLEAN : FailTurn(e, visible)
  \/ MarkRecoveryRequired(e)
  \/ Abandon(e)
  \/ FlushIfDue(e)

Migration(c) == MigrationCommits(c) \/ MigrationFails(c) \/ MarkProcessed(c)

FlushNext ==
  \/ \E role \in Roles : CreateSession(role)
  \/ \E e \in Executions : Turn(e)
  \/ \E c \in Callers : RunMigrate(c) \/ Migration(c)
  \/ FlushOnSessionClose \/ CloseSession
  \/ Recover
  \/ FlushCrash

\* Awaits of the process are resumed, and model calls time out.
FlushFairness ==
  /\ \A c \in Callers : WF_flushVars(RunMigrate(c)) /\ WF_flushVars(Migration(c))
  /\ WF_flushVars(CloseSession)

FlushSpec == FlushInit /\ [][FlushNext]_flushVars /\ FlushFairness
-----------------------------------------------------------------------------
(***************************************************************************)
(* Properties.                                                             *)
(***************************************************************************)
\* The type of the state, and the invariant that a range never reaches past
\* the log: what runFlush read by range exists.
FlushTypeOK ==
  /\ session \in [status : {"none", "open", "closed"}, recovery : BOOLEAN, role : Roles]
  /\ records \in Seq(Entry)
  /\ interaction_records \subseteq
       [index : Nat, req : Requests, kind : {"user", "settlement", "assistant"}]
  /\ call \in [Callers -> Call]
  /\ migrateTail \in Seq(Callers)

\* A record that is marked processed (turn-service.ts:1422) was read by a
\* migration that committed, or a failed turn took it out: no message is
\* passed over because it arrived while a migration ran, because another
\* flush finished first, or because the process died in between.
ProcessedIsAccounted ==
  \A i \in DOMAIN records :
    records[i].processed => records[i].migrated \/ records[i].failed

\* The rows a request leaves in PostgreSQL (turn-service.ts:1097) are one
\* settlement and its messages, side by side and nobody else's: two
\* executions that read the same highest index do not interleave rows, and a
\* request sent again settles once.
SettledWhole ==
  \A q \in Requests :
    LET mine == {r \in interaction_records : r.req = q} IN
    mine # {} =>
      /\ \E base \in 0..Cardinality(interaction_records), reply \in BOOLEAN :
            mine = Rows(q, base, reply)
      /\ \A r \in interaction_records \ mine : \A s \in mine : r.index # s.index

\* A flush that was asked for ends, and with it a close: a migration that
\* fails does not keep those behind it from running (task-agent.ts:483).
FlushEnds ==
  \A c \in Callers :
    (call[c].phase \in {"selected", "queued", "migrated", "closing"})
      ~> (call[c].phase \in {"idle", "ended"})
=============================================================================
