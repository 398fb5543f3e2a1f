------------------------------ MODULE AreaState ------------------------------
(***************************************************************************)
(* The state of areas.  A settlement that brings an artifact appends an    *)
(* event to area_state_events and overwrites the row of its key in         *)
(* area_state_current, in its own transaction; the rows can be rebuilt     *)
(* from the events.  World state is kept by the same statements.           *)
(***************************************************************************)
EXTENDS Naturals, FiniteSets

CONSTANTS
  AreaWriters,     \* turns and thinker jobs that write area state
  ArtifactOf,      \* their artifact: area, key, class and committedTime (0: none)
  Areas,           \* location entities
  NoArea,          \* the viewer is nowhere
  LastTime,        \* bound on the clock
  MaxEventIds      \* bound on the ids of area events

ASSUME AreaAssumption ==
  /\ NoArea \notin Areas
  /\ \A s \in AreaWriters : ArtifactOf[s].area \in Areas \union {NoArea}
  /\ LastTime \in Nat /\ MaxEventIds \in Nat

VARIABLES
  wallTime,        \* Date.now()
  committedAt,     \* the time a settlement took before its transaction, 0 before
  inserted,        \* the event a settlement's open transaction has inserted
  areaEvents,      \* area_state_events, committed
  eventIds,        \* the sequence of their ids
  areaCurrent,     \* area_state_current, as the events the rows were written from
  rebuilding       \* areas whose rows a rebuild has deleted

areaVars == <<wallTime, committedAt, inserted, areaEvents, eventIds, areaCurrent, rebuilding>>

(***************************************************************************)
(* Area state: commitSettlement and the rebuild.                           *)
(***************************************************************************)

AreaInit ==
  /\ wallTime = 1
  /\ committedAt = [s \in AreaWriters |-> 0]
  /\ inserted = [s \in AreaWriters |-> {}]
  /\ areaEvents = {} /\ eventIds = 0
  /\ areaCurrent = {}
  /\ rebuilding = {}

\* The time is taken before the transaction begins; an artifact nowhere is
\* passed over.
TakeTime(s) ==
  /\ committedAt[s] = 0
  /\ committedAt' = [committedAt EXCEPT ![s] = wallTime]
  /\ wallTime' \in {t \in {wallTime, wallTime + 1} : t <= LastTime}
  /\ UNCHANGED <<inserted, areaEvents, eventIds, areaCurrent, rebuilding>>

\* The time of an event is the artifact's own if it has one.
EventTime(s) ==
  IF ArtifactOf[s].time # 0 THEN ArtifactOf[s].time ELSE committedAt[s]

InsertAreaEvent(s) ==
  LET artifact == ArtifactOf[s]
  IN /\ committedAt[s] # 0 /\ inserted[s] = {} /\ artifact.area # NoArea
     /\ \A e \in areaEvents : e.by # s
     /\ eventIds < MaxEventIds
     /\ eventIds' = eventIds + 1
     /\ inserted' = [inserted EXCEPT ![s] =
          {[id |-> eventIds', area |-> artifact.area, key |-> artifact.key,
            class |-> artifact.class, time |-> EventTime(s), by |-> s]}]
     /\ UNCHANGED <<wallTime, committedAt, areaEvents, areaCurrent, rebuilding>>

\* The second statement overwrites the current row whatever its time; then the
\* transaction commits.  It is the only row two settlements wait for.
Replaced_Bug(e) == areaCurrent \union {e}      \* a mistake: the old row stays
Replaced(e) == {r \in areaCurrent : <<r.area, r.key>> # <<e.area, e.key>>} \union {e}

CommitAreaState(s) ==
  \E e \in inserted[s] :
    /\ areaCurrent' = Replaced(e)
    /\ areaEvents' = areaEvents \union {e}
    /\ inserted' = [inserted EXCEPT ![s] = {}]
    /\ UNCHANGED <<wallTime, committedAt, eventIds, rebuilding>>

\* The transaction fails: a thinker job runs again, with another time.
AbortSettlement(s) ==
  /\ inserted[s] # {}
  /\ inserted' = [inserted EXCEPT ![s] = {}]
  /\ committedAt' = [committedAt EXCEPT ![s] = 0]
  /\ UNCHANGED <<wallTime, areaEvents, eventIds, areaCurrent, rebuilding>>

\* Of some events, that with the highest time and, of those, the highest id.
YoungestOf(events) ==
  CHOOSE e \in events : \A f \in events :
    f.time < e.time \/ (f.time = e.time /\ f.id <= e.id)

Derived(area) ==
  LET OfKey(k) == {e \in areaEvents : e.area = area /\ e.key = k}
  IN {YoungestOf(OfKey(e.key)) : e \in {e \in areaEvents : e.area = area}}

RowsOf(area) == {r \in areaCurrent : r.area = area}

\* rebuildAreaCurrentFromEvents, two statements.
RebuildDelete(area) ==
  /\ rebuilding' = rebuilding \union {area}
  /\ areaCurrent' = areaCurrent \ RowsOf(area)
  /\ UNCHANGED <<wallTime, committedAt, inserted, areaEvents, eventIds>>

\* The INSERT fails as a whole when a settlement has put a row there meanwhile;
\* either way the rebuild is over.
RebuildInsert(area) ==
  /\ area \in rebuilding
  /\ rebuilding' = rebuilding \ {area}
  /\ areaCurrent' =
       IF \E r \in RowsOf(area), e \in Derived(area) : r.key = e.key
       THEN areaCurrent ELSE areaCurrent \union Derived(area)
  /\ UNCHANGED <<wallTime, committedAt, inserted, areaEvents, eventIds>>

SettlementStep(s) ==
  TakeTime(s) \/ InsertAreaEvent(s) \/ CommitAreaState(s) \/ AbortSettlement(s)

AreaNext ==
  \/ \E s \in AreaWriters : SettlementStep(s)
  \/ \E a \in Areas : RebuildDelete(a) \/ RebuildInsert(a)

\* A current row is that of an event which was committed, an aborted settlement's
\* never, and the only one of its key.
AreaRowsBacked ==
  /\ areaCurrent \subseteq areaEvents
  /\ \A r1, r2 \in areaCurrent : r1.area = r2.area /\ r1.key = r2.key => r1 = r2

\* What the contract of area state says: the current row is the event with the
\* highest time and id.  It is not, when settlements overlap or an artifact
\* brings an older time.
CurrentIsDerived ==
  \A a \in Areas \ rebuilding : RowsOf(a) = Derived(a)
=============================================================================
