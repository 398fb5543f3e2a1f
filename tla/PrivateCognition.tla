-------------------------- MODULE PrivateCognition --------------------------
(***************************************************************************)
(* What an agent believes: an append-only table of cognition events, the   *)
(* row of each key projected from them, and the search document of each    *)
(* row.  Turns and thinker jobs append and project in one transaction at   *)
(* the end.  A flush of the conversation goes through those settled turns  *)
(* once more that the ledger does not have as applied, in a transaction    *)
(* that lasts as long as its model calls, and there alone the rules of     *)
(* belief revision are enforced.                                           *)
(***************************************************************************)
EXTENDS Integers, Sequences, FiniteSets, SequencesExt

CONSTANTS
  CogKeys, KindOf,    \* cognition keys of the agent, and the kind of each
  TurnSettlements,    \* settled turns, whose payload a flush goes through
  JobSettlements,     \* settlements of thinker jobs; a job may run again
  SubmittedOps,       \* what the model may submit for each settlement
  NoCognition,        \* no row
  MaxCommits          \* bound on the commits of one settlement

Settlements == TurnSettlements \cup JobSettlements

Stances == {"hypothetical", "tentative", "accepted", "confirmed", "contested",
            "rejected", "abandoned"}
Bases   == {"belief", "inference", "hearsay", "first_hand", "introspection"}

CognitionOps ==
  [op : {"upsert", "retract"}, key : CogKeys, stance : Stances \cup {"none"},
   basis : Bases \cup {"none"}, pre : Stances \cup {"none"}]

Rows ==
  [stance : Stances \cup {"none"}, basis : Bases \cup {"none"}, pre : Stances \cup {"none"},
   status : {"active", "retracted"}, updated : Nat]

ASSUME CognitionAssumption ==
  /\ TurnSettlements \cap JobSettlements = {}
  /\ KindOf \in [CogKeys -> {"assertion", "evaluation"}]
  /\ MaxCommits \in Nat
  /\ \A s \in Settlements : SubmittedOps[s] \subseteq Seq(CognitionOps)
  /\ NoCognition \notin Rows

VARIABLES
  events,      \* private_cognition_events, in the order of their ids
  current,     \* private_cognition_current
  doc,         \* the stance in search_docs_cognition
  settling,    \* where each settlement stands, and its committedAt
  committed,   \* settled turns in the order of the interaction log
  flushing,    \* the transaction of the flush
  flushedTo,   \* how much of the log is marked processed
  ledgered,    \* who settles turns: the turn service, which keeps the ledger,
               \* or a caller of commitSettlement that leaves all to the flush
  ledger,      \* settlement_processing_ledger
  conflicted,  \* keys whose row got conflict factors from a flush
  undone,      \* settlements marked applied by a flush that was rolled back:
               \* not in the code, which skips them from then on
  clock

cogVars == <<events, current, doc, settling, committed, flushing, flushedTo, ledgered, ledger,
             conflicted, undone, clock>>

\* No flush runs.
NoFlush == [at |-> "idle", next |-> 0, hi |-> 0, docs |-> <<>>, bumped |-> <<>>,
            marked |-> {}]

CogInit ==
  /\ events = << >>
  /\ current = [k \in CogKeys |-> NoCognition]
  /\ doc = [k \in CogKeys |-> "none"]
  /\ settling = [s \in Settlements |-> [at |-> "idle", time |-> 0, ops |-> << >>, commits |-> 0]]
  /\ committed = << >> /\ flushedTo = 0
  /\ flushing = NoFlush
  /\ ledgered \in BOOLEAN /\ ledger = [s \in TurnSettlements |-> "none"]
  /\ conflicted = {} /\ undone = {} /\ clock = 0
-----------------------------------------------------------------------------
(***************************************************************************)
(* Belief revision.                                                        *)
(***************************************************************************)
Terminal_Stances == {"rejected", "abandoned"}

LegalTargets(stance) ==
  CASE stance = "hypothetical" -> {"tentative", "accepted", "contested", "rejected", "abandoned"}
    [] stance = "tentative"    -> {"accepted", "contested", "rejected", "abandoned"}
    [] stance = "accepted"     -> {"confirmed", "contested", "rejected", "abandoned", "tentative"}
    [] stance = "confirmed"    -> {"accepted", "contested"}
    [] stance = "contested"    -> {"rejected"}
    [] OTHER                   -> {}

BasisUpgrades == {<<"belief", "inference">>, <<"belief", "first_hand">>,
                  <<"inference", "first_hand">>, <<"hearsay", "first_hand">>}

LegalStance(row, next) ==
  \/ next = row.stance
  \/ next \in LegalTargets(row.stance)
  \/ /\ row.stance = "contested" /\ row.pre # "none"
     /\ next = row.pre \/ next \in LegalTargets(row.pre)

LegalBasis(row, next) ==
  "none" \in {row.basis, next} \/ next = row.basis \/ <<row.basis, next>> \in BasisUpgrades

\* upsertAssertion refuses a write that none of the rules allows.
Revisable(k, op) ==
  KindOf[k] = "assertion" =>
    /\ op.stance = "contested" => op.pre # "none"
    /\ current[k] # NoCognition =>
         /\ current[k].stance \notin Terminal_Stances
         /\ LegalStance(current[k], op.stance)
         /\ LegalBasis(current[k], op.basis)
-----------------------------------------------------------------------------
(***************************************************************************)
(* Events and their projection.                                            *)
(***************************************************************************)
\* Of the operations on one key of one kind the last counts, at the place of
\* the first.
PutOp(kept, op) ==
  LET same(i) == kept[i].key = op.key /\ kept[i].op = op.op
  IN  IF \E i \in DOMAIN kept : same(i)
      THEN [i \in DOMAIN kept |-> IF same(i) THEN op ELSE kept[i]]
      ELSE Append(kept, op)

Deduped(ops) ==
  LET upTo[n \in 0..Len(ops)] == IF n = 0 THEN << >> ELSE PutOp(upTo[n - 1], ops[n])
  IN  upTo[Len(ops)]

Coalesce(a, b) == IF a # "none" THEN a ELSE b

\* A late upsert does not overwrite what a younger one has projected.
Newer(e, row) == e.time >= row.updated

\* upsertFromEvent; a retraction applies whatever its time.
Project(row, e) ==
  CASE e.op = "retract" /\ row = NoCognition -> row
    [] e.op = "retract" /\ row # NoCognition ->
         [row EXCEPT !.status = "retracted", !.updated = e.time,
                     !.stance = IF KindOf[e.key] = "assertion" THEN "rejected" ELSE @]
    [] e.op = "upsert" /\ row = NoCognition ->
         [stance |-> e.stance, basis |-> e.basis, pre |-> e.pre,
          status |-> "active", updated |-> e.time]
    [] OTHER -> IF Newer(e, row)
                THEN [stance |-> e.stance, basis |-> Coalesce(e.basis, row.basis),
                      pre |-> Coalesce(e.pre, row.pre),
                      status |-> "active", updated |-> e.time]
                ELSE row

EventOf(s, op, time) ==
  [settlement |-> s, key |-> op.key, op |-> op.op, stance |-> op.stance,
   basis |-> op.basis, pre |-> op.pre, time |-> time]

Known_Bug(log, s, op) == FALSE

\* The unique index on settlement, key and operation.
Known(log, s, op) ==
  \E i \in DOMAIN log : log[i].settlement = s /\ log[i].key = op.key /\ log[i].op = op.op

AppendOp_Bug(tables, s, op, time) ==
  LET e == EventOf(s, op, time)
      row == Project(tables.current[op.key], e)
  IN  [events  |-> IF Known(tables.events, s, op) THEN tables.events ELSE Append(tables.events, e),
       current |-> [tables.current EXCEPT ![op.key] = row],
       doc     |-> tables.doc]

\* What appending an operation makes of the three tables.  A retraction of a
\* key without a row writes a document named after the event, which is no
\* key's: it is left out.
AppendOp(tables, s, op, time) ==
  IF Known(tables.events, s, op) THEN tables
  ELSE LET e == EventOf(s, op, time)
           row == Project(tables.current[op.key], e)
       IN  [events  |-> Append(tables.events, e),
            current |-> [tables.current EXCEPT ![op.key] = row],
            doc     |-> IF row = NoCognition THEN tables.doc
                        ELSE [tables.doc EXCEPT ![op.key] = row.stance]]

Tables == [events |-> events, current |-> current, doc |-> doc]

AppendOps(s, ops, time) ==
  LET after[n \in 0..Len(ops)] ==
        IF n = 0 THEN Tables ELSE AppendOp(after[n - 1], s, ops[n], time)
  IN  after[Len(ops)]

EventsOf(log, k) == {i \in DOMAIN log : log[i].key = k}

\* The event of a key that has n - 1 of them before it, by time and id.
NthEvent(log, k, n) ==
  LET before(i) == {j \in EventsOf(log, k) :
                      log[j].time < log[i].time \/ (log[j].time = log[i].time /\ j < i)}
      nth == {i \in EventsOf(log, k) : Cardinality(before(i)) = n - 1}
  IN  CHOOSE e \in {log[i] : i \in nth} : TRUE

\* rebuild(): a key's events once more, in the order of time and id.
Replay(log, k) ==
  LET row[n \in 0..Cardinality(EventsOf(log, k))] ==
        IF n = 0 THEN NoCognition ELSE Project(row[n - 1], NthEvent(log, k, n))
  IN  row[Cardinality(EventsOf(log, k))]
-----------------------------------------------------------------------------
(***************************************************************************)
(* Settlements of turns and of thinker jobs.                               *)
(***************************************************************************)
\* Keys whose row or document the flush holds until its transaction ends.
LockedKeys == DOMAIN flushing.docs \cup DOMAIN flushing.bumped

\* committedAt is read before the transaction begins.  The thinker's job may
\* be run again, and its model then submits something else.
BeginSettlement(s) ==
  /\ settling[s].at \in {"idle"} \cup (IF s \in JobSettlements THEN {"committed"} ELSE {})
  /\ settling[s].commits < MaxCommits
  /\ clock' = clock + 1
  /\ \E raw \in SubmittedOps[s] :
       settling' = [settling EXCEPT ![s] =
         [at |-> "settling", time |-> clock + 1, ops |-> Deduped(raw), commits |-> @.commits + 1]]
  /\ UNCHANGED <<events, current, doc, committed, flushing, flushedTo, ledgered, ledger, conflicted, undone>>

\* The turn service marks its settlement applied in the same transaction, and
\* no flush will touch it.
MarkedAtOnce(s) ==
  ledger' = IF ledgered /\ s \in TurnSettlements THEN [ledger EXCEPT ![s] = "applied"] ELSE ledger

CommitSettlement(s) ==
  /\ settling[s].at = "settling"
  /\ \A i \in DOMAIN settling[s].ops : settling[s].ops[i].key \notin LockedKeys
  /\ LET t == AppendOps(s, settling[s].ops, settling[s].time)
     IN  events' = t.events /\ current' = t.current /\ doc' = t.doc
  /\ settling' = [settling EXCEPT ![s].at = "committed"]
  /\ committed' = IF s \in TurnSettlements THEN Append(committed, s) ELSE committed
  /\ MarkedAtOnce(s)
  /\ UNCHANGED <<ledgered, flushing, flushedTo, conflicted, undone, clock>>
-----------------------------------------------------------------------------
(***************************************************************************)
(* The flush.                                                              *)
(***************************************************************************)
BeginFlush ==
  /\ flushing.at = "idle" /\ flushedTo < Len(committed)
  /\ flushing' = [NoFlush EXCEPT !.at = "running", !.next = flushedTo + 1, !.hi = Len(committed)]
  /\ UNCHANGED <<events, current, doc, settling, committed, flushedTo, ledgered, ledger,
                 conflicted, undone, clock>>

\* The operations of a settlement that the rules allow, up to the first that
\* they do not.
Allowed(ops) ==
  LET bad == {i \in DOMAIN ops : ops[i].op = "upsert" /\ ~Revisable(ops[i].key, ops[i])}
  IN  {i \in DOMAIN ops : \A j \in bad : i < j}

\* What was written last of each key.
Overlaid(new, old) ==
  [k \in DOMAIN new \cup DOMAIN old |-> IF k \in DOMAIN new THEN new[k] ELSE old[k]]

\* A mistake: the last operation of the settlement, not of the key.
DocsOf_Bug(ops) == [k \in {ops[i].key : i \in DOMAIN ops} |-> ops[Len(ops)].stance]

\* Where every operation's event is there nothing is projected, but the search
\* document is written from the operation all the same.
DocsOf(ops) ==
  [k \in {ops[i].key : i \in DOMAIN ops} \ {x \in CogKeys : current[x] = NoCognition} |->
     LET last == CHOOSE i \in DOMAIN ops : ops[i].key = k /\
                   \A j \in DOMAIN ops : ops[j].key = k => j <= i
     IN  IF ops[last].op = "retract"
         THEN IF KindOf[k] = "assertion" THEN "rejected" ELSE "abandoned"
         ELSE ops[last].stance]

Contested(ops) ==
  {ops[i].key : i \in {j \in DOMAIN ops : ops[j].op = "upsert" /\ ops[j].stance = "contested"}}

\* A row that would not change is not written and not locked.
Changed(docs) ==
  [k \in {x \in DOMAIN docs :
            docs[x] # (IF x \in DOMAIN flushing.docs THEN flushing.docs[x] ELSE doc[x])} |-> docs[k]]

\* check(): a settlement that was applied, or has failed for good, is skipped.
Settled(s) == ledger[s] \in {"applied", "failed_terminal"}

\* The ledger is written outside the transaction of the flush, which is rolled
\* back.
RollBack ==
  /\ flushing' = NoFlush
  /\ undone' = undone \cup {s \in flushing.marked : ledger[s] = "applied"}

FailedAs(s, how) ==
  /\ ledger' = [ledger EXCEPT ![s] = how]
  /\ RollBack
  /\ UNCHANGED clock

\* An entity that a belief is about is not there yet: to be tried again.
UnresolvedEntity(s) == FailedAs(s, "failed_retryable")

\* The operations are committed through CognitionRepository: an event that is
\* known projects nothing, one that is not would be projected as of now.
ProcessSettlement(s) ==
  LET ops == settling[s].ops
      t == AppendOps(s, ops, clock + 1)
  IN  CASE Settled(s) ->
             /\ flushing' = [flushing EXCEPT !.next = @ + 1]
             /\ UNCHANGED <<events, current, doc, ledger, undone, clock>>
        [] ~Settled(s) /\ Allowed(ops) # DOMAIN ops ->
             FailedAs(s, "failed_terminal") /\ UNCHANGED <<events, current, doc>>
        [] OTHER ->
             \/ UnresolvedEntity(s) /\ UNCHANGED <<events, current, doc>>
             \/ /\ ledger' = [ledger EXCEPT ![s] = "applied"]
                /\ events' = t.events /\ current' = t.current /\ doc' = t.doc
                /\ clock' = clock + Cardinality(Contested(ops))
                /\ UNCHANGED undone
                /\ flushing' = [flushing EXCEPT !.next = @ + 1, !.marked = @ \cup {s},
                     !.docs = Overlaid(Changed(DocsOf(ops)), @),
                     !.bumped = Overlaid([k \in Contested(ops) |-> clock'], @)]

FlushSettlement ==
  /\ flushing.at = "running" /\ flushing.next <= flushing.hi
  /\ ProcessSettlement(committed[flushing.next])
  /\ UNCHANGED <<settling, committed, flushedTo, ledgered, conflicted>>

CommitFlush ==
  /\ flushing.at = "running" /\ flushing.next > flushing.hi
  /\ doc' = Overlaid(flushing.docs, doc)
  /\ current' = [k \in CogKeys |->
       IF k \in DOMAIN flushing.bumped
       THEN [current[k] EXCEPT !.updated = flushing.bumped[k]] ELSE current[k]]
  /\ conflicted' = conflicted \cup DOMAIN flushing.bumped
  /\ flushedTo' = flushing.hi
  /\ flushing' = NoFlush
  /\ UNCHANGED <<events, settling, committed, ledgered, ledger, undone, clock>>

\* The process dies, or a model call fails.
FlushDies ==
  /\ flushing.at = "running" /\ RollBack
  /\ UNCHANGED <<events, current, doc, settling, committed, flushedTo, ledgered, ledger, conflicted,
                 clock>>

CogNext ==
  \/ \E s \in Settlements : BeginSettlement(s) \/ CommitSettlement(s)
  \/ BeginFlush \/ FlushSettlement \/ CommitFlush \/ FlushDies

CogSpec == CogInit /\ [][CogNext]_cogVars
-----------------------------------------------------------------------------
\* The events of a key were appended in the order of their times.
InOrder(log, k) ==
  \A i, j \in EventsOf(log, k) : i < j => log[i].time <= log[j].time

\* The projection can be thrown away: replaying the table of events yields the
\* rows that the transactions projected one by one (cognition-projection-repo.
\* ts:130), for a key whose transactions committed in the order they began and
\* whose row no flush has touched.
CurrentIsReplay ==
  \A k \in CogKeys : InOrder(events, k) /\ k \notin conflicted => current[k] = Replay(events, k)

\* Going through settled turns once more changes nobody's beliefs: neither the
\* stance nor the basis nor the status of a row, however often the flush is
\* repeated and whatever was settled since (pg-app-schema-ops.ts:119).
FlushKeepsBeliefs ==
  [][flushing.at = "running" /\ flushing' # flushing =>
       \A k \in CogKeys : current'[k] # current[k] =>
         /\ current[k] # NoCognition
         /\ current'[k] = [current[k] EXCEPT !.updated = current'[k].updated]]_cogVars

\* When the flush has caught up with the log, search shows what the agent
\* believes, though each flush writes the documents of settlements that are
\* older than the rows (cognition-repo.ts:231): for the assertions of turns
\* alone, each of whose settlements was applied and not rolled back.
SearchCatchesUp ==
  LET touched(s) == {settling[s].ops[i].key : i \in DOMAIN settling[s].ops}
  IN  flushing.at = "idle" /\ flushedTo = Len(committed) =>
        \A k \in CogKeys :
          /\ KindOf[k] = "assertion" /\ InOrder(events, k) /\ k \notin conflicted /\ current[k] # NoCognition
          /\ \A i \in DOMAIN events : events[i].key = k => events[i].settlement \in TurnSettlements
          /\ \A s \in TurnSettlements : k \in touched(s) => ledger[s] \in {"none", "applied"} /\ s \notin undone
          => doc[k] = current[k].stance

\* "Terminal stances (`rejected`, `abandoned`) cannot be written over with a
\* new upsert on the same `cognition_key`" (MEMORY_ARCHITECTURE_2026.md:121).
TerminalStanceIsFinal ==
  [][\A k \in CogKeys :
       current[k] # NoCognition /\ current[k].stance \in Terminal_Stances
         => current'[k].stance = current[k].stance]_cogVars
=============================================================================
