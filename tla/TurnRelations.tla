---------------------------- MODULE TurnRelations ----------------------------
(***************************************************************************)
(* The outcome that the model submits for a turn, and the relations it     *)
(* asks for: which of its parts are refused, dropped or kept, what its     *)
(* references name, and what joins episodes to beliefs and contested       *)
(* beliefs to what speaks against them.  Thinker jobs write relations in   *)
(* the transaction of their settlement; those of other turns wait for a    *)
(* flush, which passes over whatever the ledger has as applied.            *)
(***************************************************************************)
EXTENDS Integers, Sequences, FiniteSets, SequencesExt

CONSTANTS
  Thoughts,        \* settlements of thinker jobs; a job may run again
  PlainTurns,      \* settlements of turns that the Talker does not take
  OutcomesOf,      \* [reply, ops, episodes, publications, intents, factors]
                   \* that the model may submit for each
  BeliefKeys,      \* cognition keys
  NoSettlement, NoRef,
  MaxThoughts      \* bound on the runs of a job

VARIABLES
  rowKind,          \* kind of each key's row in private_cognition_current
  factorRefs,       \* conflict_factor_refs_json of each key's row
  episodeRows,      \* private_episode_events with a source_local_ref
  memory_relations,
  thoughts,         \* runs of each thinker job, and what was submitted last
  settledTurns      \* payloads of plain turns, and what the ledger says

relationVars == <<rowKind, factorRefs, episodeRows, memory_relations, thoughts, settledTurns>>

NoOutcome == [reply |-> FALSE, ops |-> <<>>, episodes |-> <<>>, publications |-> <<>>,
              intents |-> <<>>, factors |-> <<>>]

RelationInit ==
  /\ rowKind = [k \in BeliefKeys |-> "none"] /\ factorRefs = [k \in BeliefKeys |-> {}]
  /\ episodeRows = {} /\ memory_relations = {}
  /\ thoughts = [s \in Thoughts |-> [runs |-> 0, outcome |-> NoOutcome]]
  /\ settledTurns = [s \in PlainTurns |-> [at |-> "open", outcome |-> NoOutcome]]
-----------------------------------------------------------------------------
(* The contract of an outcome. *)

Sound(item) == item.is # "malformed"

AllSound(items) == \A i \in DOMAIN items : Sound(items[i])

\* The thinker drops what is malformed among relations and factors beforehand.
Sanitized(outcome) ==
  [outcome EXCEPT !.intents = SelectSeq(@, Sound), !.factors = SelectSeq(@, Sound)]

\* A malformed operation is passed over; it never costs the turn.
Normalized(outcome) == [outcome EXCEPT !.ops = SelectSeq(@, Sound)]

IsVoid(outcome) ==
  ~outcome.reply /\ <<>> = outcome.ops \o outcome.publications \o outcome.episodes

\* Anything else that is malformed, and an empty outcome, is refused.
Acceptable(outcome) ==
  /\ AllSound(outcome.publications) /\ AllSound(outcome.episodes)
  /\ AllSound(outcome.intents) /\ AllSound(outcome.factors)
  /\ ~IsVoid(Normalized(outcome))

\* Of the upserts of one key the last counts.
Upserts(ops) ==
  FoldLeft(LAMBDA byKey, op : IF op.op = "upsert" THEN (op.key :> op) @@ byKey ELSE byKey,
           <<>>, ops)

-----------------------------------------------------------------------------
(* References. *)

Plain(name) == [pre |-> "", name |-> name]

\* The model writes "episode:walk" where it declared "walk".
StripRefPrefix(ref) ==
  IF ref.pre \in {"episode", "cognition", "publication"} THEN Plain(ref.name) ELSE ref

BeliefKinds == {"assertion", "evaluation", "commitment"}
NodeRefKinds == BeliefKinds \cup {"event", "entity", "fact", "episode"}

NodeOf(sort, by, ref) == [kind |-> sort, by |-> by, ref |-> ref]
BeliefNode(sort, k) == NodeOf(sort, NoSettlement, Plain(k))
Unresolved == NodeOf("none", NoSettlement, NoRef)

Resolved(ref, names) ==
  IF ref \in DOMAIN names THEN names[ref]
  ELSE IF StripRefPrefix(ref) \in DOMAIN names THEN names[StripRefPrefix(ref)] ELSE Unresolved

RefsOf(items) == {items[i].ref : i \in DOMAIN items} \ {NoRef}

\* The episodes of a settlement that are stored, whichever run declared them.
EpisodeNames(s, stored) ==
  [ref \in {e.ref : e \in {x \in stored : x.by = s}} |-> NodeOf("episode", s, ref)]

\* A mistake: the kind that the operation names.
NamesByRow_Bug(upserts, kinds) ==
  [ref \in {Plain(k) : k \in DOMAIN upserts} |-> BeliefNode(upserts[ref.name].kind, ref.name)]

\* The thinker's keys name their rows, and a row keeps its first kind.
NamesByRow(upserts, kinds) ==
  [ref \in {Plain(k) : k \in DOMAIN upserts} |-> BeliefNode(kinds[ref.name], ref.name)]

\* In the flush they name what the operation says.
NamesByOp(upserts) ==
  [ref \in {Plain(k) : k \in DOMAIN upserts} |-> BeliefNode(upserts[ref.name].kind, ref.name)]

\* Names of both, where the first says what a name shared by them names.
Over(names, others) ==
  [ref \in DOMAIN names \cup DOMAIN others |->
     IF ref \in DOMAIN names THEN names[ref] ELSE others[ref]]

\* Before a plain turn is settled its intents are dropped one by one.
Prevalidated(outcome) ==
  LET upserts == Upserts(outcome.ops)
      sources == RefsOf(outcome.episodes) \ RefsOf(outcome.publications)
      Valid(x) ==
        LET target == StripRefPrefix(x.to)
        IN  /\ StripRefPrefix(x.from) \in sources
            /\ target.pre = "" /\ target.name \in DOMAIN upserts
            /\ x.intent = "triggered" => upserts[target.name].kind # "assertion"
  IN  [outcome EXCEPT !.intents = SelectSeq(@, Valid)]

\* An operation is about a belief, of one of three kinds.
BeliefsOnly(outcome) ==
  LET upserts == Upserts(outcome.ops)
  IN  \A k \in DOMAIN upserts : k \in BeliefKeys /\ upserts[k].kind \in BeliefKinds

ASSUME RelationAssumption ==
  /\ Thoughts \cap PlainTurns = {}
  /\ \A s \in Thoughts : \A raw \in OutcomesOf[s] : BeliefsOnly(Normalized(Sanitized(raw)))
  /\ \A s \in PlainTurns : \A raw \in OutcomesOf[s] : BeliefsOnly(Prevalidated(Normalized(raw)))
-----------------------------------------------------------------------------
(* Relations. *)

Joining(s, intents, names) ==
  {[type |-> intents[i].intent, from |-> Resolved(intents[i].from, names),
    to |-> Resolved(intents[i].to, names), by |-> s] : i \in DOMAIN intents}

MayJoin(r) ==
  /\ r.from.kind = "episode" /\ r.to.kind \in BeliefKinds
  /\ r.type = "triggered" => r.to.kind # "assertion"

\* One reference that names nothing, or the wrong thing, costs all of them.
Materialized(s, intents, names) ==
  LET asked == Joining(s, intents, names)
  IN  IF \A r \in asked : MayJoin(r) THEN asked ELSE {}

\* A reference that parses as a node is believed; else it must be a key with a row.
FactorNode(ref, names, kinds) ==
  LET settled == Resolved(ref, names)
  IN  CASE settled # Unresolved -> settled
        [] settled = Unresolved /\ ref.pre \in NodeRefKinds ->
             NodeOf(ref.pre, NoSettlement, Plain(ref.name))
        [] settled = Unresolved /\ ref.pre \in {"", "cognition_key"}
             /\ ref.name \in BeliefKeys /\ kinds[ref.name] # "none" ->
             BeliefNode(kinds[ref.name], ref.name)
        [] OTHER -> Unresolved

\* An id is a number: a local name after "episode:" is none.
StableRef(node) ==
  \/ node.kind \in BeliefKinds
  \/ node.kind \in {"episode", "event"} /\ node.by # NoSettlement

FactorNodes(factors, names, kinds) ==
  {n \in {FactorNode(factors[i].ref, names, kinds) :
            i \in {j \in DOMAIN factors : factors[j].is = "ok"}} : StableRef(n)}

Disputed(upserts) ==
  {k \in DOMAIN upserts : upserts[k].kind = "assertion" /\ upserts[k].stance = "contested"}

ConflictsOf(s, disputed, names, against) ==
  {r \in [type : {"conflicts_with"}, from : {names[Plain(k)] : k \in disputed}, to : against,
          by : {s}] : r.from # r.to}

\* names are what intents go by, known what factors go by beside nodes and rows.
WriteRelations(s, outcome, names, beliefs, known, kinds) ==
  LET disputed == Disputed(Upserts(outcome.ops))
      against == FactorNodes(outcome.factors, known, kinds)
  IN  /\ memory_relations' = memory_relations \cup Materialized(s, outcome.intents, names)
                               \cup ConflictsOf(s, disputed, beliefs, against)
      /\ factorRefs' = [k \in BeliefKeys |-> IF k \in disputed THEN against ELSE factorRefs[k]]
-----------------------------------------------------------------------------
(* Settlements. *)

\* The kinds after the operations: an upsert of another kind changes no row's.
KindsAfter(ops) ==
  [k \in BeliefKeys |->
     IF rowKind[k] = "none" /\ k \in DOMAIN Upserts(ops) THEN Upserts(ops)[k].kind ELSE rowKind[k]]

EpisodesAfter(s, outcome) == episodeRows \cup [by : {s}, ref : RefsOf(outcome.episodes)]

\* One transaction: a run whose outcome is refused, or that meets an error of
\* the database even where the worker catches it, leaves nothing behind.
Think(s) ==
  /\ thoughts[s].runs < MaxThoughts
  /\ \E raw \in OutcomesOf[s] :
       LET outcome == Normalized(Sanitized(raw))
           beliefs == NamesByRow(Upserts(outcome.ops), KindsAfter(outcome.ops))
           names == Over(EpisodeNames(s, EpisodesAfter(s, outcome)), beliefs)
       IN  /\ thoughts' = [thoughts EXCEPT ![s] = [runs |-> @.runs + 1, outcome |-> outcome]]
           /\ \/ /\ Acceptable(Sanitized(raw))
                 /\ rowKind' = KindsAfter(outcome.ops)
                 /\ episodeRows' = EpisodesAfter(s, outcome)
                 /\ WriteRelations(s, outcome, names, beliefs, <<>>, KindsAfter(outcome.ops))
              \/ UNCHANGED <<rowKind, episodeRows, factorRefs, memory_relations>>
  /\ UNCHANGED settledTurns

\* The turn service settles a plain turn and marks it applied; other callers
\* leave it to the flush.
SettlePlainTurn(s) ==
  /\ settledTurns[s].at = "open"
  /\ \E raw \in OutcomesOf[s], at \in {"applied", "waiting"} :
       LET outcome == Prevalidated(Normalized(raw))
       IN  /\ Acceptable(raw)
           /\ rowKind' = KindsAfter(outcome.ops)
           /\ episodeRows' = EpisodesAfter(s, outcome)
           /\ settledTurns' = [settledTurns EXCEPT ![s] = [at |-> at, outcome |-> outcome]]
  /\ UNCHANGED <<factorRefs, memory_relations, thoughts>>

\* The flush comes to a settlement with operations.  Its publications have
\* rows only where something materialized them.
FlushRelations(s) ==
  /\ settledTurns[s].at = "waiting" /\ settledTurns[s].outcome.ops # <<>>
  /\ \E published \in BOOLEAN :
       LET outcome == settledTurns[s].outcome
           beliefs == NamesByOp(Upserts(outcome.ops))
           events == [ref \in IF published THEN RefsOf(outcome.publications) ELSE {} |->
                        NodeOf("event", s, ref)]
           local == Over(events, EpisodeNames(s, episodeRows))
           names == Over(local, beliefs)
           valid == \A r \in Joining(s, outcome.intents, names) : MayJoin(r)
       IN  \/ /\ valid
              /\ WriteRelations(s, outcome, names, beliefs, names, rowKind)
              /\ settledTurns' = [settledTurns EXCEPT ![s].at = "applied"]
           \* the ledger is not part of the transaction, which may be rolled back
           \/ /\ settledTurns' = [settledTurns EXCEPT ![s].at = IF valid THEN "applied" ELSE "failed"]
              /\ UNCHANGED <<factorRefs, memory_relations>>
  /\ UNCHANGED <<rowKind, episodeRows, thoughts>>

RelationNext ==
  \/ \E s \in Thoughts : Think(s)
  \/ \E s \in PlainTurns : SettlePlainTurn(s) \/ FlushRelations(s)

RelationSpec == RelationInit /\ [][RelationNext]_relationVars
-----------------------------------------------------------------------------
\* What a thinker job joins is there: each relation it writes leads from an
\* episode of its own settlement to a row of the very kind that it names, and
\* nothing is said to trigger an assertion, though keys are used again with
\* another kind and a job runs again with another outcome; and the relations
\* an outcome asks for are written together or not at all, though the worker
\* goes on after the failure (thinker-worker.ts:721).
EvidenceIsRooted ==
  [][\A s \in Thoughts :
       LET new == {r \in memory_relations' \ memory_relations :
                     r.by = s /\ r.type # "conflicts_with"}
           asked == thoughts'[s].outcome.intents
       IN  new # {} =>
             /\ \A r \in new :
                  /\ [by |-> s, ref |-> r.from.ref] \in episodeRows'
                  /\ rowKind'[r.to.ref.name] = r.to.kind
                  /\ r.type = "triggered" => r.to.kind # "assertion"
             /\ \A i \in DOMAIN asked : \E r \in memory_relations' :
                  /\ r.by = s /\ r.type = asked[i].intent
                  /\ r.from.ref \in {asked[i].from, StripRefPrefix(asked[i].from)}
                  /\ r.to.ref \in {asked[i].to, StripRefPrefix(asked[i].to)}]_relationVars
=============================================================================
