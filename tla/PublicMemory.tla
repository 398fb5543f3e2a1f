---------------------------- MODULE PublicMemory ----------------------------
(***************************************************************************)
(* What agents show to others: publications of settlements become public   *)
(* events with rows and a narrative of their area or of the world, and     *)
(* private events, entities and facts are promoted to public ones.  The    *)
(* runtime gives its projection manager no graph store, so that nothing in *)
(* the running program calls these paths; they are modelled over           *)
(* repositories that answer at once, as their synchronous callers require. *)
(***************************************************************************)
EXTENDS Naturals, Sequences, FiniteSets

CONSTANTS
  Publishers,      \* settlements that publish
  PublicationsOf,  \* their publications: scope "area" or "world", blank or not
  PlaceOf,         \* where the viewer of a settlement is
  Nowhere,         \* no place
  MaxRuns,         \* bound on the runs of one settlement's publications
  EntityKeys,      \* pointer keys of entities
  Places,          \* those that are locations
  NamedAs,         \* what their names are marked as: "plain", "hidden", "secret"
  SharedAtFirst,   \* the shared entities there are
  Records,         \* source records of private events
  MaxPublic        \* bound on promoted events and on facts

ASSUME PublicAssumption ==
  /\ \A s \in Publishers :
       /\ PlaceOf[s] \in Places \union {Nowhere}
       /\ PublicationsOf[s] \in Seq([scope : {"area", "world"}, blank : BOOLEAN])
  /\ NamedAs \in [EntityKeys -> {"plain", "hidden", "secret"}]
  /\ Places \subseteq EntityKeys /\ SharedAtFirst \subseteq EntityKeys
  /\ \A p \in Places : NamedAs[p] # "hidden"     \* only persons are
  /\ MaxRuns \in Nat /\ MaxPublic \in Nat

VARIABLES
  pubRun,          \* the publication a run is at, 0 for no run, and how it was written
  runsLeft,        \* runs that may still be started
  finished,        \* settlements one of whose runs reached the end
  pubEvents,       \* event_nodes that stand for a publication
  shown,           \* rows of area_state_current and world_state_current for them
  narrative,       \* the publication that area_narrative_current and world_ show
  recoveryJobs,    \* _memory_maintenance_jobs
  shared,          \* pointer keys of shared entities
  promoted,        \* event_nodes that come from promotion and materialization
  facts            \* fact_edges: the pair and whether it is valid

publicVars == <<pubRun, runsLeft, finished, pubEvents, shown, narrative,
                recoveryJobs, shared, promoted, facts>>
runVars == <<pubRun, runsLeft, finished, pubEvents, shown, narrative, recoveryJobs>>
promotionVars == <<shared, promoted, facts>>

World == "world"            \* the world's narrative, and its entity
UnknownPerson == "unknown_person"

PublicInit ==
  /\ pubRun = [s \in Publishers |-> [at |-> 0, written |-> "not"]]
  /\ runsLeft = [s \in Publishers |-> MaxRuns]
  /\ finished = {} /\ pubEvents = {} /\ shown = {} /\ recoveryJobs = {}
  /\ narrative = [p \in Places \union {World} |-> <<>>]
  /\ shared = SharedAtFirst
  /\ promoted = {} /\ facts = <<>>

(***************************************************************************)
(* Publications.  A run goes through them in order; the settlement may be  *)
(* run again after it failed or its process died.                          *)
(***************************************************************************)

StartRun(s) ==
  /\ pubRun[s].at = 0 /\ runsLeft[s] > 0
  /\ pubRun' = [pubRun EXCEPT ![s] = [at |-> 1, written |-> "not"]]
  /\ runsLeft' = [runsLeft EXCEPT ![s] = @ - 1]
  /\ UNCHANGED <<finished, pubEvents, shown, narrative, recoveryJobs, promotionVars>>

Publication(s) == PublicationsOf[s][pubRun[s].at]

AtPublication(s) == pubRun[s].at \in 1..Len(PublicationsOf[s])

\* A blank one is skipped, and one for the current area of a viewer nowhere.
Passed(s, publication) ==
  publication.blank \/ (publication.scope = "area" /\ PlaceOf[s] = Nowhere)

Onwards(s) == pubRun' = [pubRun EXCEPT ![s] = [at |-> @.at + 1, written |-> "not"]]

PassOver(s) ==
  /\ AtPublication(s) /\ pubRun[s].written = "not" /\ Passed(s, Publication(s))
  /\ Onwards(s)
  /\ UNCHANGED <<runsLeft, finished, pubEvents, shown, narrative, recoveryJobs, promotionVars>>

Writes(s) ==
  AtPublication(s) /\ pubRun[s].written = "not" /\ ~Passed(s, Publication(s))

\* What is published to the world from nowhere happens at the entity "world".
SharedFor(s) == IF PlaceOf[s] = Nowhere THEN shared \union {World} ELSE shared

\* The unique index on settlement, index and scope tells one that is there.
WritePublication(s) ==
  LET row == <<s, pubRun[s].at>>
  IN /\ Writes(s)
     /\ pubEvents' = pubEvents \union {row}
     /\ pubRun' = [pubRun EXCEPT ![s].written =
                     IF row \in pubEvents THEN "reconciled" ELSE "materialized"]
     /\ shared' = SharedFor(s)
     /\ UNCHANGED <<runsLeft, finished, shown, narrative, recoveryJobs, promoted, facts>>

\* Four transient errors; the last may have hidden a success.  The publication
\* is skipped and left to a recovery job.
GiveUpPublication(s) ==
  LET row == <<s, pubRun[s].at>>
  IN /\ Writes(s) /\ row \notin pubEvents
     /\ \E there \in BOOLEAN : pubEvents' = IF there THEN pubEvents \union {row} ELSE pubEvents
     /\ recoveryJobs' = recoveryJobs \union {row}
     /\ shared' = SharedFor(s)
     /\ Onwards(s)
     /\ UNCHANGED <<runsLeft, finished, shown, narrative, promoted, facts>>

\* The row and the narrative follow for a publication that was written, and for
\* one that was there.
Shows_Bug(written) == written = "materialized"   \* a mistake: reconciled is done
Shows(written) == written \in {"materialized", "reconciled"}

\* The narrative of a place is the text that was applied last.
Narrated(where, row) == [narrative EXCEPT ![where] = row]

ShowPublication(s) ==
  LET row == <<s, pubRun[s].at>>
      where == IF Publication(s).scope = "world" THEN World ELSE PlaceOf[s]
  IN /\ AtPublication(s) /\ pubRun[s].written # "not"
     /\ IF Shows(pubRun[s].written)
        THEN /\ shown' = shown \union {row}
             /\ narrative' = Narrated(where, row)
        ELSE UNCHANGED <<shown, narrative>>
     /\ Onwards(s)
     /\ UNCHANGED <<runsLeft, finished, pubEvents, recoveryJobs, promotionVars>>

FinishRun(s) ==
  /\ pubRun[s].at = Len(PublicationsOf[s]) + 1
  /\ finished' = finished \union {s}
  /\ pubRun' = [pubRun EXCEPT ![s].at = 0]
  /\ UNCHANGED <<runsLeft, pubEvents, shown, narrative, recoveryJobs, promotionVars>>

\* Another error is thrown to the caller, or the process dies.
BreakRun(s) ==
  /\ AtPublication(s)
  /\ pubRun' = [pubRun EXCEPT ![s] = [at |-> 0, written |-> "not"]]
  /\ UNCHANGED <<runsLeft, finished, pubEvents, shown, narrative, recoveryJobs, promotionVars>>

PublishNext ==
  \E s \in Publishers :
    \/ StartRun(s) \/ PassOver(s) \/ WritePublication(s) \/ GiveUpPublication(s)
    \/ ShowPublication(s) \/ FinishRun(s) \/ BreakRun(s)

(***************************************************************************)
(* Promotion.  Every entity is first a private one; a reference is to it   *)
(* or to the shared entity of the same key.                                *)
(***************************************************************************)

Refs == [key : EntityKeys \union {UnknownPerson, World}, public : BOOLEAN]

Exists(ref) == IF ref.public THEN ref.key \in shared ELSE ref.key \in EntityKeys

SharedRef(key) == [key |-> key, public |-> TRUE]

\* resolvePublicEntityDecision.
Decision(ref, isLocation) ==
  IF ref.public \/ ref.key \in shared THEN "reuse_shared"
  ELSE IF NamedAs[ref.key] = "secret" THEN "block"
  ELSE IF ~isLocation /\ NamedAs[ref.key] = "hidden" THEN "promote_placeholder"
  ELSE "promote_full"

\* The public entity a reference becomes, which is written when it is not there.
PublicOf(ref, isLocation) ==
  IF Decision(ref, isLocation) = "promote_placeholder" THEN UnknownPerson ELSE ref.key

Blocked(refs) == {r \in refs : Decision(r, FALSE) = "block"}

\* resolveReferences goes on after a reference that is blocked: the others are
\* promoted though nothing will be written.
PromotedBy(refs) == {PublicOf(r, FALSE) : r \in refs \ Blocked(refs)}

\* resolveEntityIdToPublic: by what the candidate resolved, or itself if shared.
SafeRefs_Bug(refs, resolved) == {SharedRef(PublicOf(r, FALSE)) : r \in refs \intersect resolved}
                                  \union (refs \ resolved)    \* a mistake: kept as it is
SafeRefs(refs, resolved) ==
  {SharedRef(PublicOf(r, FALSE)) : r \in refs \intersect resolved}
    \union {r \in refs \ resolved : r.public}

RoomFor(n) == Cardinality(promoted) + Len(facts) + n <= MaxPublic

\* resolveReferences and executeProjectedWrite for a candidate whose source is
\* an event; it needs a location that is public.
PromoteEvent(refs, participants, location) ==
  LET safe == SafeRefs(participants \union refs, refs)
      place == SafeRefs({location}, refs)
  IN /\ RoomFor(1)
     /\ shared' = shared \union PromotedBy(refs)
     /\ promoted' =
          IF Blocked(refs) # {} \/ place = {} THEN promoted
          ELSE promoted \union {[origin |-> "promotion", about |-> safe \union place,
                                 record |-> "none", scope |-> "world"]}
     /\ UNCHANGED <<runVars, facts>>

\* createFact: the fact that is valid for the pair is invalidated first.
Asserted(pair) ==
  Append([i \in DOMAIN facts |-> [facts[i] EXCEPT !.valid = @ /\ facts[i].pair # pair]],
         [pair |-> pair, valid |-> TRUE])

\* A candidate with another source becomes a fact.
PromoteFact(from, to) ==
  LET refs == {from, to}
      pair == <<SharedRef(PublicOf(from, FALSE)), SharedRef(PublicOf(to, FALSE))>>
  IN /\ RoomFor(1) /\ from # to
     /\ shared' = shared \union PromotedBy(refs)
     /\ facts' = IF Blocked(refs) # {} THEN facts ELSE Asserted(pair)
     /\ UNCHANGED <<runVars, promoted>>

\* materializeDelayed for a private event at a place, perhaps with an actor.  A
\* public event of its record is looked for among those of the world only, while
\* the index is on those of areas: a second event of a record is an error.
MaterializeDelayed(record, location, actors) ==
  LET placed == Decision(location, TRUE) # "block"
      known == \E e \in promoted : e.record = record /\ e.scope = "world"
      taken == \E e \in promoted : e.record = record /\ e.scope = "area"
      safe == {SharedRef(PublicOf(a, FALSE)) : a \in actors \ Blocked(actors)}
  IN /\ RoomFor(1) /\ placed /\ ~known
     /\ shared' = shared \union {location.key} \union PromotedBy(actors)
     /\ promoted' = IF taken THEN promoted
                    ELSE promoted \union {[origin |-> "delayed", record |-> record, scope |-> "area",
                                           about |-> safe \union {SharedRef(location.key)}]}
     /\ UNCHANGED <<runVars, facts>>

PromoteNext ==
  \E location \in {r \in Refs : r.key \in Places /\ Exists(r)}, one, two \in {r \in Refs : Exists(r)} :
    \/ \E refs \in SUBSET {one, location} : PromoteEvent(refs, {one, two}, location)
    \/ PromoteFact(one, two)
    \/ \E record \in Records, actors \in {{}, {one}} : MaterializeDelayed(record, location, actors)

PublicNext == PublishNext \/ PromoteNext

PublicSpec == PublicInit /\ [][PublicNext]_publicVars

(***************************************************************************)
(* Properties.                                                             *)
(***************************************************************************)

\* When a run has gone through a settlement's publications each of them has its
\* event with its row, or a recovery job: whatever failed, died or was reported
\* wrongly in this run and in those before.
PublishedIsShown ==
  /\ shown \subseteq pubEvents
  /\ \A s \in finished : \A i \in DOMAIN PublicationsOf[s] :
       ~Passed(s, PublicationsOf[s][i]) => <<s, i>> \in shown \union recoveryJobs

\* Nothing public names what is private: promoted events and facts are about
\* shared entities that are there, and no entity became shared whose existence
\* is secret or whose name hides a person.  The program writes the keys of the
\* world and of the unknown person itself.
OnlyPublicNames ==
  /\ \A e \in promoted : \A r \in e.about : r.public /\ r.key \in shared
  /\ \A i \in DOMAIN facts : \A r \in {facts[i].pair[1], facts[i].pair[2]} : r.public /\ r.key \in shared
  /\ \A k \in shared \ (SharedAtFirst \union {World, UnknownPerson}) :
       k \in EntityKeys => NamedAs[k] = "plain"
=============================================================================
