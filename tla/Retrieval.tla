------------------------------ MODULE Retrieval ------------------------------
(***************************************************************************)
(* The typed retrieval of a prompt: the template of the agent's role and   *)
(* the signals of the routed query decide how many hits each surface may   *)
(* show, three searches find them one after another, and the surfaces are  *)
(* filled so that nothing is said twice.                                   *)
(***************************************************************************)
EXTENDS Integers, Sequences, FiniteSets, SequencesExt

CONSTANTS
  Calls,           \* [role, strategy, on, budget, tokens]: the last three override
  Queries,         \* [words, entities, placed]: what the router finds in a query
  ContestedCounts, \* contestedCount of a call
  SaidBefore,      \* texts of the conversation and of recent cognition
  RecentKeys,      \* cognition keys that the prompt shows already
  EpisodesFound,   \* sequences of [text] that the episodes' search may return
  NarrativeFound,  \* sequences of [text, event, scope]
  CognitionFound,  \* sequences of [key, text, kind, stance, active, evidence]
  NoKey,
  Blank,           \* the text with no word in it
  TokensOf         \* text: its estimated tokens

VARIABLES
  retrieval,       \* phase, call and plan of the one retrieval
  found,           \* what the searches returned
  surface          \* the typed result

retrievalVars == <<retrieval, found, surface>>

Surfaces == <<"narrative", "cognition", "episode", "conflict">>

Total(f) == f.narrative + f.cognition + f.episode + f.conflict

-----------------------------------------------------------------------------
(* The template and the signals. *)

Each(n, c, e, x) == [narrative |-> n, cognition |-> c, episode |-> e, conflict |-> x]

RoleTemplate == [
  rp_agent   |-> [on |-> Each(TRUE, TRUE, TRUE, TRUE), budget |-> Each(3, 5, 3, 2),
                  tokens |-> Each(0, 0, 0, 0), boost |-> 1],
  maiden     |-> [on |-> Each(TRUE, FALSE, TRUE, FALSE), budget |-> Each(3, 0, 3, 0),
                  tokens |-> Each(0, 0, 0, 0), boost |-> 0],
  task_agent |-> [on |-> Each(FALSE, FALSE, FALSE, FALSE), budget |-> Each(0, 0, 0, 0),
                  tokens |-> Each(0, 0, 0, 0), boost |-> 0]]

ResolvedTemplate(call) ==
  LET base == RoleTemplate[call.role]
  IN [base EXCEPT !.on = call.on @@ @, !.budget = call.budget @@ @, !.tokens = call.tokens @@ @]

\* deep_explain asks for more of every surface, also of those that are off.
StrategyAdjusted(call) ==
  LET t == ResolvedTemplate(call)
  IN IF call.strategy = "default_retrieval" THEN t
     ELSE [t EXCEPT !.budget = Each(@.narrative + 2, @.cognition + 2, @.episode + 1,
                                    @.conflict + 1)]

Tenths(condition, n) == IF condition THEN n ELSE 0

Capped(n) == IF n > 10 THEN 10 ELSE n

\* The router's signals, in tenths.
Signals(q) ==
  LET has(word) == word \in q.words
  IN [episode |-> Capped(Tenths(has("timeline"), 4) + Tenths(has("time"), 3)
                         + Tenths(has("change"), 2) + Tenths(has("memory"), 3)
                         + Tenths(has("detective"), 3)
                         + Tenths(has("scene") /\ q.placed, 3)),
      conflict |-> Tenths(has("conflict"), 7) + Tenths(has("change"), 1),
      timeline |-> Tenths(has("timeline"), 7) + Tenths(has("time"), 3),
      relationship |-> Tenths(has("relationship"), 6) + Tenths(q.entities >= 2, 3),
      cognition |-> Tenths(has("why"), 6) + Tenths(has("change"), 2) + Tenths(has("state"), 2),
      focus |-> Tenths(q.entities > 0, 4) + (IF q.entities >= 2 THEN 4 ELSE 2 * q.entities)]

BaseBudgets(t) == [s \in ToSet(Surfaces) |-> IF t.on[s] THEN t.budget[s] ELSE 0]

RawWeights(t, signals) ==
  Each(Tenths(t.on.narrative, 5 + signals.focus), Tenths(t.on.cognition, 5 + signals.cognition),
       Tenths(t.on.episode, 3 + signals.episode), Tenths(t.on.conflict, signals.conflict))

\* Math.round; where a share falls on a half the floating point may be just below.
Rounded(a, b, tie) == (2 * a + b - tie) \div (2 * b)

RoundWithFloor_Bug(share, base) == IF base = 0 THEN 0 ELSE share   \* a mistake: no floor
RoundWithFloor(share, base) ==
  IF base = 0 THEN 0 ELSE IF share < 1 THEN 1 ELSE share

\* Of the 32 passes of the code four at most take something: rounding and floors
\* add less than one to a surface.
TrimPasses == 4

\* One is taken from each surface in turn, the largest first, never below its floor.
EnforceConservation_Bug(allocated, base) == allocated      \* a mistake: nothing is trimmed
EnforceConservation(allocated, base) ==
  LET at(s) == CHOOSE i \in DOMAIN Surfaces : Surfaces[i] = s
      larger(s, r) == allocated[s] > allocated[r] \/ (allocated[s] = allocated[r] /\ at(s) < at(r))
      order == SortSeq(Surfaces, larger)
      Trimmed(now, s) ==
        IF Total(now) > Total(base) /\ now[s] > (IF base[s] > 0 THEN 1 ELSE 0)
        THEN [now EXCEPT ![s] = @ - 1] ELSE now
  IN FoldLeft(Trimmed, allocated, FlattenSeq([pass \in 1..TrimPasses |-> order]))

AllocateBudget(t, signals, tie) ==
  LET base == BaseBudgets(t)
      weights == RawWeights(t, signals)
      share(s) == Rounded(Total(base) * weights[s], Total(weights), tie)
      allocated == [s \in ToSet(Surfaces) |->
        IF s # "conflict" THEN RoundWithFloor(share(s), base[s])
        ELSE IF base[s] > 0 \/ weights[s] > 0 THEN share(s) ELSE 0]
  IN IF Total(base) = 0 \/ (\A k \in DOMAIN signals : signals[k] = 0) \/ Total(weights) = 0
     THEN t
     ELSE [t EXCEPT !.budget = EnforceConservation(allocated, base)]

\* The template a call works with; a plan that cannot be built leaves it alone.
TemplateOf(call, query, planned, tie) ==
  IF planned THEN AllocateBudget(StrategyAdjusted(call), Signals(query), tie)
  ELSE StrategyAdjusted(call)

Boost(r) ==
  (IF r.contested > 3 THEN 3 ELSE r.contested) * RoleTemplate[r.call.role].boost

LimitOf(r, s) == r.template.budget[s] + (IF s = "conflict" THEN Boost(r) ELSE 0)

-----------------------------------------------------------------------------
(* The searches. *)

NothingFound == [episodes |-> <<>>, narrative |-> <<>>, cognition |-> <<>>]

EmptySurface ==
  [sections |-> Each(<<>>, <<>>, <<>>, <<>>), spent |-> Each(0, 0, 0, 0), seen |-> SaidBefore,
   fallback |-> <<>>]

RetrievalInit ==
  /\ retrieval = [phase |-> "idle"]
  /\ found = NothingFound
  /\ surface = EmptySurface

\* A query whose route or plan fails is worked without a plan.
StartRetrieval ==
  /\ retrieval.phase = "idle"
  /\ \E call \in Calls, query \in Queries, contested \in ContestedCounts,
        planned \in BOOLEAN, tie \in {0, 1} :
       /\ ~planned => tie = 0
       /\ retrieval' = [phase |-> "episodes", call |-> call, query |-> query,
                        contested |-> contested, planned |-> planned,
                        template |-> TemplateOf(call, query, planned, tie)]
  /\ UNCHANGED <<found, surface>>

FirstOf(hits, n) == SubSeq(hits, 1, IF Len(hits) < n THEN Len(hits) ELSE n)

SearchEpisodes ==
  LET limit == LimitOf(retrieval, "episode")
  IN /\ retrieval.phase = "episodes"
     /\ \E hits \in EpisodesFound :
          found' = [found EXCEPT !.episodes =
            FirstOf(hits, IF 3 * limit > limit + 4 THEN 3 * limit
                          ELSE IF limit > 0 THEN limit + 4 ELSE 0)]
     /\ retrieval' = [retrieval EXCEPT !.phase = "narrative"]
     /\ UNCHANGED surface

\* What an area remembers is found by those who are in it.
InReach(hit) == hit.scope = "area" => retrieval.query.placed

SearchNarrative ==
  LET wanted == LimitOf(retrieval, "narrative") + LimitOf(retrieval, "episode")
  IN /\ retrieval.phase = "narrative"
     /\ \E hits \in NarrativeFound :
          found' = [found EXCEPT !.narrative =
            IF retrieval.template.on.narrative /\ wanted > 0
            THEN FirstOf(SelectSeq(hits, InReach), wanted + 4) ELSE <<>>]
     /\ retrieval' = [retrieval EXCEPT !.phase = "cognition"]
     /\ UNCHANGED surface

\* The plan's facets: "why" asks for evaluations only, "conflict" for what is
\* contested only.
MatchesFacets(hit) ==
  retrieval.planned =>
    /\ "why" \in retrieval.query.words => hit.kind = "evaluation"
    /\ "conflict" \in retrieval.query.words => hit.stance = "contested"

\* filterActiveCommitments: a commitment that is kept or given up is history.
StillActive(hit) == hit.kind = "commitment" => hit.active

SearchCognition ==
  LET wanted == LimitOf(retrieval, "cognition") + LimitOf(retrieval, "conflict")
  IN /\ retrieval.phase = "cognition"
     /\ \E hits \in CognitionFound :
          found' = [found EXCEPT !.cognition =
            IF retrieval.template.on.cognition /\ wanted > 0
            THEN SelectSeq(FirstOf(SelectSeq(hits, MatchesFacets), wanted + 4), StillActive)
            ELSE <<>>]
     /\ retrieval' = [retrieval EXCEPT !.phase = "filling"]
     /\ UNCHANGED surface

-----------------------------------------------------------------------------
(* The surfaces. *)

\* filterCognitionHits: of one key the first, and nothing the prompt shows.
FreshHits(hits) ==
  LET Keep(kept, hit) ==
        IF \/ hit.key # NoKey /\ hit.key \in RecentKeys \union {h.key : h \in ToSet(kept)}
           \/ hit.text = Blank \/ hit.text \in SaidBefore
        THEN kept ELSE Append(kept, hit)
  IN FoldLeft(Keep, <<>>, hits)

CandidatesFor(s) ==
  LET fresh == FreshHits(found.cognition)
      events == SelectSeq(found.narrative, LAMBDA hit : hit.event)
      others == SelectSeq(found.narrative, LAMBDA hit : ~hit.event)
      NotesOf(hit) == IF hit.stance = "contested" THEN hit.evidence ELSE <<>>
  IN CASE s = "cognition" -> fresh
       [] s = "narrative" -> IF LimitOf(retrieval, "episode") > 0 THEN others ELSE found.narrative
       [] s = "conflict"  -> FlattenSeq([i \in DOMAIN fresh |-> NotesOf(fresh[i])])
       [] s = "episode"   -> found.episodes \o events

Fits(now, s, text) ==
  LET cap == retrieval.template.tokens[s]
  IN /\ Len(now.sections[s]) < LimitOf(retrieval, s)
     /\ text # Blank /\ text \notin now.seen
     /\ cap > 0 => now.spent[s] + TokensOf[text] <= cap

FillSurface(now, s) ==
  LET Add(acc, hit) ==
        IF Fits(acc, s, hit.text)
        THEN [acc EXCEPT !.sections[s] = Append(@, hit.text), !.seen = @ \union {hit.text},
                         !.spent[s] = @ + TokensOf[hit.text]]
        ELSE acc
  IN IF retrieval.template.on[s] THEN FoldLeft(Add, now, CandidatesFor(s)) ELSE now

\* generateTypedRetrieval adds notes when an override asks for them and there are
\* none; these are not compared with what is shown.
FallbackNotes(now) ==
  LET contested == SelectSeq(FreshHits(found.cognition), LAMBDA hit : hit.stance = "contested")
  IN IF "conflict" \in DOMAIN retrieval.call.budget /\ now.sections.conflict = <<>>
     THEN FirstOf(contested, retrieval.call.budget.conflict)
     ELSE <<>>

BuildTypedSurface ==
  /\ retrieval.phase = "filling"
  /\ LET filled == FoldLeft(FillSurface, surface,
                            <<"cognition", "narrative", "conflict", "episode">>)
     IN surface' = [filled EXCEPT !.fallback = FallbackNotes(filled)]
  /\ retrieval' = [retrieval EXCEPT !.phase = "answered"]
  /\ UNCHANGED found

RetrievalNext ==
  StartRetrieval \/ SearchEpisodes \/ SearchNarrative \/ SearchCognition \/ BuildTypedSurface

-----------------------------------------------------------------------------

\* Whatever the signals, a plan only moves hits between surfaces: all of them
\* together never exceed what the role, the override and the strategy allow, and
\* the notes for contested cognition (budget-allocator.ts: "strictly a reshuffle").
AnswerWithinBudget ==
  retrieval.phase = "answered" =>
    Total([s \in ToSet(Surfaces) |-> Len(surface.sections[s])])
      <= Total(BaseBudgets(StrategyAdjusted(retrieval.call))) + Boost(retrieval)

\* A surface that role and override turn on with a budget shows something when
\* its search found something that nothing before it says: the signals that favour
\* the others never take its last place, and an event is not lost between two
\* surfaces.
NoSurfaceSilenced ==
  retrieval.phase = "answered" =>
    \A s \in {"narrative", "cognition", "episode"} :
      LET t == StrategyAdjusted(retrieval.call)
      IN t.on[s] /\ t.budget[s] > 0
           /\ (\E hit \in ToSet(CandidatesFor(s)) :
                 /\ hit.text # Blank /\ hit.text \notin surface.seen
                 /\ t.tokens[s] > 0 => TokensOf[hit.text] <= t.tokens[s])
         => surface.sections[s] # <<>>
=============================================================================
