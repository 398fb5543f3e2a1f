------------------------------ MODULE Navigator ------------------------------
(***************************************************************************)
(* GraphNavigator.explore: seeds are searched, a beam of paths is expanded *)
(* through the memory graph, and what the viewer may not see is taken out  *)
(* of the paths that are left.  One navigator serves every explore of the  *)
(* process, and all share its cache of visibility records, which each      *)
(* explore clears when it starts.                                          *)
(***************************************************************************)
EXTENDS Integers, Sequences, FiniteSets, SequencesExt

CONSTANTS
  Explores,        \* calls of memory_explore
  ViewerOf,        \* the agent of a call
  AreaOf,          \* where the agent is, or NoPlace
  NoPlace,
  IntentsOf,       \* the intents of the query, the primary one first
  AskedTime,       \* asOf of the call, 0 for none
  PlanTime,        \* the time window its query plan derives, 0 for none
  BeamWidth,       \* of a call
  MaxCandidates,   \* of a call: how many paths it answers with
  FoundBy,         \* sets of nodes the searches of a call may find
  Nodes,           \* node refs
  AccessOf,        \* node: scope ("public", "area", "private", "system") and whose
  SeedScore,       \* node: 0..100
  Links,           \* [a, b, family, kind, row, time]: two nodes a row links
  Perishable,      \* nodes whose row may be invalidated or replaced
  MaxDepth

ASSUME NavigatorAssumption ==
  /\ MaxDepth \in Nat \ {0}
  /\ Perishable \subseteq Nodes
  /\ \A l \in Links :
       /\ {l.a, l.b, l.row} \subseteq Nodes
       /\ l.family \in {"relation", "support", "participant", "fact", "stated", "belief"}
  /\ \A e \in Explores : FoundBy[e] \subseteq SUBSET Nodes

VARIABLES
  standing,        \* nodes whose row is there and valid
  recordCache,     \* visibilityRecordCache
  explore,         \* the explores
  answers,         \* the evidence paths an explore answered with
  window,          \* history: nodes standing since the start of an overlapping explore
  calm             \* history: nothing started or changed since the start

navVars == <<standing, recordCache, explore, answers, window, calm>>

-----------------------------------------------------------------------------
(* What a viewer may see, and what the database returns to it. *)

MayView(e, n) ==
  LET access == AccessOf[n]
  IN \/ access.scope = "public"
     \/ access.scope = "area" /\ AreaOf[e] # NoPlace /\ access.of = AreaOf[e]
     \/ access.scope = "private" /\ access.of = ViewerOf[e]

Sees(e, n) == n \in standing /\ MayView(e, n)

InTime(asOf, x) == asOf = 0 \/ x.time <= asOf

Reversed(k) ==
  CASE k = "temporal_prev" -> "temporal_next"
    [] k = "temporal_next" -> "temporal_prev"
    [] OTHER -> k

Edge(from, to, l, k) ==
  [from |-> from, to |-> to, family |-> l.family, kind |-> k, row |-> l.row, time |-> l.time]

\* What a fact states of its ends, and a fact's support by its event, are read
\* one way; a fact is also an edge between its entities.
GraphEdges ==
  {Edge(l.a, l.b, l, l.kind) : l \in Links}
  \union {Edge(l.b, l.a, l, Reversed(l.kind)) :
            l \in {l \in Links : l.family \notin {"stated", "support"}}}

\* The rows one depth reads.  Relations and support are filtered by visibility
\* and time in the repository, the others by their own row alone.
RelationReturned(e, x) == Sees(e, x.from) /\ Sees(e, x.to) /\ InTime(AskedTime[e], x)

ParticipantReturned(e, x) == Sees(e, x.row) /\ AccessOf[x.row].scope \in {"public", "area"}

FactReturned(x) == x.row \in standing

BeliefReturned(e, x) ==
  /\ Sees(e, x.row) /\ AccessOf[x.row].scope = "private"
  /\ x.from = x.row => InTime(AskedTime[e], x)

Returned(e, x) ==
  CASE x.family \in {"relation", "support"} -> RelationReturned(e, x)
    [] x.family = "participant" -> ParticipantReturned(e, x)
    [] x.family \in {"fact", "stated"} -> FactReturned(x)
    [] x.family = "belief" -> BeliefReturned(e, x)

\* The nodes of an edge that the navigator itself judges.
ParticipantEnds(x) == {x.to} \ {x.row}

FactEnds(x) == {x.to}

BeliefEnds(x) == {x.to, x.row}

ToJudge(x) ==
  CASE x.family \in {"relation", "support"} -> {}
    [] x.family = "participant" -> ParticipantEnds(x)
    [] x.family \in {"fact", "stated"} -> FactEnds(x)
    [] x.family = "belief" -> BeliefEnds(x)

-----------------------------------------------------------------------------
(* Scores and the beam. *)

EdgePriority == [
  entity       |-> <<"fact_relation", "participant", "fact_support", "semantic_similar">>,
  event        |-> <<"same_episode", "temporal_prev", "temporal_next", "causal", "fact_support">>,
  why          |-> <<"causal", "fact_support", "fact_relation", "temporal_prev">>,
  relationship |-> <<"fact_relation", "fact_support", "participant", "semantic_similar">>,
  timeline     |-> <<"temporal_prev", "temporal_next", "same_episode", "causal", "fact_support">>,
  state        |-> <<"fact_relation", "conflict_or_update", "fact_support", "temporal_next">>,
  conflict     |-> <<"conflict_or_update", "fact_relation", "fact_support", "causal",
                     "temporal_prev">>]

MemoryRelations ==
  {"supports", "triggered", "conflicts_with", "derived_from", "supersedes", "surfaced_as",
   "published_as", "resolved_by", "downgraded_by"}

AppendNew(seq, kind) == IF kind \in ToSet(seq) THEN seq ELSE Append(seq, kind)

\* The kinds of the primary intent, then the new ones of each secondary.
MergedPriority(e) ==
  FoldLeft(LAMBDA merged, intent : FoldLeft(AppendNew, merged, EdgePriority[intent]),
          <<>>, IntentsOf[e])

\* In sixtieths; the multipliers of strategies and plans are left out.
EdgeScore(e, kind) ==
  LET order == MergedPriority(e)
  IN IF kind \in ToSet(order)
     THEN LET i == CHOOSE i \in DOMAIN order : order[i] = kind
          IN 60 - (60 * (i - 1)) \div Len(order)
     ELSE IF kind \in MemoryRelations THEN 18 ELSE 6

SumOf(e, edges) == FoldSeq(LAMBDA x, sum : EdgeScore(e, x.kind) + sum, 0, edges)

PathScore(e, p) ==
  66 * SeedScore[p.nodes[1]]
  + (IF p.edges = <<>> THEN 0 ELSE (90 * SumOf(e, p.edges)) \div Len(p.edges))

\* A layer is cut to the best paths; among equals the order of the rows decides,
\* which the database does not promise.
AtMost(n, paths) == IF Cardinality(paths) <= n THEN {paths} ELSE kSubset(n, paths)

Beams(e, paths) ==
  {kept \in AtMost(BeamWidth[e], paths) :
     \A p \in kept, q \in paths \ kept : PathScore(e, p) >= PathScore(e, q)}

\* Of the edges to one node the first in the order of the neighbours is kept.
FirstTo(e, edges, n) ==
  CHOOSE x \in {x \in edges : x.to = n} :
    \A y \in {y \in edges : y.to = n} : EdgeScore(e, x.kind) >= EdgeScore(e, y.kind)

Extended(e, p, edges) ==
  LET outgoing == {x \in edges : x.from = Last(p.nodes) /\ x.to \notin ToSet(p.nodes)}
  IN {[nodes |-> Append(p.nodes, n), edges |-> Append(p.edges, FirstTo(e, outgoing, n))] :
        n \in {x.to : x \in outgoing}}

-----------------------------------------------------------------------------
(* The steps of an explore, between two awaits each. *)

Resting == [phase |-> "idle", stage |-> "seeds", seeds |-> {}, want |-> {}, asked |-> {},
            got |-> {}, rows |-> {}, beam |-> {}, paths |-> {}, depth |-> 0]

NavInit ==
  /\ standing = Nodes
  /\ recordCache = [n \in Nodes |-> "unknown"]
  /\ explore = [e \in Explores |-> Resting]
  /\ answers = [e \in Explores |-> {}]
  /\ window = [e \in Explores |-> {}]
  /\ calm = [e \in Explores |-> FALSE]

Underway == {e \in Explores : explore[e].phase \notin {"idle", "done"}}

Becomes(e, record) == explore' = [explore EXCEPT ![e] = record]

Cleared_Bug == recordCache              \* a mistake: the records of before are kept
Cleared == [n \in Nodes |-> "unknown"]

StartExplore(e) ==
  /\ explore[e].phase = "idle"
  /\ recordCache' = Cleared
  /\ Becomes(e, [Resting EXCEPT !.phase = "searching"])
  /\ window' = [window EXCEPT ![e] = standing \union UNION {window[o] : o \in Underway}]
  /\ calm' = [o \in Explores |-> o = e /\ Underway = {}]
  /\ UNCHANGED <<standing, answers>>

\* localizeSeedsHybrid, the supplemental searches and the focus of the call.
SearchSeeds(e) ==
  /\ explore[e].phase = "searching"
  /\ \E found \in FoundBy[e] :
       Becomes(e, [explore[e] EXCEPT !.phase = "reading", !.seeds = found, !.want = found])
  /\ UNCHANGED <<standing, recordCache, answers, window, calm>>

\* primeVisibilityRecords: what is not cached is read, and put into the cache
\* when the answer arrives.
Uncached(e) == {n \in explore[e].want : recordCache[n] = "unknown"}

ReadRecords(e) ==
  /\ explore[e].phase = "reading"
  /\ Becomes(e, [explore[e] EXCEPT
       !.phase = IF Uncached(e) = {} THEN "judging" ELSE "priming",
       !.asked = Uncached(e),
       !.got = Uncached(e) \intersect standing])
  /\ UNCHANGED <<standing, recordCache, answers, window, calm>>

CacheRecords(e) ==
  /\ explore[e].phase = "priming"
  /\ recordCache' = [n \in Nodes |->
       IF n \notin explore[e].asked THEN recordCache[n]
       ELSE IF n \in explore[e].got THEN "present" ELSE "absent"]
  /\ Becomes(e, [explore[e] EXCEPT !.phase = "judging"])
  /\ UNCHANGED <<standing, answers, window, calm>>

\* getNodeDisposition primes once more, then looks into the cache: a record that
\* another explore has cleared is read again, or is missed and counts as hidden.
ReadAgain(e) ==
  /\ explore[e].phase = "judging" /\ Uncached(e) # {}
  /\ Becomes(e, [explore[e] EXCEPT !.phase = "reading"])
  /\ UNCHANGED <<standing, recordCache, answers, window, calm>>

Judged(e) == {n \in explore[e].want : recordCache[n] = "present" /\ MayView(e, n)}

Judges(e, stage) == explore[e].phase = "judging" /\ explore[e].stage = stage

JudgeSeeds(e) ==
  /\ Judges(e, "seeds")
  /\ IF Judged(e) = {}
     THEN Becomes(e, [explore[e] EXCEPT !.phase = "done"])
     ELSE \E beam \in Beams(e, {[nodes |-> <<n>>, edges |-> <<>>] : n \in Judged(e)}) :
            Becomes(e, [explore[e] EXCEPT !.phase = "fetching", !.beam = beam, !.paths = beam])
  /\ UNCHANGED <<standing, recordCache, answers, window, calm>>

\* fetchNeighborsByFrontier; the statements of one depth read at one moment.
FetchNeighbors(e) ==
  LET frontier == {Last(p.nodes) : p \in explore[e].beam}
      rows == {x \in GraphEdges : x.from \in frontier /\ Returned(e, x)}
  IN /\ explore[e].phase = "fetching"
     /\ Becomes(e, [explore[e] EXCEPT !.phase = "reading", !.stage = "edges", !.rows = rows,
                                      !.want = UNION {ToJudge(x) : x \in rows}])
     /\ UNCHANGED <<standing, recordCache, answers, window, calm>>

Assembling(record) ==
  [record EXCEPT !.phase = "reading", !.stage = "paths",
                 !.want = UNION {ToSet(p.nodes) : p \in record.paths}]

LastLayer_Bug(depth) == depth + 1 >= MaxDepth     \* a mistake: one layer too few
LastLayer(depth) == depth >= MaxDepth

JudgeNeighbors(e) ==
  LET usable == {x \in explore[e].rows : ToJudge(x) \subseteq Judged(e)}
      next == UNION {Extended(e, p, usable) : p \in explore[e].beam}
  IN /\ Judges(e, "edges")
     /\ IF next = {}
        THEN Becomes(e, Assembling(explore[e]))
        ELSE \E beam \in Beams(e, next) :
               LET grown == [explore[e] EXCEPT !.phase = "fetching", !.beam = beam,
                               !.paths = @ \union beam, !.depth = @ + 1]
               IN Becomes(e, IF LastLayer(grown.depth) THEN Assembling(grown) ELSE grown)
     /\ UNCHANGED <<standing, recordCache, answers, window, calm>>

\* The nodes of a path that are among some, in their order.
Kept(nodes, some) ==
  LET kept[i \in 0..Len(nodes)] ==
        IF i = 0 THEN <<>>
        ELSE IF nodes[i] \in some THEN Append(kept[i - 1], nodes[i]) ELSE kept[i - 1]
  IN kept[Len(nodes)]

\* applyPostFilterSafetyNet.
Redacted(p, visible) ==
  [nodes |-> Kept(p.nodes, visible),
   edges |-> SelectSeq(p.edges, LAMBDA x : {x.from, x.to} \subseteq visible)]

\* filterEvidencePathsByTimeSlice: a path all of whose edges are too young goes.
SliceOf(e) == IF PlanTime[e] # 0 THEN PlanTime[e] ELSE AskedTime[e]

Sliced(e, p) ==
  LET kept == SelectSeq(p.edges, LAMBDA x : InTime(SliceOf(e), x))
      visited == {Head(p.nodes)} \union UNION {{x.from, x.to} : x \in ToSet(kept)}
  IN IF SliceOf(e) = 0 THEN {p}
     ELSE IF kept = <<>> /\ p.edges # <<>> THEN {}
     ELSE {[nodes |-> Kept(p.nodes, visited), edges |-> kept]}

\* assembleEvidence takes the paths in the order of their final score, which is
\* left out: any of them may come first.
AnswerExplore(e) ==
  LET safe == {Redacted(p, Judged(e)) :
                 p \in {p \in explore[e].paths : ToSet(p.nodes) \intersect Judged(e) # {}}}
  IN /\ Judges(e, "paths")
     /\ \E chosen \in AtMost(MaxCandidates[e], safe) :
          answers' = [answers EXCEPT ![e] = UNION {Sliced(e, p) : p \in chosen}]
     /\ Becomes(e, [explore[e] EXCEPT !.phase = "done"])
     /\ UNCHANGED <<standing, recordCache, window, calm>>

\* A fact is invalidated, a rebuild gives a belief another row.
Perish(n) ==
  /\ n \in Perishable \intersect standing
  /\ standing' = standing \ {n}
  /\ calm' = [e \in Explores |-> FALSE]
  /\ UNCHANGED <<recordCache, explore, answers, window>>

ExploreStep(e) ==
  \/ StartExplore(e) \/ SearchSeeds(e)
  \/ ReadRecords(e) \/ CacheRecords(e) \/ ReadAgain(e)
  \/ JudgeSeeds(e) \/ FetchNeighbors(e) \/ JudgeNeighbors(e) \/ AnswerExplore(e)

NavNext ==
  \/ \E e \in Explores : ExploreStep(e)
  \/ \E n \in Nodes : Perish(n)

NavSpec == NavInit /\ [][NavNext]_navVars

-----------------------------------------------------------------------------

\* Whatever explores share the cache, a node in an answer is one its own viewer
\* may see, and its row was valid at some moment since the explore or one that it
\* overlapped began: the cache never answers for an earlier time
\* (visibilityRecordCache is cleared by explore, filled after an await).
ShownWasVisible ==
  \A e \in Explores : \A p \in answers[e] : \A n \in ToSet(p.nodes) :
    n \in window[e] /\ MayView(e, n)

\* The paths of the graph that a viewer may follow from the seeds it may see.
Followable(e, a, b) ==
  \E x \in GraphEdges : x.from = a /\ x.to = b /\ x.row \in standing /\ Sees(e, a) /\ Sees(e, b)

SimplePaths(e, length) ==
  {s \in [1..length -> Nodes] :
     /\ s[1] \in explore[e].seeds /\ Sees(e, s[1])
     /\ IsInjective(s)
     /\ \A i \in 1..(length - 1) : Followable(e, s[i], s[i + 1])}

\* An explore alone, of a graph at rest, whose bounds cut nothing off, answers
\* with every path of the reference definition and no other: no family of edges
\* is forgotten, read one way only, or lost between two filters.
FindsEveryPath ==
  \A e \in Explores :
    LET all == UNION {SimplePaths(e, k) : k \in 1..(MaxDepth + 1)}
    IN explore[e].phase = "done" /\ calm[e] /\ AskedTime[e] = 0 /\ PlanTime[e] = 0
         /\ Cardinality(all) <= BeamWidth[e] /\ Cardinality(all) <= MaxCandidates[e]
       => {p.nodes : p \in answers[e]} = all
=============================================================================
