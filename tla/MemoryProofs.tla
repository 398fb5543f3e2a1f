----------------------------- MODULE MemoryProofs ---------------------------
(***************************************************************************)
(* Theorems about what memory shows: the publications of settlements, the  *)
(* promotion of private memory, the answers of the graph navigator, the    *)
(* relations of thinker jobs, the documents that a rebuild leaves, and the *)
(* audit of shared blocks.  Of BeliefProofs it takes the least number.     *)
(***************************************************************************)
EXTENDS PublicMemory, Navigator, TurnRelations, SearchIndex, SharedBlock, BeliefProofs, TLC,
        FiniteSetTheorems, SequenceTheorems, WellFoundedInduction, TLAPS

(***************************************************************************)
(* Publications.                                                           *)
(***************************************************************************)

RunStates == [at : Nat, written : {"not", "reconciled", "materialized"}]

RunsTyped ==
  /\ pubRun \in [Publishers -> RunStates]
  /\ finished \subseteq Publishers

\* What a run has passed is shown or left to a recovery job, up to the
\* publication it is at; and what it has written is an event.
Handled(s, i) ==
  Passed(s, PublicationsOf[s][i]) \/ <<s, i>> \in shown \union recoveryJobs

RunsOK ==
  \A s \in Publishers :
    /\ \A i \in DOMAIN PublicationsOf[s] : i < pubRun[s].at => Handled(s, i)
    /\ pubRun[s].written # "not" =>
         pubRun[s].at \in DOMAIN PublicationsOf[s] /\ <<s, pubRun[s].at>> \in pubEvents

PublishInv == RunsTyped /\ RunsOK /\ PublishedIsShown

LEMMA PublicationIndexes ==
  ASSUME NEW s \in Publishers
  PROVE  Len(PublicationsOf[s]) \in Nat /\ DOMAIN PublicationsOf[s] = 1..Len(PublicationsOf[s])
BY PublicAssumption DEF PublicAssumption

LEMMA PublishStarts == PublicInit => PublishInv
<1> SUFFICES ASSUME PublicInit PROVE PublishInv
  OBVIOUS
<1>1. \A s \in Publishers : pubRun[s] = [at |-> 0, written |-> "not"]
  BY DEF PublicInit
<1>2. RunsTyped /\ PublishedIsShown
  BY DEF PublicInit, RunsTyped, RunStates, PublishedIsShown
<1>3. RunsOK
  BY <1>1, PublicationIndexes DEF RunsOK
<1>. QED  BY <1>2, <1>3 DEF PublishInv

\* What is shown or left to a job stays so, and events stay.
LEMMA ShownGrows ==
  ASSUME PublicNext
  PROVE  /\ shown \subseteq shown' /\ recoveryJobs \subseteq recoveryJobs'
         /\ pubEvents \subseteq pubEvents'
<1>1. ASSUME NEW s \in Publishers,
             StartRun(s) \/ PassOver(s) \/ WritePublication(s) \/ FinishRun(s) \/ BreakRun(s)
      PROVE  /\ shown \subseteq shown' /\ recoveryJobs \subseteq recoveryJobs'
             /\ pubEvents \subseteq pubEvents'
  BY <1>1 DEF StartRun, PassOver, WritePublication, FinishRun, BreakRun
<1>2. ASSUME NEW s \in Publishers, GiveUpPublication(s) \/ ShowPublication(s)
      PROVE  /\ shown \subseteq shown' /\ recoveryJobs \subseteq recoveryJobs'
             /\ pubEvents \subseteq pubEvents'
  BY <1>2 DEF GiveUpPublication, ShowPublication
<1>3. ASSUME PromoteNext
      PROVE  /\ shown \subseteq shown' /\ recoveryJobs \subseteq recoveryJobs'
             /\ pubEvents \subseteq pubEvents'
  <2>1. UNCHANGED runVars
    BY <1>3, Zenon DEF PromoteNext, PromoteEvent, PromoteFact, MaterializeDelayed
  <2>. QED  BY <2>1 DEF runVars
<1>. QED  BY <1>1, <1>2, <1>3 DEF PublicNext, PublishNext

\* A run moves on when what it leaves behind is shown or left to a job.
LEMMA RunMoves ==
  ASSUME PublishInv, PublicNext, NEW s \in Publishers, NEW run \in RunStates,
         pubRun' = [pubRun EXCEPT ![s] = run],
         \A i \in DOMAIN PublicationsOf[s] : i < run.at => Handled(s, i)',
         run.written # "not" => run.at \in DOMAIN PublicationsOf[s] /\ <<s, run.at>> \in pubEvents'
  PROVE  RunsOK' /\ pubRun' \in [Publishers -> RunStates]
<1>1. shown \subseteq shown' /\ recoveryJobs \subseteq recoveryJobs' /\ pubEvents \subseteq pubEvents'
  BY ShownGrows
<1>2. pubRun' \in [Publishers -> RunStates]
  BY DEF PublishInv, RunsTyped
<1>3. pubRun'[s] = run /\ \A t \in Publishers \ {s} : pubRun'[t] = pubRun[t]
  BY DEF PublishInv, RunsTyped
<1>4. \A t \in Publishers : \A i \in DOMAIN PublicationsOf[t] : Handled(t, i) => Handled(t, i)'
  BY <1>1 DEF Handled, Passed
<1>5. ASSUME NEW t \in Publishers
      PROVE  /\ \A i \in DOMAIN PublicationsOf[t] : i < pubRun'[t].at => Handled(t, i)'
             /\ pubRun'[t].written # "not" =>
                  pubRun'[t].at \in DOMAIN PublicationsOf[t] /\ <<t, pubRun'[t].at>> \in pubEvents'
  <2>1. CASE t = s
    BY <1>3, <2>1
  <2>2. CASE t # s
    <3>1. pubRun'[t] = pubRun[t]
      BY <1>3, <2>2
    <3>. QED  BY <1>1, <1>4, <3>1 DEF PublishInv, RunsOK
  <2>. QED  BY <2>1, <2>2
<1>. QED  BY <1>2, <1>5 DEF RunsOK

LEMMA PublishStep ==
  ASSUME PublishInv, PublicNext
  PROVE  PublishInv'
<1>1. shown \subseteq shown' /\ recoveryJobs \subseteq recoveryJobs' /\ pubEvents \subseteq pubEvents'
  BY ShownGrows
<1>2. \A s \in Publishers : \A i \in DOMAIN PublicationsOf[s] : Handled(s, i) => Handled(s, i)'
  BY <1>1 DEF Handled, Passed
<1>3. ASSUME finished' = finished, shown' = shown
      PROVE  PublishedIsShown' /\ finished' \subseteq Publishers
  BY <1>1, <1>3 DEF PublishInv, RunsTyped, PublishedIsShown, Passed
<1>4. ASSUME NEW s \in Publishers, StartRun(s) \/ BreakRun(s)
      PROVE  PublishInv'
  <2>1. PICK run \in RunStates :
          run.at \in {0, 1} /\ run.written = "not" /\ pubRun' = [pubRun EXCEPT ![s] = run]
    BY <1>4 DEF StartRun, BreakRun, RunStates
  <2>2. \A i \in DOMAIN PublicationsOf[s] : ~(i < run.at)
    BY <2>1, PublicationIndexes
  <2>3. RunsOK' /\ pubRun' \in [Publishers -> RunStates]
    BY <2>1, <2>2, RunMoves
  <2>4. finished' = finished /\ shown' = shown
    BY <1>4 DEF StartRun, BreakRun
  <2>. QED  BY <1>3, <2>3, <2>4 DEF PublishInv, RunsTyped
<1>5. ASSUME NEW s \in Publishers, AtPublication(s), NEW now, now = pubRun[s].at,
             Handled(s, now)', Onwards(s)
      PROVE  RunsOK' /\ pubRun' \in [Publishers -> RunStates]
  <2>1. now \in Nat /\ now \in DOMAIN PublicationsOf[s]
    BY <1>5, PublicationIndexes DEF AtPublication, PublishInv, RunsTyped, RunStates
  <2>2. PICK run : run = [at |-> now + 1, written |-> "not"]
    OBVIOUS
  <2>3. run \in RunStates /\ run.at = now + 1 /\ run.written = "not"
    BY <2>1, <2>2 DEF RunStates
  <2>4. pubRun' = [pubRun EXCEPT ![s] = run]
    BY <1>5, <2>2 DEF Onwards, PublishInv, RunsTyped
  <2>5. ASSUME NEW i \in DOMAIN PublicationsOf[s], i < now + 1
        PROVE  Handled(s, i)'
    <3>1. CASE i = now
      BY <1>5, <3>1
    <3>2. CASE i # now
      <4>1. i < pubRun[s].at
        BY <1>5, <2>1, <2>5, <3>2, PublicationIndexes
      <4>. QED  BY <1>2, <4>1 DEF PublishInv, RunsOK
    <3>. QED  BY <3>1, <3>2
  <2>. QED  BY <2>3, <2>4, <2>5, RunMoves
<1>6. ASSUME NEW s \in Publishers, PassOver(s)
      PROVE  PublishInv'
  <2>1. PICK now : now = pubRun[s].at
    OBVIOUS
  <2>2. Handled(s, now)'
    BY <1>6, <2>1 DEF PassOver, Handled, Passed, Publication
  <2>3. RunsOK' /\ pubRun' \in [Publishers -> RunStates]
    BY <1>5, <1>6, <2>1, <2>2 DEF PassOver
  <2>4. finished' = finished /\ shown' = shown
    BY <1>6 DEF PassOver
  <2>. QED  BY <1>3, <2>3, <2>4 DEF PublishInv, RunsTyped
<1>7. ASSUME NEW s \in Publishers, WritePublication(s)
      PROVE  PublishInv'
  <2>1. PICK written \in {"reconciled", "materialized"} :
          pubRun' = [pubRun EXCEPT ![s].written = written]
    BY <1>7 DEF WritePublication
  <2>2. PICK run : run = [pubRun[s] EXCEPT !.written = written]
    OBVIOUS
  <2>3. run \in RunStates /\ run.at = pubRun[s].at /\ run.written = written
    BY <2>2 DEF PublishInv, RunsTyped, RunStates
  <2>4. pubRun' = [pubRun EXCEPT ![s] = run]
    BY <2>1, <2>2 DEF PublishInv, RunsTyped
  <2>5. run.at \in DOMAIN PublicationsOf[s] /\ <<s, run.at>> \in pubEvents'
    BY <1>7, <2>3, PublicationIndexes DEF WritePublication, Writes, AtPublication
  <2>6. \A i \in DOMAIN PublicationsOf[s] : i < run.at => Handled(s, i)'
    BY <1>2, <2>3 DEF PublishInv, RunsOK
  <2>7. RunsOK' /\ pubRun' \in [Publishers -> RunStates]
    BY <2>3, <2>4, <2>5, <2>6, RunMoves
  <2>8. finished' = finished /\ shown' = shown
    BY <1>7 DEF WritePublication
  <2>. QED  BY <1>3, <2>7, <2>8 DEF PublishInv, RunsTyped
<1>8. ASSUME NEW s \in Publishers, GiveUpPublication(s)
      PROVE  PublishInv'
  <2>1. PICK now : now = pubRun[s].at
    OBVIOUS
  <2>2. Handled(s, now)'
    BY <1>8, <2>1 DEF GiveUpPublication, Handled
  <2>3. RunsOK' /\ pubRun' \in [Publishers -> RunStates]
    BY <1>5, <1>8, <2>1, <2>2 DEF GiveUpPublication, Writes
  <2>4. finished' = finished /\ shown' = shown
    BY <1>8 DEF GiveUpPublication
  <2>. QED  BY <1>3, <2>3, <2>4 DEF PublishInv, RunsTyped
<1>9. ASSUME NEW s \in Publishers, ShowPublication(s)
      PROVE  PublishInv'
  <2>1. PICK now : now = pubRun[s].at
    OBVIOUS
  <2>2. Shows(pubRun[s].written)
    BY <1>9 DEF ShowPublication, Shows, PublishInv, RunsTyped, RunStates
  <2>3. shown' = shown \union {<<s, now>>} /\ finished' = finished
    BY <1>9, <2>1, <2>2 DEF ShowPublication
  <2>4. Handled(s, now)'
    BY <2>3 DEF Handled
  <2>5. RunsOK' /\ pubRun' \in [Publishers -> RunStates]
    BY <1>5, <1>9, <2>1, <2>4 DEF ShowPublication
  <2>6. <<s, now>> \in pubEvents
    BY <1>9, <2>1 DEF ShowPublication, PublishInv, RunsOK
  <2>7. PublishedIsShown'
    BY <1>1, <2>3, <2>6 DEF PublishInv, PublishedIsShown, Passed
  <2>. QED  BY <2>3, <2>5, <2>7 DEF PublishInv, RunsTyped
<1>10. ASSUME NEW s \in Publishers, FinishRun(s)
       PROVE  PublishInv'
  <2>1. PICK run : run = [pubRun[s] EXCEPT !.at = 0]
    OBVIOUS
  <2>2. run \in RunStates /\ run.at = 0 /\ run.written = pubRun[s].written
    BY <2>1 DEF PublishInv, RunsTyped, RunStates
  <2>3. pubRun' = [pubRun EXCEPT ![s] = run]
    BY <1>10, <2>1 DEF FinishRun, PublishInv, RunsTyped
  <2>4. pubRun[s].at = Len(PublicationsOf[s]) + 1
    BY <1>10 DEF FinishRun
  <2>5. pubRun[s].at \notin DOMAIN PublicationsOf[s]
           /\ \A i \in DOMAIN PublicationsOf[s] : i < pubRun[s].at
    BY <2>4, PublicationIndexes
  <2>6. run.written = "not"
    BY <2>2, <2>5 DEF PublishInv, RunsOK
  <2>7. \A i \in DOMAIN PublicationsOf[s] : ~(i < run.at)
    BY <2>2, PublicationIndexes
  <2>8. RunsOK' /\ pubRun' \in [Publishers -> RunStates]
    BY <2>2, <2>3, <2>6, <2>7, RunMoves
  <2>9. finished' = finished \union {s} /\ UNCHANGED <<shown, pubEvents, recoveryJobs>>
    BY <1>10 DEF FinishRun
  <2>10. \A i \in DOMAIN PublicationsOf[s] : Handled(s, i)
    BY <2>5 DEF PublishInv, RunsOK
  <2>11. PublishedIsShown'
    BY <2>9, <2>10 DEF PublishInv, PublishedIsShown, Handled, Passed
  <2>. QED  BY <2>8, <2>9, <2>11 DEF PublishInv, RunsTyped
<1>11. ASSUME PromoteNext
       PROVE  PublishInv'
  <2>1. UNCHANGED runVars
    BY <1>11, Zenon DEF PromoteNext, PromoteEvent, PromoteFact, MaterializeDelayed
  <2>. QED  BY <2>1 DEF runVars, PublishInv, RunsTyped, RunsOK, Handled, PublishedIsShown, Passed
<1>. QED  BY <1>4, <1>6, <1>7, <1>8, <1>9, <1>10, <1>11 DEF PublicNext, PublishNext

LEMMA PublishInvariant == PublicSpec => []PublishInv
<1>1. PublishInv /\ [PublicNext]_publicVars => PublishInv'
  <2>1. PublishInv /\ UNCHANGED publicVars => PublishInv'
    BY DEF publicVars, PublishInv, RunsTyped, RunsOK, Handled, PublishedIsShown, Passed
  <2>. QED  BY <2>1, PublishStep
<1>. QED  BY <1>1, PublishStarts, PTL DEF PublicSpec

\* Every publication of a settlement that a run has gone through has its event
\* and its row, or a recovery job, whatever failed or died in this run or before.
THEOREM PublishedCorrect == PublicSpec => []PublishedIsShown
<1>1. PublishInv => PublishedIsShown
  BY DEF PublishInv
<1>. QED  BY <1>1, PublishInvariant, PTL

(***************************************************************************)
(* Promotion.                                                              *)
(***************************************************************************)

AllShared(refs) == \A r \in refs : r.public /\ r.key \in shared

FactRecords == [pair : Refs \X Refs, valid : BOOLEAN]

NamesOK ==
  \A k \in shared \ (SharedAtFirst \union {World, UnknownPerson}) :
    k \in EntityKeys => NamedAs[k] = "plain"

PromotionInv ==
  /\ facts \in Seq(FactRecords)
  /\ \A e \in promoted : AllShared(e.about)
  /\ \A i \in DOMAIN facts : AllShared({facts[i].pair[1], facts[i].pair[2]})
  /\ NamesOK

Existing_Refs == {r \in Refs : Exists(r)}

\* What a reference that is not blocked becomes is shared already, or may be.
LEMMA PublicNames ==
  ASSUME NEW r \in Existing_Refs, Decision(r, FALSE) # "block"
  PROVE  \/ PublicOf(r, FALSE) \in shared \union {UnknownPerson}
         \/ PublicOf(r, FALSE) \in EntityKeys /\ NamedAs[PublicOf(r, FALSE)] = "plain"
BY PublicAssumption DEF PublicAssumption, Existing_Refs, Refs, Exists, Decision, PublicOf

LEMMA NamesStayPublic ==
  ASSUME NamesOK, NEW keys \in SUBSET (EntityKeys \union {UnknownPerson, World}),
         \A k \in keys : k \in {UnknownPerson, World} \/ k \in shared \/ NamedAs[k] = "plain",
         shared' = shared \union keys
  PROVE  NamesOK'
BY DEF NamesOK

LEMMA PromotedNames ==
  ASSUME NEW refs \in SUBSET Existing_Refs
  PROVE  /\ PromotedBy(refs) \subseteq EntityKeys \union {UnknownPerson, World}
         /\ \A k \in PromotedBy(refs) :
              k \in {UnknownPerson, World} \/ k \in shared \/ NamedAs[k] = "plain"
<1> SUFFICES ASSUME NEW r \in refs \ Blocked(refs)
             PROVE  /\ PublicOf(r, FALSE) \in EntityKeys \union {UnknownPerson, World}
                    /\ \/ PublicOf(r, FALSE) \in {UnknownPerson, World} \union shared
                       \/ NamedAs[PublicOf(r, FALSE)] = "plain"
  BY DEF PromotedBy
<1>1. r \in Existing_Refs /\ Decision(r, FALSE) # "block"
  BY DEF Blocked
<1>2. PublicOf(r, FALSE) \in EntityKeys \union {UnknownPerson, World}
  BY <1>1 DEF Existing_Refs, Refs, PublicOf
<1>. QED  BY <1>1, <1>2, PublicNames

\* The references of a write that nothing blocks are to shared entities.
LEMMA SafeRefsAreShared ==
  ASSUME NEW refs \in SUBSET Existing_Refs, NEW resolved, Blocked(resolved) = {},
         NEW after, shared \union PromotedBy(resolved) \subseteq after
  PROVE  \A r \in SafeRefs(refs, resolved) : r.public /\ r.key \in after
<1>1. ASSUME NEW r \in refs \intersect resolved
      PROVE  SharedRef(PublicOf(r, FALSE)).public /\ SharedRef(PublicOf(r, FALSE)).key \in after
  BY <1>1 DEF SharedRef, PromotedBy
<1>2. ASSUME NEW r \in refs, r.public
      PROVE  r.key \in after
  BY <1>2 DEF Existing_Refs, Exists
<1>. QED  BY <1>1, <1>2 DEF SafeRefs

LEMMA PromotionStarts == PublicInit => PromotionInv
BY DEF PublicInit, PromotionInv, NamesOK

LEMMA PromoteEventStep ==
  ASSUME PromotionInv, NEW refs \in SUBSET Existing_Refs, NEW participants \in SUBSET Existing_Refs,
         NEW location \in Existing_Refs, PromoteEvent(refs, participants, location)
  PROVE  PromotionInv'
<1>1. shared' = shared \union PromotedBy(refs) /\ facts' = facts
  BY DEF PromoteEvent, runVars
<1>2. NamesOK'
  BY <1>1, PromotedNames, NamesStayPublic DEF PromotionInv
<1>3. PICK about : about = SafeRefs(participants \union refs, refs) \union SafeRefs({location}, refs)
  OBVIOUS
<1>4. \/ promoted' = promoted
      \/ Blocked(refs) = {} /\ \E e : e.about = about /\ promoted' = promoted \union {e}
  <2>1. PICK e : e = [origin |-> "promotion", about |-> about, record |-> "none", scope |-> "world"]
    OBVIOUS
  <2>2. e.about = about
    BY <2>1
  <2>3. \/ promoted' = promoted
        \/ Blocked(refs) = {} /\ promoted' = promoted \union {e}
    <3>1. PICK safe, place : safe = SafeRefs(participants \union refs, refs)
                             /\ place = SafeRefs({location}, refs)
      OBVIOUS
    <3>2. about = safe \union place
      BY <1>3, <3>1
    <3>3. promoted' = IF Blocked(refs) # {} \/ place = {} THEN promoted
                      ELSE promoted \union {[origin |-> "promotion", about |-> safe \union place,
                                             record |-> "none", scope |-> "world"]}
      BY <3>1 DEF PromoteEvent
    <3>4. e = [origin |-> "promotion", about |-> safe \union place,
               record |-> "none", scope |-> "world"]
      BY <2>1, <3>2
    <3>. QED  BY <3>3, <3>4
  <2>. QED  BY <2>2, <2>3
<1>5. Blocked(refs) = {} => \A r \in about : r.public /\ r.key \in shared'
  <2> SUFFICES ASSUME Blocked(refs) = {} PROVE \A r \in about : r.public /\ r.key \in shared'
    OBVIOUS
  <2>1. PICK after : after = shared'
    OBVIOUS
  <2>2. \A r \in SafeRefs(participants \union refs, refs) : r.public /\ r.key \in after
    BY <1>1, <2>1, SafeRefsAreShared
  <2>3. {location} \in SUBSET Existing_Refs
    OBVIOUS
  <2>4. \A r \in SafeRefs({location}, refs) : r.public /\ r.key \in after
    BY <1>1, <2>1, <2>3, SafeRefsAreShared
  <2>. QED  BY <1>3, <2>1, <2>2, <2>4
<1>6. \A e \in promoted' : AllShared(e.about)'
  BY <1>1, <1>4, <1>5 DEF PromotionInv, AllShared
<1>7. \A i \in DOMAIN facts' : AllShared({facts[i].pair[1], facts[i].pair[2]})'
  BY <1>1 DEF PromotionInv, AllShared
<1>. QED  BY <1>1, <1>2, <1>6, <1>7 DEF PromotionInv

\* The fact that held of the pair is kept, no longer valid, and the new one follows.
LEMMA AssertedFacts ==
  ASSUME facts \in Seq(FactRecords), NEW pair \in Refs \X Refs,
         NEW after, after = Asserted(pair)
  PROVE  /\ after \in Seq(FactRecords)
         /\ DOMAIN after = 1..Len(facts) + 1
         /\ \A i \in 1..Len(facts) : after[i].pair = facts[i].pair
         /\ after[Len(facts) + 1].pair = pair
<1>1. PICK kept : kept = [i \in DOMAIN facts |->
                           [facts[i] EXCEPT !.valid = @ /\ facts[i].pair # pair]]
  OBVIOUS
<1>2. PICK new : new = [pair |-> pair, valid |-> TRUE]
  OBVIOUS
<1>3. new \in FactRecords /\ new.pair = pair
  BY <1>2 DEF FactRecords
<1>4. ASSUME NEW i \in DOMAIN facts
      PROVE  kept[i] \in FactRecords /\ kept[i].pair = facts[i].pair
  <2>1. facts[i] \in FactRecords
    OBVIOUS
  <2>2. PICK valid \in BOOLEAN : valid = (facts[i].valid /\ facts[i].pair # pair)
    BY Zenon
  <2>3. kept[i] = [facts[i] EXCEPT !.valid = valid]
    BY <1>1, <2>2, Zenon
  <2>. QED  BY <2>1, <2>3 DEF FactRecords
<1>5. kept \in Seq(FactRecords) /\ Len(kept) = Len(facts) /\ DOMAIN facts = 1..Len(facts)
  <2>1. DOMAIN kept = 1..Len(facts) /\ DOMAIN facts = 1..Len(facts) /\ Len(facts) \in Nat
    BY <1>1
  <2>2. kept \in [1..Len(facts) -> FactRecords]
    BY <1>1, <1>4, <2>1, Zenon
  <2>. QED  BY <2>1, <2>2
<1>6. after = Append(kept, new)
  BY <1>1, <1>2 DEF Asserted
<1>. QED  BY <1>3, <1>4, <1>5, <1>6

LEMMA PromoteFactStep ==
  ASSUME PromotionInv, NEW from \in Existing_Refs, NEW to \in Existing_Refs, PromoteFact(from, to)
  PROVE  PromotionInv'
<1>1. shared' = shared \union PromotedBy({from, to}) /\ promoted' = promoted
  BY DEF PromoteFact, runVars
<1>2. {from, to} \in SUBSET Existing_Refs
  OBVIOUS
<1>3. NamesOK'
  BY <1>1, <1>2, PromotedNames, NamesStayPublic DEF PromotionInv
<1>4. PICK one, two : one = SharedRef(PublicOf(from, FALSE)) /\ two = SharedRef(PublicOf(to, FALSE))
  OBVIOUS
<1>5. one \in Refs /\ two \in Refs /\ one.public /\ two.public
        /\ one.key = PublicOf(from, FALSE) /\ two.key = PublicOf(to, FALSE)
  BY <1>4 DEF SharedRef, Existing_Refs, Refs, PublicOf
<1>6. \A e \in promoted' : AllShared(e.about)'
  BY <1>1 DEF PromotionInv, AllShared
<1>7. CASE Blocked({from, to}) # {}
  <2>1. facts' = facts
    BY <1>7 DEF PromoteFact
  <2>. QED  BY <1>1, <1>3, <1>6, <2>1 DEF PromotionInv, AllShared
<1>8. CASE Blocked({from, to}) = {}
  <2>1. facts' = Asserted(<<one, two>>)
    BY <1>4, <1>8 DEF PromoteFact
  <2>2. one.key \in shared' /\ two.key \in shared'
    BY <1>1, <1>5, <1>8 DEF PromotedBy
  <2>3. PICK pair : pair = <<one, two>>
    OBVIOUS
  <2>8. pair \in Refs \X Refs /\ pair[1] = one /\ pair[2] = two
    BY <1>5, <2>3
  <2>4. PICK after : after = facts'
    OBVIOUS
  <2>5. /\ after \in Seq(FactRecords)
        /\ DOMAIN after = 1..Len(facts) + 1
        /\ \A i \in 1..Len(facts) : after[i].pair = facts[i].pair
        /\ after[Len(facts) + 1].pair = pair
    BY <2>1, <2>3, <2>4, <2>8, AssertedFacts DEF PromotionInv
  <2>6. ASSUME NEW i \in DOMAIN after
        PROVE  \A r \in {after[i].pair[1], after[i].pair[2]} : r.public /\ r.key \in shared'
    <3>1. CASE i = Len(facts) + 1
      BY <1>5, <2>2, <2>5, <2>8, <3>1
    <3>2. CASE i \in 1..Len(facts)
      <4>1. i \in DOMAIN facts /\ after[i].pair = facts[i].pair
        BY <2>5, <3>2 DEF PromotionInv
      <4>. QED  BY <1>1, <4>1 DEF PromotionInv, AllShared
    <3>3. Len(facts) \in Nat
      BY DEF PromotionInv
    <3>. QED  BY <2>5, <3>1, <3>2, <3>3
  <2>7. \A i \in DOMAIN facts' : AllShared({facts[i].pair[1], facts[i].pair[2]})'
    BY <2>4, <2>6 DEF AllShared
  <2>. QED  BY <1>3, <1>6, <2>4, <2>5, <2>7 DEF PromotionInv
<1>. QED  BY <1>7, <1>8

LEMMA MaterializeStep ==
  ASSUME PromotionInv, NEW record, NEW location \in Existing_Refs, location.key \in Places,
         NEW actors \in SUBSET Existing_Refs, MaterializeDelayed(record, location, actors)
  PROVE  PromotionInv'
<1>1. shared' = shared \union ({location.key} \union PromotedBy(actors)) /\ facts' = facts
  BY DEF MaterializeDelayed, runVars
<1>2. location.key \in EntityKeys /\ (location.key \in shared \/ NamedAs[location.key] = "plain")
  <2>1. Decision(location, TRUE) # "block"
    BY DEF MaterializeDelayed
  <2>2. location.key \in EntityKeys /\ NamedAs[location.key] \in {"plain", "secret"}
    BY PublicAssumption DEF PublicAssumption
  <2>. QED  BY <2>1, <2>2 DEF Decision, Existing_Refs, Exists
<1>3. NamesOK'
  <2>1. PICK keys : keys = {location.key} \union PromotedBy(actors)
    OBVIOUS
  <2>2. /\ keys \in SUBSET (EntityKeys \union {UnknownPerson, World})
        /\ \A k \in keys : k \in {UnknownPerson, World} \/ k \in shared \/ NamedAs[k] = "plain"
    BY <1>2, <2>1, PromotedNames
  <2>. QED  BY <1>1, <2>1, <2>2, NamesStayPublic DEF PromotionInv
<1>4. PICK about :
        about = {SharedRef(PublicOf(a, FALSE)) : a \in actors \ Blocked(actors)}
                  \union {SharedRef(location.key)}
  OBVIOUS
<1>5. \/ promoted' = promoted
      \/ \E e : e.about = about /\ promoted' = promoted \union {e}
  <2>1. PICK e : e = [origin |-> "delayed", record |-> record, scope |-> "area", about |-> about]
    OBVIOUS
  <2>2. e.about = about
    BY <2>1
  <2>3. PICK taken : taken = \E f \in promoted : f.record = record /\ f.scope = "area"
    OBVIOUS
  <2>4. promoted' = IF taken THEN promoted ELSE promoted \union {e}
    BY <1>4, <2>1, <2>3, Zenon DEF MaterializeDelayed
  <2>. QED  BY <2>2, <2>4
<1>6. \A r \in about : r.public /\ r.key \in shared'
  <2>1. \A k : SharedRef(k).public /\ SharedRef(k).key = k
    BY DEF SharedRef
  <2>2. \A a \in actors \ Blocked(actors) : PublicOf(a, FALSE) \in shared'
    BY <1>1 DEF PromotedBy
  <2>3. location.key \in shared'
    BY <1>1
  <2>. QED  BY <1>4, <2>1, <2>2, <2>3
<1>7. \A e \in promoted' : AllShared(e.about)'
  BY <1>1, <1>5, <1>6 DEF PromotionInv, AllShared
<1>8. \A i \in DOMAIN facts' : AllShared({facts[i].pair[1], facts[i].pair[2]})'
  BY <1>1 DEF PromotionInv, AllShared
<1>. QED  BY <1>1, <1>3, <1>7, <1>8 DEF PromotionInv

LEMMA PromotionStep ==
  ASSUME PromotionInv, PublicNext
  PROVE  PromotionInv'
<1>1. ASSUME NEW s \in Publishers, WritePublication(s) \/ GiveUpPublication(s)
      PROVE  PromotionInv'
  <2>1. UNCHANGED <<promoted, facts>> /\ (shared' = shared \/ shared' = shared \union {World})
    BY <1>1 DEF WritePublication, GiveUpPublication, SharedFor
  <2>. QED  BY <2>1 DEF PromotionInv, AllShared, NamesOK
<1>2. ASSUME NEW s \in Publishers,
             StartRun(s) \/ PassOver(s) \/ ShowPublication(s) \/ FinishRun(s) \/ BreakRun(s)
      PROVE  PromotionInv'
  <2>1. UNCHANGED promotionVars
    BY <1>2 DEF StartRun, PassOver, ShowPublication, FinishRun, BreakRun
  <2>. QED  BY <2>1 DEF promotionVars, PromotionInv, AllShared, NamesOK
<1>3. ASSUME PromoteNext
      PROVE  PromotionInv'
  <2>1. PICK location \in {r \in Refs : r.key \in Places /\ Exists(r)},
             one \in {r \in Refs : Exists(r)}, two \in {r \in Refs : Exists(r)} :
          \/ \E refs \in SUBSET {one, location} : PromoteEvent(refs, {one, two}, location)
          \/ PromoteFact(one, two)
          \/ \E record \in Records, actors \in {{}, {one}} :
               MaterializeDelayed(record, location, actors)
    BY <1>3 DEF PromoteNext
  <2>2. {one, two, location} \subseteq Existing_Refs /\ location.key \in Places
    BY DEF Existing_Refs
  <2>3. ASSUME NEW refs \in SUBSET {one, location}, PromoteEvent(refs, {one, two}, location)
        PROVE  PromotionInv'
    <3>1. refs \in SUBSET Existing_Refs /\ {one, two} \in SUBSET Existing_Refs
      BY <2>2
    <3>. QED  BY <2>2, <2>3, <3>1, PromoteEventStep
  <2>4. ASSUME PromoteFact(one, two) PROVE PromotionInv'
    BY <2>2, <2>4, PromoteFactStep
  <2>5. ASSUME NEW record, NEW actors \in {{}, {one}}, MaterializeDelayed(record, location, actors)
        PROVE  PromotionInv'
    <3>1. actors \in SUBSET Existing_Refs
      BY <2>2
    <3>. QED  BY <2>2, <2>5, <3>1, MaterializeStep
  <2>. QED  BY <2>1, <2>3, <2>4, <2>5
<1>. QED  BY <1>1, <1>2, <1>3 DEF PublicNext, PublishNext

\* Nothing public names what is private, in whatever order events and facts are
\* promoted, delayed events materialized and settlements published.
THEOREM NamesCorrect == PublicSpec => []OnlyPublicNames
<1>1. PromotionInv => OnlyPublicNames
  BY DEF PromotionInv, AllShared, NamesOK, OnlyPublicNames
<1>2. PromotionInv /\ [PublicNext]_publicVars => PromotionInv'
  <2>1. PromotionInv /\ UNCHANGED publicVars => PromotionInv'
    BY DEF publicVars, PromotionInv, AllShared, NamesOK
  <2>. QED  BY <2>1, PromotionStep
<1>. QED  BY <1>1, <1>2, PromotionStarts, PTL DEF PublicSpec

(***************************************************************************)
(* The navigator.                                                          *)
(***************************************************************************)

KeptStep(nodes, some, kept, i) ==
  IF i = 0 THEN <<>>
  ELSE IF nodes[i] \in some THEN Append(kept[i - 1], nodes[i]) ELSE kept[i - 1]

\* The function that Kept goes through is defined: a shorter one extends.
LEMMA KeptExists ==
  ASSUME NEW nodes, Len(nodes) \in Nat, NEW some
  PROVE  \E kept : kept = [i \in 0..Len(nodes) |-> KeptStep(nodes, some, kept, i)]
<1> DEFINE Is(n, kept) == kept = [i \in 0..n |-> KeptStep(nodes, some, kept, i)]
           Without_One == {n \in 0..Len(nodes) : ~ \E kept : Is(n, kept)}
<1>1. SUFFICES ASSUME Without_One # {} PROVE FALSE
  OBVIOUS
<1>2. PICK m \in Without_One : \A k \in Without_One : m <= k
  <2>1. Without_One \in SUBSET Nat
    OBVIOUS
  <2> HIDE DEF Without_One
  <2>. QED  BY <1>1, <2>1, LeastNumber
<1>3. m # 0
  <2>1. Is(0, [i \in 0..0 |-> <<>>])
    BY DEF KeptStep
  <2>. QED  BY <2>1
<1>4. PICK shorter : Is(m - 1, shorter)
  BY <1>2, <1>3
<1>5. PICK longer : longer = [i \in 0..m |-> KeptStep(nodes, some, shorter, i)]
  OBVIOUS
<1>6. \A i \in 0..m - 1 : longer[i] = shorter[i]
  BY <1>3, <1>4, <1>5
<1>7. \A i \in 0..m : KeptStep(nodes, some, longer, i) = KeptStep(nodes, some, shorter, i)
  BY <1>3, <1>6 DEF KeptStep
<1>8. Is(m, longer)
  BY <1>5, <1>7
<1>. QED  BY <1>8

\* What is kept of a path is of the path and among what was to be kept.
LEMMA KeptIsAmong ==
  ASSUME NEW S, NEW nodes \in Seq(S), NEW some
  PROVE  Kept(nodes, some) \in Seq(S \intersect some)
<1>1. PICK kept : /\ kept = [i \in 0..Len(nodes) |-> KeptStep(nodes, some, kept, i)]
                  /\ Kept(nodes, some) = kept[Len(nodes)]
  <2> DEFINE Is(kept) == kept = [i \in 0..Len(nodes) |-> KeptStep(nodes, some, kept, i)]
  <2>1. PICK kept : kept = CHOOSE k : Is(k)
    OBVIOUS
  <2>2. Len(nodes) \in Nat
    OBVIOUS
  <2>3. Is(kept)
    BY <2>1, <2>2, KeptExists, Zenon
  <2>4. Kept(nodes, some) = kept[Len(nodes)]
    BY <2>1, Zenon DEF Kept, KeptStep
  <2>. QED  BY <2>3, <2>4
<1> DEFINE Wrong == {i \in 0..Len(nodes) : kept[i] \notin Seq(S \intersect some)}
<1>2. SUFFICES ASSUME Wrong # {} PROVE FALSE
  BY <1>1
<1>3. PICK m \in Wrong : \A k \in Wrong : m <= k
  <2>1. Wrong \in SUBSET Nat
    OBVIOUS
  <2> HIDE DEF Wrong
  <2>. QED  BY <1>2, <2>1, LeastNumber
<1>4. m \in 0..Len(nodes) /\ kept[m] \notin Seq(S \intersect some)
        /\ kept[m] = KeptStep(nodes, some, kept, m)
  BY <1>1
<1>5. m # 0
  <2>1. <<>> \in Seq(S \intersect some)
    OBVIOUS
  <2>. QED  BY <1>4, <2>1 DEF KeptStep
<1>6. kept[m - 1] \in Seq(S \intersect some)
  BY <1>3, <1>4, <1>5
<1>7. nodes[m] \in S
  BY <1>4, <1>5
<1>8. nodes[m] \in some => Append(kept[m - 1], nodes[m]) \in Seq(S \intersect some)
  BY <1>6, <1>7
<1>. QED  BY <1>4, <1>5, <1>6, <1>8 DEF KeptStep

PathNodes(paths) == \A p \in paths : p.nodes \in Seq(Nodes) /\ p.nodes # <<>>

ExploreFields == DOMAIN Resting

\* An explore wants records of nodes alone, and its paths are of nodes.
RecordOK(record) ==
  /\ DOMAIN record = ExploreFields
  /\ record.want \subseteq Nodes
  /\ record.rows \subseteq GraphEdges
  /\ PathNodes(record.beam) /\ PathNodes(record.paths)

NavTyped ==
  /\ DOMAIN explore = Explores /\ DOMAIN answers = Explores
  /\ DOMAIN window = Explores /\ DOMAIN recordCache = Nodes
  /\ \A e \in Explores : RecordOK(explore[e])

\* Whatever an explore under way may still take for visible was standing in its
\* window: what stands, what the shared cache has, and what an answer that has
\* not arrived yet will put into it, though another explore asked.
WindowOK ==
  \A e \in Underway :
    /\ standing \subseteq window[e]
    /\ \A n \in Nodes : recordCache[n] = "present" => n \in window[e]
    /\ \A o \in Underway : explore[o].phase = "priming" => explore[o].got \subseteq window[e]

AnswersOK ==
  \A e \in Explores : explore[e].phase # "done" => answers[e] = {}

NavInv == NavTyped /\ WindowOK /\ AnswersOK /\ ShownWasVisible

LEMMA NavStarts == NavInit => NavInv
<1> SUFFICES ASSUME NavInit PROVE NavInv
  OBVIOUS
<1>1. explore = [e \in Explores |-> Resting] /\ answers = [e \in Explores |-> {}]
        /\ window = [e \in Explores |-> {}] /\ recordCache = [n \in Nodes |-> "unknown"]
  BY DEF NavInit
<1>2. /\ Resting.want = {} /\ Resting.rows = {} /\ Resting.beam = {} /\ Resting.paths = {}
      /\ Resting.phase = "idle"
  BY DEF Resting
<1>3. NavTyped
  BY <1>1, <1>2 DEF NavTyped, RecordOK, ExploreFields, PathNodes
<1>4. Underway = {}
  BY <1>1, <1>2 DEF Underway
<1>5. WindowOK /\ AnswersOK /\ ShownWasVisible
  BY <1>1, <1>4 DEF WindowOK, AnswersOK, ShownWasVisible
<1>. QED  BY <1>3, <1>5 DEF NavInv

\* The paths of an explore grow along edges of the graph.
LEMMA EdgeEnds ==
  ASSUME NEW x \in GraphEdges
  PROVE  /\ x.from \in Nodes /\ x.to \in Nodes /\ x.row \in Nodes
         /\ ToJudge(x) \subseteq Nodes
<1>1. \A from, to, l, k : /\ Edge(from, to, l, k).from = from /\ Edge(from, to, l, k).to = to
                          /\ Edge(from, to, l, k).row = l.row
                          /\ Edge(from, to, l, k).family = l.family
  BY DEF Edge
<1>2. \A l \in Links : l.a \in Nodes /\ l.b \in Nodes /\ l.row \in Nodes
  BY NavigatorAssumption DEF NavigatorAssumption
<1>3. \E l \in Links : \E k : x = Edge(l.a, l.b, l, k) \/ x = Edge(l.b, l.a, l, k)
  BY DEF GraphEdges
<1>4. x.from \in Nodes /\ x.to \in Nodes /\ x.row \in Nodes
  BY <1>1, <1>2, <1>3
<1>5. x.family \in {"relation", "support", "participant", "fact", "stated", "belief"}
  BY <1>1, <1>3, NavigatorAssumption DEF NavigatorAssumption
<1>6. ToJudge(x) \subseteq Nodes
  BY <1>4, <1>5 DEF ToJudge, ParticipantEnds, FactEnds, BeliefEnds
<1>. QED  BY <1>4, <1>6

LEMMA BeamsAreAmong ==
  ASSUME NEW e, NEW paths, NEW beam \in Beams(e, paths)
  PROVE  beam \subseteq paths
BY DEF Beams, AtMost, kSubset

LEMMA ExtendedPaths ==
  ASSUME NEW e, NEW p, p.nodes \in Seq(Nodes), NEW lines \in SUBSET GraphEdges
  PROVE  PathNodes(Extended(e, p, lines))
<1> SUFFICES ASSUME NEW q \in Extended(e, p, lines)
             PROVE  q.nodes \in Seq(Nodes) /\ q.nodes # <<>>
  BY DEF PathNodes
<1>1. PICK x \in lines : q.nodes = Append(p.nodes, x.to)
  <2>1. PICK outgoing : outgoing = {x \in lines : x.from = Last(p.nodes) /\ x.to \notin ToSet(p.nodes)}
    OBVIOUS
  <2>2. PICK n \in {x.to : x \in outgoing} :
          q = [nodes |-> Append(p.nodes, n), edges |-> Append(p.edges, FirstTo(e, outgoing, n))]
    BY <2>1, Zenon DEF Extended
  <2>3. q.nodes = Append(p.nodes, n)
    BY <2>2
  <2>. QED  BY <2>1, <2>2, <2>3
<1>2. x.to \in Nodes
  BY EdgeEnds
<1>3. PICK n \in Nodes : n = x.to
  BY <1>2
<1>4. q.nodes = Append(p.nodes, n)
  BY <1>1, <1>3
<1>. QED  BY <1>4

LEMMA RestingRecord ==
  /\ RecordOK(Resting)
  /\ ExploreFields = {"phase", "stage", "seeds", "want", "asked", "got", "rows", "beam",
                      "paths", "depth"}
BY DEF RecordOK, ExploreFields, Resting, PathNodes

\* What one step makes of the explore whose step it is.
Moved(e, new) == RecordOK(new) /\ explore' = [explore EXCEPT ![e] = new]

LEMMA SearchMoves ==
  ASSUME NavInv, NEW e \in Explores, SearchSeeds(e)
  PROVE  \E new : Moved(e, new) /\ new.phase = "reading"
<1>1. PICK found \in FoundBy[e] :
        Becomes(e, [explore[e] EXCEPT !.phase = "reading", !.seeds = found, !.want = found])
  BY DEF SearchSeeds
<1>2. PICK new : new = [explore[e] EXCEPT !.phase = "reading", !.seeds = found, !.want = found]
  OBVIOUS
<1>3. found \subseteq Nodes
  BY NavigatorAssumption DEF NavigatorAssumption
<1>4. RecordOK(explore[e])
  BY DEF NavInv, NavTyped
<1>5. RecordOK(new) /\ new.phase = "reading"
  BY <1>2, <1>3, <1>4, RestingRecord DEF RecordOK
<1>. QED  BY <1>1, <1>2, <1>5 DEF Becomes, Moved

LEMMA ReadMoves ==
  ASSUME NavInv, NEW e \in Explores, ReadRecords(e)
  PROVE  \E new : /\ Moved(e, new) /\ new.phase \in {"judging", "priming"}
                  /\ new.got \subseteq standing
<1>1. PICK phase \in {"judging", "priming"} :
        Becomes(e, [explore[e] EXCEPT !.phase = phase, !.asked = Uncached(e),
                                      !.got = Uncached(e) \intersect standing])
  BY DEF ReadRecords
<1>2. PICK got : got = Uncached(e) \intersect standing
  OBVIOUS
<1>3. PICK new : new = [explore[e] EXCEPT !.phase = phase, !.asked = Uncached(e), !.got = got]
  OBVIOUS
<1>4. RecordOK(explore[e])
  BY DEF NavInv, NavTyped
<1>5. RecordOK(new) /\ new.phase = phase /\ new.got = got
  BY <1>3, <1>4, RestingRecord DEF RecordOK
<1>. QED  BY <1>1, <1>2, <1>3, <1>5 DEF Becomes, Moved

LEMMA CacheMoves ==
  ASSUME NavInv, NEW e \in Explores, CacheRecords(e) \/ ReadAgain(e)
  PROVE  \E new : Moved(e, new) /\ new.phase \in {"judging", "reading"}
<1>1. PICK phase \in {"judging", "reading"} : Becomes(e, [explore[e] EXCEPT !.phase = phase])
  BY DEF CacheRecords, ReadAgain
<1>2. PICK new : new = [explore[e] EXCEPT !.phase = phase]
  OBVIOUS
<1>3. RecordOK(explore[e])
  BY DEF NavInv, NavTyped
<1>4. RecordOK(new) /\ new.phase = phase
  BY <1>2, <1>3, RestingRecord DEF RecordOK
<1>. QED  BY <1>1, <1>2, <1>4 DEF Becomes, Moved

LEMMA SeedMoves ==
  ASSUME NavInv, NEW e \in Explores, JudgeSeeds(e)
  PROVE  \E new : Moved(e, new) /\ new.phase \in {"done", "fetching"}
<1>1. RecordOK(explore[e])
  BY DEF NavInv, NavTyped
<1>2. CASE Judged(e) = {}
  <2>1. PICK new : new = [explore[e] EXCEPT !.phase = "done"]
    OBVIOUS
  <2>2. RecordOK(new) /\ new.phase = "done"
    BY <1>1, <2>1, RestingRecord DEF RecordOK
  <2>. QED  BY <1>2, <2>1, <2>2 DEF JudgeSeeds, Becomes, Moved
<1>3. CASE Judged(e) # {}
  <2>1. PICK paths : paths = {[nodes |-> <<n>>, edges |-> <<>>] : n \in Judged(e)}
    OBVIOUS
  <2>2. PICK beam \in Beams(e, paths) :
          Becomes(e, [explore[e] EXCEPT !.phase = "fetching", !.beam = beam, !.paths = beam])
    BY <1>3, <2>1, Zenon DEF JudgeSeeds
  <2>3. Judged(e) \subseteq Nodes
    BY <1>1 DEF Judged, RecordOK
  <2>4. PathNodes(paths)
    <3>1. \A n \in Nodes : <<n>> \in Seq(Nodes) /\ <<n>> # <<>>
      OBVIOUS
    <3>2. \A p \in paths : \E n \in Nodes : p.nodes = <<n>>
      BY <2>1, <2>3
    <3>. QED  BY <3>1, <3>2 DEF PathNodes
  <2>5. PathNodes(beam)
    BY <2>4, BeamsAreAmong DEF PathNodes
  <2>6. PICK new : new = [explore[e] EXCEPT !.phase = "fetching", !.beam = beam, !.paths = beam]
    OBVIOUS
  <2>7. RecordOK(new) /\ new.phase = "fetching"
    BY <1>1, <2>5, <2>6, RestingRecord DEF RecordOK
  <2>. QED  BY <2>2, <2>6, <2>7 DEF Becomes, Moved
<1>. QED  BY <1>2, <1>3

LEMMA FetchMoves ==
  ASSUME NavInv, NEW e \in Explores, FetchNeighbors(e)
  PROVE  \E new : Moved(e, new) /\ new.phase = "reading"
<1>1. PICK frontier : frontier = {Last(p.nodes) : p \in explore[e].beam}
  OBVIOUS
<1>2. PICK read : read = {x \in GraphEdges : x.from \in frontier /\ Returned(e, x)}
  OBVIOUS
<1>3. PICK want : want = UNION {ToJudge(x) : x \in read}
  OBVIOUS
<1>4. Becomes(e, [explore[e] EXCEPT !.phase = "reading", !.stage = "edges", !.rows = read,
                                    !.want = want])
  BY <1>1, <1>2, <1>3, Zenon DEF FetchNeighbors
<1>5. read \subseteq GraphEdges /\ want \subseteq Nodes
  BY <1>2, <1>3, EdgeEnds
<1>6. PICK new : new = [explore[e] EXCEPT !.phase = "reading", !.stage = "edges", !.rows = read,
                                          !.want = want]
  OBVIOUS
<1>7. RecordOK(explore[e])
  BY DEF NavInv, NavTyped
<1>8. RecordOK(new) /\ new.phase = "reading"
  BY <1>5, <1>6, <1>7, RestingRecord DEF RecordOK
<1>. QED  BY <1>4, <1>6, <1>8 DEF Becomes, Moved

\* The nodes of paths that are read for the last judgement.
LEMMA AssembledRecord ==
  ASSUME NEW record, RecordOK(record)
  PROVE  RecordOK(Assembling(record)) /\ Assembling(record).phase = "reading"
<1>1. PICK want : want = UNION {ToSet(p.nodes) : p \in record.paths}
  OBVIOUS
<1>2. \A p \in record.paths : ToSet(p.nodes) \subseteq Nodes
  BY DEF RecordOK, PathNodes, ToSet
<1>3. want \subseteq Nodes
  BY <1>1, <1>2
<1>4. PICK new : new = [record EXCEPT !.phase = "reading", !.stage = "paths", !.want = want]
  OBVIOUS
<1>5. RecordOK(new) /\ new.phase = "reading"
  BY <1>3, <1>4, RestingRecord DEF RecordOK
<1>. QED  BY <1>1, <1>4, <1>5 DEF Assembling

LEMMA NeighborMoves ==
  ASSUME NavInv, NEW e \in Explores, JudgeNeighbors(e)
  PROVE  \E new : Moved(e, new) /\ new.phase \in {"reading", "fetching"}
<1>1. RecordOK(explore[e])
  BY DEF NavInv, NavTyped
<1>2. PICK usable : usable = {x \in explore[e].rows : ToJudge(x) \subseteq Judged(e)}
  OBVIOUS
<1>3. PICK next : next = UNION {Extended(e, p, usable) : p \in explore[e].beam}
  OBVIOUS
<1>4. PathNodes(next)
  <2>1. usable \in SUBSET GraphEdges
    BY <1>1, <1>2 DEF RecordOK
  <2>2. \A p \in explore[e].beam : PathNodes(Extended(e, p, usable))
    BY <1>1, <2>1, ExtendedPaths DEF RecordOK, PathNodes
  <2>. QED  BY <1>3, <2>2 DEF PathNodes
<1>5. CASE next = {}
  <2>1. Becomes(e, Assembling(explore[e]))
    BY <1>2, <1>3, <1>5, Zenon DEF JudgeNeighbors
  <2>. QED  BY <1>1, <2>1, AssembledRecord DEF Becomes, Moved
<1>6. CASE next # {}
  <2>1. PICK beam \in Beams(e, next) :
          LET grown == [explore[e] EXCEPT !.phase = "fetching", !.beam = beam,
                          !.paths = @ \union beam, !.depth = @ + 1]
          IN Becomes(e, IF LastLayer(grown.depth) THEN Assembling(grown) ELSE grown)
    BY <1>2, <1>3, <1>6, Zenon DEF JudgeNeighbors
  <2>2. PICK paths, depth : paths = explore[e].paths \union beam /\ depth = explore[e].depth + 1
    OBVIOUS
  <2>3. PICK grown : grown = [explore[e] EXCEPT !.phase = "fetching", !.beam = beam,
                                               !.paths = paths, !.depth = depth]
    OBVIOUS
  <2>4. Becomes(e, IF LastLayer(grown.depth) THEN Assembling(grown) ELSE grown)
    BY <2>1, <2>2, <2>3
  <2>5. PathNodes(beam) /\ PathNodes(paths)
    BY <1>1, <1>4, <2>2, BeamsAreAmong DEF PathNodes, RecordOK
  <2>6. RecordOK(grown) /\ grown.phase = "fetching"
    BY <1>1, <2>3, <2>5, RestingRecord DEF RecordOK
  <2>. QED  BY <2>4, <2>6, AssembledRecord DEF Becomes, Moved
<1>. QED  BY <1>5, <1>6

\* A step of an explore under way keeps the windows and the answers, when what it
\* reads stands and what it caches it has read.
LEMMA MoveKeepsWindows ==
  ASSUME NavInv, NEW e \in Underway, NEW new, Moved(e, new),
         new.phase # "idle",
         new.phase = "priming" => new.got \subseteq standing,
         UNCHANGED <<standing, answers, window>>, DOMAIN recordCache' = Nodes,
         \A n \in Nodes : recordCache'[n] = "present" =>
            recordCache[n] = "present" \/ (explore[e].phase = "priming" /\ n \in explore[e].got)
  PROVE  NavInv'
<1>1. e \in Explores /\ explore[e].phase \notin {"idle", "done"}
  BY DEF Underway
<1>2. /\ DOMAIN explore' = Explores /\ explore'[e] = new
      /\ \A o \in Explores \ {e} : explore'[o] = explore[o]
  BY <1>1 DEF Moved, NavInv, NavTyped
<1>3. NavTyped'
  BY <1>1, <1>2 DEF Moved, NavInv, NavTyped, RecordOK, PathNodes
<1>4. \A o \in Underway' : o \in Underway
  BY <1>1, <1>2 DEF Underway
<1>5. ASSUME NEW d \in Underway'
      PROVE  /\ standing' \subseteq window'[d]
             /\ \A n \in Nodes : recordCache'[n] = "present" => n \in window'[d]
             /\ \A o \in Underway' :
                  explore'[o].phase = "priming" => explore'[o].got \subseteq window'[d]
  <2>1. d \in Underway
    BY <1>4
  <2>2. standing' \subseteq window'[d]
    BY <2>1 DEF NavInv, WindowOK
  <2>3. \A n \in Nodes : recordCache'[n] = "present" => n \in window'[d]
    BY <2>1 DEF NavInv, WindowOK
  <2>4. ASSUME NEW o \in Underway', explore'[o].phase = "priming"
        PROVE  explore'[o].got \subseteq window'[d]
    <3>1. CASE o = e
      BY <1>2, <2>2, <2>4, <3>1
    <3>2. CASE o # e
      <4>1. o \in Underway /\ explore'[o] = explore[o]
        BY <1>2, <1>4, <3>2 DEF Underway
      <4>. QED  BY <2>1, <2>4, <4>1 DEF NavInv, WindowOK
    <3>. QED  BY <3>1, <3>2
  <2>. QED  BY <2>2, <2>3, <2>4
<1>6. AnswersOK'
  BY <1>1, <1>2 DEF NavInv, AnswersOK
<1>7. ShownWasVisible'
  BY DEF NavInv, ShownWasVisible, MayView
<1>. QED  BY <1>3, <1>5, <1>6, <1>7 DEF NavInv, WindowOK

\* An explore that starts clears the cache; its window takes in those of the
\* explores that may still cache what they read before.
LEMMA StartStep ==
  ASSUME NavInv, NEW e \in Explores, StartExplore(e)
  PROVE  NavInv'
<1>1. PICK new : new = [Resting EXCEPT !.phase = "searching"]
  OBVIOUS
<1>2. RecordOK(new) /\ new.phase = "searching" /\ explore' = [explore EXCEPT ![e] = new]
  BY <1>1, RestingRecord DEF RecordOK, StartExplore, Becomes
<1>3. /\ DOMAIN explore' = Explores /\ explore'[e] = new
      /\ \A o \in Explores \ {e} : explore'[o] = explore[o]
  BY <1>2 DEF NavInv, NavTyped
<1>4. PICK whole : whole = standing \union UNION {window[o] : o \in Underway}
  OBVIOUS
<1>5. /\ DOMAIN window' = Explores /\ window'[e] = whole
      /\ \A o \in Explores \ {e} : window'[o] = window[o]
  BY <1>4 DEF StartExplore, NavInv, NavTyped
<1>6. /\ UNCHANGED <<standing, answers>> /\ explore[e].phase = "idle"
      /\ DOMAIN recordCache' = Nodes
      /\ \A n \in Nodes : recordCache'[n] = "unknown"
  BY DEF StartExplore, Cleared
<1>7. NavTyped'
  BY <1>2, <1>3, <1>5, <1>6 DEF NavInv, NavTyped, RecordOK, PathNodes
<1>8. \A o \in Underway' : o = e \/ (o \in Underway /\ o # e)
  BY <1>3, <1>6 DEF Underway
<1>9. ASSUME NEW d \in Underway'
      PROVE  /\ standing' \subseteq window'[d]
             /\ \A n \in Nodes : recordCache'[n] = "present" => n \in window'[d]
             /\ \A o \in Underway' :
                  explore'[o].phase = "priming" => explore'[o].got \subseteq window'[d]
  <2>1. standing' \subseteq window'[d]
    BY <1>4, <1>5, <1>6, <1>8 DEF NavInv, WindowOK, Underway
  <2>2. ASSUME NEW o \in Underway', explore'[o].phase = "priming"
        PROVE  explore'[o].got \subseteq window'[d]
    <3>1. o \in Underway /\ o # e /\ explore'[o] = explore[o]
      BY <1>2, <1>3, <1>8, <2>2 DEF Underway
    <3>2. \A q \in Underway : explore'[o].got \subseteq window[q]
      BY <2>2, <3>1 DEF NavInv, WindowOK
    <3>3. CASE d = e
      BY <1>4, <1>5, <3>1, <3>2, <3>3
    <3>4. CASE d # e
      BY <1>5, <1>8, <3>2, <3>4 DEF Underway
    <3>. QED  BY <3>3, <3>4
  <2>. QED  BY <1>6, <2>1, <2>2
<1>10. answers[e] = {}
  BY <1>6 DEF NavInv, AnswersOK
<1>11. AnswersOK'
  BY <1>3, <1>6, <1>10 DEF NavInv, AnswersOK
<1>12. ShownWasVisible'
  BY <1>5, <1>6, <1>10 DEF NavInv, ShownWasVisible, MayView
<1>. QED  BY <1>7, <1>9, <1>11, <1>12 DEF NavInv, WindowOK

\* The answer is made of nodes judged visible.
LEMMA AnswerIsJudged ==
  ASSUME NavInv, NEW e \in Explores, AnswerExplore(e)
  PROVE  \E given : /\ answers' = [answers EXCEPT ![e] = given]
                    /\ \A p \in given : ToSet(p.nodes) \subseteq Judged(e)
<1>1. PICK safe : safe = {Redacted(p, Judged(e)) :
                           p \in {p \in explore[e].paths : ToSet(p.nodes) \intersect Judged(e) # {}}}
  OBVIOUS
<1>2. PICK chosen \in AtMost(MaxCandidates[e], safe) :
        answers' = [answers EXCEPT ![e] = UNION {Sliced(e, p) : p \in chosen}]
  BY <1>1, Zenon DEF AnswerExplore
<1>3. chosen \subseteq safe
  BY DEF AtMost, kSubset
<1>4. ASSUME NEW p \in safe PROVE p.nodes \in Seq(Judged(e))
  <2>1. PICK q \in explore[e].paths : p = Redacted(q, Judged(e))
    BY <1>1
  <2>2. q.nodes \in Seq(Nodes)
    BY DEF NavInv, NavTyped, RecordOK, PathNodes
  <2>3. Kept(q.nodes, Judged(e)) \in Seq(Nodes \intersect Judged(e))
    BY <2>2, KeptIsAmong
  <2>4. p.nodes = Kept(q.nodes, Judged(e))
    BY <2>1 DEF Redacted
  <2>. QED  BY <2>3, <2>4
<1>5. ASSUME NEW p \in safe, NEW q \in Sliced(e, p) PROVE q.nodes \in Seq(Judged(e))
  <2>1. p.nodes \in Seq(Judged(e))
    BY <1>4
  <2>2. \A some : Kept(p.nodes, some) \in Seq(Judged(e) \intersect some)
    BY <2>1, KeptIsAmong
  <2>3. q = p \/ \E some : q.nodes = Kept(p.nodes, some)
    BY DEF Sliced
  <2>4. ASSUME NEW some, q.nodes = Kept(p.nodes, some) PROVE q.nodes \in Seq(Judged(e))
    <3>1. PICK judged : judged = Judged(e)
      OBVIOUS
    <3>2. PICK nodes : nodes = q.nodes
      OBVIOUS
    <3>3. nodes \in Seq(judged \intersect some)
      BY <2>2, <2>4, <3>1, <3>2
    <3>4. nodes \in Seq(judged)
      BY <3>3
    <3>. QED  BY <3>1, <3>2, <3>4
  <2>. QED  BY <2>1, <2>3, <2>4
<1>6. PICK given : given = UNION {Sliced(e, p) : p \in chosen}
  OBVIOUS
<1>7. \A q \in given : q.nodes \in Seq(Judged(e))
  BY <1>3, <1>5, <1>6
<1>8. \A q \in given : ToSet(q.nodes) \subseteq Judged(e)
  BY <1>7 DEF ToSet
<1>. QED  BY <1>2, <1>6, <1>8

LEMMA AnswerStep ==
  ASSUME NavInv, NEW e \in Explores, AnswerExplore(e)
  PROVE  NavInv'
<1>1. PICK given : /\ answers' = [answers EXCEPT ![e] = given]
                   /\ \A p \in given : ToSet(p.nodes) \subseteq Judged(e)
  BY AnswerIsJudged
<1>2. PICK new : new = [explore[e] EXCEPT !.phase = "done"]
  OBVIOUS
<1>3. RecordOK(explore[e])
  BY DEF NavInv, NavTyped
<1>4. RecordOK(new) /\ new.phase = "done" /\ explore' = [explore EXCEPT ![e] = new]
  BY <1>2, <1>3, RestingRecord DEF RecordOK, AnswerExplore, Becomes
<1>5. UNCHANGED <<standing, recordCache, window>> /\ e \in Underway
  BY DEF AnswerExplore, Judges, Underway
<1>6. /\ DOMAIN explore' = Explores /\ explore'[e] = new
      /\ \A o \in Explores \ {e} : explore'[o] = explore[o]
  BY <1>4 DEF NavInv, NavTyped
<1>7. /\ DOMAIN answers' = Explores /\ answers'[e] = given
      /\ \A o \in Explores \ {e} : answers'[o] = answers[o]
  BY <1>1 DEF NavInv, NavTyped
<1>8. NavTyped'
  BY <1>4, <1>5, <1>6, <1>7 DEF NavInv, NavTyped, RecordOK, PathNodes
<1>9. Underway' \subseteq Underway \ {e}
  BY <1>4, <1>6 DEF Underway
<1>10. WindowOK'
  BY <1>5, <1>6, <1>9 DEF NavInv, WindowOK, Underway
<1>11. AnswersOK'
  BY <1>4, <1>6, <1>7 DEF NavInv, AnswersOK
<1>12. \A n \in Judged(e) : n \in window[e] /\ MayView(e, n)
  BY <1>3, <1>5 DEF Judged, RecordOK, NavInv, WindowOK
<1>13. ShownWasVisible'
  BY <1>1, <1>5, <1>7, <1>12 DEF NavInv, ShownWasVisible, MayView
<1>. QED  BY <1>8, <1>10, <1>11, <1>13 DEF NavInv

\* A row that goes leaves what was in a window there.
LEMMA PerishStep ==
  ASSUME NavInv, NEW n \in Nodes, Perish(n)
  PROVE  NavInv'
<1>1. standing' \subseteq standing /\ UNCHANGED <<recordCache, explore, answers, window>>
  BY DEF Perish
<1>2. Underway' = Underway
  BY <1>1 DEF Underway
<1>3. NavTyped'
  BY <1>1 DEF NavInv, NavTyped, RecordOK, PathNodes
<1>4. WindowOK'
  BY <1>1, <1>2 DEF NavInv, WindowOK
<1>5. AnswersOK' /\ ShownWasVisible'
  BY <1>1 DEF NavInv, AnswersOK, ShownWasVisible, MayView
<1>. QED  BY <1>3, <1>4, <1>5 DEF NavInv

\* The steps that only move their explore on, and the one that fills the cache.
LEMMA MoveStep ==
  ASSUME NavInv, NEW e \in Explores,
         \/ SearchSeeds(e) \/ ReadRecords(e) \/ CacheRecords(e) \/ ReadAgain(e)
         \/ JudgeSeeds(e) \/ FetchNeighbors(e) \/ JudgeNeighbors(e)
  PROVE  NavInv'
<1>1. /\ e \in Underway /\ UNCHANGED <<standing, answers, window>>
      /\ CacheRecords(e) \/ recordCache' = recordCache
  BY DEF SearchSeeds, ReadRecords, CacheRecords, ReadAgain, JudgeSeeds, FetchNeighbors,
         JudgeNeighbors, Judges, Underway
<1>2. /\ DOMAIN recordCache' = Nodes
      /\ \A n \in Nodes : recordCache'[n] = "present" =>
           recordCache[n] = "present" \/ (explore[e].phase = "priming" /\ n \in explore[e].got)
  <2>1. CASE CacheRecords(e)
    BY <2>1 DEF CacheRecords
  <2>2. CASE recordCache' = recordCache
    BY <2>2 DEF NavInv, NavTyped
  <2>. QED  BY <1>1, <2>1, <2>2
<1>3. \E new : Moved(e, new) /\ new.phase # "idle"
                 /\ (new.phase = "priming" => new.got \subseteq standing)
  <2>1. CASE SearchSeeds(e)
    BY <2>1, SearchMoves
  <2>2. CASE ReadRecords(e)
    BY <2>2, ReadMoves
  <2>3. CASE CacheRecords(e) \/ ReadAgain(e)
    BY <2>3, CacheMoves
  <2>4. CASE JudgeSeeds(e)
    BY <2>4, SeedMoves
  <2>5. CASE FetchNeighbors(e)
    BY <2>5, FetchMoves
  <2>6. CASE JudgeNeighbors(e)
    BY <2>6, NeighborMoves
  <2>. QED  BY <2>1, <2>2, <2>3, <2>4, <2>5, <2>6
<1>. QED  BY <1>1, <1>2, <1>3, MoveKeepsWindows

LEMMA NavStep == NavInv /\ [NavNext]_navVars => NavInv'
<1> SUFFICES ASSUME NavInv, [NavNext]_navVars PROVE NavInv'
  OBVIOUS
<1>1. ASSUME NEW e \in Explores, ExploreStep(e) PROVE NavInv'
  BY <1>1, StartStep, MoveStep, AnswerStep DEF ExploreStep
<1>2. ASSUME NEW n \in Nodes, Perish(n) PROVE NavInv'
  BY <1>2, PerishStep
<1>3. CASE UNCHANGED navVars
  <2>1. UNCHANGED <<standing, recordCache, explore, answers, window>>
    BY <1>3 DEF navVars
  <2>2. Underway' = Underway
    BY <2>1 DEF Underway
  <2>3. NavTyped'
    BY <2>1 DEF NavInv, NavTyped, RecordOK, PathNodes
  <2>4. WindowOK'
    BY <2>1, <2>2 DEF NavInv, WindowOK
  <2>5. AnswersOK' /\ ShownWasVisible'
    BY <2>1 DEF NavInv, AnswersOK, ShownWasVisible, MayView
  <2>. QED  BY <2>3, <2>4, <2>5 DEF NavInv
<1>. QED  BY <1>1, <1>2, <1>3 DEF NavNext

\* The answer of every explore is of nodes its own viewer may see, that were
\* valid since it or one it overlaps began (explore, applyPostFilterSafetyNet).
THEOREM ShownCorrect == NavSpec => []ShownWasVisible
<1>1. NavSpec => []NavInv
  BY NavStarts, NavStep, PTL DEF NavSpec
<1>2. NavInv => ShownWasVisible
  BY DEF NavInv
<1>. QED  BY <1>1, <1>2, PTL

(***************************************************************************)
(* Relations.                                                              *)
(***************************************************************************)

\* What the rows are: a belief has one of three kinds or no row, an episode is
\* a settlement and a reference.
RelationInv ==
  /\ \A k \in BeliefKeys : rowKind[k] \in BeliefKinds \union {"none"}
  /\ \A e \in episodeRows : e = [by |-> e.by, ref |-> e.ref]
  /\ thoughts = [s \in Thoughts |-> thoughts[s]]

\* An upsert gives a row one of three kinds, and it keeps it.
LEMMA KindsStayBeliefs ==
  ASSUME RelationInv, NEW outcome, BeliefsOnly(outcome)
  PROVE  \A k \in BeliefKeys : KindsAfter(outcome.ops)[k] \in BeliefKinds \union {"none"}
BY DEF RelationInv, BeliefsOnly, KindsAfter

LEMMA EpisodesStayRows ==
  ASSUME RelationInv, NEW s, NEW outcome
  PROVE  \A e \in EpisodesAfter(s, outcome) : e = [by |-> e.by, ref |-> e.ref]
<1> TAKE e \in EpisodesAfter(s, outcome)
<1>1. CASE e \in episodeRows
  BY <1>1 DEF RelationInv
<1>2. CASE e \in [by : {s}, ref : RefsOf(outcome.episodes)]
  BY <1>2
<1>. QED  BY <1>1, <1>2 DEF EpisodesAfter

LEMMA RelationStarts == RelationInit => RelationInv
BY DEF RelationInit, RelationInv

\* What the sanitized outcome of a job and the prevalidated one of a turn say of
\* beliefs is what RelationAssumption says.
LEMMA RelationStep == RelationInv /\ [RelationNext]_relationVars => RelationInv'
<1> SUFFICES ASSUME RelationInv, [RelationNext]_relationVars PROVE RelationInv'
  OBVIOUS
<1>1. ASSUME NEW s \in Thoughts, Think(s) PROVE RelationInv'
  <2>1. PICK raw, outcome :
          /\ raw \in OutcomesOf[s]
          /\ outcome = Normalized(Sanitized(raw))
          /\ thoughts' = [thoughts EXCEPT ![s] = [runs |-> @.runs + 1, outcome |-> outcome]]
          /\ \/ rowKind' = KindsAfter(outcome.ops) /\ episodeRows' = EpisodesAfter(s, outcome)
             \/ UNCHANGED <<rowKind, episodeRows>>
    BY <1>1 DEF Think
  <2>2. BeliefsOnly(outcome)
    BY <2>1, RelationAssumption DEF RelationAssumption
  <2>3. \A k \in BeliefKeys : rowKind'[k] \in BeliefKinds \union {"none"}
    BY <2>1, <2>2, KindsStayBeliefs DEF RelationInv
  <2>4. \A e \in episodeRows' : e = [by |-> e.by, ref |-> e.ref]
    BY <2>1, EpisodesStayRows DEF RelationInv
  <2>5. thoughts' = [t \in Thoughts |-> thoughts'[t]]
    BY <2>1 DEF RelationInv
  <2>. QED  BY <2>3, <2>4, <2>5 DEF RelationInv
<1>2. ASSUME NEW s \in PlainTurns, SettlePlainTurn(s) PROVE RelationInv'
  <2>1. PICK raw, outcome :
          /\ raw \in OutcomesOf[s]
          /\ outcome = Prevalidated(Normalized(raw))
          /\ rowKind' = KindsAfter(outcome.ops) /\ episodeRows' = EpisodesAfter(s, outcome)
          /\ thoughts' = thoughts
    BY <1>2 DEF SettlePlainTurn
  <2>2. BeliefsOnly(outcome)
    BY <2>1, RelationAssumption DEF RelationAssumption
  <2>3. \A k \in BeliefKeys : rowKind'[k] \in BeliefKinds \union {"none"}
    BY <2>1, <2>2, KindsStayBeliefs
  <2>4. \A e \in episodeRows' : e = [by |-> e.by, ref |-> e.ref]
    BY <2>1, EpisodesStayRows
  <2>. QED  BY <2>1, <2>3, <2>4 DEF RelationInv
<1>3. ASSUME UNCHANGED <<rowKind, episodeRows, thoughts>> PROVE RelationInv'
  BY <1>3 DEF RelationInv
<1>4. ASSUME NEW s \in PlainTurns, FlushRelations(s) PROVE RelationInv'
  BY <1>3, <1>4 DEF FlushRelations
<1>5. CASE UNCHANGED relationVars
  BY <1>3, <1>5 DEF relationVars
<1>. QED  BY <1>1, <1>2, <1>4, <1>5 DEF RelationNext

LEMMA RelationInvariant == RelationSpec => []RelationInv
BY RelationStarts, RelationStep, PTL DEF RelationSpec

\* What is written for one settlement is not another's.
LEMMA WrittenIsOwn ==
  ASSUME NEW s, NEW outcome, NEW names, NEW beliefs, NEW known, NEW kinds,
         WriteRelations(s, outcome, names, beliefs, known, kinds),
         NEW r \in memory_relations' \ memory_relations
  PROVE  /\ r.by = s
         /\ r.type # "conflicts_with" => r \in Materialized(s, outcome.intents, names)
<1>1. \/ r \in Materialized(s, outcome.intents, names)
      \/ \E disputed, against : r \in ConflictsOf(s, disputed, beliefs, against)
  BY DEF WriteRelations
<1>2. CASE r \in Materialized(s, outcome.intents, names)
  <2>1. r \in Joining(s, outcome.intents, names)
    BY <1>2 DEF Materialized
  <2>. QED  BY <1>2, <2>1 DEF Joining
<1>3. ASSUME NEW disputed, NEW against, r \in ConflictsOf(s, disputed, beliefs, against)
      PROVE  r.by = s /\ r.type = "conflicts_with"
  BY <1>3 DEF ConflictsOf
<1>. QED  BY <1>1, <1>2, <1>3

\* What a reference of a thinker job may be resolved to: an episode that is stored
\* for its settlement, or the row of a key that it upserts, of the row's kind.
LEMMA ResolvedFacts ==
  ASSUME NEW s, NEW stored, NEW upserts, NEW kinds,
         \A e \in stored : e = [by |-> e.by, ref |-> e.ref],
         \A k \in DOMAIN upserts : kinds[k] # "episode",
         NEW ref, NEW node,
         node = Resolved(ref, Over(EpisodeNames(s, stored), NamesByRow(upserts, kinds)))
  PROVE  /\ node.kind = "episode" =>
              [by |-> s, ref |-> node.ref] \in stored /\ node.ref \in {ref, StripRefPrefix(ref)}
         /\ node.kind \in BeliefKinds =>
              kinds[node.ref.name] = node.kind /\ node.ref \in {ref, StripRefPrefix(ref)}
<1> DEFINE E == EpisodeNames(s, stored)
           B == NamesByRow(upserts, kinds)
<1>1. PICK x : /\ x \in {ref, StripRefPrefix(ref)}
               /\ node = Unresolved \/ (x \in DOMAIN Over(E, B) /\ node = Over(E, B)[x])
  BY DEF Resolved
<1>2. CASE node = Unresolved
  <2>1. node.kind = "none"
    BY <1>2 DEF Unresolved, NodeOf
  <2>. QED  BY <2>1 DEF BeliefKinds
<1>3. CASE x \in DOMAIN E /\ node = E[x]
  <2>1. x \in {e.ref : e \in {y \in stored : y.by = s}}
    BY <1>3 DEF EpisodeNames
  <2>2. PICK e \in stored : e.by = s /\ e.ref = x
    BY <2>1
  <2>3. node = NodeOf("episode", s, x)
    BY <1>3, <2>1 DEF EpisodeNames
  <2>4. node.kind = "episode" /\ node.ref = x
    BY <2>3 DEF NodeOf
  <2>5. [by |-> s, ref |-> x] \in stored
    BY <2>2
  <2>. QED  BY <1>1, <2>4, <2>5 DEF BeliefKinds
<1>4. CASE x \in DOMAIN B /\ node = B[x]
  <2>1. x \in {Plain(k) : k \in DOMAIN upserts}
    BY <1>4 DEF NamesByRow
  <2>2. PICK k \in DOMAIN upserts : x = Plain(k)
    BY <2>1
  <2>3. x.name = k
    BY <2>2 DEF Plain
  <2>4. node = BeliefNode(kinds[k], k)
    BY <1>4, <2>1, <2>3 DEF NamesByRow
  <2>5. node.kind = kinds[k] /\ node.ref = x
    BY <2>2, <2>4 DEF BeliefNode, NodeOf
  <2>. QED  BY <1>1, <2>2, <2>3, <2>5
<1> HIDE DEF E, B
<1>5. x \in DOMAIN Over(E, B) /\ node = Over(E, B)[x] =>
        \/ x \in DOMAIN E /\ node = E[x]
        \/ x \in DOMAIN B /\ node = B[x]
  BY DEF Over
<1>. QED  BY <1>1, <1>2, <1>3, <1>4, <1>5

\* The run of a thinker job, whatever outcome it has.
LEMMA ThinkIsRooted ==
  ASSUME RelationInv, NEW s \in Thoughts, Think(s),
         NEW new, new = {r \in memory_relations' \ memory_relations :
                           r.by = s /\ r.type # "conflicts_with"},
         new # {}, NEW asked, asked = thoughts'[s].outcome.intents
  PROVE  /\ \A r \in new :
              /\ [by |-> s, ref |-> r.from.ref] \in episodeRows'
              /\ rowKind'[r.to.ref.name] = r.to.kind
              /\ r.type = "triggered" => r.to.kind # "assertion"
         /\ \A i \in DOMAIN asked : \E r \in memory_relations' :
              /\ r.by = s /\ r.type = asked[i].intent
              /\ r.from.ref \in {asked[i].from, StripRefPrefix(asked[i].from)}
              /\ r.to.ref \in {asked[i].to, StripRefPrefix(asked[i].to)}
<1>1. PICK raw, outcome, kinds, names, beliefs :
        /\ raw \in OutcomesOf[s]
        /\ outcome = Normalized(Sanitized(raw)) /\ kinds = KindsAfter(outcome.ops)
        /\ beliefs = NamesByRow(Upserts(outcome.ops), kinds)
        /\ names = Over(EpisodeNames(s, EpisodesAfter(s, outcome)), beliefs)
        /\ thoughts' = [thoughts EXCEPT ![s] = [runs |-> @.runs + 1, outcome |-> outcome]]
        /\ rowKind' = kinds /\ episodeRows' = EpisodesAfter(s, outcome)
        /\ WriteRelations(s, outcome, names, beliefs, <<>>, kinds)
  BY DEF Think
<1>2. asked = outcome.intents
  BY <1>1 DEF RelationInv
<1>3. BeliefsOnly(outcome)
  BY <1>1, RelationAssumption DEF RelationAssumption
<1>4. \A k \in DOMAIN Upserts(outcome.ops) : kinds[k] # "episode"
  <2>1. \A k \in BeliefKeys : kinds[k] \in BeliefKinds \union {"none"}
    BY <1>1, <1>3, KindsStayBeliefs
  <2>. QED  BY <1>3, <2>1 DEF BeliefsOnly, BeliefKinds
<1>5. ASSUME NEW ref, NEW node, node = Resolved(ref, names)
      PROVE  /\ node.kind = "episode" =>
                  [by |-> s, ref |-> node.ref] \in episodeRows' /\ node.ref \in {ref, StripRefPrefix(ref)}
             /\ node.kind \in BeliefKinds =>
                  rowKind'[node.ref.name] = node.kind /\ node.ref \in {ref, StripRefPrefix(ref)}
  BY <1>1, <1>4, <1>5, EpisodesStayRows, ResolvedFacts
<1>6. \A r \in new : r \in Materialized(s, asked, names)
  BY <1>1, <1>2, WrittenIsOwn
<1> DEFINE joined(i) == [type |-> asked[i].intent, from |-> Resolved(asked[i].from, names),
                         to |-> Resolved(asked[i].to, names), by |-> s]
<1>7. /\ Materialized(s, asked, names) = {joined(i) : i \in DOMAIN asked}
      /\ \A i \in DOMAIN asked : MayJoin(joined(i))
  <2>1. Materialized(s, asked, names) # {}
    BY <1>6
  <2>2. Joining(s, asked, names) = {joined(i) : i \in DOMAIN asked}
    BY DEF Joining
  <2>. QED  BY <2>1, <2>2 DEF Materialized
<1>8. ASSUME NEW i \in DOMAIN asked
      PROVE  /\ joined(i).by = s /\ joined(i).type = asked[i].intent
             /\ [by |-> s, ref |-> joined(i).from.ref] \in episodeRows'
             /\ joined(i).from.ref \in {asked[i].from, StripRefPrefix(asked[i].from)}
             /\ rowKind'[joined(i).to.ref.name] = joined(i).to.kind
             /\ joined(i).to.ref \in {asked[i].to, StripRefPrefix(asked[i].to)}
             /\ joined(i).type = "triggered" => joined(i).to.kind # "assertion"
  <2>1. PICK from, to : from = Resolved(asked[i].from, names) /\ to = Resolved(asked[i].to, names)
    OBVIOUS
  <2>2. joined(i).from = from /\ joined(i).to = to /\ joined(i).by = s /\ joined(i).type = asked[i].intent
    BY <2>1
  <2>3. /\ from.kind = "episode" /\ to.kind \in BeliefKinds
        /\ joined(i).type = "triggered" => to.kind # "assertion"
    BY <1>7, <2>2 DEF MayJoin
  <2>4. /\ [by |-> s, ref |-> from.ref] \in episodeRows'
        /\ from.ref \in {asked[i].from, StripRefPrefix(asked[i].from)}
    BY <1>5, <2>1, <2>3
  <2>5. rowKind'[to.ref.name] = to.kind /\ to.ref \in {asked[i].to, StripRefPrefix(asked[i].to)}
    BY <1>5, <2>1, <2>3
  <2> HIDE DEF joined
  <2>. QED  BY <2>2, <2>3, <2>4, <2>5
<1> HIDE DEF joined
<1>9. \A i \in DOMAIN asked : joined(i) \in memory_relations'
  <2>1. Materialized(s, asked, names) \subseteq memory_relations'
    BY <1>1, <1>2 DEF WriteRelations
  <2>. QED  BY <1>7, <2>1
<1>10. \A r \in new : \E i \in DOMAIN asked : r = joined(i)
  BY <1>6, <1>7
<1>11. ASSUME NEW r \in new
       PROVE  /\ [by |-> s, ref |-> r.from.ref] \in episodeRows'
              /\ rowKind'[r.to.ref.name] = r.to.kind
              /\ r.type = "triggered" => r.to.kind # "assertion"
  <2>1. PICK i \in DOMAIN asked : r = joined(i)
    BY <1>10, <1>11
  <2>. QED  BY <1>8, <2>1
<1>12. ASSUME NEW i \in DOMAIN asked
       PROVE  \E r \in memory_relations' :
                /\ r.by = s /\ r.type = asked[i].intent
                /\ r.from.ref \in {asked[i].from, StripRefPrefix(asked[i].from)}
                /\ r.to.ref \in {asked[i].to, StripRefPrefix(asked[i].to)}
  <2>1. PICK r \in memory_relations' : r = joined(i)
    BY <1>9, <1>12
  <2>. QED  BY <1>8, <1>12, <2>1
<1>. QED  BY <1>11, <1>12

\* What a thinker job joins leads from an episode of its own settlement to a row
\* of the very kind that it names, and is written as a whole, though keys are
\* used again with another kind and a job runs again (thinker-worker.ts:693).
THEOREM EvidenceCorrect == RelationSpec => EvidenceIsRooted
<1> DEFINE New(s) == {r \in memory_relations' \ memory_relations :
                        r.by = s /\ r.type # "conflicts_with"}
           Rooted(s) ==
             LET new == New(s)
                 asked == thoughts'[s].outcome.intents
             IN  new # {} =>
                   /\ \A r \in new :
                        /\ [by |-> s, ref |-> r.from.ref] \in episodeRows'
                        /\ rowKind'[r.to.ref.name] = r.to.kind
                        /\ r.type = "triggered" => r.to.kind # "assertion"
                   /\ \A i \in DOMAIN asked : \E r \in memory_relations' :
                        /\ r.by = s /\ r.type = asked[i].intent
                        /\ r.from.ref \in {asked[i].from, StripRefPrefix(asked[i].from)}
                        /\ r.to.ref \in {asked[i].to, StripRefPrefix(asked[i].to)}
<1>1. ASSUME RelationInv, NEW s \in Thoughts, NEW t \in Thoughts, Think(t) PROVE Rooted(s)
  <2>1. CASE s = t
    <3>1. PICK new : new = New(s)
      OBVIOUS
    <3>2. PICK asked : asked = thoughts'[s].outcome.intents
      OBVIOUS
    <3>3. CASE new = {}
      BY <3>1, <3>3
    <3>4. CASE new # {}
      BY <1>1, <2>1, <3>1, <3>2, <3>4, ThinkIsRooted
    <3>. QED  BY <3>3, <3>4
  <2>2. CASE s # t
    <3>1. \A r \in memory_relations' \ memory_relations : r.by = t
      BY <1>1, WrittenIsOwn DEF Think
    <3>2. New(s) = {}
      BY <2>2, <3>1
    <3>. QED  BY <3>2
  <2>. QED  BY <2>1, <2>2
<1>2. ASSUME NEW s \in Thoughts, NEW t \in PlainTurns, FlushRelations(t) PROVE Rooted(s)
  <2>1. \A r \in memory_relations' \ memory_relations : r.by = t
    BY <1>2, WrittenIsOwn DEF FlushRelations
  <2>2. New(s) = {}
    BY <2>1, RelationAssumption DEF RelationAssumption
  <2>. QED  BY <2>2
<1>3. ASSUME NEW s \in Thoughts, memory_relations' = memory_relations PROVE Rooted(s)
  BY <1>3
<1>4. RelationInv /\ [RelationNext]_relationVars => [\A s \in Thoughts : Rooted(s)]_relationVars
  <2>1. ASSUME NEW t \in PlainTurns, SettlePlainTurn(t) PROVE memory_relations' = memory_relations
    BY <2>1 DEF SettlePlainTurn
  <2> HIDE DEF Rooted
  <2>. QED  BY <1>1, <1>2, <1>3, <2>1 DEF RelationNext
<1>. QED  BY <1>4, RelationInvariant, PTL DEF RelationSpec, EvidenceIsRooted

-----------------------------------------------------------------------------
(***************************************************************************)
(* The rebuild of search documents.  What is asked of a rebuild is, at     *)
(* every moment, as the rows have it or covered by a part that is to come; *)
(* of the part at hand what is deleted, what is written and what is left   *)
(* to write make up its rows.                                              *)
(***************************************************************************)

KeptIn(scope, a) == {d \in docs : d.scope = scope /\ (scope \in Wide \/ d.home = a)}

OneToOne(kept) == \A d, e \in kept : Without(d) = Without(e) => d = e

Healed(scope, a) ==
  /\ {Without(d) : d \in KeptIn(scope, a)} = AuthorityDocs(scope, a)
  /\ OneToOne(KeptIn(scope, a))

AskedFor(b, scope, a) ==
  /\ AskedOf[b].scope \in {"all", scope}
  /\ scope \in Wide \/ AskedOf[b].owner # AllOwners \/ a \in Listed(scope)

Covers(part, scope, a) ==
  part.scope = scope /\ (scope \in Wide \/ part.owner \in {a, AllOwners})

\* A part that is taken up is for one agent, where its scope has agents.
Single(part) == part.owner # AllOwners \/ part.scope \in Wide

\* What is left to write of a part is what no document has.
HalfWritten(part, todo) ==
  LET kept == KeptIn(part.scope, part.owner)
      written == {Without(d) : d \in kept}
  IN  /\ todo \in Seq(AuthorityDocs(part.scope, part.owner))
      /\ written \union Range(todo) = AuthorityDocs(part.scope, part.owner)
      /\ written \intersect Range(todo) = {}
      /\ OneToOne(kept) /\ IsInjective(todo)

Phases == {"idle", "wipe", "read", "insert", "broken", "done"}

OnCourse(b, phase, parts, todo) ==
  /\ parts \in Seq(Range(parts))
  /\ \A p \in Range(parts) : p.owner = AllOwners => AskedOf[b].owner = AllOwners
  /\ phase \in {"wipe", "read", "insert"} =>
       \A scope \in Range(ScopeOrder), a \in OwnersOf(b) :
         AskedFor(b, scope, a) =>
           Healed(scope, a) \/ \E p \in Range(parts) : Covers(p, scope, a)
  /\ phase \in {"read", "insert"} => parts # <<>> /\ Single(Head(parts))
  /\ phase = "read" => KeptIn(Head(parts).scope, Head(parts).owner) = {}
  /\ phase = "insert" => HalfWritten(Head(parts), todo)
  /\ phase = "done" =>
       \A scope \in Range(ScopeOrder), a \in OwnersOf(b) :
         AskedFor(b, scope, a) => Healed(scope, a)

RebuildsTyped ==
  /\ rewriting = [b \in Rebuilds |-> rewriting[b]] /\ undisturbed \subseteq Rebuilds
  /\ \A b \in Rebuilds :
       rewriting[b] = [at |-> rewriting[b].at, parts |-> rewriting[b].parts,
                       todo |-> rewriting[b].todo]

RebuildInv ==
  /\ RebuildsTyped
  /\ \A b \in undisturbed :
       OnCourse(b, rewriting[b].at, rewriting[b].parts, rewriting[b].todo)

LEMMA SetAsSequence ==
  ASSUME NEW S, IsFiniteSet(S)
  PROVE  SetToSeq(S) \in Seq(S) /\ Range(SetToSeq(S)) = S /\ IsInjective(SetToSeq(S))
<1>1. PICK n : n = Cardinality(S) /\ n \in Nat
  BY FS_CardinalityType
<1>2. PICK g \in [1..n -> S] : IsInjective(g)
  BY <1>1, FS_CardinalityType DEF ExistsBijection, Bijection, Injection
<1>3. PICK f : f = SetToSeq(S)
  OBVIOUS
<1>4. f \in [1..n -> S] /\ IsInjective(f)
  <2>1. \E h \in [1..n -> S] : IsInjective(h)
    BY <1>2
  <2>2. f = CHOOSE h \in [1..n -> S] : IsInjective(h)
    BY <1>1, <1>3, Zenon DEF SetToSeq
  <2>. QED  BY <2>1, <2>2, Zenon
<1>5. IsFiniteSet(1..n) /\ Cardinality(1..n) = n
  BY <1>1, FS_Interval
<1>6. f \in Surjection(1..n, S)
  BY <1>1, <1>4, <1>5, FS_Injection DEF Injection
<1>7. Range(f) = S
  BY <1>4, <1>6 DEF Surjection, Range
<1>8. f \in Seq(S)
  BY <1>1, <1>4
<1>. QED  BY <1>3, <1>4, <1>7, <1>8

LEMMA FiniteSources ==
  /\ \A scope, a : IsFiniteSet(AuthorityDocs(scope, a))
  /\ \A scope : IsFiniteSet({[scope |-> scope, owner |-> a] : a \in Listed(scope)})
<1>1. ASSUME NEW scope, NEW a PROVE IsFiniteSet(AuthorityDocs(scope, a))
  <2>1. PICK S : S = {q \in IndexRows : Sourced(q, scope) /\ (scope \in Wide \/ HomeOf[q] = a)}
    OBVIOUS
  <2>2. PICK f : f = [q \in S |-> Doc(scope, q, rows[q].text)]
    OBVIOUS
  <2>3. IsFiniteSet(S)
    BY <2>1, IndexAssumption, FS_Subset DEF IndexAssumption
  <2>4. AuthorityDocs(scope, a) = {f[q] : q \in S}
    BY <2>1, <2>2, Zenon DEF AuthorityDocs
  <2>5. f \in Surjection(S, AuthorityDocs(scope, a))
    BY <2>2, <2>4 DEF Surjection
  <2>. QED  BY <2>3, <2>5, FS_Surjection
<1>2. ASSUME NEW scope PROVE IsFiniteSet({[scope |-> scope, owner |-> a] : a \in Listed(scope)})
  <2>1. PICK S : S = Listed(scope)
    OBVIOUS
  <2>2. PICK f : f = [a \in S |-> [scope |-> scope, owner |-> a]]
    OBVIOUS
  <2>3. IsFiniteSet(S)
    BY <2>1, IndexAssumption, FS_Subset DEF IndexAssumption, Listed
  <2>4. PICK T : T = {[scope |-> scope, owner |-> a] : a \in S}
    OBVIOUS
  <2>5. f \in Surjection(S, T)
    BY <2>2, <2>4 DEF Surjection
  <2>. QED  BY <2>1, <2>3, <2>4, <2>5, FS_Surjection
<1>. QED  BY <1>1, <1>2

LEMMA RebuildStarts == IndexInit => RebuildInv
BY DEF IndexInit, RebuildInv, RebuildsTyped, IdleRebuild

\* Rows that stay leave what a rebuild is to make of them.
LEMMA RowsStay ==
  ASSUME rows' = rows
  PROVE  /\ \A scope, a : AuthorityDocs(scope, a)' = AuthorityDocs(scope, a)
         /\ \A scope : Listed(scope)' = Listed(scope)
         /\ \A b, scope, a : AskedFor(b, scope, a)' = AskedFor(b, scope, a)
BY DEF AuthorityDocs, Sourced, Listed, AskedFor

LEMMA KeptStays ==
  ASSUME rows' = rows, NEW scope, NEW a, KeptIn(scope, a)' = KeptIn(scope, a)
  PROVE  Healed(scope, a)' = Healed(scope, a)
BY RowsStay DEF Healed, OneToOne

LEMMA DocsStay ==
  ASSUME rows' = rows, docs' = docs
  PROVE  \A scope, a : KeptIn(scope, a)' = KeptIn(scope, a) /\ Healed(scope, a)' = Healed(scope, a)
BY KeptStays DEF KeptIn

\* What an action makes of its rebuild.
Rewrites(b, phase, parts, todo) ==
  rewriting' = [rewriting EXCEPT ![b] = [at |-> phase, parts |-> parts, todo |-> todo]]

LEMMA RebuildRewrites ==
  ASSUME RebuildsTyped, NEW b \in Rebuilds
  PROVE  /\ StartRebuild(b) =>
              LET scopes == IF AskedOf[b].scope = "all" THEN ScopeOrder ELSE <<AskedOf[b].scope>>
              IN  Rewrites(b, "wipe", [i \in DOMAIN scopes |->
                             [scope |-> scopes[i], owner |-> AskedOf[b].owner]], <<>>)
         /\ ListOwners(b) =>
              Rewrites(b, "wipe",
                SetToSeq({[scope |-> Head(rewriting[b].parts).scope, owner |-> a] :
                            a \in Listed(Head(rewriting[b].parts).scope)})
                  \o Tail(rewriting[b].parts), rewriting[b].todo)
         /\ Wipe(b) => Rewrites(b, "read", rewriting[b].parts, rewriting[b].todo)
         /\ ReadAuthority(b) =>
              Rewrites(b, "insert", rewriting[b].parts,
                SetToSeq(AuthorityDocs(Head(rewriting[b].parts).scope,
                                       Head(rewriting[b].parts).owner)))
         /\ InsertDoc(b) =>
              \/ /\ rewriting[b].todo = <<>> /\ docs' = docs
                 /\ Rewrites(b, "wipe", Tail(rewriting[b].parts), rewriting[b].todo)
              \/ docs' = docs /\ Rewrites(b, "broken", rewriting[b].parts, rewriting[b].todo)
              \/ /\ rewriting[b].todo # <<>> /\ docs' = Inserted(Head(rewriting[b].todo))
                 /\ Rewrites(b, "insert", rewriting[b].parts, Tail(rewriting[b].todo))
         /\ FinishRebuild(b) => Rewrites(b, "done", rewriting[b].parts, rewriting[b].todo)
         /\ BreakRebuild(b) => Rewrites(b, "broken", rewriting[b].parts, rewriting[b].todo)
<1>1. PICK r : r = rewriting[b] /\ r = [at |-> r.at, parts |-> r.parts, todo |-> r.todo]
  BY DEF RebuildsTyped
<1>2. \A f : [rewriting EXCEPT ![b] = f] = [x \in Rebuilds |-> IF x = b THEN f ELSE rewriting[x]]
  BY DEF RebuildsTyped
<1>3. StartRebuild(b) =>
        LET scopes == IF AskedOf[b].scope = "all" THEN ScopeOrder ELSE <<AskedOf[b].scope>>
        IN  Rewrites(b, "wipe", [i \in DOMAIN scopes |->
                       [scope |-> scopes[i], owner |-> AskedOf[b].owner]], <<>>)
  BY Zenon DEF StartRebuild, Rewrites
<1>4. ListOwners(b) =>
        Rewrites(b, "wipe",
          SetToSeq({[scope |-> Head(rewriting[b].parts).scope, owner |-> a] :
                      a \in Listed(Head(rewriting[b].parts).scope)})
            \o Tail(rewriting[b].parts), rewriting[b].todo)
  <2>1. PICK one : one = SetToSeq({[scope |-> Head(rewriting[b].parts).scope, owner |-> a] :
                                     a \in Listed(Head(rewriting[b].parts).scope)})
    OBVIOUS
  <2>2. ListOwners(b) => /\ rewriting' = [rewriting EXCEPT ![b].parts = one \o Tail(@)]
                         /\ rewriting[b].at = "wipe"
    BY <2>1, Zenon DEF ListOwners
  <2>3. ListOwners(b) => Rewrites(b, "wipe", one \o Tail(rewriting[b].parts), rewriting[b].todo)
    BY <2>2, <1>1, <1>2 DEF Rewrites
  <2>. QED  BY <2>1, <2>3
<1>5. Wipe(b) => Rewrites(b, "read", rewriting[b].parts, rewriting[b].todo)
  BY <1>1, <1>2 DEF Wipe, Rewrites
<1>6. ReadAuthority(b) =>
        Rewrites(b, "insert", rewriting[b].parts,
          SetToSeq(AuthorityDocs(Head(rewriting[b].parts).scope, Head(rewriting[b].parts).owner)))
  <2>1. PICK todo : todo = SetToSeq(AuthorityDocs(Head(rewriting[b].parts).scope,
                                                  Head(rewriting[b].parts).owner))
    OBVIOUS
  <2>2. ReadAuthority(b) =>
          rewriting' = [rewriting EXCEPT ![b].at = "insert", ![b].todo = todo]
    BY <2>1, Zenon DEF ReadAuthority
  <2>3. ReadAuthority(b) => Rewrites(b, "insert", rewriting[b].parts, todo)
    BY <2>2, <1>1, <1>2 DEF Rewrites
  <2>. QED  BY <2>1, <2>3
<1>7. InsertDoc(b) =>
        \/ /\ rewriting[b].todo = <<>> /\ docs' = docs
           /\ Rewrites(b, "wipe", Tail(rewriting[b].parts), rewriting[b].todo)
        \/ docs' = docs /\ Rewrites(b, "broken", rewriting[b].parts, rewriting[b].todo)
        \/ /\ rewriting[b].todo # <<>> /\ docs' = Inserted(Head(rewriting[b].todo))
           /\ Rewrites(b, "insert", rewriting[b].parts, Tail(rewriting[b].todo))
  BY <1>1, <1>2 DEF InsertDoc, Rewrites
<1>8. FinishRebuild(b) => Rewrites(b, "done", rewriting[b].parts, rewriting[b].todo)
  BY <1>1, <1>2 DEF FinishRebuild, Rewrites
<1>9. BreakRebuild(b) => Rewrites(b, "broken", rewriting[b].parts, rewriting[b].todo)
  BY <1>1, <1>2 DEF BreakRebuild, Rewrites
<1>. QED  BY <1>3, <1>4, <1>5, <1>6, <1>7, <1>8, <1>9

LEMMA RewritesKeepsTyped ==
  ASSUME RebuildsTyped, NEW b \in Rebuilds, NEW phase, NEW parts, NEW todo,
         Rewrites(b, phase, parts, todo), undisturbed' \subseteq Rebuilds
  PROVE  /\ RebuildsTyped'
         /\ rewriting'[b].at = phase /\ rewriting'[b].parts = parts /\ rewriting'[b].todo = todo
         /\ \A c \in Rebuilds \ {b} : rewriting'[c] = rewriting[c]
BY DEF RebuildsTyped, Rewrites

LEMMA FunctionAsSequence ==
  ASSUME NEW n \in Nat, NEW T, NEW f \in [1..n -> T]
  PROVE  f \in Seq(T)
OBVIOUS

\* What is in a sequence, its end and two of them together.
LEMMA SequenceRanges ==
  ASSUME NEW T, NEW s \in Seq(T), NEW t \in Seq(T)
  PROVE  /\ s \in Seq(Range(s)) /\ Range(s \o t) = Range(s) \union Range(t)
         /\ s # <<>> => Range(s) = {Head(s)} \union Range(Tail(s))
         /\ s \o t \in Seq(T)
<1>1. s \in Seq(Range(s)) /\ Range(s \o t) = Range(s) \union Range(t) /\ s \o t \in Seq(T)
  BY SeqOfRange, RangeConcatenation, ConcatProperties
<1>2. ASSUME s # <<>> PROVE Range(s) = {Head(s)} \union Range(Tail(s))
  <2>1. PICK n : n = Len(s) /\ n \in Nat \ {0} /\ Head(s) = s[1]
    BY <1>2, EmptySeq
  <2>2. PICK r : r = Tail(s)
    OBVIOUS
  <2>3. r \in Seq(T) /\ Len(r) = n - 1 /\ \A i \in 1..(n - 1) : r[i] = s[i + 1]
    BY <1>2, <2>1, <2>2, HeadTailProperties
  <2>4. Range(s) = {s[i] : i \in 1..n} /\ Range(r) = {r[i] : i \in 1..(n - 1)}
    BY <2>1, <2>3, RangeEquality
  <2>5. \A i \in 1..n : i = 1 \/ (i - 1 \in 1..(n - 1) /\ r[i - 1] = s[i])
    BY <2>1, <2>3
  <2>6. \A i \in 1..(n - 1) : i + 1 \in 1..n /\ r[i] = s[i + 1]
    BY <2>1, <2>3
  <2>7. \A x \in Range(s) : x = Head(s) \/ x \in Range(r)
    BY <2>1, <2>4, <2>5
  <2>8. Head(s) \in Range(s) /\ \A x \in Range(r) : x \in Range(s)
    <3>1. s[1] \in Range(s)
      BY <2>1, <2>4
    <3>2. \A x \in Range(r) : x \in Range(s)
      BY <2>4, <2>6
    <3>. QED  BY <2>1, <3>1, <3>2
  <2>. QED  BY <2>2, <2>7, <2>8
<1>. QED  BY <1>1, <1>2

LEMMA JoinedRange ==
  ASSUME NEW S, NEW one \in Seq(S), NEW T, NEW rest \in Seq(T)
  PROVE  /\ one \o rest \in Seq(Range(one \o rest))
         /\ Range(one \o rest) = Range(one) \union Range(rest)
<1>1. PICK U : U = S \union T
  OBVIOUS
<1>2. S \subseteq U /\ T \subseteq U
  BY <1>1
<1>3. one \in Seq(U) /\ rest \in Seq(U)
  BY <1>2, SeqMonotonic
<1>4. one \o rest \in Seq(U)
  BY <1>3, ConcatProperties
<1>5. one \o rest \in Seq(Range(one \o rest))
  BY <1>4, SeqOfRange
<1>6. Range(one \o rest) = Range(one) \union Range(rest)
  BY <1>3, RangeConcatenation
<1>. QED  BY <1>5, <1>6

\* A course that nobody disturbs goes on as long as its rebuild rests.
LEMMA CourseStays ==
  ASSUME rows' = rows, docs' = docs, NEW b, NEW phase, NEW parts, NEW todo,
         OnCourse(b, phase, parts, todo)
  PROVE  OnCourse(b, phase, parts, todo)'
BY RowsStay, DocsStay DEF OnCourse, HalfWritten, OneToOne

LEMMA StartCourse ==
  ASSUME NEW b, NEW scopes,
         scopes = IF AskedOf[b].scope = "all" THEN ScopeOrder ELSE <<AskedOf[b].scope>>,
         NEW parts,
         parts = [i \in DOMAIN scopes |-> [scope |-> scopes[i], owner |-> AskedOf[b].owner]]
  PROVE  OnCourse(b, "wipe", parts, <<>>)
<1>1. PICK n \in Nat : DOMAIN scopes = 1..n
  <2>1. DOMAIN ScopeOrder = 1..5 /\ DOMAIN <<AskedOf[b].scope>> = 1..1
    BY DEF ScopeOrder
  <2>. QED  BY <2>1
<1>2. parts \in Seq(Range(parts))
  <2>1. PICK T : T = {[scope |-> scopes[i], owner |-> AskedOf[b].owner] : i \in 1..n}
    OBVIOUS
  <2>2. parts \in [1..n -> T]
    BY <1>1, <2>1
  <2>3. parts \in Seq(T)
    BY <2>2, FunctionAsSequence
  <2>. QED  BY <2>3, SeqOfRange
<1>3. \A p \in Range(parts) : p.owner = AskedOf[b].owner
  BY DEF Range
<1>4. ASSUME NEW scope \in Range(ScopeOrder), NEW a \in OwnersOf(b), AskedFor(b, scope, a)
      PROVE  \E p \in Range(parts) : Covers(p, scope, a)
  <2>1. \E i \in DOMAIN scopes : scopes[i] = scope
    <3>1. CASE AskedOf[b].scope = "all"
      BY <3>1, <1>4 DEF Range
    <3>2. CASE AskedOf[b].scope # "all"
      BY <3>2, <1>4 DEF AskedFor
    <3>. QED  BY <3>1, <3>2
  <2>2. PICK i \in DOMAIN parts : parts[i] = [scope |-> scope, owner |-> AskedOf[b].owner]
    BY <2>1
  <2>3. AskedOf[b].owner \in {a, AllOwners}
    BY <1>4 DEF OwnersOf
  <2>. QED  BY <2>2, <2>3 DEF Covers, Range
<1>. QED  BY <1>2, <1>3, <1>4 DEF OnCourse

\* The parts of a scope for all are the agents that its targets are among.
LEMMA ListCourse ==
  ASSUME NEW b, NEW parts, NEW todo, OnCourse(b, "wipe", parts, todo), parts # <<>>,
         NEW scope, scope = Head(parts).scope, Head(parts).owner = AllOwners, scope \notin Wide,
         NEW one, one = SetToSeq({[scope |-> scope, owner |-> a] : a \in Listed(scope)})
  PROVE  OnCourse(b, "wipe", one \o Tail(parts), todo)
<1>1. PICK S : S = {[scope |-> scope, owner |-> a] : a \in Listed(scope)}
  OBVIOUS
<1>2. one \in Seq(S) /\ Range(one) = S
  <2>1. IsFiniteSet(S)
    BY <1>1, FiniteSources, Zenon
  <2>2. one = SetToSeq(S)
    BY <1>1, Zenon
  <2>. QED  BY <2>1, <2>2, SetAsSequence
<1>3. parts \in Seq(Range(parts)) /\ Tail(parts) \in Seq(Range(parts))
  BY DEF OnCourse
<1>4. PICK rest : rest = Tail(parts)
  OBVIOUS
<1>5. PICK new : new = one \o rest
  OBVIOUS
<1>6. rest \in Seq(Range(parts))
  BY <1>3, <1>4
<1>7. new \in Seq(Range(new)) /\ Range(new) = Range(one) \union Range(Tail(parts))
  <2>1. /\ one \o rest \in Seq(Range(one \o rest))
        /\ Range(one \o rest) = Range(one) \union Range(rest)
    BY <1>2, <1>6, JoinedRange
  <2>. QED  BY <1>4, <1>5, <2>1
<1>8. Range(parts) = {Head(parts)} \union Range(Tail(parts))
  BY <1>3, SequenceRanges
<1>9. Range(new) \subseteq S \union Range(parts)
  BY <1>2, <1>7, <1>8
<1>10. AskedOf[b].owner = AllOwners
  BY <1>8 DEF OnCourse
<1>11. ASSUME NEW wanted \in Range(ScopeOrder), NEW a \in OwnersOf(b), AskedFor(b, wanted, a),
              NEW p \in Range(parts), Covers(p, wanted, a)
       PROVE  \E q \in Range(new) : Covers(q, wanted, a)
  <2>1. CASE p \in Range(Tail(parts))
    BY <2>1, <1>7, <1>11
  <2>2. CASE p = Head(parts)
    <3>1. wanted = scope /\ a \in Listed(scope)
      BY <2>2, <1>10, <1>11 DEF Covers, AskedFor
    <3>2. PICK q : q = [scope |-> scope, owner |-> a]
      OBVIOUS
    <3>3. q \in Range(new)
      BY <1>1, <1>2, <1>7, <3>1, <3>2
    <3>. QED  BY <3>1, <3>2, <3>3 DEF Covers
  <2>. QED  BY <1>8, <1>11, <2>1, <2>2
<1>12. ASSUME NEW wanted \in Range(ScopeOrder), NEW a \in OwnersOf(b), AskedFor(b, wanted, a)
       PROVE  Healed(wanted, a) \/ \E q \in Range(new) : Covers(q, wanted, a)
  BY <1>11, <1>12 DEF OnCourse
<1>13. OnCourse(b, "wipe", new, todo)
  BY <1>7, <1>10, <1>12 DEF OnCourse
<1>. QED  BY <1>4, <1>5, <1>13

\* A part for one agent keeps its hands off what it does not cover.
LEMMA Uncovered ==
  ASSUME NEW part, Single(part), NEW scope, NEW a, ~Covers(part, scope, a)
  PROVE  KeptIn(scope, a) \intersect KeptIn(part.scope, part.owner) = {}
BY DEF Covers, Single, KeptIn, Wide

LEMMA Covered ==
  ASSUME NEW part, Single(part), NEW scope, NEW a, Covers(part, scope, a)
  PROVE  /\ KeptIn(scope, a) = KeptIn(part.scope, part.owner)
         /\ AuthorityDocs(scope, a) = AuthorityDocs(part.scope, part.owner)
         /\ Healed(scope, a) <=> Healed(part.scope, part.owner)
<1>1. part.scope = scope /\ (scope \in Wide \/ part.owner = a)
  BY DEF Covers, Single
<1>2. KeptIn(scope, a) = KeptIn(part.scope, part.owner)
  BY <1>1 DEF KeptIn
<1>3. AuthorityDocs(scope, a) = AuthorityDocs(part.scope, part.owner)
  BY <1>1 DEF AuthorityDocs
<1>. QED  BY <1>2, <1>3 DEF Healed

LEMMA WipeCourse ==
  ASSUME rows' = rows, NEW b, NEW parts, NEW todo, OnCourse(b, "wipe", parts, todo),
         parts # <<>>, NEW part, part = Head(parts), Single(part), docs' = docs \ Wiped(part)
  PROVE  OnCourse(b, "read", parts, todo)'
<1>1. Wiped(part) = KeptIn(part.scope, part.owner)
  BY DEF Wiped, KeptIn
<1>2. KeptIn(part.scope, part.owner)' = {}
  BY <1>1 DEF KeptIn
<1>3. part \in Range(parts)
  BY DEF OnCourse, Range
<1>4. ASSUME NEW scope, NEW a, ~Covers(part, scope, a)
      PROVE  Healed(scope, a)' = Healed(scope, a)
  <2>1. KeptIn(scope, a) \intersect Wiped(part) = {}
    BY <1>1, <1>4, Uncovered
  <2>2. KeptIn(scope, a)' = KeptIn(scope, a)
    BY <2>1 DEF KeptIn
  <2>. QED  BY <2>2, KeptStays
<1>. QED  BY <1>2, <1>3, <1>4, RowsStay DEF OnCourse

LEMMA ReadCourse ==
  ASSUME rows' = rows, docs' = docs, NEW b, NEW parts, NEW todo,
         OnCourse(b, "read", parts, todo), NEW part, part = Head(parts),
         NEW new, new = SetToSeq(AuthorityDocs(part.scope, part.owner))
  PROVE  OnCourse(b, "insert", parts, new)'
<1>1. /\ new \in Seq(AuthorityDocs(part.scope, part.owner)) /\ IsInjective(new)
      /\ Range(new) = AuthorityDocs(part.scope, part.owner)
  BY FiniteSources, SetAsSequence
<1>2. KeptIn(part.scope, part.owner) = {}
  BY DEF OnCourse
<1>3. HalfWritten(part, new)
  BY <1>1, <1>2 DEF HalfWritten, OneToOne
<1>4. OnCourse(b, "insert", parts, new)
  BY <1>3 DEF OnCourse
<1>. QED  BY <1>4, CourseStays

\* One document more, and one less to write.
LEMMA InsertCourse ==
  ASSUME rows' = rows, NEW b, NEW parts, NEW todo, OnCourse(b, "insert", parts, todo),
         todo # <<>>, docs' = Inserted(Head(todo))
  PROVE  OnCourse(b, "insert", parts, Tail(todo))'
<1>1. PICK part : part = Head(parts) /\ Single(part) /\ part \in Range(parts)
  BY DEF OnCourse, Range
<1>2. PICK kept : kept = KeptIn(part.scope, part.owner)
  OBVIOUS
<1>3. PICK all : all = AuthorityDocs(part.scope, part.owner)
  OBVIOUS
<1>4. PICK written : written = {Without(x) : x \in kept}
  OBVIOUS
<1>5. /\ todo \in Seq(all) /\ written \union Range(todo) = all
      /\ written \intersect Range(todo) = {}
      /\ OneToOne(kept) /\ IsInjective(todo)
  BY <1>1, <1>2, <1>3, <1>4 DEF OnCourse, HalfWritten
<1>6. PICK d : d = Head(todo) /\ d \in all
  BY <1>5
<1>7. PICK rest : rest = Tail(todo) /\ rest \in Seq(all)
  BY <1>5, HeadTailProperties
<1>8. Range(todo) = {d} \union Range(rest)
  BY <1>5, <1>6, <1>7, SequenceRanges
<1>9. IsInjective(rest) /\ d \notin Range(rest)
  <2>1. /\ Len(todo) \in Nat /\ DOMAIN todo = 1..Len(todo) /\ d = todo[1] /\ 1 \in DOMAIN todo
        /\ DOMAIN rest = 1..(Len(todo) - 1)
        /\ \A i \in DOMAIN rest : i + 1 \in DOMAIN todo /\ rest[i] = todo[i + 1]
    BY <1>5, <1>6, <1>7
  <2>2. \A i \in DOMAIN rest : rest[i] # d
    BY <1>5, <2>1 DEF IsInjective
  <2>3. IsInjective(rest)
    BY <1>5, <2>1 DEF IsInjective
  <2>. QED  BY <2>2, <2>3 DEF Range
<1>10. PICK r \in IndexRows : /\ d = Doc(part.scope, r, rows[r].text)
                              /\ part.scope \in Wide \/ HomeOf[r] = part.owner
  BY <1>3, <1>6 DEF AuthorityDocs
<1>11. PICK new : new = [id |-> FreshId, scope |-> d.scope, ref |-> d.ref, home |-> d.home,
                         text |-> d.text]
  OBVIOUS
<1>12. docs' = docs \union {new}
  BY <1>6, <1>11 DEF Inserted
<1>13. Without(new) = d /\ new.scope = part.scope /\ new.home = HomeOf[r]
  BY <1>10, <1>11 DEF Without, Doc
<1>14. KeptIn(part.scope, part.owner)' = kept \union {new}
  BY <1>2, <1>10, <1>12, <1>13 DEF KeptIn
<1>15. ASSUME NEW scope, NEW a, ~Covers(part, scope, a)
       PROVE  Healed(scope, a)' = Healed(scope, a)
  <2>1. ~(new.scope = scope /\ (scope \in Wide \/ new.home = a))
    BY <1>1, <1>10, <1>13, <1>15 DEF Covers, Single
  <2>2. KeptIn(scope, a)' = KeptIn(scope, a)
    BY <1>12, <2>1 DEF KeptIn
  <2>. QED  BY <2>2, KeptStays
<1>16. HalfWritten(part, rest)'
  <2>1. PICK more : more = kept \union {new}
    OBVIOUS
  <2>2. {Without(x) : x \in more} = written \union {d}
    BY <1>4, <1>13, <2>1
  <2>3. d \notin written
    BY <1>5, <1>8
  <2>4. \A x, y \in more : Without(x) = Without(y) => x = y
    <3>1. \A x \in kept : Without(x) # d
      BY <1>4, <2>3
    <3>. QED  BY <1>5, <1>13, <2>1, <3>1 DEF OneToOne
  <2>5. AuthorityDocs(part.scope, part.owner)' = all
    BY <1>3, RowsStay
  <2>6. (written \union {d}) \union Range(rest) = all /\ (written \union {d}) \intersect Range(rest) = {}
    BY <1>5, <1>8, <1>9
  <2>. QED  BY <1>7, <1>9, <1>14, <2>1, <2>2, <2>4, <2>5, <2>6 DEF HalfWritten, OneToOne
<1>17. OnCourse(b, "insert", parts, rest)'
  BY <1>1, <1>15, <1>16, RowsStay DEF OnCourse
<1>. QED  BY <1>7, <1>17

\* A part that is written is as its rows have it.
LEMMA PassCourse ==
  ASSUME rows' = rows, docs' = docs, NEW b, NEW parts, OnCourse(b, "insert", parts, <<>>)
  PROVE  OnCourse(b, "wipe", Tail(parts), <<>>)'
<1>1. PICK part : part = Head(parts) /\ Single(part) /\ HalfWritten(part, <<>>)
  BY DEF OnCourse
<1>2. Healed(part.scope, part.owner)
  <2>1. Range(<<>>) = {}
    BY DEF Range
  <2>. QED  BY <1>1, <2>1 DEF HalfWritten, Healed
<1>3. PICK rest : rest = Tail(parts)
  OBVIOUS
<1>4. Range(parts) = {part} \union Range(rest) /\ rest \in Seq(Range(rest))
  <2>1. parts \in Seq(Range(parts)) /\ parts # <<>>
    BY DEF OnCourse
  <2>2. rest \in Seq(Range(parts))
    BY <1>3, <2>1
  <2>3. rest \in Seq(Range(rest))
    BY <2>2, SeqOfRange
  <2>. QED  BY <1>1, <1>3, <2>1, <2>3, SequenceRanges
<1>5. ASSUME NEW scope \in Range(ScopeOrder), NEW a \in OwnersOf(b), AskedFor(b, scope, a)
      PROVE  Healed(scope, a) \/ \E p \in Range(rest) : Covers(p, scope, a)
  <2>1. CASE Covers(part, scope, a)
    BY <1>1, <1>2, <2>1, Covered
  <2>2. CASE ~Covers(part, scope, a)
    BY <1>4, <1>5, <2>2 DEF OnCourse
  <2>. QED  BY <2>1, <2>2
<1>6. OnCourse(b, "wipe", rest, <<>>)
  BY <1>4, <1>5 DEF OnCourse
<1>. QED  BY <1>3, <1>6, CourseStays

LEMMA FinishCourse ==
  ASSUME NEW b, NEW parts, NEW todo, OnCourse(b, "wipe", parts, todo), parts = <<>>
  PROVE  OnCourse(b, "done", parts, todo)
<1>1. Range(parts) = {}
  BY DEF Range
<1>. QED  BY <1>1 DEF OnCourse

LEMMA BreakCourse ==
  ASSUME NEW b, NEW phase, NEW parts, NEW todo, OnCourse(b, phase, parts, todo)
  PROVE  OnCourse(b, "broken", parts, todo)
BY DEF OnCourse

LEMMA NobodyLeft ==
  ASSUME RebuildInv, undisturbed' = {}, rewriting' = rewriting
  PROVE  RebuildInv'
BY DEF RebuildInv, RebuildsTyped

LEMMA NothingMoves ==
  ASSUME RebuildInv, rows' = rows, docs' = docs, rewriting' = rewriting,
         undisturbed' = undisturbed
  PROVE  RebuildInv'
<1>1. RebuildsTyped'
  BY DEF RebuildInv, RebuildsTyped
<1>2. ASSUME NEW b \in undisturbed
      PROVE  OnCourse(b, rewriting[b].at, rewriting[b].parts, rewriting[b].todo)'
  <2>1. PICK phase, parts, todo :
          phase = rewriting[b].at /\ parts = rewriting[b].parts /\ todo = rewriting[b].todo
    OBVIOUS
  <2>2. OnCourse(b, phase, parts, todo)
    BY <2>1 DEF RebuildInv
  <2>3. OnCourse(b, phase, parts, todo)'
    BY <2>2, CourseStays
  <2>. QED  BY <2>1, <2>3 DEF OnCourse
<1>. QED  BY <1>1, <1>2 DEF RebuildInv

\* One rebuild moves: it stays on its course if it is undisturbed, and whoever
\* else is undisturbed has seen nothing of it.
LEMMA OneRebuildMoves ==
  ASSUME RebuildInv, NEW c \in Rebuilds, rows' = rows, NEW phase, NEW parts, NEW todo,
         Rewrites(c, phase, parts, todo), undisturbed' \subseteq Rebuilds,
         c \in undisturbed' => OnCourse(c, phase, parts, todo)',
         \A b \in undisturbed' \ {c} : b \in undisturbed /\ docs' = docs
  PROVE  RebuildInv'
<1>1. /\ RebuildsTyped'
      /\ rewriting'[c].at = phase /\ rewriting'[c].parts = parts /\ rewriting'[c].todo = todo
      /\ \A b \in Rebuilds \ {c} : rewriting'[b] = rewriting[b]
  BY RewritesKeepsTyped DEF RebuildInv
<1>2. ASSUME NEW b \in undisturbed'
      PROVE  OnCourse(b, rewriting[b].at, rewriting[b].parts, rewriting[b].todo)'
  <2>1. CASE b = c
    <3>1. OnCourse(c, phase, parts, todo)'
      BY <1>2, <2>1
    <3>. QED  BY <1>1, <2>1, <3>1 DEF OnCourse
  <2>2. CASE b # c
    <3>1. PICK at, some, left : at = rewriting[b].at /\ some = rewriting[b].parts
                                /\ left = rewriting[b].todo
      OBVIOUS
    <3>2. OnCourse(b, at, some, left) /\ docs' = docs
      BY <1>2, <2>2, <3>1 DEF RebuildInv
    <3>3. OnCourse(b, at, some, left)'
      BY <3>2, CourseStays
    <3>4. rewriting'[b] = rewriting[b]
      BY <1>1, <1>2, <2>2
    <3>. QED  BY <3>1, <3>3, <3>4 DEF OnCourse
  <2>. QED  BY <2>1, <2>2
<1>. QED  BY <1>1, <1>2 DEF RebuildInv

LEMMA RebuildKeepsCourse ==
  ASSUME RebuildInv, NEW c \in Rebuilds, Rebuild(c)
  PROVE  RebuildInv'
<1>1. rows' = rows /\ RebuildsTyped /\ undisturbed \subseteq Rebuilds
  BY DEF Rebuild, RebuildInv, RebuildsTyped
<1>2. PICK phase, parts, todo :
        phase = rewriting[c].at /\ parts = rewriting[c].parts /\ todo = rewriting[c].todo
  OBVIOUS
<1>3. c \in undisturbed => OnCourse(c, phase, parts, todo)
  BY <1>2 DEF RebuildInv
<1>4. CASE StartRebuild(c)
  <2>1. PICK scopes : scopes = IF AskedOf[c].scope = "all" THEN ScopeOrder
                               ELSE <<AskedOf[c].scope>>
    OBVIOUS
  <2>2. PICK new : new = [i \in DOMAIN scopes |-> [scope |-> scopes[i], owner |-> AskedOf[c].owner]]
    OBVIOUS
  <2>3. Rewrites(c, "wipe", new, <<>>)
    BY <1>1, <1>4, <2>1, <2>2, RebuildRewrites
  <2>4. docs' = docs /\ undisturbed' = {c}
    BY <1>4 DEF StartRebuild
  <2>5. OnCourse(c, "wipe", new, <<>>)
    BY <2>1, <2>2, StartCourse
  <2>6. OnCourse(c, "wipe", new, <<>>)'
    BY <1>1, <2>4, <2>5, CourseStays
  <2>. QED  BY <1>1, <2>3, <2>4, <2>6, OneRebuildMoves
<1>5. CASE ListOwners(c)
  <2>1. PICK scope : scope = Head(parts).scope
    OBVIOUS
  <2>2. PICK one : one = SetToSeq({[scope |-> scope, owner |-> a] : a \in Listed(scope)})
    OBVIOUS
  <2>3. PICK new : new = one \o Tail(parts)
    OBVIOUS
  <2>4. Rewrites(c, "wipe", new, todo)
    BY <1>1, <1>2, <1>5, <2>1, <2>2, <2>3, RebuildRewrites
  <2>5. /\ phase = "wipe" /\ parts # <<>> /\ Head(parts).owner = AllOwners /\ scope \notin Wide
        /\ docs' = docs /\ undisturbed' = undisturbed
    BY <1>2, <1>5, <2>1 DEF ListOwners
  <2>6. c \in undisturbed => OnCourse(c, "wipe", new, todo)
    BY <1>3, <2>1, <2>2, <2>3, <2>5, ListCourse
  <2>7. c \in undisturbed => OnCourse(c, "wipe", new, todo)'
    BY <1>1, <2>5, <2>6, CourseStays
  <2>. QED  BY <1>1, <2>4, <2>5, <2>7, OneRebuildMoves
<1>6. CASE Wipe(c)
  <2>1. PICK part : part = Head(parts)
    OBVIOUS
  <2>2. Rewrites(c, "read", parts, todo)
    BY <1>1, <1>2, <1>6, RebuildRewrites
  <2>3. /\ phase = "wipe" /\ parts # <<>> /\ Single(part) /\ docs' = docs \ Wiped(part)
        /\ undisturbed' = undisturbed \intersect {c}
    BY <1>2, <1>6, <2>1 DEF Wipe, Single
  <2>4. c \in undisturbed => OnCourse(c, "read", parts, todo)'
    BY <1>1, <1>3, <2>1, <2>3, WipeCourse
  <2>. QED  BY <1>1, <2>2, <2>3, <2>4, OneRebuildMoves
<1>7. CASE ReadAuthority(c)
  <2>1. PICK part : part = Head(parts)
    OBVIOUS
  <2>2. PICK new : new = SetToSeq(AuthorityDocs(part.scope, part.owner))
    OBVIOUS
  <2>3. Rewrites(c, "insert", parts, new)
    BY <1>1, <1>2, <1>7, <2>1, <2>2, RebuildRewrites
  <2>4. phase = "read" /\ docs' = docs /\ undisturbed' = undisturbed
    BY <1>2, <1>7 DEF ReadAuthority
  <2>5. c \in undisturbed => OnCourse(c, "insert", parts, new)'
    BY <1>1, <1>3, <2>1, <2>2, <2>4, ReadCourse
  <2>. QED  BY <1>1, <2>3, <2>4, <2>5, OneRebuildMoves
<1>8. CASE InsertDoc(c)
  <2>1. phase = "insert"
    BY <1>2, <1>8 DEF InsertDoc
  <2>2. CASE todo = <<>> /\ docs' = docs /\ Rewrites(c, "wipe", Tail(parts), todo)
    <3>1. c \in undisturbed => OnCourse(c, "wipe", Tail(parts), <<>>)'
      BY <1>1, <1>3, <2>1, <2>2, PassCourse
    <3>2. Rewrites(c, "wipe", Tail(parts), <<>>)
      BY <2>2
    <3>3. undisturbed' \subseteq undisturbed
      BY <1>8 DEF InsertDoc
    <3>. QED  BY <1>1, <2>2, <3>1, <3>2, <3>3, OneRebuildMoves
  <2>3. CASE docs' = docs /\ Rewrites(c, "broken", parts, todo)
    <3>1. c \in undisturbed => OnCourse(c, "broken", parts, todo)
      BY <1>3, BreakCourse
    <3>2. c \in undisturbed => OnCourse(c, "broken", parts, todo)'
      BY <1>1, <2>3, <3>1, CourseStays
    <3>3. undisturbed' \subseteq undisturbed
      BY <1>8 DEF InsertDoc
    <3>. QED  BY <1>1, <2>3, <3>2, <3>3, OneRebuildMoves
  <2>4. CASE todo # <<>> /\ docs' = Inserted(Head(todo)) /\ Rewrites(c, "insert", parts, Tail(todo))
    <3>1. c \in undisturbed => OnCourse(c, "insert", parts, Tail(todo))'
      BY <1>1, <1>3, <2>1, <2>4, InsertCourse
    <3>2. undisturbed' \subseteq undisturbed /\ (docs' = docs \/ undisturbed' \subseteq {c})
      BY <1>8 DEF InsertDoc
    <3>. QED  BY <1>1, <2>4, <3>1, <3>2, OneRebuildMoves
  <2>. QED  BY <1>1, <1>2, <1>8, <2>2, <2>3, <2>4, RebuildRewrites
<1>9. CASE FinishRebuild(c)
  <2>1. Rewrites(c, "done", parts, todo)
    BY <1>1, <1>2, <1>9, RebuildRewrites
  <2>2. phase = "wipe" /\ parts = <<>> /\ docs' = docs /\ undisturbed' = undisturbed
    BY <1>2, <1>9 DEF FinishRebuild
  <2>3. c \in undisturbed => OnCourse(c, "done", parts, todo)
    BY <1>3, <2>2, FinishCourse
  <2>4. c \in undisturbed => OnCourse(c, "done", parts, todo)'
    BY <1>1, <2>2, <2>3, CourseStays
  <2>. QED  BY <1>1, <2>1, <2>2, <2>4, OneRebuildMoves
<1>10. CASE BreakRebuild(c)
  <2>1. Rewrites(c, "broken", parts, todo)
    BY <1>1, <1>2, <1>10, RebuildRewrites
  <2>2. docs' = docs /\ undisturbed' = undisturbed
    BY <1>10 DEF BreakRebuild
  <2>3. c \in undisturbed => OnCourse(c, "broken", parts, todo)
    BY <1>3, BreakCourse
  <2>4. c \in undisturbed => OnCourse(c, "broken", parts, todo)'
    BY <1>1, <2>2, <2>3, CourseStays
  <2>. QED  BY <1>1, <2>1, <2>2, <2>4, OneRebuildMoves
<1>. QED  BY <1>4, <1>5, <1>6, <1>7, <1>8, <1>9, <1>10 DEF Rebuild

LEMMA RebuildStep == RebuildInv /\ [IndexNext]_indexVars => RebuildInv'
<1> SUFFICES ASSUME RebuildInv, [IndexNext]_indexVars PROVE RebuildInv'
  OBVIOUS
<1>1. ASSUME NEW r \in IndexRows, NEW text \in Wordings, NEW kept \in BOOLEAN,
             SaveRow(r, text, kept)
      PROVE  RebuildInv'
  BY <1>1, NobodyLeft DEF SaveRow
<1>2. ASSUME NEW r \in IndexRows, CommitRow(r) PROVE RebuildInv'
  BY <1>2, NobodyLeft DEF CommitRow
<1>3. ASSUME NEW o \in Organizers, StartOrganize(o) \/ LinkSimilar(o) \/ SyncProjection(o)
      PROVE  RebuildInv'
  BY <1>3, NothingMoves DEF StartOrganize, LinkSimilar, SyncProjection
<1>4. ASSUME NEW w \in issued, RunIssued(w) PROVE RebuildInv'
  <2>1. CASE LookUp(w)
    BY <1>4, <2>1, NothingMoves DEF RunIssued, LookUp
  <2>2. CASE WriteDoc(w) \/ RemoveDoc(w)
    BY <1>4, <2>2, NobodyLeft DEF RunIssued, WriteDoc, RemoveDoc
  <2>. QED  BY <1>4, <2>1, <2>2 DEF RunIssued
<1>5. ASSUME NEW c \in Rebuilds, Rebuild(c) PROVE RebuildInv'
  BY <1>5, RebuildKeepsCourse
<1>6. ASSUME UNCHANGED indexVars PROVE RebuildInv'
  BY <1>6, NothingMoves DEF indexVars
<1>. QED  BY <1>1, <1>2, <1>3, <1>4, <1>5, <1>6 DEF IndexNext

\* Documents that mirror rows one to one are as many as the rows have.
LEMMA HealedCounts ==
  ASSUME NEW scope, NEW a, Healed(scope, a)
  PROVE  Cardinality(KeptIn(scope, a)) = Cardinality(AuthorityDocs(scope, a))
<1>1. PICK kept : kept = KeptIn(scope, a)
  OBVIOUS
<1>2. PICK all : all = AuthorityDocs(scope, a) /\ IsFiniteSet(all)
  BY FiniteSources
<1>3. {Without(d) : d \in kept} = all /\ \A d, e \in kept : Without(d) = Without(e) => d = e
  BY <1>1, <1>2 DEF Healed, OneToOne
<1>4. PICK f : f = [d \in kept |-> Without(d)]
  OBVIOUS
<1>5. f \in [kept -> all]
  BY <1>3, <1>4
<1>6. f \in Injection(kept, all) /\ f \in Surjection(kept, all)
  <2>1. IsInjective(f)
    BY <1>3, <1>4 DEF IsInjective
  <2>2. \A x \in all : \E d \in kept : f[d] = x
    BY <1>3, <1>4
  <2>. QED  BY <1>5, <2>1, <2>2 DEF Injection, Surjection
<1>7. Cardinality(kept) = Cardinality(all)
  BY <1>2, <1>6, FS_Injection
<1>. QED  BY <1>1, <1>2, <1>7

\* A rebuild that nobody disturbs leaves each row of its scopes in one document,
\* with the text of the row, and no other, however often it broke off before
\* and whatever races had left (search-rebuild-pg.ts:33).
THEOREM RebuildCorrect == IndexSpec => []RebuildHeals
<1>1. RebuildInv => RebuildHeals
  <2> SUFFICES ASSUME RebuildInv, NEW b \in undisturbed, rewriting[b].at = "done",
                      NEW scope \in Range(ScopeOrder), NEW a \in OwnersOf(b),
                      AskedFor(b, scope, a)
               PROVE  /\ {Without(d) : d \in KeptIn(scope, a)} = AuthorityDocs(scope, a)
                      /\ Cardinality(KeptIn(scope, a)) = Cardinality(AuthorityDocs(scope, a))
    BY Zenon DEF RebuildHeals, AskedFor, KeptIn
  <2>1. Healed(scope, a)
    BY DEF RebuildInv, OnCourse
  <2>. QED  BY <2>1, HealedCounts DEF Healed
<1>. QED  BY <1>1, RebuildStarts, RebuildStep, PTL DEF IndexSpec

(***************************************************************************)
(* Shared blocks.                                                          *)
(***************************************************************************)

\* What the recursive function of Replayed says of an index.
ReplayStep(log, s, at, i) ==
  IF i = s.seq THEN s.sections ELSE Step(at[i - 1], log[i])

Replays(log, s, n, at) == \A i \in s.seq..n : at[i] = ReplayStep(log, s, at, i)

\* It is defined as far as one likes: a shorter one extends.
LEMMA ReplayExists ==
  ASSUME NEW log, NEW s, s.seq \in Nat, NEW n \in Nat, s.seq <= n
  PROVE  \E at : at = [i \in s.seq..n |-> ReplayStep(log, s, at, i)]
<1> DEFINE from == s.seq
           Is(m, at) == at = [i \in from..m |-> ReplayStep(log, s, at, i)]
           Without_One == {m \in Nat : from <= m /\ ~ \E at : Is(m, at)}
<1>1. SUFFICES ASSUME Without_One # {} PROVE FALSE
  OBVIOUS
<1>2. PICK m \in Without_One : \A k \in Without_One : m <= k
  <2>1. Without_One \in SUBSET Nat
    OBVIOUS
  <2> HIDE DEF Without_One
  <2>. QED  BY <1>1, <2>1, LeastNumber
<1>3. m # from
  <2>1. Is(from, [i \in from..from |-> s.sections])
    BY DEF ReplayStep
  <2>. QED  BY <2>1
<1>4. PICK shorter : Is(m - 1, shorter)
  BY <1>2, <1>3
<1>5. PICK longer : longer = [i \in from..m |-> ReplayStep(log, s, shorter, i)]
  OBVIOUS
<1>6. \A i \in from..m - 1 : longer[i] = shorter[i]
  BY <1>3, <1>4, <1>5
<1>7. \A i \in from..m : ReplayStep(log, s, longer, i) = ReplayStep(log, s, shorter, i)
  BY <1>3, <1>6 DEF ReplayStep
<1>8. Is(m, longer)
  BY <1>5, <1>7
<1>. QED  BY <1>8

\* Two of them agree as far as both go.
LEMMA ReplayUnique ==
  ASSUME NEW log, NEW s, NEW n \in Nat, NEW m \in Nat, NEW f, NEW g,
         s.seq \in Nat, n <= m,
         Replays(log, s, n, f), Replays(log, s, m, g)
  PROVE  \A i \in s.seq..n : f[i] = g[i]
<1> DEFINE Differ == {i \in s.seq..n : f[i] # g[i]}
<1>1. SUFFICES ASSUME Differ # {} PROVE FALSE
  OBVIOUS
<1>2. PICK d \in Differ : \A k \in Differ : d <= k
  <2>1. Differ \in SUBSET Nat
    OBVIOUS
  <2> HIDE DEF Differ
  <2>. QED  BY <1>1, <2>1, LeastNumber
<1>3. /\ d \in s.seq..n /\ d \in s.seq..m /\ f[d] # g[d]
      /\ f[d] = ReplayStep(log, s, f, d) /\ g[d] = ReplayStep(log, s, g, d)
  BY DEF Replays
<1>4. d # s.seq
  BY <1>3 DEF ReplayStep
<1>5. d - 1 \in s.seq..n /\ ~ (d <= d - 1)
  BY <1>3, <1>4
<1>6. f[d - 1] = g[d - 1]
  BY <1>2, <1>5
<1>. QED  BY <1>3, <1>4, <1>6 DEF ReplayStep

LEMMA ReplayIs ==
  ASSUME NEW log, NEW s, s.seq \in Nat, NEW n \in Nat, s.seq <= n
  PROVE  \E at : /\ at = [i \in s.seq..n |-> ReplayStep(log, s, at, i)]
                 /\ Replayed(log, s, n) = at[n]
<1> DEFINE Is(at) == at = [i \in s.seq..n |-> ReplayStep(log, s, at, i)]
<1>1. PICK at : at = CHOOSE f : Is(f)
  OBVIOUS
<1>2. Is(at)
  BY <1>1, ReplayExists, Zenon
<1>3. Replayed(log, s, n) = at[n]
  BY <1>1, Zenon DEF Replayed, ReplayStep
<1>. QED  BY <1>2, <1>3

\* A replay goes through the log an entry at a time.
LEMMA ReplayedAt ==
  ASSUME NEW log, NEW s, s.seq \in Nat, NEW n \in Nat, s.seq <= n
  PROVE  /\ n = s.seq => Replayed(log, s, n) = s.sections
         /\ n # s.seq => Replayed(log, s, n) = Step(Replayed(log, s, n - 1), log[n])
<1>1. PICK f : /\ f = [i \in s.seq..n |-> ReplayStep(log, s, f, i)]
               /\ Replayed(log, s, n) = f[n]
  BY ReplayIs
<1>2. f[n] = ReplayStep(log, s, f, n)
  BY <1>1
<1>3. CASE n = s.seq
  BY <1>1, <1>2, <1>3 DEF ReplayStep
<1>4. CASE n # s.seq
  <2>1. PICK p \in Nat : p = n - 1 /\ s.seq <= p /\ p <= n /\ p \in s.seq..p
    BY <1>4
  <2>2. PICK g : /\ g = [i \in s.seq..p |-> ReplayStep(log, s, g, i)]
                 /\ Replayed(log, s, p) = g[p]
    <3>1. s.seq \in Nat /\ p \in Nat /\ s.seq <= p
      BY <2>1
    <3>. QED  BY <3>1, ReplayIs, Zenon
  <2>3. Replays(log, s, p, g) /\ Replays(log, s, n, f)
    BY <1>1, <2>2 DEF Replays
  <2>4. g[p] = f[p]
    <3>1. s.seq \in Nat /\ p \in Nat /\ n \in Nat /\ p <= n
      BY <2>1
    <3>2. \A i \in s.seq..p : g[i] = f[i]
      BY <3>1, <2>3, ReplayUnique
    <3>. QED  BY <2>1, <3>2
  <2>. QED  BY <1>1, <1>2, <1>4, <2>1, <2>2, <2>4 DEF ReplayStep
<1>. QED  BY <1>3, <1>4

SameLog(log, longer, s, n) == \A i \in s.seq + 1..n : log[i] = longer[i]

\* It reads no more of the log than it goes through.
LEMMA ReplayedSame ==
  ASSUME NEW log, NEW longer, NEW s, s.seq \in Nat, NEW n \in Nat, s.seq <= n,
         SameLog(log, longer, s, n)
  PROVE  Replayed(longer, s, n) = Replayed(log, s, n)
<1> DEFINE Differ == {i \in s.seq..n : Replayed(longer, s, i) # Replayed(log, s, i)}
<1>1. SUFFICES ASSUME Differ # {} PROVE FALSE
  OBVIOUS
<1>2. PICK d \in Differ : \A k \in Differ : d <= k
  <2>1. Differ \in SUBSET Nat
    OBVIOUS
  <2> HIDE DEF Differ
  <2>. QED  BY <1>1, <2>1, LeastNumber
<1>3. d \in s.seq..n /\ d \in Nat /\ s.seq <= d /\ Replayed(longer, s, d) # Replayed(log, s, d)
  OBVIOUS
<1>4. d # s.seq
  BY <1>3, ReplayedAt
<1>5. Replayed(longer, s, d - 1) = Replayed(log, s, d - 1)
  BY <1>2, <1>3, <1>4
<1>6. log[d] = longer[d]
  BY <1>3, <1>4 DEF SameLog
<1>. QED  BY <1>3, <1>4, <1>5, <1>6, ReplayedAt

-----------------------------------------------------------------------------
PatchEntries == [patch : Patches, before : Texts \union Paths \union {NoText},
                 after : Texts \union Paths \union {NoText}, by : Agents]

BlockTyped ==
  /\ blockTitle \in Texts \union {NoText}
  /\ sections \in [Paths -> Texts \union {NoText}]
  /\ patchLog \in Seq(PatchEntries)
  /\ blockTitle = NoText => patchLog = <<>>

\* createBlock writes the first snapshot after the row: patches may come
\* before it, and it will have to tell the truth of them too.
Origin == [seq |-> 0, sections |-> NoSections]

TellsTruth(s) ==
  /\ s.seq \in 0..Len(patchLog)
  /\ Replayed(patchLog, s, Len(patchLog)) = sections
  /\ \A i \in (s.seq + 1)..Len(patchLog) :
       patchLog[i].patch.op \in {"set_section", "delete_section"} =>
         patchLog[i].before = Replayed(patchLog, s, i - 1)[patchLog[i].patch.path]

OneEach == \A s1, s2 \in snapshots : s1.seq = s2.seq => s1 = s2

TitlesFollow ==
  \A i \in Titles(patchLog) :
    /\ (\A j \in Titles(patchLog) : j <= i) => patchLog[i].after = blockTitle
    /\ \A j \in Titles(patchLog) :
         j > i /\ (\A k \in Titles(patchLog) : k <= i \/ j <= k) =>
           patchLog[i].after = patchLog[j].before

BlockInv ==
  /\ BlockTyped
  /\ TellsTruth(Origin) /\ \A s \in snapshots : TellsTruth(s)
  /\ OneEach
  /\ TitlesFollow

-----------------------------------------------------------------------------
LEMMA PatchFacts ==
  ASSUME NEW p \in Patches
  PROVE  /\ p.op \in {"set_section", "delete_section", "move_section", "set_title"}
         /\ p.op = "set_section" => p.path \in Paths /\ p.content \in Texts
         /\ p.op = "delete_section" => p.path \in Paths
         /\ p.op = "move_section" => p.path \in Paths /\ p.target \in Paths
         /\ p.op = "set_title" => p.content \in Texts
BY DEF Patches

EntryOf(a, p) == [patch |-> p, before |-> Before(p), after |-> After(p), by |-> a]

LEMMA EntryFacts ==
  ASSUME BlockTyped, NEW a \in Agents, NEW p \in Patches
  PROVE  /\ EntryOf(a, p) \in PatchEntries
         /\ EntryOf(a, p).patch = p
         /\ EntryOf(a, p).before = Before(p) /\ EntryOf(a, p).after = After(p)
<1>1. Before(p) \in Texts \union Paths \union {NoText}
  BY PatchFacts DEF Before, BlockTyped
<1>2. After(p) \in Texts \union Paths \union {NoText}
  BY PatchFacts DEF After
<1>. QED  BY <1>1, <1>2 DEF EntryOf, PatchEntries

\* The values in the log do to the sections what the operation does.
LEMMA EntrySteps ==
  ASSUME BlockTyped, NEW a \in Agents, NEW p \in Patches
  PROVE  /\ Step(sections, EntryOf(a, p)) = Patched(sections, p)
         /\ p.op \in {"set_section", "delete_section"} =>
              EntryOf(a, p).before = sections[p.path]
         /\ Patched(sections, p) \in [Paths -> Texts \union {NoText}]
<1>1. PICK e : e = EntryOf(a, p)
  OBVIOUS
<1>2. e.patch = p /\ e.before = Before(p) /\ e.after = After(p)
  BY <1>1, EntryFacts
<1>3. CASE p.op = "set_section"
  BY <1>1, <1>2, <1>3, PatchFacts DEF Step, Patched, Before, After, BlockTyped
<1>4. CASE p.op = "delete_section"
  BY <1>1, <1>2, <1>4, PatchFacts DEF Step, Patched, Before, After, BlockTyped
<1>5. CASE p.op = "move_section"
  BY <1>1, <1>2, <1>5, PatchFacts DEF Step, Patched, Before, After, BlockTyped
<1>6. CASE p.op = "set_title"
  BY <1>1, <1>2, <1>6 DEF Step, Patched, BlockTyped
<1>. QED  BY <1>3, <1>4, <1>5, <1>6, PatchFacts

\* A snapshot that told the truth tells it of one more patch.
LEMMA TruthGoesOn ==
  ASSUME BlockTyped, NEW a \in Agents, NEW p \in Patches, NEW s, TellsTruth(s),
         patchLog' = Append(patchLog, EntryOf(a, p)), sections' = Patched(sections, p)
  PROVE  TellsTruth(s)'
<1>1. PICK n \in Nat : n = Len(patchLog)
  BY DEF BlockTyped
<1>2. PICK e \in PatchEntries : e = EntryOf(a, p)
  BY EntryFacts
<1>3. /\ Len(patchLog') = n + 1
      /\ patchLog'[n + 1] = e
      /\ \A i \in 1..n : patchLog'[i] = patchLog[i]
  BY <1>1, <1>2 DEF BlockTyped
<1>4. PICK from \in Nat : from = s.seq /\ from <= n
  BY <1>1 DEF TellsTruth
<1>5. ASSUME NEW i \in Nat, s.seq <= i, i <= n
      PROVE  Replayed(patchLog', s, i) = Replayed(patchLog, s, i)
  <2>1. SameLog(patchLog, patchLog', s, i)
    BY <1>3, <1>4, <1>5 DEF SameLog
  <2>2. s.seq \in Nat
    BY <1>4
  <2>. QED  BY <1>5, <2>1, <2>2, ReplayedSame
<1>6. Replayed(patchLog', s, n) = sections
  BY <1>1, <1>4, <1>5 DEF TellsTruth
<1>7. Replayed(patchLog', s, n + 1) = sections'
  <2>1. PICK m \in Nat : m = n + 1 /\ s.seq <= m /\ m # s.seq /\ m - 1 = n
    BY <1>4
  <2>2. Replayed(patchLog', s, m) = Step(Replayed(patchLog', s, m - 1), patchLog'[m])
    BY <1>4, <2>1, ReplayedAt
  <2>. QED  BY <1>2, <1>3, <1>6, <2>1, <2>2, EntrySteps
<1>8. ASSUME NEW i \in (s.seq + 1)..(n + 1),
             patchLog'[i].patch.op \in {"set_section", "delete_section"}
      PROVE  patchLog'[i].before = Replayed(patchLog', s, i - 1)[patchLog'[i].patch.path]
  <2>1. CASE i = n + 1
    BY <1>2, <1>3, <1>6, <1>8, <2>1, EntryFacts, EntrySteps
  <2>2. CASE i # n + 1
    <3>1. /\ i \in 1..n /\ i \in (s.seq + 1)..n
          /\ i - 1 \in Nat /\ s.seq <= i - 1 /\ i - 1 <= n
      BY <1>4, <2>2
    <3>2. Replayed(patchLog', s, i - 1) = Replayed(patchLog, s, i - 1)
      BY <1>5, <3>1
    <3>. QED  BY <1>1, <1>3, <1>8, <3>1, <3>2 DEF TellsTruth
  <2>. QED  BY <2>1, <2>2
<1>. QED  BY <1>3, <1>4, <1>7, <1>8 DEF TellsTruth

\* So does one that is taken with the patch.
LEMMA TruthOfNew ==
  ASSUME NEW s, NEW n \in Nat, s.seq = n, s.sections = sections', Len(patchLog') = n
  PROVE  TellsTruth(s)'
<1>1. Replayed(patchLog', s, n) = sections'
  BY ReplayedAt
<1>. QED  BY <1>1 DEF TellsTruth

\* A title follows the last one before it.
LEMMA TitlesGoOn ==
  ASSUME BlockTyped, TitlesFollow, NEW a \in Agents, NEW p \in Patches,
         patchLog' = Append(patchLog, EntryOf(a, p)),
         blockTitle' = IF p.op = "set_title" THEN p.content ELSE blockTitle
  PROVE  TitlesFollow'
<1>1. PICK n \in Nat : n = Len(patchLog)
  BY DEF BlockTyped
<1>2. PICK e \in PatchEntries : e = EntryOf(a, p)
  BY EntryFacts
<1>3. e.patch = p /\ e.before = Before(p) /\ e.after = After(p)
  BY <1>2, EntryFacts
<1>4. /\ DOMAIN patchLog = 1..n /\ DOMAIN patchLog' = 1..(n + 1)
      /\ patchLog'[n + 1] = e
      /\ \A i \in 1..n : patchLog'[i] = patchLog[i]
  BY <1>1, <1>2 DEF BlockTyped
<1>5. CASE p.op # "set_title"
  <2>1. Titles(patchLog') = Titles(patchLog)
    BY <1>3, <1>4, <1>5 DEF Titles
  <2>2. \A i \in Titles(patchLog) : patchLog'[i] = patchLog[i]
    BY <1>4 DEF Titles
  <2>3. blockTitle' = blockTitle
    BY <1>5
  <2>4. ASSUME NEW i \in Titles(patchLog'), \A j \in Titles(patchLog') : j <= i
        PROVE  patchLog'[i].after = blockTitle'
    BY <2>1, <2>2, <2>3, <2>4 DEF TitlesFollow
  <2>5. ASSUME NEW i \in Titles(patchLog'), NEW j \in Titles(patchLog'), j > i,
               \A k \in Titles(patchLog') : k <= i \/ j <= k
        PROVE  patchLog'[i].after = patchLog'[j].before
    BY <2>1, <2>2, <2>5 DEF TitlesFollow
  <2>. QED  BY <2>4, <2>5 DEF TitlesFollow
<1>6. CASE p.op = "set_title"
  <2>1. Titles(patchLog') = Titles(patchLog) \union {n + 1}
    BY <1>3, <1>4, <1>6 DEF Titles
  <2>2. \A i \in Titles(patchLog) : i \in 1..n /\ patchLog'[i] = patchLog[i]
    BY <1>4 DEF Titles
  <2>3. e.before = blockTitle /\ e.after = blockTitle'
    BY <1>3, <1>6 DEF Before, After
  <2>4. ASSUME NEW i \in Titles(patchLog'), \A j \in Titles(patchLog') : j <= i
        PROVE  patchLog'[i].after = blockTitle'
    <3>1. n + 1 <= i
      BY <2>1, <2>4
    <3>2. i \in 1..n \/ i = n + 1
      BY <2>1, <2>2
    <3>3. i = n + 1
      BY <3>1, <3>2
    <3>. QED  BY <1>4, <2>3, <3>3
  <2>5. ASSUME NEW i \in Titles(patchLog'), NEW j \in Titles(patchLog'), j > i,
               \A k \in Titles(patchLog') : k <= i \/ j <= k
        PROVE  patchLog'[i].after = patchLog'[j].before
    <3>1. i \in Titles(patchLog) /\ i \in 1..n
      BY <2>1, <2>2, <2>5
    <3>2. CASE j = n + 1
      <4>1. \A k \in Titles(patchLog) : k <= i
        BY <2>1, <2>2, <2>5, <3>2
      <4>2. patchLog[i].after = blockTitle
        BY <3>1, <4>1 DEF TitlesFollow
      <4>. QED  BY <1>4, <2>3, <3>1, <3>2, <4>2
    <3>3. CASE j # n + 1
      <4>1. j \in Titles(patchLog) /\ \A k \in Titles(patchLog) : k <= i \/ j <= k
        BY <2>1, <2>5, <3>3
      <4>2. patchLog[i].after = patchLog[j].before
        BY <2>5, <3>1, <4>1 DEF TitlesFollow
      <4>. QED  BY <2>2, <3>1, <4>1, <4>2
    <3>. QED  BY <3>2, <3>3
  <2>. QED  BY <2>4, <2>5 DEF TitlesFollow
<1>. QED  BY <1>5, <1>6

-----------------------------------------------------------------------------
LEMMA BlockStarts == BlockInit => BlockInv
<1> SUFFICES ASSUME BlockInit PROVE BlockInv
  OBVIOUS
<1>1. BlockTyped /\ Len(patchLog) = 0
  BY DEF BlockInit, BlockTyped, NoSections
<1>2. Origin.seq = 0 /\ Origin.sections = sections
  BY DEF BlockInit, Origin
<1>3. Replayed(patchLog, Origin, 0) = sections
  <2>1. Origin.seq \in Nat /\ 0 \in Nat /\ Origin.seq <= 0
    BY <1>2
  <2>. QED  BY <1>2, <2>1, ReplayedAt
<1>4. TellsTruth(Origin)
  BY <1>1, <1>2, <1>3 DEF TellsTruth
<1>. QED  BY <1>1, <1>4 DEF BlockInit, BlockInv, OneEach, TitlesFollow, Titles

LEMMA PatchKeeps ==
  ASSUME BlockInv, NEW a \in Agents, NEW p \in Patches, ApplyPatch(a, p)
  PROVE  BlockInv'
<1>1. PICK n \in Nat : n = Len(patchLog)
  BY DEF BlockInv, BlockTyped
<1>2. /\ patchLog' = Append(patchLog, EntryOf(a, p))
      /\ sections' = Patched(sections, p)
      /\ blockTitle' = IF p.op = "set_title" THEN p.content ELSE blockTitle
      /\ blockTitle # NoText
      /\ \A s \in snapshots' : s \in snapshots \/ s = [seq |-> n + 1, sections |-> sections']
  BY <1>1 DEF ApplyPatch, EntryOf, IsAdmin, Snapshot
<1>3. EntryOf(a, p) \in PatchEntries
  BY EntryFacts DEF BlockInv
<1>4. Len(patchLog') = n + 1
  BY <1>1, <1>2, <1>3 DEF BlockInv, BlockTyped
<1>5. BlockTyped'
  <2>1. sections' \in [Paths -> Texts \union {NoText}]
    BY <1>2, EntrySteps DEF BlockInv
  <2>2. blockTitle' \in Texts
    BY <1>2, PatchFacts DEF BlockInv, BlockTyped
  <2>3. patchLog' \in Seq(PatchEntries)
    BY <1>2, <1>3 DEF BlockInv, BlockTyped
  <2>. QED  BY <2>1, <2>2, <2>3, BlockAssumption DEF BlockTyped
<1>6. \A s : TellsTruth(s) => TellsTruth(s)'
  BY <1>2, TruthGoesOn DEF BlockInv
<1>7. TellsTruth(Origin)'
  BY <1>6 DEF BlockInv
<1>8. \A s \in snapshots' : TellsTruth(s)'
  <2>1. PICK new : new = [seq |-> n + 1, sections |-> sections']
    OBVIOUS
  <2>2. TellsTruth(new)'
    BY <1>4, <2>1, TruthOfNew
  <2>. QED  BY <1>2, <1>6, <2>1, <2>2 DEF BlockInv
<1>9. OneEach'
  <2>1. \A s \in snapshots : s.seq # n + 1
    BY <1>1 DEF BlockInv, TellsTruth
  <2>2. \A s \in snapshots' : s \in snapshots \/ (s.seq = n + 1 /\ s = [seq |-> n + 1, sections |-> sections'])
    BY <1>2
  <2>. QED  BY <2>1, <2>2 DEF BlockInv, OneEach
<1>10. TitlesFollow'
  BY <1>2, TitlesGoOn DEF BlockInv
<1>. QED  BY <1>5, <1>7, <1>8, <1>9, <1>10 DEF BlockInv

LEMMA BlockStep == BlockInv /\ [BlockNext]_blockVars => BlockInv'
<1> SUFFICES ASSUME BlockInv, [BlockNext]_blockVars PROVE BlockInv'
  OBVIOUS
<1>1. ASSUME NEW t \in Texts, CreateBlock(t) PROVE BlockInv'
  <2>1. Titles(patchLog) = {}
    BY <1>1 DEF CreateBlock, BlockInv, BlockTyped, Titles
  <2>2. TitlesFollow'
    BY <1>1, <2>1 DEF CreateBlock, TitlesFollow
  <2>3. BlockTyped'
    BY <1>1, BlockAssumption DEF CreateBlock, BlockInv, BlockTyped
  <2>4. /\ TellsTruth(Origin)' /\ \A s \in snapshots' : TellsTruth(s)'
        /\ OneEach'
    BY <1>1 DEF CreateBlock, BlockInv, TellsTruth, OneEach
  <2>. QED  BY <2>2, <2>3, <2>4 DEF BlockInv
<1>2. CASE FirstSnapshot
  <2>1. snapshots' = snapshots \union {Origin} /\ Origin.seq = 0
    BY <1>2 DEF FirstSnapshot, Origin
  <2>2. OneEach'
    BY <1>2, <2>1 DEF FirstSnapshot, BlockInv, OneEach
  <2>3. TellsTruth(Origin)' /\ \A s \in snapshots' : TellsTruth(s)'
    BY <1>2, <2>1 DEF FirstSnapshot, BlockInv, TellsTruth
  <2>. QED  BY <1>2, <2>2, <2>3 DEF FirstSnapshot, BlockInv, BlockTyped, TitlesFollow
<1>3. ASSUME NEW a \in Agents, NEW b \in Agents, Attach(a, b) \/ Detach(a, b)
      PROVE  BlockInv'
  BY <1>3 DEF Attach, Detach, BlockInv, BlockTyped, TellsTruth, OneEach, TitlesFollow
<1>4. ASSUME NEW a \in Agents, NEW p \in Patches, ApplyPatch(a, p) PROVE BlockInv'
  BY <1>4, PatchKeeps
<1>5. CASE UNCHANGED blockVars
  BY <1>5 DEF blockVars, BlockInv, BlockTyped, TellsTruth, OneEach, TitlesFollow
<1>. QED  BY <1>1, <1>2, <1>3, <1>4, <1>5 DEF BlockNext

\* The log of a shared block and its snapshots tell the truth to an auditor
\* who reads values: however patches, the snapshots every few of them and the
\* belated first one interleave, a replay from any snapshot arrives at the
\* present sections by way of every before, and the titles follow each other.
THEOREM AuditCorrect == BlockSpec => []AuditReplays
<1>1. BlockInv => AuditReplays
  <2> SUFFICES ASSUME BlockInv PROVE AuditReplays
    OBVIOUS
  <2>1. ASSUME NEW i \in Titles(patchLog)
        PROVE  LET later == {j \in Titles(patchLog) : j > i}
               IN  /\ later = {} => patchLog[i].after = blockTitle
                   /\ \A j \in later : (\A k \in later : j <= k) =>
                        patchLog[i].after = patchLog[j].before
    <3>1. \A j \in Titles(patchLog) : j \in Nat
      BY DEF Titles, BlockInv, BlockTyped
    <3>. QED  BY <3>1 DEF BlockInv, TitlesFollow
  <2>. QED  BY <2>1 DEF BlockInv, TellsTruth, OneEach, AuditReplays
<1>. QED  BY <1>1, BlockStarts, BlockStep, PTL DEF BlockSpec
=============================================================================
