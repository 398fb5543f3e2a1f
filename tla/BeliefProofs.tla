---------------------------- MODULE BeliefProofs ----------------------------
(***************************************************************************)
(* Theorems about what an agent believes, for every set of keys, turns and *)
(* jobs, whatever their models submit: the rows are the replay of the      *)
(* events, going through settled turns once more leaves them alone, and    *)
(* search shows them where a flush has caught up with the log.             *)
(***************************************************************************)
EXTENDS PrivateCognition, FiniteSetTheorems, SequenceTheorems, WellFoundedInduction, TLAPS

\* Where something is true of a number it is true of a least one.
LEMMA LeastNumber ==
  ASSUME NEW S \in SUBSET Nat, S # {}
  PROVE  \E m \in S : \A k \in S : m <= k
<1>1. PICK m \in S : \A k \in S : ~ <<k, m>> \in OpToRel(<, Nat)
  BY NatLessThanWellFounded, WFMin
<1>2. \A k \in S : ~ (k < m)
  BY <1>1 DEF OpToRel
<1>. QED  BY <1>2
-----------------------------------------------------------------------------
(***************************************************************************)
(* Events and rows.                                                        *)
(***************************************************************************)

CogEvents ==
  [settlement : Settlements, key : CogKeys, op : {"upsert", "retract"},
   stance : Stances \cup {"none"}, basis : Bases \cup {"none"}, pre : Stances \cup {"none"},
   time : Nat]

\* The tables are typed, and a key that something was upserted for has a row.
TablesOK(t) ==
  /\ t.events \in Seq(CogEvents)
  /\ t.current \in [CogKeys -> Rows \cup {NoCognition}]
  /\ \A i \in DOMAIN t.events :
       t.events[i].op = "upsert" => t.current[t.events[i].key] # NoCognition

\* Events stay, and so do rows.
Follows(t, u) ==
  /\ \A s \in Settlements, op \in CognitionOps :
       Known(t.events, s, op) => Known(u.events, s, op)
  /\ \A k \in CogKeys : t.current[k] # NoCognition => u.current[k] # NoCognition

AllKnown(log, s, ops) == \A j \in DOMAIN ops : Known(log, s, ops[j])

LEMMA ProjectIs ==
  ASSUME NEW row \in Rows \cup {NoCognition}, NEW e \in CogEvents
  PROVE  /\ Project(row, e) \in Rows \cup {NoCognition}
         /\ row # NoCognition \/ e.op = "upsert" => Project(row, e) \in Rows
<1>1. KindOf[e.key] \in {"assertion", "evaluation"} /\ "rejected" \in Stances
  BY CognitionAssumption DEF CognitionAssumption, CogEvents, Stances
<1>2. CASE e.op = "retract" /\ row = NoCognition
  BY <1>2 DEF Project
<1>3. CASE e.op = "retract" /\ row # NoCognition
  <2>1. row \in Rows
    BY <1>3
  <2>2. Project(row, e) = [row EXCEPT !.status = "retracted", !.updated = e.time,
                             !.stance = IF KindOf[e.key] = "assertion" THEN "rejected" ELSE @]
    BY <1>3 DEF Project
  <2>. QED  BY <1>1, <2>1, <2>2 DEF Rows, CogEvents
<1>4. CASE e.op = "upsert" /\ row = NoCognition
  <2>1. Project(row, e) = [stance |-> e.stance, basis |-> e.basis, pre |-> e.pre,
                           status |-> "active", updated |-> e.time]
    BY <1>4 DEF Project
  <2>. QED  BY <2>1 DEF Rows, CogEvents
<1>5. CASE e.op = "upsert" /\ row # NoCognition
  <2>1. row \in Rows
    BY <1>5
  <2>2. Project(row, e) =
          IF Newer(e, row)
          THEN [stance |-> e.stance, basis |-> Coalesce(e.basis, row.basis),
                pre |-> Coalesce(e.pre, row.pre), status |-> "active", updated |-> e.time]
          ELSE row
    BY <1>5 DEF Project
  <2>3. /\ Coalesce(e.basis, row.basis) \in Bases \cup {"none"}
        /\ Coalesce(e.pre, row.pre) \in Stances \cup {"none"}
    BY <2>1 DEF Coalesce, Rows, CogEvents
  <2>. QED  BY <2>1, <2>2, <2>3 DEF Rows, CogEvents
<1>. QED  BY <1>2, <1>3, <1>4, <1>5 DEF CogEvents

\* An operation more.
LEMMA AppendOpSafe ==
  ASSUME NEW t, TablesOK(t), NEW s \in Settlements, NEW op \in CognitionOps, NEW time \in Nat
  PROVE  LET u == AppendOp(t, s, op, time)
         IN  TablesOK(u) /\ Follows(t, u) /\ Known(u.events, s, op)
<1> DEFINE u == AppendOp(t, s, op, time)
           e == EventOf(s, op, time)
           row == Project(t.current[op.key], e)
<1>1. CASE Known(t.events, s, op)
  <2>1. u = t
    BY <1>1 DEF AppendOp
  <2>. QED  BY <1>1, <2>1 DEF Follows
<1>2. CASE ~Known(t.events, s, op)
  <2>1. /\ u.events = Append(t.events, e)
        /\ u.current = [t.current EXCEPT ![op.key] = row]
    BY <1>2 DEF AppendOp
  <2>2. e \in CogEvents /\ e.settlement = s /\ e.key = op.key /\ e.op = op.op /\ op.key \in CogKeys
    BY DEF EventOf, CogEvents, CognitionOps
  <2>3. /\ row \in Rows \cup {NoCognition}
        /\ t.current[op.key] # NoCognition \/ e.op = "upsert" => row # NoCognition
    <3>1. t.current[op.key] \in Rows \cup {NoCognition}
      BY <2>2 DEF TablesOK
    <3>. QED  BY <2>2, <3>1, ProjectIs, CognitionAssumption DEF CognitionAssumption
  <2> HIDE DEF u, e, row
  <2>4. PICK n \in Nat : /\ Len(t.events) = n /\ DOMAIN t.events = 1..n
                         /\ u.events \in Seq(CogEvents)
                         /\ DOMAIN u.events = 1..(n + 1) /\ u.events[n + 1] = e
                         /\ \A i \in 1..n : u.events[i] = t.events[i]
    BY <2>1, <2>2 DEF TablesOK
  <2>5. /\ u.current \in [CogKeys -> Rows \cup {NoCognition}] /\ u.current[op.key] = row
        /\ \A k \in CogKeys : k # op.key => u.current[k] = t.current[k]
    BY <2>1, <2>2, <2>3 DEF TablesOK
  <2>6. \A k \in CogKeys : t.current[k] # NoCognition => u.current[k] # NoCognition
    BY <2>3, <2>5
  <2>7. ASSUME NEW i \in DOMAIN u.events, u.events[i].op = "upsert"
        PROVE  u.current[u.events[i].key] # NoCognition
    <3>1. CASE i = n + 1
      BY <2>2, <2>3, <2>4, <2>5, <2>7, <3>1
    <3>2. CASE i # n + 1
      <4>1. i \in DOMAIN t.events /\ u.events[i] = t.events[i]
        BY <2>4, <3>2
      <4>2. t.events[i] \in CogEvents
        BY <4>1 DEF TablesOK
      <4>3. t.events[i].key \in CogKeys
        BY <4>2 DEF CogEvents
      <4>. QED  BY <2>6, <2>7, <4>1, <4>3 DEF TablesOK
    <3>. QED  BY <3>1, <3>2
  <2>8. Follows(t, u)
    <3>1. ASSUME NEW r \in Settlements, NEW o \in CognitionOps, Known(t.events, r, o)
          PROVE  Known(u.events, r, o)
      <4>1. PICK i \in DOMAIN t.events :
              t.events[i].settlement = r /\ t.events[i].key = o.key /\ t.events[i].op = o.op
        BY <3>1 DEF Known
      <4>2. i \in DOMAIN u.events /\ u.events[i] = t.events[i]
        BY <2>4, <4>1
      <4>. QED  BY <4>1, <4>2 DEF Known
    <3>. QED  BY <2>6, <3>1 DEF Follows
  <2>9. Known(u.events, s, op)
    <3>1. n + 1 \in DOMAIN u.events
      BY <2>4
    <3>. QED  BY <2>2, <2>4, <3>1 DEF Known
  <2>10. TablesOK(u)
    BY <2>4, <2>5, <2>7 DEF TablesOK
  <2>. QED  BY <2>8, <2>9, <2>10 DEF u
<1>. QED  BY <1>1, <1>2

\* A key's row is the replay of its events.
Replayable(t) ==
  \A k \in CogKeys :
    InOrder(t.events, k) /\ k \notin conflicted => t.current[k] = Replay(t.events, k)

\* What the recursive function of Replay says of an index.
RowStep(log, k, f, n) ==
  IF n = 0 THEN NoCognition ELSE Project(f[n - 1], NthEvent(log, k, n))

LEMMA RowStepsExist ==
  ASSUME NEW log, NEW k, NEW n \in Nat
  PROVE  \E f : f = [i \in 0..n |-> RowStep(log, k, f, i)]
<1> DEFINE Is(m, f) == f = [i \in 0..m |-> RowStep(log, k, f, i)]
           Without_One == {m \in Nat : ~ \E f : Is(m, f)}
<1>1. SUFFICES ASSUME Without_One # {} PROVE FALSE
  OBVIOUS
<1>2. PICK m \in Without_One : \A i \in Without_One : m <= i
  <2>1. Without_One \in SUBSET Nat
    OBVIOUS
  <2> HIDE DEF Without_One
  <2>. QED  BY <1>1, <2>1, LeastNumber
<1>3. m # 0
  <2>1. Is(0, [i \in 0..0 |-> NoCognition])
    BY DEF RowStep
  <2>. QED  BY <2>1
<1>4. PICK shorter : Is(m - 1, shorter)
  BY <1>2, <1>3
<1>5. PICK longer : longer = [i \in 0..m |-> RowStep(log, k, shorter, i)]
  OBVIOUS
<1>6. \A i \in 0..m - 1 : longer[i] = shorter[i]
  BY <1>3, <1>4, <1>5
<1>7. \A i \in 0..m : RowStep(log, k, longer, i) = RowStep(log, k, shorter, i)
  BY <1>3, <1>6 DEF RowStep
<1>8. Is(m, longer)
  BY <1>5, <1>7
<1>. QED  BY <1>8

\* A replay projects the events of a key one by one.
LEMMA ReplayRows ==
  ASSUME NEW log, NEW k, NEW c \in Nat, c = Cardinality(EventsOf(log, k))
  PROVE  \E f : /\ f[0] = NoCognition
                /\ \A i \in 1..c : f[i] = Project(f[i - 1], NthEvent(log, k, i))
                /\ Replay(log, k) = f[c]
<1> DEFINE Is(f) == f = [i \in 0..Cardinality(EventsOf(log, k)) |-> RowStep(log, k, f, i)]
<1>1. PICK f : f = CHOOSE g : Is(g)
  OBVIOUS
<1>2. Is(f)
  <2>1. \E g : Is(g)
    BY RowStepsExist
  <2>. QED  BY <1>1, <2>1, Zenon
<1>3. Replay(log, k) = f[c]
  BY <1>1, Zenon DEF Replay, RowStep
<1>4. f[0] = NoCognition /\ \A i \in 1..c : f[i] = Project(f[i - 1], NthEvent(log, k, i))
  BY <1>2 DEF RowStep
<1>. QED  BY <1>3, <1>4

SameEvents(log, longer, k, c) == \A n \in 1..c : NthEvent(longer, k, n) = NthEvent(log, k, n)

\* It depends on no more than the events it goes through.
LEMMA RowsAgree ==
  ASSUME NEW log, NEW longer, NEW k, NEW c \in Nat, NEW d \in Nat, c <= d,
         c = Cardinality(EventsOf(log, k)), d = Cardinality(EventsOf(longer, k)),
         SameEvents(log, longer, k, c)
  PROVE  /\ c = d => Replay(longer, k) = Replay(log, k)
         /\ d = c + 1 => Replay(longer, k) = Project(Replay(log, k), NthEvent(longer, k, d))
<1>1. PICK f : /\ f[0] = NoCognition
               /\ \A i \in 1..c : f[i] = Project(f[i - 1], NthEvent(log, k, i))
               /\ Replay(log, k) = f[c]
  BY ReplayRows
<1>2. PICK g : /\ g[0] = NoCognition
               /\ \A i \in 1..d : g[i] = Project(g[i - 1], NthEvent(longer, k, i))
               /\ Replay(longer, k) = g[d]
  BY ReplayRows
<1> DEFINE Differ == {i \in 0..c : f[i] # g[i]}
<1>3. Differ = {}
  <2> SUFFICES ASSUME Differ # {} PROVE FALSE
    OBVIOUS
  <2>1. PICK m \in Differ : \A i \in Differ : m <= i
    <3>1. Differ \in SUBSET Nat
      OBVIOUS
    <3> HIDE DEF Differ
    <3>. QED  BY <3>1, LeastNumber
  <2>2. m # 0
    BY <1>1, <1>2, <2>1
  <2>3. m \in 1..c /\ m \in 1..d /\ m - 1 \in 0..c /\ ~(m <= m - 1) /\ f[m] # g[m]
    BY <2>1, <2>2
  <2>4. f[m - 1] = g[m - 1]
    BY <2>1, <2>3
  <2>. QED  BY <1>1, <1>2, <2>3, <2>4 DEF SameEvents
<1>4. f[c] = g[c]
  BY <1>3
<1>5. CASE d = c + 1
  <2>1. d \in 1..d /\ d - 1 = c
    BY <1>5
  <2>. QED  BY <1>1, <1>2, <1>4, <1>5, <2>1
<1>. QED  BY <1>1, <1>2, <1>4, <1>5

\* The events before one of a key, by time and id.
BeforeIn(log, k, i) ==
  {j \in EventsOf(log, k) :
     log[j].time < log[i].time \/ (log[j].time = log[i].time /\ j < i)}

Ranked(log, k, n) == {i \in EventsOf(log, k) : Cardinality(BeforeIn(log, k, i)) = n - 1}

LEMMA NthIsRanked ==
  ASSUME NEW log, NEW k, NEW n
  PROVE  NthEvent(log, k, n) = CHOOSE e \in {log[i] : i \in Ranked(log, k, n)} : TRUE
BY Zenon DEF NthEvent, Ranked, BeforeIn

LEMMA EventsFinite ==
  ASSUME NEW log \in Seq(CogEvents), NEW k
  PROVE  IsFiniteSet(EventsOf(log, k)) /\ Cardinality(EventsOf(log, k)) \in Nat
<1>1. IsFiniteSet(1..Len(log)) /\ EventsOf(log, k) \subseteq 1..Len(log)
  BY FS_Interval DEF EventsOf
<1>. QED  BY <1>1, FS_Subset, FS_CardinalityType

\* An event of one key leaves the replay of the others alone.
LEMMA ReplayOfOthers ==
  ASSUME NEW log \in Seq(CogEvents), NEW e \in CogEvents, NEW k, k # e.key,
         NEW longer, longer = Append(log, e)
  PROVE  Replay(longer, k) = Replay(log, k) /\ (InOrder(longer, k) => InOrder(log, k))
<1>1. /\ DOMAIN log = 1..Len(log) /\ DOMAIN longer = 1..(Len(log) + 1) /\ Len(log) \in Nat
      /\ longer[Len(log) + 1] = e /\ \A i \in DOMAIN log : longer[i] = log[i]
  OBVIOUS
<1>2. EventsOf(longer, k) = EventsOf(log, k) /\ EventsOf(log, k) \subseteq DOMAIN log
  BY <1>1 DEF EventsOf
<1>3. \A i \in EventsOf(log, k) : longer[i] = log[i]
  BY <1>1, <1>2
<1>4. \A i \in EventsOf(log, k) : BeforeIn(longer, k, i) = BeforeIn(log, k, i)
  BY <1>2, <1>3 DEF BeforeIn
<1>5. \A n : Ranked(longer, k, n) = Ranked(log, k, n)
  BY <1>2, <1>4 DEF Ranked
<1>6. ASSUME NEW n
      PROVE  NthEvent(longer, k, n) = NthEvent(log, k, n)
  <2>1. {longer[i] : i \in Ranked(longer, k, n)} = {log[i] : i \in Ranked(log, k, n)}
    BY <1>3, <1>5 DEF Ranked
  <2>. QED  BY <2>1, NthIsRanked
<1>7. Replay(longer, k) = Replay(log, k)
  <2>1. PICK c \in Nat : c = Cardinality(EventsOf(log, k)) /\ c = Cardinality(EventsOf(longer, k))
    BY <1>2, EventsFinite
  <2>2. SameEvents(log, longer, k, c)
    BY <1>6 DEF SameEvents
  <2>3. c <= c
    BY <2>1
  <2>. QED  BY <2>1, <2>2, <2>3, RowsAgree
<1>8. InOrder(longer, k) => InOrder(log, k)
  BY <1>2, <1>3 DEF InOrder
<1>. QED  BY <1>7, <1>8

\* One that comes in order is projected last.
LEMMA ReplayOfNext ==
  ASSUME NEW log \in Seq(CogEvents), NEW e \in CogEvents, NEW k, k = e.key,
         NEW longer, longer = Append(log, e), InOrder(longer, k)
  PROVE  Replay(longer, k) = Project(Replay(log, k), e) /\ InOrder(log, k)
<1>0. /\ Len(log) \in Nat /\ DOMAIN log = 1..Len(log) /\ DOMAIN longer = 1..(Len(log) + 1)
      /\ longer[Len(log) + 1] = e /\ \A i \in DOMAIN log : longer[i] = log[i]
  OBVIOUS
<1>1. PICK l \in Nat : /\ l = Len(log) /\ DOMAIN log = 1..l /\ DOMAIN longer = 1..(l + 1)
                       /\ longer[l + 1] = e /\ \A i \in DOMAIN log : longer[i] = log[i]
  BY <1>0, Zenon
<1> DEFINE mine == EventsOf(log, k)
           new == l + 1
<1>2. /\ EventsOf(longer, k) = mine \union {new} /\ new \notin mine
      /\ mine \subseteq 1..l /\ \A i \in mine : i < new
  BY <1>1 DEF EventsOf
<1>3. \A i \in mine : longer[i] = log[i] /\ log[i].time \in Nat
  <2>1. \A i \in mine : log[i] \in CogEvents
    BY <1>1, <1>2
  <2>. QED  BY <1>1, <1>2, <2>1 DEF CogEvents
<1>4. e.time \in Nat /\ \A i \in mine : log[i].time <= e.time
  BY <1>1, <1>2, <1>3 DEF InOrder, CogEvents
<1>5. IsFiniteSet(mine) /\ Cardinality(mine) \in Nat
  BY EventsFinite
<1>6. PICK c \in Nat : c = Cardinality(mine) /\ c + 1 = Cardinality(EventsOf(longer, k))
  <2>1. Cardinality(mine \union {new}) = Cardinality(mine) + 1
    <3> HIDE DEF mine, new
    <3>. QED  BY <1>2, <1>5, FS_AddElement
  <2>. QED  BY <1>2, <1>5, <2>1
<1> HIDE DEF mine
<1>7. ASSUME NEW i \in mine
      PROVE  /\ BeforeIn(longer, k, i) = BeforeIn(log, k, i)
             /\ Cardinality(BeforeIn(log, k, i)) \in Nat /\ Cardinality(BeforeIn(log, k, i)) < c
  <2>1. BeforeIn(longer, k, i) = BeforeIn(log, k, i)
    <3>1. ASSUME NEW j \in EventsOf(longer, k)
          PROVE  (\/ longer[j].time < longer[i].time
                  \/ longer[j].time = longer[i].time /\ j < i)
                 <=> (j \in mine /\ (log[j].time < log[i].time
                                    \/ (log[j].time = log[i].time /\ j < i)))
      <4>1. CASE j = new
        BY <1>1, <1>2, <1>3, <1>4, <4>1
      <4>2. CASE j \in mine
        BY <1>3, <4>2
      <4>. QED  BY <1>2, <4>1, <4>2
    <3>. QED  BY <1>2, <3>1 DEF BeforeIn, mine
  <2>2. BeforeIn(log, k, i) \subseteq mine \ {i}
    BY <1>2, <1>3 DEF BeforeIn, mine
  <2>3. IsFiniteSet(mine \ {i}) /\ Cardinality(mine \ {i}) = c - 1
    BY <1>5, <1>6, FS_RemoveElement
  <2>4. Cardinality(BeforeIn(log, k, i)) <= c - 1 /\ IsFiniteSet(BeforeIn(log, k, i))
    BY <2>2, <2>3, FS_Subset
  <2>. QED  BY <2>1, <2>4, FS_CardinalityType
<1>8. BeforeIn(longer, k, new) = mine
  <2>1. \A j \in mine : \/ longer[j].time < longer[new].time
                        \/ longer[j].time = longer[new].time /\ j < new
    BY <1>1, <1>2, <1>3, <1>4
  <2>2. ~(longer[new].time < longer[new].time) /\ ~(new < new)
    BY <1>1, <1>4
  <2>. QED  BY <1>2, <2>1, <2>2 DEF BeforeIn
<1>9. ASSUME NEW n \in 1..c
      PROVE  NthEvent(longer, k, n) = NthEvent(log, k, n)
  <2>1. Ranked(longer, k, n) = Ranked(log, k, n)
    BY <1>2, <1>6, <1>7, <1>8 DEF Ranked, mine
  <2>2. {longer[i] : i \in Ranked(longer, k, n)} = {log[i] : i \in Ranked(log, k, n)}
    BY <1>3, <2>1 DEF Ranked, mine
  <2>. QED  BY <2>2, NthIsRanked
<1>10. NthEvent(longer, k, c + 1) = e
  <2>1. Ranked(longer, k, c + 1) = {new}
    BY <1>2, <1>6, <1>7, <1>8 DEF Ranked, mine
  <2>2. {longer[i] : i \in Ranked(longer, k, c + 1)} = {e}
    BY <1>1, <2>1
  <2>. QED  BY <2>2, NthIsRanked
<1>11. Replay(longer, k) = Project(Replay(log, k), e)
  <2>1. SameEvents(log, longer, k, c)
    BY <1>9 DEF SameEvents
  <2>2. PICK d \in Nat : d = c + 1 /\ c <= d /\ d = Cardinality(EventsOf(longer, k))
    BY <1>6
  <2>3. c = Cardinality(EventsOf(log, k))
    BY <1>6 DEF mine
  <2>. QED  BY <1>10, <2>1, <2>2, <2>3, RowsAgree
<1>12. InOrder(log, k)
  BY <1>2, <1>3 DEF InOrder, mine
<1>. QED  BY <1>11, <1>12
LEMMA AppendOpReplays ==
  ASSUME NEW t, TablesOK(t), Replayable(t), NEW s \in Settlements, NEW op \in CognitionOps,
         NEW time \in Nat
  PROVE  Replayable(AppendOp(t, s, op, time))
<1> DEFINE u == AppendOp(t, s, op, time)
           e == EventOf(s, op, time)
<1>1. CASE Known(t.events, s, op)
  BY <1>1 DEF AppendOp
<1>2. CASE ~Known(t.events, s, op)
  <2>1. /\ u.events = Append(t.events, e)
        /\ u.current = [t.current EXCEPT ![op.key] = Project(t.current[op.key], e)]
    BY <1>2 DEF AppendOp
  <2>2. e \in CogEvents /\ e.key = op.key /\ op.key \in CogKeys /\ t.events \in Seq(CogEvents)
    BY DEF EventOf, CogEvents, CognitionOps, TablesOK
  <2>3. /\ u.current[op.key] = Project(t.current[op.key], e)
        /\ \A k \in CogKeys : k # op.key => u.current[k] = t.current[k]
    BY <2>1, <2>2 DEF TablesOK
  <2> HIDE DEF u, e
  <2>4. ASSUME NEW k \in CogKeys, InOrder(u.events, k), k \notin conflicted
        PROVE  u.current[k] = Replay(u.events, k)
    <3>1. CASE k = op.key
      <4>1. Replay(u.events, k) = Project(Replay(t.events, k), e) /\ InOrder(t.events, k)
        BY <2>1, <2>2, <2>4, <3>1, ReplayOfNext
      <4>. QED  BY <2>3, <2>4, <3>1, <4>1 DEF Replayable
    <3>2. CASE k # op.key
      <4>1. k # e.key /\ InOrder(u.events, k)
        BY <2>2, <2>4, <3>2
      <4>2. Replay(u.events, k) = Replay(t.events, k) /\ InOrder(t.events, k)
        <5>1. t.events \in Seq(CogEvents) /\ e \in CogEvents /\ u.events = Append(t.events, e)
          BY <2>1, <2>2
        <5>. QED  BY <4>1, <5>1, ReplayOfOthers, Zenon
      <4>. QED  BY <2>3, <2>4, <3>2, <4>2 DEF Replayable
    <3>. QED  BY <3>1, <3>2
  <2>. QED  BY <2>4 DEF Replayable, u
<1>. QED  BY <1>1, <1>2

\* What the recursive function of AppendOps says of an index.
AppendStep(f, s, ops, time, i) ==
  IF i = 0 THEN Tables ELSE AppendOp(f[i - 1], s, ops[i], time)

LEMMA AppendStepsExist ==
  ASSUME NEW s, NEW ops, NEW time, NEW n \in Nat
  PROVE  \E f : f = [i \in 0..n |-> AppendStep(f, s, ops, time, i)]
<1> DEFINE Is(m, f) == f = [i \in 0..m |-> AppendStep(f, s, ops, time, i)]
           Without_One == {m \in Nat : ~ \E f : Is(m, f)}
<1>1. SUFFICES ASSUME Without_One # {} PROVE FALSE
  OBVIOUS
<1>2. PICK m \in Without_One : \A k \in Without_One : m <= k
  <2>1. Without_One \in SUBSET Nat
    OBVIOUS
  <2> HIDE DEF Without_One
  <2>. QED  BY <1>1, <2>1, LeastNumber
<1>3. m # 0
  <2>1. Is(0, [i \in 0..0 |-> Tables])
    BY DEF AppendStep
  <2>. QED  BY <2>1
<1>4. PICK shorter : Is(m - 1, shorter)
  BY <1>2, <1>3
<1>5. PICK longer : longer = [i \in 0..m |-> AppendStep(shorter, s, ops, time, i)]
  OBVIOUS
<1>6. \A i \in 0..m - 1 : longer[i] = shorter[i]
  BY <1>3, <1>4, <1>5
<1>7. \A i \in 0..m : AppendStep(longer, s, ops, time, i) = AppendStep(shorter, s, ops, time, i)
  BY <1>3, <1>6 DEF AppendStep
<1>8. Is(m, longer)
  BY <1>5, <1>7
<1>. QED  BY <1>8

\* The operations of a settlement are appended one after the other.
LEMMA AppendOpsIs ==
  ASSUME NEW s, NEW ops, NEW time, Len(ops) \in Nat
  PROVE  \E f : /\ f[0] = Tables
                /\ \A i \in 1..Len(ops) : f[i] = AppendOp(f[i - 1], s, ops[i], time)
                /\ AppendOps(s, ops, time) = f[Len(ops)]
<1> DEFINE Is(f) == f = [i \in 0..Len(ops) |-> AppendStep(f, s, ops, time, i)]
<1>1. PICK f : f = CHOOSE g : Is(g)
  OBVIOUS
<1>2. Is(f)
  <2>1. \E g : Is(g)
    <3>1. PICK n \in Nat : n = Len(ops)
      OBVIOUS
    <3>2. \E g : g = [i \in 0..n |-> AppendStep(g, s, ops, time, i)]
      BY <3>1, AppendStepsExist
    <3>. QED  BY <3>1, <3>2
  <2>. QED  BY <1>1, <2>1, Zenon
<1>3. AppendOps(s, ops, time) = f[Len(ops)]
  BY <1>1, Zenon DEF AppendOps, AppendStep
<1>4. f[0] = Tables /\ \A i \in 1..Len(ops) : f[i] = AppendOp(f[i - 1], s, ops[i], time)
  BY <1>2 DEF AppendStep
<1>. QED  BY <1>3, <1>4

LEMMA AppendOpsSafe ==
  ASSUME TablesOK(Tables), NEW s \in Settlements, NEW ops \in Seq(CognitionOps), NEW time \in Nat
  PROVE  LET t == AppendOps(s, ops, time)
         IN  /\ TablesOK(t) /\ Follows(Tables, t) /\ AllKnown(t.events, s, ops)
             /\ Replayable(Tables) => Replayable(t)
<1>1. Len(ops) \in Nat /\ DOMAIN ops = 1..Len(ops) /\ \A i \in DOMAIN ops : ops[i] \in CognitionOps
  OBVIOUS
<1>2. PICK f : /\ f[0] = Tables
               /\ \A i \in 1..Len(ops) : f[i] = AppendOp(f[i - 1], s, ops[i], time)
               /\ AppendOps(s, ops, time) = f[Len(ops)]
  <2>1. Len(ops) \in Nat
    OBVIOUS
  <2>. QED  BY <2>1, AppendOpsIs, SMTT(30)
<1> DEFINE Good(i) == /\ TablesOK(f[i]) /\ Follows(Tables, f[i])
                      /\ Replayable(Tables) => Replayable(f[i])
                      /\ \A j \in 1..i : Known(f[i].events, s, ops[j])
           Bad == {i \in 0..Len(ops) : ~Good(i)}
<1>3. Good(0)
  BY <1>2 DEF Follows
<1>4. ASSUME NEW i \in 1..Len(ops), Good(i - 1)
      PROVE  Good(i)
  <2>1. ops[i] \in CognitionOps /\ i - 1 \in 0..Len(ops)
    BY <1>1
  <2>2. f[i] = AppendOp(f[i - 1], s, ops[i], time)
    BY <1>2
  <2>3. TablesOK(f[i]) /\ Follows(f[i - 1], f[i]) /\ Known(f[i].events, s, ops[i])
    <3>1. TablesOK(f[i - 1])
      BY <1>4
    <3>. QED  BY <2>1, <2>2, <3>1, AppendOpSafe
  <2>4. Follows(Tables, f[i])
    BY <1>4, <2>3 DEF Follows
  <2>5. ASSUME NEW j \in 1..i
        PROVE  Known(f[i].events, s, ops[j])
    <3>1. CASE j = i
      BY <2>3, <3>1
    <3>2. CASE j # i
      <4>1. j \in 1..(i - 1) /\ ops[j] \in CognitionOps
        BY <1>1, <3>2
      <4>2. Known(f[i - 1].events, s, ops[j])
        BY <1>4, <4>1
      <4>. QED  BY <2>3, <4>1, <4>2 DEF Follows
    <3>. QED  BY <3>1, <3>2
  <2>6. ASSUME Replayable(Tables)
        PROVE  Replayable(f[i])
    <3>1. TablesOK(f[i - 1]) /\ Replayable(f[i - 1])
      BY <1>4, <2>6
    <3>. QED  BY <2>1, <2>2, <3>1, AppendOpReplays
  <2>. QED  BY <2>3, <2>4, <2>5, <2>6
<1>5. Bad = {}
  <2> SUFFICES ASSUME Bad # {} PROVE FALSE
    OBVIOUS
  <2>1. PICK d \in Bad : \A k \in Bad : d <= k
    <3>1. Bad \in SUBSET Nat
      BY <1>1
    <3> HIDE DEF Bad
    <3>. QED  BY <3>1, LeastNumber
  <2> HIDE DEF Good
  <2>2. d # 0 /\ d \in 1..Len(ops) /\ d - 1 \in 0..Len(ops) /\ ~(d <= d - 1)
    BY <1>1, <1>3, <2>1
  <2>3. Good(d - 1)
    BY <2>1, <2>2
  <2>. QED  BY <1>4, <2>1, <2>2, <2>3
<1>6. Good(Len(ops))
  <2> HIDE DEF Good
  <2>. QED  BY <1>1, <1>5
<1>. QED  BY <1>1, <1>2, <1>6 DEF AllKnown

\* Operations whose events are all there change nothing.
LEMMA AppendKnown ==
  ASSUME NEW s, NEW ops, NEW time, Len(ops) \in Nat, DOMAIN ops = 1..Len(ops),
         AllKnown(events, s, ops)
  PROVE  AppendOps(s, ops, time) = Tables
<1>1. PICK f : /\ f[0] = Tables
               /\ \A i \in 1..Len(ops) : f[i] = AppendOp(f[i - 1], s, ops[i], time)
               /\ AppendOps(s, ops, time) = f[Len(ops)]
  BY AppendOpsIs
<1> DEFINE Bad == {i \in 0..Len(ops) : f[i] # Tables}
<1>2. Bad = {}
  <2> SUFFICES ASSUME Bad # {} PROVE FALSE
    OBVIOUS
  <2>1. PICK d \in Bad : \A k \in Bad : d <= k
    <3>1. Bad \in SUBSET Nat
      OBVIOUS
    <3> HIDE DEF Bad
    <3>. QED  BY <3>1, LeastNumber
  <2>2. d # 0 /\ d \in 1..Len(ops) /\ d - 1 \in 0..Len(ops) /\ ~(d <= d - 1)
    BY <1>1, <2>1
  <2>3. f[d - 1] = Tables
    BY <2>1, <2>2
  <2>4. Known(Tables.events, s, ops[d])
    BY <2>2 DEF Tables, AllKnown
  <2>5. f[d] = AppendOp(Tables, s, ops[d], time)
    BY <1>1, <2>2, <2>3
  <2>. QED  BY <2>1, <2>4, <2>5 DEF AppendOp
<1>. QED  BY <1>1, <1>2

\* What the recursive function of Deduped says of an index.
PutStep(f, ops, i) == IF i = 0 THEN << >> ELSE PutOp(f[i - 1], ops[i])

LEMMA PutStepsExist ==
  ASSUME NEW ops, NEW n \in Nat
  PROVE  \E f : f = [i \in 0..n |-> PutStep(f, ops, i)]
<1> DEFINE Is(m, f) == f = [i \in 0..m |-> PutStep(f, ops, i)]
           Without_One == {m \in Nat : ~ \E f : Is(m, f)}
<1>1. SUFFICES ASSUME Without_One # {} PROVE FALSE
  OBVIOUS
<1>2. PICK m \in Without_One : \A k \in Without_One : m <= k
  <2>1. Without_One \in SUBSET Nat
    OBVIOUS
  <2> HIDE DEF Without_One
  <2>. QED  BY <1>1, <2>1, LeastNumber
<1>3. m # 0
  <2>1. Is(0, [i \in 0..0 |-> << >>])
    BY DEF PutStep
  <2>. QED  BY <2>1
<1>4. PICK shorter : Is(m - 1, shorter)
  BY <1>2, <1>3
<1>5. PICK longer : longer = [i \in 0..m |-> PutStep(shorter, ops, i)]
  OBVIOUS
<1>6. \A i \in 0..m - 1 : longer[i] = shorter[i]
  BY <1>3, <1>4, <1>5
<1>7. \A i \in 0..m : PutStep(longer, ops, i) = PutStep(shorter, ops, i)
  BY <1>3, <1>6 DEF PutStep
<1>8. Is(m, longer)
  BY <1>5, <1>7
<1>. QED  BY <1>8

\* The operations of a settlement on one key are of different kinds.
Distinct(ops) ==
  \A i, j \in DOMAIN ops : ops[i].key = ops[j].key /\ ops[i].op = ops[j].op => i = j

LEMMA PutOpTyped ==
  ASSUME NEW kept \in Seq(CognitionOps), Distinct(kept), NEW op \in CognitionOps
  PROVE  PutOp(kept, op) \in Seq(CognitionOps) /\ Distinct(PutOp(kept, op))
<1> DEFINE same(i) == kept[i].key = op.key /\ kept[i].op = op.op
           put == PutOp(kept, op)
<1>1. CASE \E i \in DOMAIN kept : same(i)
  <2>1. put = [i \in DOMAIN kept |-> IF same(i) THEN op ELSE kept[i]]
    BY <1>1 DEF PutOp
  <2>2. put \in Seq(CognitionOps)
    BY <2>1
  <2>3. Distinct(put)
    BY <2>1 DEF Distinct
  <2>. QED  BY <2>2, <2>3
<1>2. CASE ~ \E i \in DOMAIN kept : same(i)
  <2>1. put = Append(kept, op)
    BY <1>2, Zenon DEF PutOp
  <2>2. /\ Len(kept) \in Nat /\ DOMAIN kept = 1..Len(kept) /\ DOMAIN put = 1..(Len(kept) + 1)
        /\ put \in Seq(CognitionOps) /\ put[Len(kept) + 1] = op
        /\ \A i \in DOMAIN kept : put[i] = kept[i]
    BY <2>1
  <2> HIDE DEF put
  <2>3. Distinct(put)
    <3> SUFFICES ASSUME NEW i \in DOMAIN put, NEW j \in DOMAIN put,
                        put[i].key = put[j].key, put[i].op = put[j].op
                 PROVE  i = j
      BY DEF Distinct
    <3>1. (i \in DOMAIN kept \/ i = Len(kept) + 1) /\ (j \in DOMAIN kept \/ j = Len(kept) + 1)
      BY <2>2
    <3>. QED  BY <1>2, <2>2, <3>1 DEF Distinct
  <2>. QED  BY <2>2, <2>3 DEF put
<1>. QED  BY <1>1, <1>2

\* Submitted operations are such operations still when doubles are taken out.
LEMMA DedupedTyped ==
  ASSUME NEW ops \in Seq(CognitionOps)
  PROVE  Deduped(ops) \in Seq(CognitionOps) /\ Distinct(Deduped(ops))
<1>1. Len(ops) \in Nat /\ DOMAIN ops = 1..Len(ops) /\ \A i \in DOMAIN ops : ops[i] \in CognitionOps
  OBVIOUS
<1> DEFINE Is(f) == f = [i \in 0..Len(ops) |-> PutStep(f, ops, i)]
<1>2. PICK f : f = CHOOSE g : Is(g)
  OBVIOUS
<1>3. Is(f)
  <2>1. \E g : Is(g)
    BY <1>1, PutStepsExist
  <2>. QED  BY <1>2, <2>1, Zenon
<1>4. Deduped(ops) = f[Len(ops)]
  BY <1>2, Zenon DEF Deduped, PutStep
<1>5. f[0] = << >> /\ \A i \in 1..Len(ops) : f[i] = PutOp(f[i - 1], ops[i])
  BY <1>1, <1>3 DEF PutStep
<1> DEFINE Good(i) == f[i] \in Seq(CognitionOps) /\ Distinct(f[i])
           Bad == {i \in 0..Len(ops) : ~Good(i)}
<1>6. Good(0)
  BY <1>5 DEF Distinct
<1>7. Bad = {}
  <2> SUFFICES ASSUME Bad # {} PROVE FALSE
    OBVIOUS
  <2>1. PICK d \in Bad : \A k \in Bad : d <= k
    <3>1. Bad \in SUBSET Nat
      BY <1>1
    <3> HIDE DEF Bad
    <3>. QED  BY <3>1, LeastNumber
  <2>2. d # 0
    <3> HIDE DEF Good
    <3>. QED  BY <1>6, <2>1
  <2>3. d \in 1..Len(ops) /\ d - 1 \in 0..Len(ops) /\ ~(d <= d - 1)
    BY <1>1, <2>1, <2>2
  <2>4. Good(d - 1)
    <3> HIDE DEF Good
    <3>. QED  BY <2>1, <2>3
  <2>5. f[d] = PutOp(f[d - 1], ops[d]) /\ ops[d] \in CognitionOps
    BY <1>1, <1>5, <2>3
  <2>6. Good(d)
    BY <2>4, <2>5, PutOpTyped
  <2> HIDE DEF Good
  <2>. QED  BY <2>1, <2>6
<1>8. Good(Len(ops))
  <2> HIDE DEF Good
  <2>. QED  BY <1>1, <1>7
<1>. QED  BY <1>4, <1>8

-----------------------------------------------------------------------------
(***************************************************************************)
(* The flush.                                                              *)
(***************************************************************************)

SettlingStates ==
  [at : {"idle", "settling", "committed"}, time : Nat, ops : Seq(CognitionOps), commits : Nat]

FlushShaped ==
  /\ flushing = [at |-> flushing.at, next |-> flushing.next, hi |-> flushing.hi,
                 docs |-> flushing.docs, bumped |-> flushing.bumped, marked |-> flushing.marked]
  /\ flushing.at = "running" =>
       flushing.next \in Nat \ {0} /\ flushing.hi \in Nat /\ flushing.hi <= Len(committed)

CogTyped ==
  /\ settling \in [Settlements -> SettlingStates]
  /\ committed \in Seq(TurnSettlements)
  /\ clock \in Nat /\ flushedTo \in Nat
  /\ FlushShaped

\* Every settled turn that a flush may go through has all its events.
CommittedKnown ==
  \A i \in DOMAIN committed :
    /\ settling[committed[i]].at = "committed"
    /\ AllKnown(events, committed[i], settling[committed[i]].ops)

\* The keys whose rows the flush will touch have rows.
BumpedHaveRows ==
  \A k \in DOMAIN flushing.bumped :
    k \in CogKeys /\ current[k] # NoCognition /\ flushing.bumped[k] \in Nat

BeliefInv == CogTyped /\ TablesOK(Tables) /\ CommittedKnown /\ BumpedHaveRows

LEMMA BeliefStarts == CogInit => BeliefInv
<1> SUFFICES ASSUME CogInit PROVE BeliefInv
  OBVIOUS
<1>1. CogTyped
  <2>1. << >> \in Seq(CognitionOps) /\ << >> \in Seq(TurnSettlements)
    OBVIOUS
  <2>. QED  BY <2>1 DEF CogInit, CogTyped, SettlingStates, FlushShaped, NoFlush
<1>2. TablesOK(Tables)
  <2>1. events \in Seq(CogEvents) /\ DOMAIN events = {}
    BY DEF CogInit
  <2>. QED  BY <2>1 DEF CogInit, TablesOK, Tables
<1>3. CommittedKnown
  BY DEF CogInit, CommittedKnown
<1>4. BumpedHaveRows
  <2>1. DOMAIN flushing.bumped = {}
    BY DEF CogInit, NoFlush
  <2>. QED  BY <2>1 DEF BumpedHaveRows
<1>. QED  BY <1>1, <1>2, <1>3, <1>4 DEF BeliefInv

LEMMA CommittedAre ==
  ASSUME BeliefInv, NEW i \in DOMAIN committed
  PROVE  /\ committed[i] \in TurnSettlements /\ committed[i] \in Settlements
         /\ settling[committed[i]] \in SettlingStates
         /\ settling[committed[i]].at = "committed"
         /\ settling[committed[i]].ops \in Seq(CognitionOps)
         /\ AllKnown(events, committed[i], settling[committed[i]].ops)
<1>1. committed[i] \in TurnSettlements
  BY DEF BeliefInv, CogTyped
<1>2. committed[i] \in Settlements
  BY <1>1 DEF Settlements
<1>3. settling[committed[i]] \in SettlingStates
  BY <1>2 DEF BeliefInv, CogTyped
<1>. QED  BY <1>1, <1>2, <1>3 DEF BeliefInv, CommittedKnown, SettlingStates

\* A turn settles once: no other settlement that begins or commits disturbs what
\* the log has.
LEMMA CommittedStays ==
  ASSUME BeliefInv, NEW s \in Settlements, BeginSettlement(s) \/ CommitSettlement(s),
         NEW i \in DOMAIN committed
  PROVE  settling'[committed[i]] = settling[committed[i]]
<1>1. committed[i] # s
  BY CommittedAre, CognitionAssumption DEF CognitionAssumption, BeginSettlement, CommitSettlement
<1>. QED  BY <1>1, CommittedAre DEF BeginSettlement, CommitSettlement, BeliefInv, CogTyped

LEMMA BeginKeeps ==
  ASSUME BeliefInv, NEW s \in Settlements, BeginSettlement(s)
  PROVE  BeliefInv'
<1>1. settling' \in [Settlements -> SettlingStates]
  <2>1. PICK raw \in SubmittedOps[s] :
          settling' = [settling EXCEPT ![s] =
            [at |-> "settling", time |-> clock + 1, ops |-> Deduped(raw), commits |-> @.commits + 1]]
    BY DEF BeginSettlement
  <2>2. Deduped(raw) \in Seq(CognitionOps)
    BY DedupedTyped, CognitionAssumption DEF CognitionAssumption
  <2>3. [at |-> "settling", time |-> clock + 1, ops |-> Deduped(raw),
         commits |-> settling[s].commits + 1] \in SettlingStates
    BY <2>2 DEF BeliefInv, CogTyped, SettlingStates
  <2>. QED  BY <2>1, <2>3 DEF BeliefInv, CogTyped
<1>2. CogTyped'
  BY <1>1 DEF BeginSettlement, BeliefInv, CogTyped, FlushShaped
<1>3. TablesOK(Tables)'
  BY DEF BeginSettlement, BeliefInv, TablesOK, Tables
<1>4. CommittedKnown'
  <2>1. committed' = committed /\ events' = events
    BY DEF BeginSettlement
  <2>. QED  BY <2>1, CommittedStays, CommittedAre DEF CommittedKnown, AllKnown, Known
<1>5. BumpedHaveRows'
  BY DEF BeginSettlement, BeliefInv, BumpedHaveRows
<1>. QED  BY <1>2, <1>3, <1>4, <1>5 DEF BeliefInv

LEMMA CommitKeeps ==
  ASSUME BeliefInv, NEW s \in Settlements, CommitSettlement(s)
  PROVE  BeliefInv'
<1>1. settling[s] \in SettlingStates
  BY DEF BeliefInv, CogTyped
<1>2. settling[s].ops \in Seq(CognitionOps) /\ settling[s].time \in Nat
  BY <1>1 DEF SettlingStates
<1>3. PICK t : t = AppendOps(s, settling[s].ops, settling[s].time)
  OBVIOUS
<1>4. TablesOK(t) /\ Follows(Tables, t) /\ AllKnown(t.events, s, settling[s].ops)
  BY <1>2, <1>3, AppendOpsSafe DEF BeliefInv
<1>5. events' = t.events /\ current' = t.current
  BY <1>3 DEF CommitSettlement
<1>6. TablesOK(Tables)'
  BY <1>4, <1>5 DEF TablesOK, Tables
<1>7. /\ settling' \in [Settlements -> SettlingStates]
      /\ settling'[s].at = "committed" /\ settling'[s].ops = settling[s].ops
  <2>1. settling' = [settling EXCEPT ![s].at = "committed"]
    BY DEF CommitSettlement
  <2>. QED  BY <1>1, <2>1 DEF BeliefInv, CogTyped, SettlingStates
<1>8. /\ committed' \in Seq(TurnSettlements) /\ Len(committed) <= Len(committed')
      /\ \A i \in DOMAIN committed' :
           (i \in DOMAIN committed /\ committed'[i] = committed[i]) \/ committed'[i] = s
  <2>1. CASE s \in TurnSettlements
    <3>1. committed' = Append(committed, s) /\ committed \in Seq(TurnSettlements)
      BY <2>1 DEF CommitSettlement, BeliefInv, CogTyped
    <3>. QED  BY <2>1, <3>1
  <2>2. CASE s \notin TurnSettlements
    <3>1. committed' = committed /\ committed \in Seq(TurnSettlements)
      BY <2>2 DEF CommitSettlement, BeliefInv, CogTyped
    <3>. QED  BY <3>1
  <2>. QED  BY <2>1, <2>2
<1>9. CogTyped'
  <2>1. flushing' = flushing /\ clock' = clock /\ flushedTo' = flushedTo
    BY DEF CommitSettlement
  <2>2. Len(committed) \in Nat /\ Len(committed') \in Nat
    BY <1>8 DEF BeliefInv, CogTyped
  <2>. QED  BY <1>7, <1>8, <2>1, <2>2 DEF BeliefInv, CogTyped, FlushShaped
<1>10. CommittedKnown'
  <2>1. ASSUME NEW i \in DOMAIN committed'
        PROVE  /\ settling'[committed'[i]].at = "committed"
               /\ AllKnown(events', committed'[i], settling'[committed'[i]].ops)
    <3>1. CASE committed'[i] = s
      BY <1>4, <1>5, <1>7, <3>1
    <3>2. CASE i \in DOMAIN committed /\ committed'[i] = committed[i]
      <4>1. PICK r \in Settlements : r = committed[i]
        BY <3>2, CommittedAre
      <4>2. /\ settling'[r] = settling[r] /\ settling[r].at = "committed"
            /\ settling[r].ops \in Seq(CognitionOps) /\ AllKnown(events, r, settling[r].ops)
        BY <3>2, <4>1, CommittedAre, CommittedStays
      <4>3. AllKnown(t.events, r, settling[r].ops)
        <5>1. ASSUME NEW j \in DOMAIN settling[r].ops
              PROVE  Known(t.events, r, settling[r].ops[j])
          <6>1. settling[r].ops[j] \in CognitionOps
            BY <4>2
          <6>2. Known(Tables.events, r, settling[r].ops[j])
            BY <4>2 DEF AllKnown, Tables
          <6>. QED  BY <1>4, <6>1, <6>2 DEF Follows
        <5>. QED  BY <5>1 DEF AllKnown
      <4>. QED  BY <1>5, <3>2, <4>1, <4>2, <4>3
    <3>. QED  BY <1>8, <3>1, <3>2
  <2>. QED  BY <2>1 DEF CommittedKnown
<1>11. BumpedHaveRows'
  <2>1. flushing' = flushing
    BY DEF CommitSettlement
  <2>2. \A k \in CogKeys : current[k] # NoCognition => current'[k] # NoCognition
    BY <1>4, <1>5 DEF Follows, Tables
  <2>. QED  BY <2>1, <2>2 DEF BeliefInv, BumpedHaveRows
<1>. QED  BY <1>6, <1>9, <1>10, <1>11 DEF BeliefInv

\* What the contested assertions of a committed turn are about has a row.
LEMMA ContestedHaveRows ==
  ASSUME BeliefInv, NEW s \in Settlements, NEW ops \in Seq(CognitionOps), AllKnown(events, s, ops)
  PROVE  /\ Cardinality(Contested(ops)) \in Nat
         /\ \A k \in Contested(ops) : k \in CogKeys /\ current[k] # NoCognition
<1> DEFINE these == {j \in DOMAIN ops : ops[j].op = "upsert" /\ ops[j].stance = "contested"}
<1>1. IsFiniteSet(these)
  <2>1. IsFiniteSet(1..Len(ops)) /\ these \subseteq 1..Len(ops)
    BY FS_Interval
  <2>. QED  BY <2>1, FS_Subset
<1>2. IsFiniteSet(Contested(ops))
  <2>1. Contested(ops) = {ops[i].key : i \in these}
    BY DEF Contested
  <2> HIDE DEF these
  <2>2. PICK keys : keys = {ops[i].key : i \in these}
    OBVIOUS
  <2>3. PICK f : f = [i \in these |-> ops[i].key]
    OBVIOUS
  <2>4. f \in Surjection(these, keys)
    BY <2>2, <2>3 DEF Surjection
  <2>. QED  BY <1>1, <2>1, <2>2, <2>4, FS_Surjection
<1>3. ASSUME NEW k \in Contested(ops)
      PROVE  k \in CogKeys /\ current[k] # NoCognition
  <2>1. PICK j \in DOMAIN ops : ops[j].op = "upsert" /\ k = ops[j].key
    BY <1>3 DEF Contested
  <2>2. k \in CogKeys
    <3>1. ops[j] \in CognitionOps
      OBVIOUS
    <3>. QED  BY <2>1, <3>1 DEF CognitionOps
  <2>3. PICK i \in DOMAIN events : events[i].key = k /\ events[i].op = "upsert"
    BY <2>1 DEF AllKnown, Known
  <2>. QED  BY <2>2, <2>3 DEF BeliefInv, TablesOK, Tables
<1>. QED  BY <1>2, <1>3, FS_CardinalityType

\* A flush going through one more settlement leaves events and rows alone.
LEMMA FlushGoesThrough ==
  ASSUME BeliefInv, FlushSettlement
  PROVE  /\ events' = events /\ current' = current /\ clock' \in Nat
         /\ FlushShaped' /\ BumpedHaveRows'
<1>1. /\ flushing.at = "running" /\ flushing.next \in DOMAIN committed
      /\ flushing.next \in Nat \ {0} /\ flushing.hi \in Nat /\ flushing.hi <= Len(committed)
  <2>1. flushing.at = "running" /\ flushing.next <= flushing.hi
    BY DEF FlushSettlement
  <2>2. committed \in Seq(TurnSettlements)
    BY DEF BeliefInv, CogTyped
  <2>. QED  BY <2>1, <2>2 DEF BeliefInv, CogTyped, FlushShaped
<1>2. PICK s \in Settlements, ops \in Seq(CognitionOps) :
        s = committed[flushing.next] /\ ops = settling[s].ops /\ AllKnown(events, s, ops)
  BY <1>1, CommittedAre
<1>3. ProcessSettlement(s) /\ committed' = committed
  BY <1>2 DEF FlushSettlement
<1>4. PICK t : t = AppendOps(s, ops, clock + 1) /\ t.events = events /\ t.current = current
  <2>1. Len(ops) \in Nat /\ DOMAIN ops = 1..Len(ops)
    OBVIOUS
  <2>2. AppendOps(s, ops, clock + 1) = Tables
    BY <1>2, <2>1, AppendKnown
  <2>. QED  BY <2>2 DEF Tables
<1> DEFINE Later(o) == Overlaid([k \in Contested(o) |-> clock'], flushing.bumped)
<1>6. CASE Settled(s)
  <2>1. flushing' = [flushing EXCEPT !.next = @ + 1] /\ UNCHANGED <<events, current, clock>>
    BY <1>3, <1>6 DEF ProcessSettlement
  <2>2. /\ flushing'.at = "running" /\ flushing'.next = flushing.next + 1
        /\ flushing'.hi = flushing.hi /\ flushing'.bumped = flushing.bumped
        /\ flushing' = [at |-> flushing'.at, next |-> flushing'.next, hi |-> flushing'.hi,
                        docs |-> flushing'.docs, bumped |-> flushing'.bumped,
                        marked |-> flushing'.marked]
    BY <1>1, <2>1 DEF BeliefInv, CogTyped, FlushShaped
  <2>. QED  BY <1>1, <1>3, <2>1, <2>2 DEF BeliefInv, CogTyped, FlushShaped, BumpedHaveRows
<1>7. ASSUME RollBack, UNCHANGED <<events, current, clock>>
      PROVE  /\ events' = events /\ current' = current /\ clock' \in Nat
             /\ FlushShaped' /\ BumpedHaveRows'
  <2>1. flushing' = NoFlush
    BY <1>7 DEF RollBack
  <2>2. flushing'.at = "idle" /\ DOMAIN flushing'.bumped = {} /\ FlushShaped'
    BY <2>1 DEF NoFlush, FlushShaped
  <2>. QED  BY <1>7, <2>2 DEF BeliefInv, CogTyped, BumpedHaveRows
<1>8. CASE ~Settled(s) /\ Allowed(ops) # DOMAIN ops
  <2>1. FailedAs(s, "failed_terminal") /\ UNCHANGED <<events, current>>
    BY <1>2, <1>3, <1>8 DEF ProcessSettlement
  <2>. QED  BY <1>7, <2>1 DEF FailedAs
<1>9. CASE ~Settled(s) /\ Allowed(ops) = DOMAIN ops /\ UnresolvedEntity(s)
                      /\ UNCHANGED <<events, current>>
  BY <1>7, <1>9 DEF UnresolvedEntity, FailedAs
<1>10. ASSUME events' = t.events, current' = t.current,
              clock' = clock + Cardinality(Contested(ops)),
              flushing' = [flushing EXCEPT !.next = @ + 1, !.marked = @ \cup {s},
                             !.docs = Overlaid(Changed(DocsOf(ops)), @),
                             !.bumped = Later(ops)]
       PROVE  /\ events' = events /\ current' = current /\ clock' \in Nat
              /\ FlushShaped' /\ BumpedHaveRows'
  <2>1. /\ Cardinality(Contested(ops)) \in Nat
        /\ \A k \in Contested(ops) : k \in CogKeys /\ current[k] # NoCognition
    BY <1>2, ContestedHaveRows
  <2>2. clock' \in Nat
    BY <1>10, <2>1 DEF BeliefInv, CogTyped
  <2>3. PICK extra, written : /\ extra = Later(ops)
                              /\ written = Overlaid(Changed(DocsOf(ops)), flushing.docs)
    OBVIOUS
  <2>4. flushing' = [flushing EXCEPT !.next = @ + 1, !.marked = @ \cup {s},
                       !.docs = written, !.bumped = extra]
    BY <1>10, <2>3
  <2>5. /\ flushing'.at = "running" /\ flushing'.next = flushing.next + 1
        /\ flushing'.hi = flushing.hi /\ flushing'.bumped = extra
        /\ flushing' = [at |-> flushing'.at, next |-> flushing'.next, hi |-> flushing'.hi,
                        docs |-> flushing'.docs, bumped |-> flushing'.bumped,
                        marked |-> flushing'.marked]
    BY <1>1, <2>4 DEF BeliefInv, CogTyped, FlushShaped
  <2>6. FlushShaped'
    BY <1>1, <1>3, <2>5 DEF FlushShaped
  <2>7. \A k \in DOMAIN extra :
          \/ k \in Contested(ops) /\ extra[k] = clock'
          \/ k \in DOMAIN flushing.bumped /\ extra[k] = flushing.bumped[k]
    BY <2>3 DEF Overlaid
  <2>8. BumpedHaveRows'
    BY <1>4, <1>10, <2>1, <2>2, <2>5, <2>7 DEF BeliefInv, BumpedHaveRows
  <2>. QED  BY <1>4, <1>10, <2>2, <2>6, <2>8
<1>11. CASE ~Settled(s) /\ Allowed(ops) = DOMAIN ops
  <2>1. \/ UnresolvedEntity(s) /\ UNCHANGED <<events, current>>
        \/ /\ events' = t.events /\ current' = t.current
           /\ clock' = clock + Cardinality(Contested(ops))
           /\ flushing' = [flushing EXCEPT !.next = @ + 1, !.marked = @ \cup {s},
                             !.docs = Overlaid(Changed(DocsOf(ops)), @),
                             !.bumped = Later(ops)]
    BY <1>2, <1>3, <1>4, <1>11, Zenon DEF ProcessSettlement
  <2>. QED  BY <1>9, <1>10, <1>11, <2>1
<1>. QED  BY <1>6, <1>8, <1>11

\* The end of a flush touches the times of rows only.
LEMMA FlushEndsSafely ==
  ASSUME BeliefInv, CommitFlush
  PROVE  /\ TablesOK(Tables)'
         /\ \A k \in CogKeys : current'[k] # current[k] =>
              /\ current[k] # NoCognition
              /\ current'[k] = [current[k] EXCEPT !.updated = current'[k].updated]
<1>1. /\ events' = events
      /\ current' = [k \in CogKeys |->
           IF k \in DOMAIN flushing.bumped
           THEN [current[k] EXCEPT !.updated = flushing.bumped[k]] ELSE current[k]]
  BY DEF CommitFlush
<1>2. ASSUME NEW k \in CogKeys
      PROVE  /\ current'[k] \in Rows \cup {NoCognition}
             /\ current[k] # NoCognition => current'[k] # NoCognition
             /\ current'[k] # current[k] =>
                  /\ current[k] # NoCognition
                  /\ current'[k] = [current[k] EXCEPT !.updated = current'[k].updated]
  <2>0. current[k] \in Rows \cup {NoCognition}
    BY DEF BeliefInv, TablesOK, Tables
  <2>1. CASE k \in DOMAIN flushing.bumped
    <3>1. current[k] # NoCognition /\ flushing.bumped[k] \in Nat
      BY <2>1 DEF BeliefInv, BumpedHaveRows
    <3>2. current'[k] = [current[k] EXCEPT !.updated = flushing.bumped[k]] /\ current[k] \in Rows
      BY <1>1, <2>0, <2>1, <3>1
    <3>3. current'[k] \in Rows /\ current'[k].updated = flushing.bumped[k]
      BY <3>1, <3>2 DEF Rows
    <3>. QED  BY <3>1, <3>2, <3>3, CognitionAssumption DEF CognitionAssumption
  <2>2. CASE k \notin DOMAIN flushing.bumped
    BY <1>1, <2>0, <2>2
  <2>. QED  BY <2>1, <2>2
<1>3. TablesOK(Tables)'
  <2>1. events \in Seq(CogEvents) /\ \A i \in DOMAIN events : events[i].key \in CogKeys
    <3>1. events \in Seq(CogEvents)
      BY DEF BeliefInv, TablesOK, Tables
    <3>2. \A i \in DOMAIN events : events[i] \in CogEvents
      BY <3>1
    <3>. QED  BY <3>1, <3>2 DEF CogEvents
  <2>2. current' \in [CogKeys -> Rows \cup {NoCognition}]
    BY <1>1, <1>2
  <2>. QED  BY <1>1, <1>2, <2>1, <2>2 DEF BeliefInv, TablesOK, Tables
<1>. QED  BY <1>2, <1>3

LEMMA BeliefStep ==
  ASSUME BeliefInv, [CogNext]_cogVars
  PROVE  BeliefInv'
<1>1. ASSUME NEW s \in Settlements, BeginSettlement(s) \/ CommitSettlement(s)
      PROVE  BeliefInv'
  BY <1>1, BeginKeeps, CommitKeeps
<1>2. ASSUME UNCHANGED <<events, settling, committed>>,
             TablesOK(Tables)', clock' \in Nat, flushedTo' \in Nat, FlushShaped', BumpedHaveRows'
      PROVE  BeliefInv'
  <2>1. CogTyped' /\ CommittedKnown'
    BY <1>2 DEF BeliefInv, CogTyped, CommittedKnown, AllKnown, Known
  <2>. QED  BY <1>2, <2>1 DEF BeliefInv
<1>3. CASE BeginFlush
  <2>1. /\ UNCHANGED <<events, current, settling, committed, clock>>
        /\ flushing' = [NoFlush EXCEPT !.at = "running", !.next = flushedTo + 1,
                                       !.hi = Len(committed)]
        /\ flushedTo < Len(committed) /\ flushedTo' = flushedTo /\ flushedTo \in Nat
    BY <1>3 DEF BeginFlush, BeliefInv, CogTyped
  <2>2. flushing' = [at |-> "running", next |-> flushedTo + 1, hi |-> Len(committed),
                     docs |-> << >>, bumped |-> << >>, marked |-> {}]
    BY <2>1 DEF NoFlush
  <2>3. BumpedHaveRows'
    BY <2>2 DEF BumpedHaveRows
  <2>4. TablesOK(Tables)' /\ clock' \in Nat
    BY <2>1 DEF BeliefInv, CogTyped, TablesOK, Tables
  <2>5. FlushShaped'
    <3>1. Len(committed) \in Nat
      BY DEF BeliefInv, CogTyped
    <3>2. /\ flushing'.at = "running" /\ flushing'.next = flushedTo + 1
          /\ flushing'.hi = Len(committed) /\ committed' = committed
          /\ flushing' = [at |-> flushing'.at, next |-> flushing'.next, hi |-> flushing'.hi,
                          docs |-> flushing'.docs, bumped |-> flushing'.bumped,
                          marked |-> flushing'.marked]
      BY <2>1, <2>2
    <3>. QED  BY <2>1, <3>1, <3>2 DEF FlushShaped
  <2>. QED  BY <1>2, <2>1, <2>3, <2>4, <2>5
<1>4. CASE FlushSettlement
  <2>1. UNCHANGED <<events, current, settling, committed>> /\ flushedTo' \in Nat
    BY <1>4, FlushGoesThrough DEF FlushSettlement, BeliefInv, CogTyped
  <2>2. TablesOK(Tables)'
    BY <2>1 DEF BeliefInv, TablesOK, Tables
  <2>. QED  BY <1>2, <1>4, <2>1, <2>2, FlushGoesThrough
<1>5. CASE CommitFlush \/ FlushDies
  <2>1. flushing' = NoFlush /\ UNCHANGED <<events, settling, committed, clock>>
    BY <1>5 DEF CommitFlush, FlushDies, RollBack
  <2>2. TablesOK(Tables)'
    <3>1. CASE CommitFlush
      BY <3>1, FlushEndsSafely
    <3>2. CASE FlushDies
      BY <3>2 DEF FlushDies, BeliefInv, TablesOK, Tables
    <3>. QED  BY <1>5, <3>1, <3>2
  <2>3. FlushShaped' /\ BumpedHaveRows'
    BY <2>1 DEF NoFlush, FlushShaped, BumpedHaveRows
  <2>4. clock' \in Nat /\ flushedTo' \in Nat
    BY <1>5 DEF CommitFlush, FlushDies, BeliefInv, CogTyped, FlushShaped
  <2>. QED  BY <1>2, <2>1, <2>2, <2>3, <2>4
<1>6. CASE UNCHANGED cogVars
  BY <1>6 DEF cogVars, BeliefInv, CogTyped, SettlingStates, FlushShaped, TablesOK, Tables,
              CommittedKnown, AllKnown, Known, BumpedHaveRows
<1>. QED  BY <1>1, <1>3, <1>4, <1>5, <1>6, Zenon DEF CogNext

\* Going through settled turns once more changes nobody's beliefs: each operation
\* of a turn that the log has is an event already, so the flush projects nothing,
\* and it ends by touching the times of rows that are there (cognition-repo.ts:556).
THEOREM FlushCorrect == CogSpec => FlushKeepsBeliefs
<1>1. ASSUME BeliefInv, [CogNext]_cogVars
      PROVE  [flushing.at = "running" /\ flushing' # flushing =>
               \A k \in CogKeys : current'[k] # current[k] =>
                 /\ current[k] # NoCognition
                 /\ current'[k] = [current[k] EXCEPT !.updated = current'[k].updated]]_cogVars
  <2>1. CASE FlushSettlement \/ FlushDies
    <3>1. current' = current
      BY <1>1, <2>1, FlushGoesThrough DEF FlushDies
    <3>. QED  BY <3>1
  <2>2. CASE CommitFlush
    BY <1>1, <2>2, FlushEndsSafely
  <2>3. CASE BeginFlush
    BY <2>3 DEF BeginFlush
  <2>4. CASE \E s \in Settlements : BeginSettlement(s) \/ CommitSettlement(s)
    BY <2>4 DEF BeginSettlement, CommitSettlement
  <2>. QED  BY <1>1, <2>1, <2>2, <2>3, <2>4, Zenon DEF CogNext
<1>. QED  BY <1>1, BeliefStarts, BeliefStep, PTL DEF CogSpec, FlushKeepsBeliefs

LEMMA ReplayStays ==
  ASSUME BeliefInv, CurrentIsReplay, [CogNext]_cogVars
  PROVE  CurrentIsReplay'
<1>1. ASSUME events' = events, conflicted \subseteq conflicted',
             \A k \in CogKeys : k \notin conflicted' => current'[k] = current[k]
      PROVE  CurrentIsReplay'
  BY <1>1 DEF CurrentIsReplay
<1>2. ASSUME NEW s \in Settlements, CommitSettlement(s)
      PROVE  CurrentIsReplay'
  <2>1. settling[s] \in SettlingStates
    BY DEF BeliefInv, CogTyped
  <2>2. settling[s].ops \in Seq(CognitionOps) /\ settling[s].time \in Nat
    BY <2>1 DEF SettlingStates
  <2>3. PICK t : t = AppendOps(s, settling[s].ops, settling[s].time)
    OBVIOUS
  <2>4. Replayable(Tables) => Replayable(t)
    BY <2>2, <2>3, AppendOpsSafe DEF BeliefInv
  <2>5. Replayable(Tables)
    BY DEF CurrentIsReplay, Replayable, Tables
  <2>6. events' = t.events /\ current' = t.current /\ conflicted' = conflicted
    BY <1>2, <2>3 DEF CommitSettlement
  <2>. QED  BY <2>4, <2>5, <2>6 DEF CurrentIsReplay, Replayable
<1>3. CASE FlushSettlement
  <2>1. events' = events /\ current' = current /\ conflicted' = conflicted
    BY <1>3, FlushGoesThrough DEF FlushSettlement
  <2>. QED  BY <1>1, <2>1
<1>4. CASE CommitFlush
  BY <1>1, <1>4 DEF CommitFlush
<1>5. CASE \/ BeginFlush \/ FlushDies \/ UNCHANGED cogVars
           \/ \E s \in Settlements : BeginSettlement(s)
  <2>1. events' = events /\ current' = current /\ conflicted' = conflicted
    BY <1>5 DEF BeginFlush, FlushDies, BeginSettlement, cogVars
  <2>. QED  BY <1>1, <2>1
<1>. QED  BY <1>2, <1>3, <1>4, <1>5, Zenon DEF CogNext

\* The projection can be thrown away: as long as a key's transactions commit in
\* the order they began and no flush has touched its row, each event is projected
\* once, and last, as the replay would (cognition-projection-repo.ts:130).
THEOREM ReplayCorrect == CogSpec => []CurrentIsReplay
<1>1. CogInit => CurrentIsReplay
  <2> SUFFICES ASSUME CogInit, NEW k \in CogKeys
               PROVE  current[k] = Replay(events, k)
    BY DEF CurrentIsReplay
  <2>1. events \in Seq(CogEvents) /\ EventsOf(events, k) = {} /\ current[k] = NoCognition
    BY DEF CogInit, EventsOf
  <2>2. Cardinality(EventsOf(events, k)) = 0
    BY <2>1, FS_EmptySet
  <2>3. PICK f : f[0] = NoCognition /\ Replay(events, k) = f[0]
    BY <2>2, ReplayRows
  <2>. QED  BY <2>1, <2>3
<1>. QED  BY <1>1, BeliefStarts, BeliefStep, ReplayStays, PTL DEF CogSpec
-----------------------------------------------------------------------------
(***************************************************************************)
(* Search.  The last event of a key says what its row says, and the last   *)
(* operation on the key of the last turn that touched it says the same: a  *)
(* flush that goes past that turn writes the row, whatever it wrote of     *)
(* older ones.                                                             *)
(***************************************************************************)

LastOp(ops, k, j) ==
  j \in DOMAIN ops /\ ops[j].key = k /\ \A i \in DOMAIN ops : ops[i].key = k => i <= j

LastEvent(log, k, i) == i \in EventsOf(log, k) /\ \A j \in EventsOf(log, k) : j <= i

StanceLeft(e) == IF e.op = "retract" THEN "rejected" ELSE e.stance

\* A row says what the last event of its key left, at its time.
RowsSayLast(t) ==
  \A k \in CogKeys :
    KindOf[k] = "assertion" /\ InOrder(t.events, k) /\ k \notin conflicted
        /\ t.current[k] # NoCognition =>
      \E i \in DOMAIN t.events :
        /\ LastEvent(t.events, k, i)
        /\ t.current[k].stance = StanceLeft(t.events[i])
        /\ t.current[k].updated = t.events[i].time

DocShaped(d) == d = [k \in CogKeys |-> d[k]]

\* Nothing has happened to a key.
SameKey(t, u, k) ==
  /\ EventsOf(u.events, k) = EventsOf(t.events, k)
  /\ \A i \in EventsOf(t.events, k) : u.events[i] = t.events[i]
  /\ u.current[k] = t.current[k] /\ u.doc[k] = t.doc[k]

\* An event is the last of its key, and the document was written with it.
EndsWith(t, k, e) ==
  /\ \E i \in DOMAIN t.events : LastEvent(t.events, k, i) /\ t.events[i] = e
  /\ t.current[k] # NoCognition => t.doc[k] = t.current[k].stance

\* What its events say of a key stays with them.
LEMMA SameKeyEnds ==
  ASSUME NEW t, NEW u, NEW k, SameKey(t, u, k)
  PROVE  /\ \A e : EndsWith(t, k, e) => EndsWith(u, k, e)
         /\ \A i : LastEvent(u.events, k, i) <=> LastEvent(t.events, k, i)
         /\ InOrder(u.events, k) <=> InOrder(t.events, k)
BY DEF SameKey, EndsWith, LastEvent, EventsOf, InOrder

\* An operation more adds its event to its key, and nothing to others.
LEMMA AppendOpAdds ==
  ASSUME NEW t, TablesOK(t), RowsSayLast(t), DocShaped(t.doc),
         NEW s \in Settlements, NEW op \in CognitionOps, NEW time \in Nat
  PROVE  LET u == AppendOp(t, s, op, time)
             e == EventOf(s, op, time)
         IN  /\ RowsSayLast(u) /\ DocShaped(u.doc)
             /\ \A k \in CogKeys : k # op.key => SameKey(t, u, k)
             /\ Known(t.events, s, op) => u = t
             /\ ~Known(t.events, s, op) => EndsWith(u, op.key, e)
             /\ \A i \in DOMAIN u.events :
                  \/ i \in DOMAIN t.events /\ u.events[i] = t.events[i]
                  \/ u.events[i] = e
<1> DEFINE u == AppendOp(t, s, op, time)
           e == EventOf(s, op, time)
           row == Project(t.current[op.key], e)
<1>1. CASE Known(t.events, s, op)
  <2>1. u = t
    BY <1>1 DEF AppendOp
  <2>2. \A k \in CogKeys : SameKey(t, t, k)
    BY DEF SameKey
  <2>. QED  BY <1>1, <2>1, <2>2
<1>2. CASE ~Known(t.events, s, op)
  <2>1. /\ u.events = Append(t.events, e)
        /\ u.current = [t.current EXCEPT ![op.key] = row]
        /\ u.doc = IF row = NoCognition THEN t.doc ELSE [t.doc EXCEPT ![op.key] = row.stance]
    BY <1>2 DEF AppendOp
  <2>2. /\ e \in CogEvents /\ e.settlement = s /\ e.key = op.key /\ e.op = op.op
        /\ op.key \in CogKeys /\ e.time = time
    BY DEF EventOf, CogEvents, CognitionOps
  <2>3. /\ t.current[op.key] \in Rows \cup {NoCognition}
        /\ row # NoCognition => row \in Rows
    BY <2>2, ProjectIs, CognitionAssumption DEF CognitionAssumption, TablesOK
  <2>4. ASSUME KindOf[op.key] = "assertion", row # NoCognition,
               t.current[op.key] # NoCognition => t.current[op.key].updated <= time
        PROVE  row.stance = StanceLeft(e) /\ row.updated = time
    <3>1. CASE t.current[op.key] = NoCognition
      BY <2>2, <2>4, <3>1 DEF Project, StanceLeft, CogEvents
    <3>2. CASE t.current[op.key] # NoCognition
      <4>1. t.current[op.key] \in Rows
        BY <2>3, <3>2
      <4>2. CASE e.op = "retract"
        <5>1. row = [t.current[op.key] EXCEPT !.status = "retracted", !.updated = e.time,
                                              !.stance = "rejected"]
          BY <2>2, <2>4, <3>2, <4>2 DEF Project
        <5>. QED  BY <2>2, <4>1, <4>2, <5>1 DEF Rows, StanceLeft
      <4>3. CASE e.op # "retract"
        <5>1. Newer(e, t.current[op.key])
          BY <2>2, <2>4, <3>2, <4>1 DEF Newer, Rows
        <5>2. row.stance = e.stance /\ row.updated = e.time
          BY <2>2, <3>2, <4>3, <5>1 DEF Project, CogEvents
        <5>. QED  BY <2>2, <4>3, <5>2 DEF StanceLeft
      <4>. QED  BY <4>2, <4>3
    <3>. QED  BY <3>1, <3>2
  <2> HIDE DEF u, e, row
  <2>5. PICK n \in Nat : /\ DOMAIN t.events = 1..n /\ DOMAIN u.events = 1..(n + 1)
                         /\ u.events[n + 1] = e /\ \A i \in 1..n : u.events[i] = t.events[i]
    <3>1. t.events \in Seq(CogEvents)
      BY DEF TablesOK
    <3>2. Len(t.events) \in Nat
      BY <3>1
    <3>. QED  BY <2>1, <2>2, <3>1, <3>2
  <2>6. /\ u.current[op.key] = row
        /\ \A k \in CogKeys : k # op.key => u.current[k] = t.current[k]
    BY <2>1, <2>2 DEF TablesOK
  <2>7. /\ DocShaped(u.doc)
        /\ row # NoCognition => u.doc[op.key] = row.stance
        /\ \A k \in CogKeys : k # op.key => u.doc[k] = t.doc[k]
    BY <2>1, <2>2 DEF DocShaped
  <2>8. ASSUME NEW k \in CogKeys, k # op.key
        PROVE  SameKey(t, u, k)
    BY <2>2, <2>5, <2>6, <2>7, <2>8 DEF SameKey, EventsOf
  <2>9. LastEvent(u.events, op.key, n + 1)
    BY <2>2, <2>5 DEF LastEvent, EventsOf
  <2>10. EndsWith(u, op.key, e)
    BY <2>5, <2>6, <2>7, <2>9 DEF EndsWith
  <2>11. ASSUME NEW k \in CogKeys, KindOf[k] = "assertion", InOrder(u.events, k),
                k \notin conflicted, u.current[k] # NoCognition
         PROVE  \E i \in DOMAIN u.events :
                  /\ LastEvent(u.events, k, i)
                  /\ u.current[k].stance = StanceLeft(u.events[i])
                  /\ u.current[k].updated = u.events[i].time
    <3>1. CASE k # op.key
      <4>1. SameKey(t, u, k)
        BY <2>8, <3>1
      <4>2. InOrder(t.events, k) /\ t.current[k] # NoCognition
        BY <2>11, <4>1, SameKeyEnds DEF SameKey
      <4>3. PICK i \in DOMAIN t.events : /\ LastEvent(t.events, k, i)
                                         /\ t.current[k].stance = StanceLeft(t.events[i])
                                         /\ t.current[k].updated = t.events[i].time
        BY <2>11, <4>2 DEF RowsSayLast
      <4>4. i \in DOMAIN u.events /\ u.events[i] = t.events[i]
        BY <2>5, <4>3
      <4>. QED  BY <4>1, <4>3, <4>4, SameKeyEnds DEF SameKey
    <3>2. CASE k = op.key
      <4>1. ASSUME t.current[k] # NoCognition
            PROVE  t.current[k].updated <= time
        <5>1. InOrder(t.events, k)
          <6>1. \A i \in EventsOf(t.events, k) : i \in EventsOf(u.events, k) /\ u.events[i] = t.events[i]
            BY <2>5 DEF EventsOf
          <6>. QED  BY <2>11, <6>1 DEF InOrder
        <5>2. PICK i \in DOMAIN t.events : /\ LastEvent(t.events, k, i)
                                           /\ t.current[k].updated = t.events[i].time
          BY <2>11, <4>1, <5>1 DEF RowsSayLast
        <5>3. i \in EventsOf(u.events, k) /\ n + 1 \in EventsOf(u.events, k) /\ i < n + 1
          BY <2>2, <2>5, <3>2, <5>2 DEF LastEvent, EventsOf
        <5>. QED  BY <2>2, <2>5, <2>11, <5>2, <5>3 DEF InOrder
      <4>. QED  BY <2>2, <2>4, <2>5, <2>6, <2>9, <2>11, <3>2, <4>1
    <3>. QED  BY <3>1, <3>2
  <2>12. RowsSayLast(u)
    BY <2>11 DEF RowsSayLast
  <2>13. \A i \in DOMAIN u.events :
           \/ i \in DOMAIN t.events /\ u.events[i] = t.events[i]
           \/ u.events[i] = e
    BY <2>5
  <2>. QED  BY <1>2, <2>7, <2>8, <2>10, <2>12, <2>13 DEF u, e
<1>. QED  BY <1>1, <1>2

LEMMA SameKeyJoins ==
  ASSUME NEW t, NEW u, NEW v, NEW k, SameKey(t, u, k), SameKey(u, v, k)
  PROVE  SameKey(t, v, k)
BY DEF SameKey

\* A settlement that has no event yet.
Unheard(s) == \A i \in DOMAIN events : events[i].settlement # s

\* What a whole settlement adds.
LEMMA AppendOpsAdd ==
  ASSUME TablesOK(Tables), RowsSayLast(Tables), DocShaped(doc),
         NEW s \in Settlements, NEW ops \in Seq(CognitionOps), NEW time \in Nat
  PROVE  LET t == AppendOps(s, ops, time)
         IN  /\ RowsSayLast(t) /\ DocShaped(t.doc)
             /\ \A k \in CogKeys :
                  \/ SameKey(Tables, t, k)
                  \/ \E j \in DOMAIN ops : ops[j].key = k /\ EndsWith(t, k, EventOf(s, ops[j], time))
             /\ \A i \in DOMAIN t.events :
                  \/ i \in DOMAIN events /\ t.events[i] = events[i]
                  \/ t.events[i].settlement = s
             /\ Unheard(s) /\ Distinct(ops) =>
                  \A k \in CogKeys, j \in DOMAIN ops :
                    LastOp(ops, k, j) => EndsWith(t, k, EventOf(s, ops[j], time))
<1>1. Len(ops) \in Nat /\ DOMAIN ops = 1..Len(ops) /\ \A i \in DOMAIN ops : ops[i] \in CognitionOps
  OBVIOUS
<1>2. PICK f : /\ f[0] = Tables
               /\ \A i \in 1..Len(ops) : f[i] = AppendOp(f[i - 1], s, ops[i], time)
               /\ AppendOps(s, ops, time) = f[Len(ops)]
  <2>1. Len(ops) \in Nat
    OBVIOUS
  <2>. QED  BY <2>1, AppendOpsIs, SMTT(30)
<1> DEFINE Whole(i) == TablesOK(f[i]) /\ RowsSayLast(f[i]) /\ DocShaped(f[i].doc)
           Ends(i) == \A k \in CogKeys :
             \/ SameKey(Tables, f[i], k)
             \/ \E j \in 1..i : ops[j].key = k /\ EndsWith(f[i], k, EventOf(s, ops[j], time))
           Ours(i) == \A x \in DOMAIN f[i].events :
             \/ x \in DOMAIN events /\ f[i].events[x] = events[x]
             \/ \E j \in 1..i : f[i].events[x] = EventOf(s, ops[j], time)
           LastOne(i) == Unheard(s) /\ Distinct(ops) =>
             \A k \in CogKeys, j \in 1..i :
               ops[j].key = k /\ (\A m \in 1..i : ops[m].key = k => m <= j) =>
                 EndsWith(f[i], k, EventOf(s, ops[j], time))
           Good(i) == Whole(i) /\ Ends(i) /\ Ours(i) /\ LastOne(i)
           Bad == {i \in 0..Len(ops) : ~Good(i)}
<1>3. Good(0)
  BY <1>2 DEF SameKey, Tables
<1>4. ASSUME NEW i \in 1..Len(ops), Good(i - 1)
      PROVE  Good(i)
  <2>1. /\ ops[i] \in CognitionOps /\ ops[i].key \in CogKeys /\ i \in Nat /\ i \in DOMAIN ops
        /\ \A j \in 1..i : j \in DOMAIN ops /\ (j # i => j \in 1..(i - 1))
        /\ \A j \in 1..(i - 1) : j \in 1..i /\ j # i /\ j < i
    BY <1>1 DEF CognitionOps
  <2> DEFINE t == f[i - 1]
             u == f[i]
             e == EventOf(s, ops[i], time)
  <2>2. u = AppendOp(t, s, ops[i], time)
    BY <1>2
  <2>3. /\ TablesOK(u) /\ RowsSayLast(u) /\ DocShaped(u.doc)
        /\ \A k \in CogKeys : k # ops[i].key => SameKey(t, u, k)
        /\ Known(t.events, s, ops[i]) => u = t
        /\ ~Known(t.events, s, ops[i]) => EndsWith(u, ops[i].key, e)
        /\ \A x \in DOMAIN u.events :
             \/ x \in DOMAIN t.events /\ u.events[x] = t.events[x]
             \/ u.events[x] = e
    <3>1. TablesOK(t) /\ RowsSayLast(t) /\ DocShaped(t.doc)
      BY <1>4
    <3> HIDE DEF t, u
    <3>2. TablesOK(u)
      BY <2>1, <2>2, <3>1, AppendOpSafe
    <3>. QED  BY <2>1, <2>2, <3>1, <3>2, AppendOpAdds DEF e
  <2>4. Ends(i - 1) /\ Ours(i - 1) /\ LastOne(i - 1)
    BY <1>4
  <2>5. Whole(i)
    BY <2>3
  <2> HIDE DEF t, u, e
  <2>6. Ends(i)
    <3> SUFFICES ASSUME NEW k \in CogKeys
                 PROVE  \/ SameKey(Tables, u, k)
                        \/ \E j \in 1..i : ops[j].key = k /\ EndsWith(u, k, EventOf(s, ops[j], time))
      BY DEF u
    <3>1. \/ SameKey(Tables, t, k)
          \/ \E j \in 1..i : ops[j].key = k /\ EndsWith(t, k, EventOf(s, ops[j], time))
      BY <2>1, <2>4 DEF t
    <3>2. CASE u = t
      BY <3>1, <3>2
    <3>3. CASE SameKey(t, u, k)
      BY <3>1, <3>3, SameKeyJoins, SameKeyEnds
    <3>4. CASE k = ops[i].key /\ EndsWith(u, k, e)
      <4>1. i \in 1..i
        BY <2>1
      <4>. QED  BY <3>4, <4>1 DEF e
    <3>. QED  BY <2>3, <3>2, <3>3, <3>4
  <2>7. Ours(i)
    <3> SUFFICES ASSUME NEW x \in DOMAIN u.events
                 PROVE  \/ x \in DOMAIN events /\ u.events[x] = events[x]
                        \/ \E j \in 1..i : u.events[x] = EventOf(s, ops[j], time)
      BY DEF u
    <3>1. CASE x \in DOMAIN t.events /\ u.events[x] = t.events[x]
      BY <2>1, <2>4, <3>1 DEF t
    <3>2. CASE u.events[x] = e
      <4>1. i \in 1..i
        BY <2>1
      <4>. QED  BY <3>2, <4>1 DEF e
    <3>. QED  BY <2>3, <3>1, <3>2
  <2>8. LastOne(i)
    <3> SUFFICES ASSUME Unheard(s), Distinct(ops), NEW k \in CogKeys, NEW j \in 1..i,
                        ops[j].key = k, \A m \in 1..i : ops[m].key = k => m <= j
                 PROVE  EndsWith(u, k, EventOf(s, ops[j], time))
      BY DEF u
    <3>1. CASE k = ops[i].key
      <4>1. j = i
        BY <2>1, <3>1
      <4>2. ~Known(t.events, s, ops[i])
        <5> SUFFICES ASSUME NEW x \in DOMAIN t.events, t.events[x].settlement = s,
                            t.events[x].key = ops[i].key, t.events[x].op = ops[i].op
                     PROVE  FALSE
          BY DEF Known
        <5>1. PICK m \in 1..(i - 1) : t.events[x] = EventOf(s, ops[m], time)
          BY <2>4 DEF Unheard, t
        <5>2. m \in DOMAIN ops /\ m # i
          BY <2>1
        <5>3. ops[m].key = ops[i].key /\ ops[m].op = ops[i].op
          BY <5>1 DEF EventOf
        <5>. QED  BY <2>1, <5>2, <5>3 DEF Distinct
      <4>. QED  BY <2>3, <3>1, <4>1, <4>2 DEF e
    <3>2. CASE k # ops[i].key
      <4>1. j \in 1..(i - 1)
        BY <2>1, <3>2
      <4>2. \A m \in 1..(i - 1) : ops[m].key = k => m <= j
        BY <2>1
      <4>3. EndsWith(t, k, EventOf(s, ops[j], time))
        BY <2>4, <4>1, <4>2 DEF t
      <4>. QED  BY <2>3, <3>2, <4>3, SameKeyEnds
    <3>. QED  BY <3>1, <3>2
  <2>. QED  BY <2>5, <2>6, <2>7, <2>8
<1>5. Bad = {}
  <2> SUFFICES ASSUME Bad # {} PROVE FALSE
    OBVIOUS
  <2>1. PICK d \in Bad : \A k \in Bad : d <= k
    <3>1. Bad \in SUBSET Nat
      BY <1>1
    <3> HIDE DEF Bad
    <3>. QED  BY <3>1, LeastNumber
  <2> HIDE DEF Good
  <2>2. d # 0 /\ d \in 1..Len(ops) /\ d - 1 \in 0..Len(ops) /\ ~(d <= d - 1)
    BY <1>1, <1>3, <2>1
  <2>3. Good(d - 1)
    BY <2>1, <2>2
  <2>. QED  BY <1>4, <2>1, <2>2, <2>3
<1>6. Good(Len(ops))
  <2> HIDE DEF Good
  <2>. QED  BY <1>1, <1>5
<1>7. PICK t : t = AppendOps(s, ops, time) /\ t = f[Len(ops)]
  BY <1>2
<1>8. \A i \in DOMAIN t.events :
        \/ i \in DOMAIN events /\ t.events[i] = events[i]
        \/ t.events[i].settlement = s
  <2>1. Ours(Len(ops))
    BY <1>6
  <2>2. \A op : EventOf(s, op, time).settlement = s
    BY DEF EventOf
  <2>. QED  BY <1>7, <2>1, <2>2
<1>9. ASSUME Unheard(s), Distinct(ops), NEW k \in CogKeys, NEW j \in DOMAIN ops, LastOp(ops, k, j)
      PROVE  EndsWith(t, k, EventOf(s, ops[j], time))
  <2>1. LastOne(Len(ops))
    BY <1>6
  <2>2. j \in 1..Len(ops) /\ ops[j].key = k /\ \A m \in 1..Len(ops) : ops[m].key = k => m <= j
    BY <1>1, <1>9 DEF LastOp
  <2>. QED  BY <1>7, <1>9, <2>1, <2>2
<1>10. Whole(Len(ops)) /\ Ends(Len(ops))
  BY <1>6
<1>. QED  BY <1>1, <1>7, <1>8, <1>9, <1>10

\* A settlement has an operation on a key, and is the last settled turn that has.
Touches(s, k) == \E j \in DOMAIN settling[s].ops : settling[s].ops[j].key = k

LastTouch(k, n) ==
  /\ n \in DOMAIN committed /\ Touches(committed[n], k)
  /\ \A m \in DOMAIN committed : m > n => ~Touches(committed[m], k)

\* Where the last event of a key is a turn's, the turn is the last that touched
\* the key, and the event is that of its last operation.
LastIsKnown ==
  \A k \in CogKeys, i \in DOMAIN events :
    LastEvent(events, k, i) /\ events[i].settlement \in TurnSettlements =>
      \E n \in DOMAIN committed :
        /\ LastTouch(k, n) /\ committed[n] = events[i].settlement
        /\ \E j \in DOMAIN settling[committed[n]].ops :
             /\ LastOp(settling[committed[n]].ops, k, j)
             /\ StanceLeft(events[i]) = StanceLeft(settling[committed[n]].ops[j])

\* A turn settles once, with operations of different kinds on each key.
TurnsOnce ==
  /\ \A i \in DOMAIN events :
       events[i].settlement \in TurnSettlements => settling[events[i].settlement].at = "committed"
  /\ \A n, m \in DOMAIN committed : committed[n] = committed[m] => n = m
  /\ \A s \in Settlements : Distinct(settling[s].ops)

\* What is marked applied beyond the log's mark, and was not undone, was marked by
\* the flush under way.
LedgerOK ==
  /\ ledger \in [TurnSettlements -> {"none", "applied", "failed_retryable", "failed_terminal"}]
  /\ \A s \in TurnSettlements : settling[s].at # "committed" => ledger[s] = "none"
  /\ ledgered => \A n \in DOMAIN committed : ledger[committed[n]] = "applied"
  /\ ~ledgered => \A n \in DOMAIN committed :
       n > flushedTo /\ ledger[committed[n]] = "applied" /\ committed[n] \notin undone =>
         flushing.at = "running" /\ n < flushing.next /\ committed[n] \in flushing.marked

\* The flush is between the log's mark and its end, and holds documents of keys
\* that it went through.
FlushPlace ==
  /\ flushedTo <= Len(committed)
  /\ flushing.at = "running" \/ flushing = NoFlush
  /\ flushing.at = "running" => flushedTo < flushing.next /\ flushing.next <= flushing.hi + 1
  /\ \A k \in DOMAIN flushing.docs :
       ~ledgered /\ \E m \in DOMAIN committed :
         flushedTo < m /\ m < flushing.next /\ Touches(committed[m], k)

\* What search would show of a key if the flush ended now.
ShownNow(k) == IF k \in DOMAIN flushing.docs THEN flushing.docs[k] ELSE doc[k]

\* The flush has gone past a settled turn.
Gone(n) == n < (IF flushing.at = "running" THEN flushing.next ELSE flushedTo + 1)

\* No turn on a key has failed for good or was undone.
FineKey(k) ==
  \A n \in DOMAIN committed :
    Touches(committed[n], k) => ledger[committed[n]] # "failed_terminal" /\ committed[n] \notin undone

\* A key of which search should show the row: its events came in order, and the
\* last is a turn's.
SoundKey(k) ==
  /\ KindOf[k] = "assertion" /\ InOrder(events, k) /\ k \notin conflicted /\ current[k] # NoCognition
  /\ \E i \in DOMAIN events : LastEvent(events, k, i) /\ events[i].settlement \in TurnSettlements

\* Where the flush has gone past the last turn that touched a key, search shows
\* the row.
GoneIsShown ==
  \A k \in CogKeys, n \in DOMAIN committed :
    SoundKey(k) /\ FineKey(k) /\ LastTouch(k, n) /\ (ledgered \/ Gone(n)) =>
      ShownNow(k) = current[k].stance

\* The tables that a settlement's transaction writes agree.
TablesSearched == RowsSayLast(Tables) /\ DocShaped(doc)

SearchInv ==
  BeliefInv /\ TablesSearched /\ LastIsKnown /\ TurnsOnce /\ LedgerOK /\ FlushPlace /\ GoneIsShown

\* To begin with nothing is there to be searched.
LEMMA SearchStarts == CogInit => SearchInv
<1> SUFFICES ASSUME CogInit PROVE SearchInv
  OBVIOUS
<1>1. BeliefInv
  BY BeliefStarts
<1>2. TablesSearched
  BY DEF CogInit, TablesSearched, RowsSayLast, DocShaped, Tables
<1>3. DOMAIN events = {} /\ DOMAIN committed = {} /\ Len(committed) = 0
  BY DEF CogInit
<1>4. LastIsKnown /\ TurnsOnce /\ GoneIsShown
  <2>1. \A s \in Settlements : Distinct(settling[s].ops)
    BY DEF CogInit, Distinct
  <2>. QED  BY <1>3, <2>1 DEF LastIsKnown, TurnsOnce, GoneIsShown
<1>5. LedgerOK
  BY <1>3 DEF CogInit, LedgerOK
<1>6. FlushPlace
  <2>1. DOMAIN flushing.docs = {}
    BY DEF CogInit, NoFlush
  <2>. QED  BY <1>3, <2>1 DEF CogInit, FlushPlace, NoFlush
<1>. QED  BY <1>1, <1>2, <1>4, <1>5, <1>6 DEF SearchInv

\* Where the flush has caught up, every key's last turn is behind it.
LEMMA SearchShows == SearchInv => SearchCatchesUp
<1> SUFFICES ASSUME SearchInv, flushing.at = "idle", flushedTo = Len(committed), NEW k \in CogKeys,
                    KindOf[k] = "assertion", InOrder(events, k), k \notin conflicted,
                    current[k] # NoCognition,
                    \A i \in DOMAIN events :
                      events[i].key = k => events[i].settlement \in TurnSettlements,
                    \A s \in TurnSettlements :
                      k \in {settling[s].ops[i].key : i \in DOMAIN settling[s].ops} =>
                        ledger[s] \in {"none", "applied"} /\ s \notin undone
             PROVE  doc[k] = current[k].stance
  BY DEF SearchCatchesUp
<1>1. PICK i \in DOMAIN events : LastEvent(events, k, i)
  BY DEF SearchInv, TablesSearched, RowsSayLast, Tables
<1>2. events[i].settlement \in TurnSettlements
  BY <1>1 DEF LastEvent, EventsOf
<1>3. SoundKey(k)
  BY <1>1, <1>2 DEF SoundKey
<1>4. PICK n \in DOMAIN committed : LastTouch(k, n)
  BY <1>1, <1>2 DEF SearchInv, LastIsKnown
<1>5. FineKey(k)
  <2> SUFFICES ASSUME NEW m \in DOMAIN committed, Touches(committed[m], k)
               PROVE  ledger[committed[m]] # "failed_terminal" /\ committed[m] \notin undone
    BY DEF FineKey
  <2>1. committed[m] \in TurnSettlements
    BY CommittedAre DEF SearchInv
  <2>. QED  BY <2>1 DEF Touches
<1>6. Gone(n)
  <2>1. n \in Nat /\ n <= flushedTo
    BY DEF SearchInv, BeliefInv, CogTyped
  <2>. QED  BY <2>1 DEF Gone, SearchInv, BeliefInv, CogTyped
<1>7. ShownNow(k) = doc[k]
  <2>1. DOMAIN flushing.docs = {}
    BY DEF SearchInv, FlushPlace, NoFlush
  <2>. QED  BY <2>1 DEF ShownNow
<1>. QED  BY <1>3, <1>4, <1>5, <1>6, <1>7 DEF SearchInv, GoneIsShown

\* The settled turns are what they were, and so is what they left.
LEMMA TurnsStay ==
  ASSUME SearchInv, UNCHANGED <<events, settling, committed>>
  PROVE  /\ \A k, n : LastTouch(k, n)' <=> LastTouch(k, n)
         /\ \A s, k : Touches(s, k)' <=> Touches(s, k)
         /\ LastIsKnown' /\ TurnsOnce'
<1>1. \A s, k : Touches(s, k)' <=> Touches(s, k)
  BY DEF Touches
<1>2. \A k, n : LastTouch(k, n)' <=> LastTouch(k, n)
  BY DEF Touches, LastTouch
<1>3. LastIsKnown'
  BY <1>2 DEF SearchInv, LastIsKnown
<1>4. TurnsOnce'
  BY DEF SearchInv, TurnsOnce
<1>. QED  BY <1>1, <1>2, <1>3, <1>4

\* The transaction of a flush is rolled back: what it was to show of a key that it
\* went through is not shown, and the key's last turn is before it again.
LEMMA RolledBack ==
  ASSUME SearchInv, flushing.at = "running", RollBack,
         UNCHANGED <<events, current, doc, settling, committed, flushedTo, ledgered, conflicted>>,
         ledger' \in [TurnSettlements -> {"none", "applied", "failed_retryable", "failed_terminal"}],
         \A s \in TurnSettlements :
           \/ ledger'[s] = ledger[s]
           \/ /\ ~ledgered /\ settling[s].at = "committed"
              /\ ledger[s] # "failed_terminal" /\ ledger'[s] # "applied"
  PROVE  TablesSearched' /\ LastIsKnown' /\ TurnsOnce' /\ LedgerOK' /\ FlushPlace' /\ GoneIsShown'
<1>1. /\ flushing' = NoFlush /\ flushing'.at = "idle" /\ DOMAIN flushing'.docs = {}
      /\ undone' = undone \cup {s \in flushing.marked : ledger[s] = "applied"}
  BY DEF RollBack, NoFlush
<1>2. /\ flushing.next \in Nat /\ flushedTo \in Nat /\ flushedTo < flushing.next
      /\ \A n \in DOMAIN committed : n \in Nat /\ committed[n] \in TurnSettlements
  BY CommittedAre DEF SearchInv, FlushPlace, BeliefInv, CogTyped, FlushShaped
<1>3. TablesSearched'
  BY DEF SearchInv, TablesSearched, RowsSayLast, Tables
<1>4. LastIsKnown' /\ TurnsOnce'
  BY TurnsStay
<1>5. LedgerOK'
  <2>1. ASSUME ~ledgered, NEW n \in DOMAIN committed, n > flushedTo,
               ledger'[committed[n]] = "applied", committed[n] \notin undone'
        PROVE  FALSE
    <3>1. ledger[committed[n]] = "applied" /\ committed[n] \notin undone
      BY <1>1, <1>2, <2>1
    <3>2. committed[n] \in flushing.marked
      BY <2>1, <3>1 DEF SearchInv, LedgerOK
    <3>. QED  BY <1>1, <2>1, <3>1, <3>2
  <2>2. \A s \in TurnSettlements : settling'[s].at # "committed" => ledger'[s] = "none"
    BY DEF SearchInv, LedgerOK
  <2>3. ledgered => \A n \in DOMAIN committed : ledger'[committed[n]] = "applied"
    BY <1>2 DEF SearchInv, LedgerOK
  <2>. QED  BY <2>1, <2>2, <2>3 DEF LedgerOK
<1>6. FlushPlace'
  BY <1>1 DEF SearchInv, FlushPlace
<1>7. GoneIsShown'
  <2> SUFFICES ASSUME NEW k \in CogKeys, NEW n \in DOMAIN committed,
                      SoundKey(k)', FineKey(k)', LastTouch(k, n)', ledgered \/ Gone(n)'
               PROVE  ShownNow(k)' = current'[k].stance
    BY DEF GoneIsShown
  <2>1. SoundKey(k) /\ LastTouch(k, n)
    BY TurnsStay DEF SoundKey
  <2>2. FineKey(k)
    <3> SUFFICES ASSUME NEW m \in DOMAIN committed, Touches(committed[m], k)
                 PROVE  ledger[committed[m]] # "failed_terminal" /\ committed[m] \notin undone
      BY DEF FineKey
    <3>1. ledger'[committed[m]] # "failed_terminal" /\ committed[m] \notin undone'
      BY DEF FineKey, Touches
    <3>. QED  BY <1>1, <1>2, <3>1
  <2>3. (ledgered \/ Gone(n)) /\ k \notin DOMAIN flushing.docs
    <3>1. CASE ledgered
      BY <3>1 DEF SearchInv, FlushPlace
    <3>2. CASE ~ledgered
      <4>1. n <= flushedTo
        BY <1>1, <1>2, <3>2 DEF Gone
      <4>2. Gone(n)
        BY <1>2, <4>1 DEF Gone
      <4>3. \A m \in DOMAIN committed : flushedTo < m => ~Touches(committed[m], k)
        BY <1>2, <2>1, <4>1 DEF LastTouch
      <4>. QED  BY <4>2, <4>3 DEF SearchInv, FlushPlace
    <3>. QED  BY <3>1, <3>2
  <2>4. doc[k] = current[k].stance
    BY <2>1, <2>2, <2>3 DEF SearchInv, GoneIsShown, ShownNow
  <2>. QED  BY <1>1, <2>4 DEF ShownNow
<1>. QED  BY <1>3, <1>4, <1>5, <1>6, <1>7

\* A flush begins with the first turn beyond the log's mark and no documents.
LEMMA SearchFlushBegins ==
  ASSUME SearchInv, BeginFlush
  PROVE  TablesSearched' /\ LastIsKnown' /\ TurnsOnce' /\ LedgerOK' /\ FlushPlace' /\ GoneIsShown'
<1>1. /\ flushing = NoFlush /\ flushing.at = "idle" /\ DOMAIN flushing.docs = {}
      /\ flushedTo < Len(committed) /\ flushedTo \in Nat /\ Len(committed) \in Nat
      /\ UNCHANGED <<events, current, doc, settling, committed, flushedTo, ledgered, ledger,
                     conflicted, undone, clock>>
      /\ flushing' = [NoFlush EXCEPT !.at = "running", !.next = flushedTo + 1, !.hi = Len(committed)]
  BY DEF BeginFlush, SearchInv, FlushPlace, BeliefInv, CogTyped, NoFlush
<1>2. /\ flushing'.at = "running" /\ flushing'.next = flushedTo + 1 /\ flushing'.hi = Len(committed)
      /\ DOMAIN flushing'.docs = {}
  BY <1>1 DEF NoFlush
<1>3. TablesSearched'
  BY <1>1 DEF SearchInv, TablesSearched, RowsSayLast, Tables
<1>4. LastIsKnown' /\ TurnsOnce'
  BY <1>1, TurnsStay
<1>5. LedgerOK'
  BY <1>1 DEF SearchInv, LedgerOK
<1>6. FlushPlace'
  BY <1>1, <1>2 DEF FlushPlace
<1>7. GoneIsShown'
  <2> SUFFICES ASSUME NEW k \in CogKeys, NEW n \in DOMAIN committed,
                      SoundKey(k)', FineKey(k)', LastTouch(k, n)', ledgered' \/ Gone(n)'
               PROVE  ShownNow(k)' = current'[k].stance
    BY <1>1 DEF GoneIsShown
  <2>1. SoundKey(k) /\ FineKey(k) /\ LastTouch(k, n)
    BY <1>1, TurnsStay DEF SoundKey, FineKey, Touches
  <2>2. ledgered \/ Gone(n)
    BY <1>1, <1>2 DEF Gone
  <2>3. doc[k] = current[k].stance
    BY <1>1, <2>1, <2>2 DEF SearchInv, GoneIsShown, ShownNow
  <2>. QED  BY <1>1, <1>2, <2>3 DEF ShownNow
<1>. QED  BY <1>3, <1>4, <1>5, <1>6, <1>7

\* What a flush has held back is shown, and the log's mark moves to its end.
LEMMA SearchFlushEnds ==
  ASSUME SearchInv, CommitFlush
  PROVE  TablesSearched' /\ LastIsKnown' /\ TurnsOnce' /\ LedgerOK' /\ FlushPlace' /\ GoneIsShown'
<1>1. /\ flushing.at = "running" /\ flushing.next = flushing.hi + 1
      /\ flushing.hi \in Nat /\ flushing.hi <= Len(committed)
      /\ UNCHANGED <<events, settling, committed, ledgered, ledger, undone>>
      /\ doc' = Overlaid(flushing.docs, doc) /\ flushedTo' = flushing.hi
      /\ flushing' = NoFlush
      /\ conflicted' = conflicted \cup DOMAIN flushing.bumped
  BY DEF CommitFlush, SearchInv, FlushPlace, BeliefInv, CogTyped, FlushShaped
<1>2. flushing'.at = "idle" /\ DOMAIN flushing'.docs = {}
  BY <1>1 DEF NoFlush
<1>3. \A k \in CogKeys : k \notin conflicted' => k \notin conflicted /\ current'[k] = current[k]
  BY DEF CommitFlush
<1>4. DOMAIN doc = CogKeys /\ DOMAIN flushing.docs \subseteq CogKeys
  <2>1. DOMAIN doc = CogKeys
    BY DEF SearchInv, TablesSearched, DocShaped
  <2>2. ASSUME NEW k \in DOMAIN flushing.docs
        PROVE  k \in CogKeys
    <3>1. PICK m \in DOMAIN committed : Touches(committed[m], k)
      BY DEF SearchInv, FlushPlace
    <3>2. PICK ops \in Seq(CognitionOps) : ops = settling[committed[m]].ops
      BY CommittedAre DEF SearchInv
    <3>3. PICK j \in DOMAIN ops : ops[j].key = k
      BY <3>1, <3>2 DEF Touches
    <3>4. ops[j] \in CognitionOps
      OBVIOUS
    <3>. QED  BY <3>3, <3>4 DEF CognitionOps
  <2>. QED  BY <2>1, <2>2
<1>5. DocShaped(doc') /\ \A k \in CogKeys : doc'[k] = ShownNow(k)
  BY <1>1, <1>4 DEF Overlaid, DocShaped, ShownNow
<1>6. TablesSearched'
  <2>1. RowsSayLast(Tables)'
    BY <1>1, <1>3 DEF SearchInv, TablesSearched, RowsSayLast, Tables
  <2>. QED  BY <1>5, <2>1 DEF TablesSearched, DocShaped
<1>7. LastIsKnown' /\ TurnsOnce'
  BY <1>1, TurnsStay
<1>8. LedgerOK'
  <2>1. ASSUME ~ledgered, NEW n \in DOMAIN committed, n > flushing.hi,
               ledger[committed[n]] = "applied", committed[n] \notin undone
        PROVE  FALSE
    <3>1. n \in Nat /\ n > flushedTo
      BY <1>1, <2>1 DEF SearchInv, FlushPlace, BeliefInv, CogTyped
    <3>2. n < flushing.next
      BY <2>1, <3>1 DEF SearchInv, LedgerOK
    <3>. QED  BY <1>1, <2>1, <3>1, <3>2
  <2>. QED  BY <1>1, <2>1 DEF SearchInv, LedgerOK
<1>9. FlushPlace'
  BY <1>1, <1>2 DEF FlushPlace
<1>10. GoneIsShown'
  <2> SUFFICES ASSUME NEW k \in CogKeys, NEW n \in DOMAIN committed,
                      SoundKey(k)', FineKey(k)', LastTouch(k, n)', ledgered' \/ Gone(n)'
               PROVE  ShownNow(k)' = current'[k].stance
    BY <1>1 DEF GoneIsShown
  <2>1. SoundKey(k) /\ FineKey(k) /\ LastTouch(k, n) /\ current'[k] = current[k]
    BY <1>1, <1>3, TurnsStay DEF SoundKey, FineKey, Touches
  <2>2. ledgered \/ Gone(n)
    BY <1>1, <1>2 DEF Gone
  <2>3. ShownNow(k) = current[k].stance
    BY <2>1, <2>2 DEF SearchInv, GoneIsShown
  <2>. QED  BY <1>2, <1>5, <2>1, <2>3 DEF ShownNow
<1>. QED  BY <1>6, <1>7, <1>8, <1>9, <1>10

\* What a flush writes of the last turn that touched a key is what the row says.
LEMMA WritesTheRow ==
  ASSUME SearchInv, NEW n \in DOMAIN committed, NEW k \in CogKeys, SoundKey(k), LastTouch(k, n),
         NEW ops, ops = settling[committed[n]].ops
  PROVE  k \in DOMAIN DocsOf(ops) /\ DocsOf(ops)[k] = current[k].stance
<1>1. PICK i \in DOMAIN events :
        LastEvent(events, k, i) /\ events[i].settlement \in TurnSettlements
  BY DEF SoundKey
<1>2. current[k].stance = StanceLeft(events[i])
  <2>1. PICK x \in DOMAIN events : /\ LastEvent(events, k, x)
                                   /\ current[k].stance = StanceLeft(events[x])
    BY DEF SoundKey, SearchInv, TablesSearched, RowsSayLast, Tables
  <2>2. x = i
    <3>1. x \in Nat /\ i \in Nat
      BY DEF SearchInv, BeliefInv, TablesOK, Tables
    <3>. QED  BY <1>1, <2>1, <3>1 DEF LastEvent
  <2>. QED  BY <2>1, <2>2
<1>3. ops \in Seq(CognitionOps) /\ \A m \in DOMAIN committed : m \in Nat
  BY CommittedAre DEF SearchInv, BeliefInv, CogTyped
<1>4. PICK j \in DOMAIN ops : LastOp(ops, k, j) /\ StanceLeft(events[i]) = StanceLeft(ops[j])
  <2>1. PICK m \in DOMAIN committed :
          /\ LastTouch(k, m)
          /\ \E j \in DOMAIN settling[committed[m]].ops :
               /\ LastOp(settling[committed[m]].ops, k, j)
               /\ StanceLeft(events[i]) = StanceLeft(settling[committed[m]].ops[j])
    BY <1>1 DEF SearchInv, LastIsKnown
  <2>2. m = n
    BY <1>3, <2>1 DEF LastTouch
  <2>. QED  BY <2>1, <2>2
<1>5. k \in DOMAIN DocsOf(ops)
  BY <1>4 DEF LastOp, DocsOf, SoundKey
<1> DEFINE last == CHOOSE x \in DOMAIN ops : ops[x].key = k /\
                     \A y \in DOMAIN ops : ops[y].key = k => y <= x
<1>6. last = j
  <2>1. \A x \in DOMAIN ops : x \in Nat
    BY <1>3
  <2>2. /\ last \in DOMAIN ops /\ ops[last].key = k
        /\ \A y \in DOMAIN ops : ops[y].key = k => y <= last
    <3>1. j \in DOMAIN ops /\ ops[j].key = k /\ \A y \in DOMAIN ops : ops[y].key = k => y <= j
      BY <1>4 DEF LastOp
    <3>. QED  BY <3>1
  <2> HIDE DEF last
  <2>. QED  BY <1>4, <2>1, <2>2 DEF LastOp
<1>7. DocsOf(ops)[k] = StanceLeft(ops[last])
  <2>1. DocsOf(ops)[k] =
          IF ops[last].op = "retract"
          THEN IF KindOf[k] = "assertion" THEN "rejected" ELSE "abandoned"
          ELSE ops[last].stance
    BY <1>5, Zenon DEF DocsOf
  <2> HIDE DEF last
  <2>. QED  BY <2>1 DEF StanceLeft, SoundKey
<1>. QED  BY <1>2, <1>4, <1>5, <1>6, <1>7

\* A flush goes past one more turn: it skips it, is rolled back, or holds the
\* documents of its keys.
LEMMA SearchFlushGoesThrough ==
  ASSUME SearchInv, FlushSettlement
  PROVE  TablesSearched' /\ LastIsKnown' /\ TurnsOnce' /\ LedgerOK' /\ FlushPlace' /\ GoneIsShown'
<1>1. /\ flushing.at = "running" /\ flushing.next <= flushing.hi /\ flushing.next \in DOMAIN committed
      /\ flushing.next \in Nat /\ flushing.hi \in Nat /\ flushing.hi <= Len(committed)
      /\ flushedTo \in Nat /\ flushedTo < flushing.next
      /\ \A n \in DOMAIN committed : n \in Nat /\ committed[n] \in TurnSettlements
  BY CommittedAre DEF FlushSettlement, SearchInv, FlushPlace, BeliefInv, CogTyped, FlushShaped
<1>2. PICK s, ops : /\ s = committed[flushing.next] /\ ops = settling[s].ops
                    /\ s \in TurnSettlements /\ s \in Settlements
                    /\ settling[s].at = "committed"
                    /\ ops \in Seq(CognitionOps) /\ AllKnown(events, s, ops)
  BY <1>1, CommittedAre DEF SearchInv
<1>3. /\ ProcessSettlement(s)
      /\ UNCHANGED <<settling, committed, flushedTo, ledgered, conflicted>>
  BY <1>2 DEF FlushSettlement
<1>4. PICK t : t = AppendOps(s, ops, clock + 1) /\ t.events = events /\ t.current = current
               /\ t.doc = doc
  <2>1. Len(ops) \in Nat /\ DOMAIN ops = 1..Len(ops)
    BY <1>2
  <2>2. AppendOps(s, ops, clock + 1) = Tables
    BY <1>2, <2>1, AppendKnown
  <2>. QED  BY <2>2 DEF Tables
<1>5. ASSUME FailedAs(s, "failed_terminal") \/ FailedAs(s, "failed_retryable"), ~Settled(s),
             UNCHANGED <<events, current, doc>>
      PROVE  TablesSearched' /\ LastIsKnown' /\ TurnsOnce' /\ LedgerOK' /\ FlushPlace' /\ GoneIsShown'
  <2>1. PICK how \in {"failed_terminal", "failed_retryable"} : ledger' = [ledger EXCEPT ![s] = how]
    BY <1>5 DEF FailedAs
  <2>2. RollBack
    BY <1>5 DEF FailedAs
  <2>3. ledger' \in [TurnSettlements -> {"none", "applied", "failed_retryable", "failed_terminal"}]
    BY <2>1 DEF SearchInv, LedgerOK
  <2>4. ~ledgered
    BY <1>1, <1>2, <1>5 DEF SearchInv, LedgerOK, Settled
  <2>5. \A r \in TurnSettlements :
          \/ ledger'[r] = ledger[r]
          \/ /\ ~ledgered /\ settling[r].at = "committed"
             /\ ledger[r] # "failed_terminal" /\ ledger'[r] # "applied"
    BY <1>2, <1>5, <2>1, <2>4 DEF SearchInv, LedgerOK, Settled
  <2>. QED  BY <1>1, <1>3, <1>5, <2>2, <2>3, <2>5, RolledBack
<1>6. ASSUME UNCHANGED <<events, current, doc, undone>>,
             flushing'.at = "running", flushing'.next = flushing.next + 1, flushing'.hi = flushing.hi,
             flushing.marked \subseteq flushing'.marked,
             \A r \in TurnSettlements : r # s => ledger'[r] = ledger[r],
             ledger[s] # "failed_terminal" \/ ledger'[s] = ledger[s],
             LedgerOK', DOMAIN flushing.docs \subseteq DOMAIN flushing'.docs,
             \A k \in DOMAIN flushing'.docs :
               k \in DOMAIN flushing.docs \/ (~ledgered /\ Touches(s, k)),
             \A k : ~Touches(s, k) => ShownNow(k)' = ShownNow(k),
             \A k \in CogKeys : SoundKey(k) /\ FineKey(k)' /\ LastTouch(k, flushing.next) =>
               ShownNow(k)' = current[k].stance
      PROVE  TablesSearched' /\ LastIsKnown' /\ TurnsOnce' /\ LedgerOK' /\ FlushPlace' /\ GoneIsShown'
  <2>1. TablesSearched'
    BY <1>3, <1>6 DEF SearchInv, TablesSearched, RowsSayLast, Tables
  <2>2. LastIsKnown' /\ TurnsOnce'
    BY <1>3, <1>6, TurnsStay
  <2>3. FlushPlace'
    <3>1. ASSUME NEW k \in DOMAIN flushing'.docs
          PROVE  ~ledgered /\ \E m \in DOMAIN committed :
                   flushedTo < m /\ m < flushing.next + 1 /\ Touches(committed[m], k)
      <4>1. CASE k \in DOMAIN flushing.docs
        BY <1>1, <4>1 DEF SearchInv, FlushPlace
      <4>2. CASE ~ledgered /\ Touches(s, k)
        <5>1. flushing.next < flushing.next + 1
          BY <1>1
        <5>. QED  BY <1>1, <1>2, <4>2, <5>1
      <4>. QED  BY <1>6, <4>1, <4>2
    <3>2. flushedTo < flushing.next + 1 /\ flushing.next + 1 <= flushing.hi + 1
      BY <1>1
    <3>. QED  BY <1>3, <1>6, <3>1, <3>2 DEF SearchInv, FlushPlace, Touches
  <2>4. GoneIsShown'
    <3> SUFFICES ASSUME NEW k \in CogKeys, NEW n \in DOMAIN committed,
                        SoundKey(k)', FineKey(k)', LastTouch(k, n)', ledgered \/ Gone(n)'
                 PROVE  ShownNow(k)' = current[k].stance
      BY <1>3, <1>6 DEF GoneIsShown
    <3>1. SoundKey(k) /\ LastTouch(k, n)
      BY <1>3, <1>6, TurnsStay DEF SoundKey
    <3>2. FineKey(k)
      <4> SUFFICES ASSUME NEW m \in DOMAIN committed, Touches(committed[m], k)
                   PROVE  ledger[committed[m]] # "failed_terminal" /\ committed[m] \notin undone
        BY DEF FineKey
      <4>1. ledger'[committed[m]] # "failed_terminal" /\ committed[m] \notin undone'
        BY <1>3 DEF FineKey, Touches
      <4>. QED  BY <1>1, <1>6, <4>1
    <3>3. CASE n = flushing.next
      BY <1>6, <3>1, <3>3
    <3>4. CASE n # flushing.next
      <4>1. ledgered \/ Gone(n)
        BY <1>1, <1>6, <3>4 DEF Gone
      <4>2. ShownNow(k) = current[k].stance
        BY <3>1, <3>2, <4>1 DEF SearchInv, GoneIsShown
      <4>3. CASE ~Touches(s, k)
        BY <1>6, <4>2, <4>3
      <4>4. CASE Touches(s, k)
        <5>1. ledgered
          BY <1>1, <1>2, <1>6, <3>1, <3>4, <4>4 DEF LastTouch, Gone
        <5>2. k \notin DOMAIN flushing'.docs /\ k \notin DOMAIN flushing.docs
          BY <1>6, <5>1 DEF SearchInv, FlushPlace
        <5>. QED  BY <1>6, <4>2, <5>2 DEF ShownNow
      <4>. QED  BY <4>3, <4>4
    <3>. QED  BY <3>3, <3>4
  <2>. QED  BY <1>6, <2>1, <2>2, <2>3, <2>4
<1>7. CASE Settled(s)
  <2>1. flushing' = [flushing EXCEPT !.next = @ + 1]
        /\ UNCHANGED <<events, current, doc, ledger, undone, clock>>
    BY <1>3, <1>7 DEF ProcessSettlement
  <2>2. /\ flushing'.at = "running" /\ flushing'.next = flushing.next + 1
        /\ flushing'.hi = flushing.hi /\ flushing'.docs = flushing.docs
        /\ flushing'.marked = flushing.marked
    BY <1>1, <2>1 DEF SearchInv, BeliefInv, CogTyped, FlushShaped
  <2>3. \A k : ShownNow(k)' = ShownNow(k)
    BY <2>1, <2>2 DEF ShownNow
  <2>4. LedgerOK'
    <3>1. \A n \in DOMAIN committed : n < flushing.next => n < flushing.next + 1
      BY <1>1
    <3>. QED  BY <1>1, <1>3, <2>1, <2>2, <3>1 DEF SearchInv, LedgerOK
  <2>5. ASSUME NEW k \in CogKeys, SoundKey(k), FineKey(k)', LastTouch(k, flushing.next)
        PROVE  ShownNow(k)' = current[k].stance
    <3>1. FineKey(k)
      BY <1>3, <2>1, <2>5 DEF FineKey, Touches
    <3>2. ledger[s] = "applied" /\ s \notin undone
      BY <1>1, <1>2, <1>7, <2>5, <3>1 DEF FineKey, LastTouch, Settled
    <3>3. ledgered
      BY <1>1, <1>2, <3>2 DEF SearchInv, LedgerOK
    <3>4. ShownNow(k) = current[k].stance
      BY <1>1, <2>5, <3>1, <3>3 DEF SearchInv, GoneIsShown
    <3>. QED  BY <2>3, <3>4
  <2>. QED  BY <1>6, <2>1, <2>2, <2>3, <2>4, <2>5
<1>8. CASE ~Settled(s) /\ Allowed(ops) # DOMAIN ops
  <2>1. FailedAs(s, "failed_terminal") /\ UNCHANGED <<events, current, doc>>
    BY <1>2, <1>3, <1>8 DEF ProcessSettlement
  <2>. QED  BY <1>5, <1>8, <2>1
<1>9. ASSUME ~Settled(s), ledger' = [ledger EXCEPT ![s] = "applied"],
             UNCHANGED <<events, current, doc, undone>>,
             NEW docs, docs = Overlaid(Changed(DocsOf(ops)), flushing.docs), NEW bumped,
             flushing' = [flushing EXCEPT !.next = @ + 1, !.marked = @ \cup {s},
                            !.docs = docs, !.bumped = bumped]
      PROVE  TablesSearched' /\ LastIsKnown' /\ TurnsOnce' /\ LedgerOK' /\ FlushPlace' /\ GoneIsShown'
  <2>1. /\ flushing'.at = "running" /\ flushing'.next = flushing.next + 1
        /\ flushing'.hi = flushing.hi /\ flushing'.docs = docs
        /\ flushing'.marked = flushing.marked \cup {s}
    BY <1>1, <1>9 DEF SearchInv, BeliefInv, CogTyped, FlushShaped
  <2>2. ~ledgered
    BY <1>1, <1>2, <1>9 DEF SearchInv, LedgerOK, Settled
  <2>3. ledger'[s] = "applied" /\ \A r \in TurnSettlements : r # s => ledger'[r] = ledger[r]
    BY <1>2, <1>9 DEF SearchInv, LedgerOK
  <2>4. LedgerOK'
    <3>1. ledger' \in [TurnSettlements -> {"none", "applied", "failed_retryable", "failed_terminal"}]
      BY <1>9 DEF SearchInv, LedgerOK
    <3>2. \A r \in TurnSettlements : settling[r].at # "committed" => ledger'[r] = "none"
      BY <1>2, <2>3 DEF SearchInv, LedgerOK
    <3>3. ASSUME NEW n \in DOMAIN committed, n > flushedTo,
                 ledger'[committed[n]] = "applied", committed[n] \notin undone
          PROVE  n < flushing.next + 1 /\ committed[n] \in flushing.marked \cup {s}
      <4>1. CASE committed[n] = s
        <5>1. n = flushing.next
          BY <1>1, <1>2, <4>1 DEF SearchInv, TurnsOnce
        <5>. QED  BY <1>1, <4>1, <5>1
      <4>2. CASE committed[n] # s
        <5>1. ledger[committed[n]] = "applied"
          BY <1>1, <2>3, <3>3, <4>2
        <5>2. n < flushing.next /\ committed[n] \in flushing.marked
          BY <2>2, <3>3, <5>1 DEF SearchInv, LedgerOK
        <5>. QED  BY <1>1, <5>2
      <4>. QED  BY <4>1, <4>2
    <3>. QED  BY <1>3, <1>9, <2>1, <2>2, <3>1, <3>2, <3>3 DEF LedgerOK
  <2>5. /\ DOMAIN Changed(DocsOf(ops)) \subseteq DOMAIN DocsOf(ops)
        /\ \A k \in DOMAIN DocsOf(ops) : Touches(s, k)
        /\ \A k \in DOMAIN DocsOf(ops) : k \notin DOMAIN Changed(DocsOf(ops)) =>
             DocsOf(ops)[k] = ShownNow(k)
        /\ \A k \in DOMAIN Changed(DocsOf(ops)) : Changed(DocsOf(ops))[k] = DocsOf(ops)[k]
    <3>1. \A k \in DOMAIN DocsOf(ops) : Touches(s, k)
      BY <1>2 DEF DocsOf, Touches
    <3>2. PICK new : new = DocsOf(ops)
      OBVIOUS
    <3>3. /\ DOMAIN Changed(new) \subseteq DOMAIN new
          /\ \A k \in DOMAIN new : k \notin DOMAIN Changed(new) => new[k] = ShownNow(k)
          /\ \A k \in DOMAIN Changed(new) : Changed(new)[k] = new[k]
      BY DEF Changed, ShownNow
    <3>. QED  BY <3>1, <3>2, <3>3
  <2>6. PICK new : new = Changed(DocsOf(ops))
    OBVIOUS
  <2>7. /\ DOMAIN docs = DOMAIN new \cup DOMAIN flushing.docs
        /\ \A k \in DOMAIN docs : docs[k] = IF k \in DOMAIN new THEN new[k] ELSE flushing.docs[k]
    BY <1>9, <2>6 DEF Overlaid
  <2>8. \A k : ShownNow(k)' = IF k \in DOMAIN new THEN new[k] ELSE ShownNow(k)
    BY <1>9, <2>1, <2>7 DEF ShownNow
  <2>9. ASSUME NEW k \in CogKeys, SoundKey(k), LastTouch(k, flushing.next)
        PROVE  ShownNow(k)' = current[k].stance
    <3>1. k \in DOMAIN DocsOf(ops) /\ DocsOf(ops)[k] = current[k].stance
      BY <1>1, <1>2, <2>9, WritesTheRow
    <3>. QED  BY <2>5, <2>6, <2>8, <3>1
  <2>10. /\ \A k \in DOMAIN docs : k \in DOMAIN flushing.docs \/ Touches(s, k)
         /\ \A k : ~Touches(s, k) => ShownNow(k)' = ShownNow(k)
    BY <2>5, <2>6, <2>7, <2>8
  <2>11. ledger[s] # "failed_terminal"
    BY <1>9 DEF Settled
  <2>. QED  BY <1>6, <1>9, <2>1, <2>2, <2>3, <2>4, <2>7, <2>9, <2>10, <2>11
<1>10. CASE ~Settled(s) /\ Allowed(ops) = DOMAIN ops
  <2>1. \/ UnresolvedEntity(s) /\ UNCHANGED <<events, current, doc>>
        \/ /\ ledger' = [ledger EXCEPT ![s] = "applied"]
           /\ events' = t.events /\ current' = t.current /\ doc' = t.doc
           /\ UNCHANGED undone
           /\ flushing' = [flushing EXCEPT !.next = @ + 1, !.marked = @ \cup {s},
                             !.docs = Overlaid(Changed(DocsOf(ops)), @),
                             !.bumped = Overlaid([k \in Contested(ops) |-> clock'], @)]
    BY <1>2, <1>3, <1>4, <1>10, Zenon DEF ProcessSettlement
  <2>2. CASE UnresolvedEntity(s) /\ UNCHANGED <<events, current, doc>>
    BY <1>5, <1>10, <2>2 DEF UnresolvedEntity
  <2>3. CASE /\ ledger' = [ledger EXCEPT ![s] = "applied"]
             /\ events' = t.events /\ current' = t.current /\ doc' = t.doc
             /\ UNCHANGED undone
             /\ flushing' = [flushing EXCEPT !.next = @ + 1, !.marked = @ \cup {s},
                               !.docs = Overlaid(Changed(DocsOf(ops)), @),
                               !.bumped = Overlaid([k \in Contested(ops) |-> clock'], @)]
    <3>1. PICK docs, bumped : /\ docs = Overlaid(Changed(DocsOf(ops)), flushing.docs)
                              /\ bumped = Overlaid([k \in Contested(ops) |-> clock'], flushing.bumped)
      OBVIOUS
    <3>2. flushing' = [flushing EXCEPT !.next = @ + 1, !.marked = @ \cup {s},
                         !.docs = docs, !.bumped = bumped]
      BY <2>3, <3>1
    <3>3. UNCHANGED <<events, current, doc, undone>>
      BY <1>4, <2>3
    <3>. QED  BY <1>9, <1>10, <2>3, <3>1, <3>2, <3>3
  <2>. QED  BY <2>1, <2>2, <2>3
<1>. QED  BY <1>7, <1>8, <1>10

\* What settles now has not settled before: the settled turns and what each key
\* was touched by stay.
LEMMA TouchesStay ==
  ASSUME BeliefInv, NEW s \in Settlements, BeginSettlement(s) \/ CommitSettlement(s),
         NEW n \in DOMAIN committed
  PROVE  /\ committed[n] # s /\ committed[n] \in TurnSettlements
         /\ settling'[committed[n]] = settling[committed[n]]
         /\ n \in DOMAIN committed' /\ committed'[n] = committed[n]
         /\ \A k : Touches(committed[n], k)' <=> Touches(committed[n], k)
<1>1. committed[n] # s /\ committed[n] \in TurnSettlements
  BY CommittedAre, CognitionAssumption DEF CognitionAssumption, BeginSettlement, CommitSettlement
<1>2. settling'[committed[n]] = settling[committed[n]]
  BY CommittedStays
<1>3. n \in DOMAIN committed' /\ committed'[n] = committed[n]
  <2>1. committed \in Seq(TurnSettlements)
    BY DEF BeliefInv, CogTyped
  <2>2. committed' = committed \/ (s \in TurnSettlements /\ committed' = Append(committed, s))
    BY DEF BeginSettlement, CommitSettlement
  <2>. QED  BY <2>1, <2>2
<1>4. \A k : Touches(committed[n], k)' <=> Touches(committed[n], k)
  BY <1>2, <1>3 DEF Touches
<1>. QED  BY <1>1, <1>2, <1>3, <1>4

\* A settlement that begins has not been in the log.
LEMMA SearchBegins ==
  ASSUME SearchInv, NEW s \in Settlements, BeginSettlement(s)
  PROVE  TablesSearched' /\ LastIsKnown' /\ TurnsOnce' /\ LedgerOK' /\ FlushPlace' /\ GoneIsShown'
<1>1. UNCHANGED <<events, current, doc, committed, flushing, flushedTo, ledgered, ledger,
                  conflicted, undone>>
  BY DEF BeginSettlement
<1>2. PICK raw \in SubmittedOps[s] :
        settling' = [settling EXCEPT ![s] =
          [at |-> "settling", time |-> clock + 1, ops |-> Deduped(raw), commits |-> @.commits + 1]]
  BY DEF BeginSettlement
<1>3. /\ settling'[s].at = "settling" /\ settling'[s].ops = Deduped(raw)
      /\ Distinct(Deduped(raw))
      /\ \A r \in Settlements : r # s => settling'[r] = settling[r]
  <2>1. Distinct(Deduped(raw))
    BY DedupedTyped, CognitionAssumption DEF CognitionAssumption
  <2>. QED  BY <1>2, <2>1 DEF SearchInv, BeliefInv, CogTyped
<1>4. \A n \in DOMAIN committed :
        /\ committed[n] # s /\ committed[n] \in TurnSettlements
        /\ settling'[committed[n]] = settling[committed[n]]
        /\ \A k : Touches(committed[n], k)' <=> Touches(committed[n], k)
  BY TouchesStay DEF SearchInv
<1>5. s \in TurnSettlements => settling[s].at = "idle"
  BY CognitionAssumption DEF CognitionAssumption, BeginSettlement
<1>6. \A k, n : LastTouch(k, n)' <=> LastTouch(k, n)
  <2> SUFFICES ASSUME NEW k, NEW n
               PROVE  LastTouch(k, n)' <=> LastTouch(k, n)
    OBVIOUS
  <2>1. \A m \in DOMAIN committed : Touches(committed[m], k)' <=> Touches(committed[m], k)
    BY <1>4
  <2>. QED  BY <1>1, <2>1 DEF LastTouch
<1>7. TablesSearched'
  BY <1>1 DEF SearchInv, TablesSearched, RowsSayLast, Tables
<1>8. LastIsKnown'
  BY <1>1, <1>4, <1>6 DEF SearchInv, LastIsKnown
<1>9. TurnsOnce'
  <2>1. \A i \in DOMAIN events :
          events[i].settlement \in TurnSettlements => settling'[events[i].settlement].at = "committed"
    BY <1>3, <1>5 DEF SearchInv, TurnsOnce, Settlements
  <2>2. \A r \in Settlements : Distinct(settling'[r].ops)
    BY <1>3 DEF SearchInv, TurnsOnce
  <2>. QED  BY <1>1, <2>1, <2>2 DEF SearchInv, TurnsOnce
<1>10. LedgerOK'
  <2>1. \A r \in TurnSettlements : settling'[r].at # "committed" => ledger[r] = "none"
    BY <1>3, <1>5 DEF SearchInv, LedgerOK, Settlements
  <2>. QED  BY <1>1, <2>1 DEF SearchInv, LedgerOK
<1>11. FlushPlace'
  <2>1. ASSUME NEW k \in DOMAIN flushing.docs
        PROVE  ~ledgered /\ \E m \in DOMAIN committed :
                 flushedTo < m /\ m < flushing.next /\ Touches(committed[m], k)'
    BY <1>1, <1>4 DEF SearchInv, FlushPlace
  <2>. QED  BY <1>1, <2>1 DEF SearchInv, FlushPlace
<1>12. GoneIsShown'
  <2> SUFFICES ASSUME NEW k \in CogKeys, NEW n \in DOMAIN committed,
                      SoundKey(k)', FineKey(k)', LastTouch(k, n)', (ledgered \/ Gone(n))'
               PROVE  ShownNow(k)' = current'[k].stance
    BY <1>1 DEF GoneIsShown
  <2>1. SoundKey(k) /\ LastTouch(k, n) /\ (ledgered \/ Gone(n))
    BY <1>1, <1>6 DEF SoundKey, Gone
  <2>2. FineKey(k)
    BY <1>1, <1>4 DEF FineKey
  <2>. QED  BY <1>1, <2>1, <2>2 DEF SearchInv, GoneIsShown, ShownNow
<1>. QED  BY <1>7, <1>8, <1>9, <1>10, <1>11, <1>12

\* A settlement with operations on a key has a last one.
LEMMA LastOpExists ==
  ASSUME NEW ops \in Seq(CognitionOps), NEW k, \E j \in DOMAIN ops : ops[j].key = k
  PROVE  \E j \in DOMAIN ops : LastOp(ops, k, j)
<1>1. Len(ops) \in Nat /\ DOMAIN ops = 1..Len(ops)
  OBVIOUS
<1> DEFINE Bounds == {m \in Nat : \A i \in DOMAIN ops : ops[i].key = k => i <= m}
<1>2. PICK m \in Bounds : \A n \in Bounds : m <= n
  <2>1. Len(ops) \in Bounds /\ Bounds \in SUBSET Nat
    BY <1>1
  <2> HIDE DEF Bounds
  <2>. QED  BY <2>1, LeastNumber
<1>3. m # 0
  BY <1>1, <1>2
<1>4. m - 1 \in Nat /\ m - 1 \notin Bounds
  BY <1>2, <1>3
<1>5. PICK i \in DOMAIN ops : ops[i].key = k /\ ~(i <= m - 1)
  BY <1>4
<1>6. i = m
  BY <1>1, <1>2, <1>5
<1>. QED  BY <1>2, <1>5, <1>6 DEF LastOp

\* A settlement commits: the keys it touches end with its own last operation, and
\* their documents with them.
LEMMA SearchCommits ==
  ASSUME SearchInv, BeliefInv', NEW s \in Settlements, CommitSettlement(s)
  PROVE  TablesSearched' /\ LastIsKnown' /\ TurnsOnce' /\ LedgerOK' /\ FlushPlace' /\ GoneIsShown'
<1>0. PICK new \in Nat : new = Len(committed) + 1
  BY DEF SearchInv, BeliefInv, CogTyped
<1> DEFINE turn == s \in TurnSettlements
<1>1. PICK ops, time : /\ ops = settling[s].ops /\ time = settling[s].time
                       /\ ops \in Seq(CognitionOps) /\ time \in Nat /\ Distinct(ops)
                       /\ settling[s].at = "settling"
  <2>1. settling[s] \in SettlingStates /\ Distinct(settling[s].ops)
    BY DEF SearchInv, BeliefInv, CogTyped, TurnsOnce
  <2>. QED  BY <2>1 DEF SettlingStates, CommitSettlement
<1>2. PICK t : /\ t = AppendOps(s, ops, time)
               /\ events' = t.events /\ current' = t.current /\ doc' = t.doc
  BY <1>1 DEF CommitSettlement
<1>3. UNCHANGED <<ledgered, flushing, flushedTo, conflicted, undone, clock>>
  BY DEF CommitSettlement
<1>4. /\ \A r \in Settlements : r # s => settling'[r] = settling[r]
      /\ settling'[s].at = "committed" /\ settling'[s].ops = ops
      /\ \A r \in Settlements : settling'[r].ops = settling[r].ops
  <2>1. settling' = [settling EXCEPT ![s].at = "committed"]
    BY DEF CommitSettlement
  <2>2. settling[s] \in SettlingStates
    BY DEF SearchInv, BeliefInv, CogTyped
  <2>. QED  BY <1>1, <2>1, <2>2 DEF SearchInv, BeliefInv, CogTyped, SettlingStates
<1>5. /\ Len(committed) \in Nat /\ new = Len(committed) + 1
      /\ DOMAIN committed = 1..Len(committed)
      /\ \A n \in DOMAIN committed : n \in Nat /\ n < new
      /\ turn => DOMAIN committed' = DOMAIN committed \cup {new} /\ committed'[new] = s
      /\ ~turn => committed' = committed
      /\ Len(committed) <= Len(committed')
  <2>1. committed \in Seq(TurnSettlements)
    BY DEF SearchInv, BeliefInv, CogTyped
  <2>2. CASE turn
    <3>1. committed' = Append(committed, s)
      BY <2>2 DEF CommitSettlement
    <3>. QED  BY <1>0, <2>1, <2>2, <3>1
  <2>3. CASE ~turn
    <3>1. committed' = committed
      BY <2>3 DEF CommitSettlement
    <3>. QED  BY <1>0, <2>1, <2>3, <3>1
  <2>. QED  BY <2>2, <2>3
<1>6. \A n \in DOMAIN committed :
        /\ committed[n] # s /\ committed[n] \in TurnSettlements /\ committed[n] \in Settlements
        /\ settling'[committed[n]] = settling[committed[n]]
        /\ n \in DOMAIN committed' /\ committed'[n] = committed[n]
        /\ \A k : Touches(committed[n], k)' <=> Touches(committed[n], k)
  BY TouchesStay DEF SearchInv, Settlements
<1> HIDE DEF turn
<1>7. \A i \in DOMAIN events : turn => events[i].settlement # s
  BY <1>1 DEF SearchInv, TurnsOnce, turn
<1>8. /\ RowsSayLast(t) /\ DocShaped(t.doc)
      /\ \A k \in CogKeys :
           \/ SameKey(Tables, t, k)
           \/ \E j \in DOMAIN ops : ops[j].key = k /\ EndsWith(t, k, EventOf(s, ops[j], time))
      /\ \A i \in DOMAIN t.events :
           \/ i \in DOMAIN events /\ t.events[i] = events[i]
           \/ t.events[i].settlement = s
      /\ turn => \A k \in CogKeys, j \in DOMAIN ops :
                   LastOp(ops, k, j) => EndsWith(t, k, EventOf(s, ops[j], time))
  <2>1. TablesOK(Tables) /\ RowsSayLast(Tables) /\ DocShaped(doc)
    BY DEF SearchInv, BeliefInv, TablesSearched
  <2>2. turn => Unheard(s)
    BY <1>7 DEF Unheard
  <2>. QED  BY <1>1, <1>2, <2>1, <2>2, AppendOpsAdd
<1>9. TablesSearched'
  <2>1. RowsSayLast(Tables)'
    BY <1>2, <1>3, <1>8 DEF RowsSayLast, Tables
  <2>. QED  BY <1>2, <1>8, <2>1 DEF TablesSearched, DocShaped
<1>10. \A i, j : LastEvent(events', i, j) => j \in DOMAIN events' /\ j \in Nat
  <2>1. events' \in Seq(CogEvents)
    BY DEF BeliefInv, TablesOK, Tables
  <2>. QED  BY <2>1 DEF LastEvent, EventsOf
<1> DEFINE Mine(k) == \E j \in DOMAIN ops : ops[j].key = k
<1>11. ASSUME NEW k \in CogKeys, turn, Mine(k)
       PROVE  /\ \E j \in DOMAIN ops : LastOp(ops, k, j) /\ EndsWith(t, k, EventOf(s, ops[j], time))
              /\ \A n : LastTouch(k, n)' => n = new
              /\ LastTouch(k, new)'
  <2>1. PICK j \in DOMAIN ops : LastOp(ops, k, j)
    BY <1>1, <1>11, LastOpExists
  <2>2. EndsWith(t, k, EventOf(s, ops[j], time))
    BY <1>8, <1>11, <2>1
  <2>3. Touches(committed[new], k)' /\ new \in DOMAIN committed'
    BY <1>4, <1>5, <1>11 DEF Touches
  <2>4. LastTouch(k, new)'
    BY <1>5, <1>11, <2>3 DEF LastTouch
  <2>5. \A n : LastTouch(k, n)' => n = new
    BY <1>5, <1>11, <2>3 DEF LastTouch
  <2>. QED  BY <2>1, <2>2, <2>4, <2>5
<1>12. ASSUME NEW k \in CogKeys, ~(turn /\ Mine(k))
       PROVE  /\ \A n : LastTouch(k, n)' <=> LastTouch(k, n)
              /\ \/ SameKey(Tables, t, k)
                 \/ ~turn /\ \E op : EndsWith(t, k, EventOf(s, op, time))
  <2>1. turn => new \in DOMAIN committed' /\ ~Touches(committed[new], k)'
    BY <1>4, <1>5, <1>12 DEF Touches
  <2>2. ASSUME NEW n
        PROVE  LastTouch(k, n)' <=> LastTouch(k, n)
    <3>1. \A m \in DOMAIN committed :
            m \in DOMAIN committed' /\ (Touches(committed[m], k)' <=> Touches(committed[m], k))
      BY <1>6
    <3>2. \A m \in DOMAIN committed' : m \in DOMAIN committed \/ (turn /\ m = new)
      BY <1>5
    <3>. QED  BY <2>1, <3>1, <3>2 DEF LastTouch
  <2>3. \/ SameKey(Tables, t, k)
        \/ ~turn /\ \E op : EndsWith(t, k, EventOf(s, op, time))
    BY <1>8, <1>12
  <2>. QED  BY <2>2, <2>3
<1> HIDE DEF Mine
<1>13. ASSUME NEW k \in CogKeys, ~(turn /\ Mine(k)), NEW i,
              LastEvent(events', k, i), events'[i].settlement \in TurnSettlements
       PROVE  /\ SameKey(Tables, t, k)
              /\ LastEvent(events, k, i) /\ i \in DOMAIN events /\ events'[i] = events[i]
  <2>1. SameKey(Tables, t, k)
    <3> SUFFICES ASSUME ~turn, NEW op, EndsWith(t, k, EventOf(s, op, time))
                 PROVE  FALSE
      BY <1>12, <1>13
    <3>1. PICK x \in DOMAIN events' : LastEvent(events', k, x) /\ events'[x] = EventOf(s, op, time)
      BY <1>2 DEF EndsWith
    <3>2. x = i
      BY <1>10, <1>13, <3>1 DEF LastEvent
    <3>. QED  BY <1>13, <3>1, <3>2 DEF EventOf, turn
  <2>2. LastEvent(events, k, i)
    BY <1>2, <1>13, <2>1, SameKeyEnds DEF Tables
  <2>3. i \in EventsOf(events, k)
    BY <2>2 DEF LastEvent
  <2>. QED  BY <1>2, <2>1, <2>2, <2>3 DEF SameKey, EventsOf, Tables
<1>14. LastIsKnown'
  <2> SUFFICES ASSUME NEW k \in CogKeys, NEW i \in DOMAIN events',
                      LastEvent(events', k, i), events'[i].settlement \in TurnSettlements
               PROVE  \E n \in DOMAIN committed' :
                        /\ LastTouch(k, n)' /\ committed'[n] = events'[i].settlement
                        /\ \E j \in DOMAIN settling'[committed'[n]].ops :
                             /\ LastOp(settling'[committed'[n]].ops, k, j)
                             /\ StanceLeft(events'[i]) = StanceLeft(settling'[committed'[n]].ops[j])
    BY DEF LastIsKnown
  <2>1. CASE turn /\ Mine(k)
    <3>1. PICK j \in DOMAIN ops : LastOp(ops, k, j) /\ EndsWith(t, k, EventOf(s, ops[j], time))
      BY <1>11, <2>1
    <3>2. PICK x \in DOMAIN events' : LastEvent(events', k, x) /\ events'[x] = EventOf(s, ops[j], time)
      BY <1>2, <3>1 DEF EndsWith
    <3>3. x = i
      BY <1>10, <3>2 DEF LastEvent
    <3>4. events'[i].settlement = s /\ StanceLeft(events'[i]) = StanceLeft(ops[j])
      BY <3>2, <3>3 DEF EventOf, StanceLeft
    <3>5. new \in DOMAIN committed' /\ committed'[new] = s /\ LastTouch(k, new)'
      BY <1>5, <1>11, <2>1
    <3>. QED  BY <1>4, <3>1, <3>4, <3>5
  <2>2. CASE ~(turn /\ Mine(k))
    <3>1. LastEvent(events, k, i) /\ i \in DOMAIN events /\ events'[i] = events[i]
      BY <1>13, <2>2
    <3>2. PICK n \in DOMAIN committed :
            /\ LastTouch(k, n) /\ committed[n] = events[i].settlement
            /\ \E j \in DOMAIN settling[committed[n]].ops :
                 /\ LastOp(settling[committed[n]].ops, k, j)
                 /\ StanceLeft(events[i]) = StanceLeft(settling[committed[n]].ops[j])
      BY <3>1 DEF SearchInv, LastIsKnown
    <3>3. LastTouch(k, n)'
      BY <1>12, <2>2, <3>2
    <3>. QED  BY <1>6, <3>1, <3>2, <3>3
  <2>. QED  BY <2>1, <2>2
<1>15. TurnsOnce'
  <2>1. ASSUME NEW i \in DOMAIN events', events'[i].settlement \in TurnSettlements
        PROVE  settling'[events'[i].settlement].at = "committed"
    <3>1. CASE events'[i].settlement = s
      BY <1>4, <3>1
    <3>2. CASE i \in DOMAIN events /\ events'[i] = events[i] /\ events'[i].settlement # s
      <4>1. settling[events[i].settlement].at = "committed"
        BY <2>1, <3>2 DEF SearchInv, TurnsOnce
      <4>. QED  BY <1>4, <2>1, <3>2, <4>1 DEF Settlements
    <3>. QED  BY <1>2, <1>8, <3>1, <3>2
  <2>2. \A n, m \in DOMAIN committed' : committed'[n] = committed'[m] => n = m
    BY <1>5, <1>6 DEF SearchInv, TurnsOnce
  <2>3. \A r \in Settlements : Distinct(settling'[r].ops)
    BY <1>4 DEF SearchInv, TurnsOnce
  <2>. QED  BY <2>1, <2>2, <2>3 DEF TurnsOnce
<1>16. /\ \A r \in TurnSettlements : r # s => ledger'[r] = ledger[r]
       /\ turn /\ ledgered => ledger'[s] = "applied"
       /\ turn /\ ~ledgered => ledger'[s] = "none"
       /\ ledger' \in [TurnSettlements -> {"none", "applied", "failed_retryable", "failed_terminal"}]
  <2>1. ledger' = IF ledgered /\ turn THEN [ledger EXCEPT ![s] = "applied"] ELSE ledger
    BY DEF CommitSettlement, MarkedAtOnce, turn
  <2>2. turn => ledger[s] = "none"
    BY <1>1 DEF SearchInv, LedgerOK, turn
  <2>. QED  BY <2>1, <2>2 DEF SearchInv, LedgerOK, turn
<1>17. LedgerOK'
  <2>1. \A r \in TurnSettlements : settling'[r].at # "committed" => ledger'[r] = "none"
    BY <1>4, <1>16 DEF SearchInv, LedgerOK, Settlements
  <2>2. ledgered => \A n \in DOMAIN committed' : ledger'[committed'[n]] = "applied"
    BY <1>5, <1>6, <1>16 DEF SearchInv, LedgerOK
  <2>3. ASSUME ~ledgered, NEW n \in DOMAIN committed', n > flushedTo,
               ledger'[committed'[n]] = "applied", committed'[n] \notin undone
        PROVE  flushing.at = "running" /\ n < flushing.next /\ committed'[n] \in flushing.marked
    <3>1. n \in DOMAIN committed /\ committed'[n] = committed[n]
      BY <1>5, <1>6, <1>16, <2>3
    <3>. QED  BY <1>6, <1>16, <2>3, <3>1 DEF SearchInv, LedgerOK
  <2>. QED  BY <1>3, <1>16, <2>1, <2>2, <2>3 DEF LedgerOK
<1>18. FlushPlace'
  <2>1. ASSUME NEW k \in DOMAIN flushing.docs
        PROVE  ~ledgered /\ \E m \in DOMAIN committed' :
                 flushedTo < m /\ m < flushing.next /\ Touches(committed[m], k)'
    <3>1. PICK m \in DOMAIN committed :
            ~ledgered /\ flushedTo < m /\ m < flushing.next /\ Touches(committed[m], k)
      BY DEF SearchInv, FlushPlace
    <3>. QED  BY <1>6, <3>1
  <2>2. flushedTo <= Len(committed')
    BY <1>5 DEF SearchInv, FlushPlace, BeliefInv, CogTyped
  <2>. QED  BY <1>3, <2>1, <2>2 DEF SearchInv, FlushPlace
<1>19. GoneIsShown'
  <2> SUFFICES ASSUME NEW k \in CogKeys, NEW n \in DOMAIN committed',
                      SoundKey(k)', FineKey(k)', LastTouch(k, n)', (ledgered \/ Gone(n))'
               PROVE  ShownNow(k)' = current'[k].stance
    BY DEF GoneIsShown
  <2>1. CASE turn /\ Mine(k)
    <3>1. n = new /\ \E j \in DOMAIN ops : EndsWith(t, k, EventOf(s, ops[j], time))
      BY <1>11, <2>1
    <3>2. ~Gone(n)'
      <4>1. flushing.at = "running" => flushing.next \in Nat /\ flushing.next <= new
        BY <1>5 DEF SearchInv, FlushPlace, BeliefInv, CogTyped, FlushShaped
      <4>2. flushedTo \in Nat /\ flushedTo + 1 <= new
        BY <1>5 DEF SearchInv, FlushPlace, BeliefInv, CogTyped
      <4>3. new \in Nat
        BY <1>0
      <4>. QED  BY <1>3, <3>1, <4>1, <4>2, <4>3 DEF Gone
    <3>3. ledgered
      BY <1>3, <3>2
    <3>4. k \notin DOMAIN flushing'.docs
      BY <1>3, <3>3 DEF SearchInv, FlushPlace
    <3>5. current'[k] # NoCognition => doc'[k] = current'[k].stance
      BY <1>2, <3>1 DEF EndsWith
    <3>. QED  BY <3>4, <3>5 DEF SoundKey, ShownNow
  <2>2. CASE ~(turn /\ Mine(k))
    <3>1. PICK i : LastEvent(events', k, i) /\ events'[i].settlement \in TurnSettlements
      BY DEF SoundKey
    <3>2. /\ SameKey(Tables, t, k) /\ LastEvent(events, k, i) /\ i \in DOMAIN events
          /\ events'[i] = events[i]
      BY <1>13, <2>2, <3>1
    <3>3. /\ current'[k] = current[k] /\ doc'[k] = doc[k]
          /\ InOrder(events', k) <=> InOrder(events, k)
      <4>1. current'[k] = current[k] /\ doc'[k] = doc[k]
        BY <1>2, <3>2 DEF SameKey, Tables
      <4>2. InOrder(t.events, k) <=> InOrder(Tables.events, k)
        BY <3>2, SameKeyEnds
      <4>. QED  BY <1>2, <4>1, <4>2 DEF Tables
    <3>4. SoundKey(k)
      BY <1>3, <3>1, <3>2, <3>3 DEF SoundKey
    <3>5. FineKey(k)
      <4> SUFFICES ASSUME NEW m \in DOMAIN committed, Touches(committed[m], k)
                   PROVE  ledger[committed[m]] # "failed_terminal" /\ committed[m] \notin undone
        BY DEF FineKey
      <4>1. m \in DOMAIN committed' /\ Touches(committed[m], k)' /\ committed'[m] = committed[m]
        BY <1>6
      <4>2. ledger'[committed'[m]] # "failed_terminal" /\ committed'[m] \notin undone'
        BY <4>1 DEF FineKey
      <4>. QED  BY <1>3, <1>6, <1>16, <4>1, <4>2
    <3>6. LastTouch(k, n) /\ n \in DOMAIN committed
      BY <1>12, <2>2 DEF LastTouch
    <3>7. ledgered \/ Gone(n)
      BY <1>3 DEF Gone
    <3>8. ShownNow(k) = current[k].stance
      BY <3>4, <3>5, <3>6, <3>7 DEF SearchInv, GoneIsShown
    <3>. QED  BY <1>3, <3>3, <3>8 DEF ShownNow
  <2>. QED  BY <2>1, <2>2
<1>. QED  BY <1>9, <1>14, <1>15, <1>17, <1>18, <1>19

LEMMA SearchStep ==
  ASSUME SearchInv, [CogNext]_cogVars
  PROVE  SearchInv'
<1>1. BeliefInv'
  BY BeliefStep DEF SearchInv
<1> SUFFICES TablesSearched' /\ LastIsKnown' /\ TurnsOnce' /\ LedgerOK' /\ FlushPlace' /\ GoneIsShown'
  BY <1>1 DEF SearchInv
<1>2. ASSUME NEW s \in Settlements, BeginSettlement(s) \/ CommitSettlement(s)
      PROVE  TablesSearched' /\ LastIsKnown' /\ TurnsOnce' /\ LedgerOK' /\ FlushPlace' /\ GoneIsShown'
  BY <1>1, <1>2, SearchBegins, SearchCommits
<1>3. CASE BeginFlush
  BY <1>3, SearchFlushBegins
<1>4. CASE FlushSettlement
  BY <1>4, SearchFlushGoesThrough
<1>5. CASE CommitFlush
  BY <1>5, SearchFlushEnds
<1>6. CASE FlushDies
  <2>1. ledger \in [TurnSettlements -> {"none", "applied", "failed_retryable", "failed_terminal"}]
    BY DEF SearchInv, LedgerOK
  <2>. QED  BY <1>6, <2>1, RolledBack DEF FlushDies
<1>7. CASE UNCHANGED cogVars
  BY <1>7 DEF cogVars, SearchInv, TablesSearched, RowsSayLast, Tables, LastIsKnown, TurnsOnce,
              LedgerOK, FlushPlace, GoneIsShown, SoundKey, FineKey, LastTouch, Touches, Gone, ShownNow
<1>. QED  BY <1>2, <1>3, <1>4, <1>5, <1>6, <1>7, Zenon DEF CogNext

\* Search catches up: where a flush has gone through the log, an assertion that turns
\* alone have touched, in order, is found with the stance its row has, because the
\* last turn on the key is gone through last and its settlement says what the row
\* says (cognition-repo.ts:231).
THEOREM SearchCorrect == CogSpec => []SearchCatchesUp
BY SearchStarts, SearchStep, SearchShows, PTL DEF CogSpec
=============================================================================
