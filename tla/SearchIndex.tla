----------------------------- MODULE SearchIndex -----------------------------
(***************************************************************************)
(* The documents a text search reads, which are derived from the rows of   *)
(* the memory graph.  A commit writes the document of a cognition row in   *)
(* its transaction, the organizer writes those of other rows, in a job of  *)
(* its own, and a rebuild deletes all of a scope and writes them anew, one *)
(* statement at a time, while the others go on.                            *)
(***************************************************************************)
EXTENDS Integers, Sequences, FiniteSets, SequencesExt, FiniteSetsExt

CONSTANTS
  IndexRows,      \* rows that may have a document
  SortOf,         \* the kind of each: entity, event, fact, assertion, ...
  HomeOf,         \* its agent or place, or Commons
  Owners,         \* agents
  Commons, AllOwners,
  Wordings, NoSummary,   \* texts of a row; an event may have no summary yet
  NoRow,
  Organizers,     \* organizer jobs, and the rows each is for
  ChangedBy,
  Rebuilds,       \* rebuilds, and what each is asked for
  AskedOf,
  MaxRowSaves, MaxBreaks   \* bounds on row changes and on rebuilds that break

ASSUME IndexAssumption == IsFiniteSet(IndexRows) /\ IsFiniteSet(Owners)

VARIABLES
  rows,         \* the authority: entity_nodes, event_nodes, fact_edges, ...
  saving,       \* the transaction that changes each row
  docs,         \* search_docs_private, _area, _world, _cognition and _episode
  organizing,   \* organizer jobs
  issued,       \* writes of an organizer that nobody waits for
  embedded, edges,   \* node_embeddings, semantic_edges
  rewriting,   \* rebuilds
  undisturbed,  \* rebuilds since whose start nobody else changed a row or a
                \* document: not in the code
  saves, breaks

indexVars == <<rows, saving, docs, organizing, issued, embedded, edges,
               rewriting, undisturbed, saves, breaks>>

Cognition_Sorts == {"assertion", "evaluation", "commitment"}
IdleSave == [at |-> "idle", row |-> NoRow, found |-> {}]
IdleRebuild == [at |-> "idle", parts |-> <<>>, todo |-> <<>>]

IndexInit ==
  /\ rows = [r \in IndexRows |-> NoRow]
  /\ saving = [r \in IndexRows |-> IdleSave]
  /\ docs = {}
  /\ organizing = [o \in Organizers |-> [at |-> "idle", left |-> <<>>]]
  /\ issued = {} /\ embedded = {} /\ edges = {}
  /\ rewriting = [b \in Rebuilds |-> IdleRebuild]
  /\ undisturbed = {} /\ saves = 0 /\ breaks = 0
-----------------------------------------------------------------------------
(***************************************************************************)
(* Documents.                                                              *)
(***************************************************************************)
Doc(scope, r, text) == [scope |-> scope, ref |-> r, home |-> HomeOf[r], text |-> text]
Without(d) == [scope |-> d.scope, ref |-> d.ref, home |-> d.home, text |-> d.text]

\* The rows that a look-up by reference, and by agent where there is one, may
\* return: LIMIT 1 takes any.
Existing(d) ==
  {e \in docs : e.scope = d.scope /\ e.ref = d.ref
                /\ (d.scope \in {"private", "cognition", "episode"} => e.home = d.home)}

Found(d) == IF Existing(d) = {} THEN {0} ELSE {e.id : e \in Existing(d)}

\* An id that no document has and nobody remembers; the code counts on.
FreshId ==
  LET taken == {d.id : d \in docs} \cup {w.found : w \in issued}
                 \cup UNION {saving[r].found : r \in IndexRows}
  IN  CHOOSE n \in 1..(Cardinality(taken) + 1) : n \notin taken /\ \A k \in 1..(n - 1) : k \in taken

Inserted(d) ==
  docs \cup {[id |-> FreshId, scope |-> d.scope, ref |-> d.ref, home |-> d.home,
              text |-> d.text]}

\* What the second statement of an upsert does: the document found may be
\* gone by then.
Upserted_Docs(d, found) ==
  IF found = 0 THEN Inserted(d)
  ELSE {IF e.id = found THEN [e EXCEPT !.text = d.text, !.home = d.home] ELSE e : e \in docs}
-----------------------------------------------------------------------------
(***************************************************************************)
(* Rows.                                                                   *)
(***************************************************************************)
\* A commit inserts or updates a row; a cognition row gets its document in
\* the same transaction, after a look at what is there.
SaveRow(r, text, kept) ==
  /\ saves < MaxRowSaves /\ saving[r].at = "idle"
  /\ ~kept => rows[r] # NoRow /\ SortOf[r] \in Cognition_Sorts
  /\ text = NoSummary => SortOf[r] = "event"
  /\ LET row == [text |-> text, kept |-> kept]
     IN  /\ rows[r] # row
         /\ IF SortOf[r] \in Cognition_Sorts
            THEN /\ \E found \in Found(Doc("cognition", r, text)) :
                      saving' = [saving EXCEPT ![r] =
                                   [at |-> "open", row |-> row, found |-> {found}]]
                 /\ UNCHANGED rows
            ELSE rows' = [rows EXCEPT ![r] = row] /\ UNCHANGED saving
  /\ saves' = saves + 1 /\ undisturbed' = {}
  /\ UNCHANGED <<docs, organizing, issued, embedded, edges, rewriting, breaks>>

CommitRow(r) ==
  /\ saving[r].at = "open"
  /\ \E found \in saving[r].found :
       LET d == Doc("cognition", r, saving[r].row.text)
       IN  docs' = Upserted_Docs(d, found)
  /\ rows' = [rows EXCEPT ![r] = saving[r].row]
  /\ saving' = [saving EXCEPT ![r] = IdleSave]
  /\ undisturbed' = {}
  /\ UNCHANGED <<organizing, issued, embedded, edges, rewriting, saves, breaks>>
-----------------------------------------------------------------------------
(***************************************************************************)
(* The organizer.                                                          *)
(***************************************************************************)
\* What is embedded of a row: there is some content whenever there is a row.
Rendered(r) == rows[r] # NoRow

\* Rows without content are passed over; a vector of another size than the
\* model's others have fails the job.
StartOrganize(o) ==
  LET known == SelectSeq(ChangedBy[o], Rendered)
  IN  /\ organizing[o].at = "idle"
      /\ IF known = <<>>
         THEN organizing' = [organizing EXCEPT ![o].at = "ended"] /\ UNCHANGED embedded
         ELSE \/ /\ organizing' = [organizing EXCEPT ![o] =
                                     [at |-> "link", left |-> ChangedBy[o]]]
                 /\ embedded' = embedded \cup Range(known)
              \/ organizing' = [organizing EXCEPT ![o].at = "failed"] /\ UNCHANGED embedded
      /\ UNCHANGED <<rows, saving, docs, issued, edges, rewriting, undisturbed, saves, breaks>>

\* The vectors near that of a row: those of its kind, and of cognition those
\* of the agent alone.
Nearest(r) ==
  {n \in embedded : SortOf[n] = SortOf[r]
                    /\ (SortOf[n] \in Cognition_Sorts => HomeOf[n] = HomeOf[r])}

\* Which of the near ones a row is related to depends on their distance and
\* on the words they share.
Linkable(o) ==
  UNION {{r} \X (Nearest(r) \ {r}) : r \in {q \in Range(ChangedBy[o]) : Rendered(q)}}

\* The facade of the store starts the first write and then throws, for the
\* answer of a database is never there at once: the write is done and the job
\* has failed.
LinkSimilar(o) ==
  /\ organizing[o].at = "link"
  /\ \/ /\ \E pair \in Linkable(o) : edges' = edges \cup {pair}
        /\ organizing' = [organizing EXCEPT ![o].at = "failed"]
     \/ organizing' = [organizing EXCEPT ![o].at = "sync"] /\ UNCHANGED edges
  /\ UNCHANGED <<rows, saving, docs, issued, embedded, rewriting, undisturbed,
                 saves, breaks>>

\* The document the organizer keeps of a row: none of an event without a
\* summary; that of a row retracted or rejected is removed.
MaterialScope(r) ==
  CASE SortOf[r] \in Cognition_Sorts \cup {"episode"} -> "private"
    [] SortOf[r] = "entity" /\ HomeOf[r] \in Owners -> "private"
    [] SortOf[r] = "event" /\ HomeOf[r] # Commons -> "area"
    [] OTHER -> "world"

SyncProjection(o) ==
  /\ organizing[o].at = "sync"
  /\ IF organizing[o].left = <<>>
     THEN organizing' = [organizing EXCEPT ![o].at = "ended"] /\ UNCHANGED issued
     ELSE LET r == Head(organizing[o].left)
          IN  IF rows[r] = NoRow \/ rows[r].text = NoSummary
              THEN organizing' = [organizing EXCEPT ![o].left = Tail(@)] /\ UNCHANGED issued
              ELSE /\ organizing' = [organizing EXCEPT ![o].at = "failed"]
                   /\ issued' = issued \cup
                        {[by |-> o, at |-> IF rows[r].kept THEN "look" ELSE "remove",
                          found |-> 0, doc |-> Doc(MaterialScope(r), r, rows[r].text)]}
  /\ UNCHANGED <<rows, saving, docs, embedded, edges, rewriting, undisturbed,
                 saves, breaks>>

\* The statements of an issued write.
LookUp(w) ==
  /\ w.at = "look"
  /\ \E found \in Found(w.doc) :
       issued' = (issued \ {w}) \cup {[w EXCEPT !.at = "write", !.found = found]}
  /\ UNCHANGED <<docs, undisturbed>>

WriteDoc(w) ==
  /\ w.at = "write"
  /\ docs' = Upserted_Docs(w.doc, w.found)
  /\ issued' = issued \ {w} /\ undisturbed' = {}

RemoveDoc(w) ==
  /\ w.at = "remove"
  /\ docs' = {d \in docs : ~(d.scope = "private" /\ d.ref = w.doc.ref)}
  /\ issued' = issued \ {w} /\ undisturbed' = {}

RunIssued(w) ==
  /\ LookUp(w) \/ WriteDoc(w) \/ RemoveDoc(w)
  /\ UNCHANGED <<rows, saving, organizing, embedded, edges, rewriting, saves, breaks>>
-----------------------------------------------------------------------------
(***************************************************************************)
(* The rebuild.                                                            *)
(***************************************************************************)
ScopeOrder == <<"private", "area", "world", "cognition", "episode">>

\* The rows a scope is rebuilt from.
Sourced(r, scope) ==
  /\ rows[r] # NoRow /\ rows[r].text # NoSummary
  /\ CASE scope = "private" ->
            \/ SortOf[r] = "entity" /\ HomeOf[r] \in Owners
            \/ SortOf[r] \in Cognition_Sorts /\ rows[r].kept
       [] scope = "area" -> SortOf[r] = "event" /\ HomeOf[r] # Commons
       [] scope = "world" -> SortOf[r] \in {"event", "entity", "fact"} /\ HomeOf[r] = Commons
       [] scope = "cognition" -> SortOf[r] \in Cognition_Sorts
       [] scope = "episode" -> SortOf[r] = "episode"

Wide == {"area", "world"}

AuthorityDocs(scope, owner) ==
  {Doc(scope, r, rows[r].text) :
     r \in {q \in IndexRows : Sourced(q, scope) /\ (scope \in Wide \/ HomeOf[q] = owner)}}

\* Whom a rebuild for all agents goes through: those who have rows.
Listed(scope) ==
  {a \in Owners : \E r \in IndexRows :
     /\ rows[r] # NoRow /\ HomeOf[r] = a
     /\ CASE scope = "private"   -> SortOf[r] \in Cognition_Sorts \cup {"entity"}
          [] scope = "cognition" -> SortOf[r] \in Cognition_Sorts
          [] OTHER               -> SortOf[r] = scope}

StartRebuild(b) ==
  /\ rewriting[b].at \in {"idle", "broken"}
  /\ LET asked == AskedOf[b]
         scopes == IF asked.scope = "all" THEN ScopeOrder ELSE <<asked.scope>>
     IN  rewriting' = [rewriting EXCEPT ![b] =
           [at |-> "wipe", todo |-> <<>>,
            parts |-> [i \in DOMAIN scopes |-> [scope |-> scopes[i], owner |-> asked.owner]]]]
  /\ undisturbed' = {b}
  /\ UNCHANGED <<docs, breaks>>

\* Of a part for all agents one part for each is made.
ListOwners(b) ==
  LET part == Head(rewriting[b].parts)
      one == SetToSeq({[scope |-> part.scope, owner |-> a] : a \in Listed(part.scope)})
  IN  /\ rewriting[b].at = "wipe" /\ rewriting[b].parts # <<>>
      /\ part.owner = AllOwners /\ part.scope \notin Wide
      /\ rewriting' = [rewriting EXCEPT ![b].parts = one \o Tail(@)]
      /\ UNCHANGED <<docs, undisturbed, breaks>>

Wiped_Bug(part) == {d \in docs : d.scope = part.scope /\ d.home = part.owner}

\* The documents a part deletes first.
Wiped(part) ==
  {d \in docs : d.scope = part.scope /\ (part.scope \in Wide \/ d.home = part.owner)}

Wipe(b) ==
  LET part == Head(rewriting[b].parts)
  IN  /\ rewriting[b].at = "wipe" /\ rewriting[b].parts # <<>>
      /\ part.owner # AllOwners \/ part.scope \in Wide
      /\ docs' = docs \ Wiped(part)
      /\ rewriting' = [rewriting EXCEPT ![b].at = "read"]
      /\ undisturbed' = undisturbed \cap {b}
      /\ UNCHANGED breaks

ReadAuthority(b) ==
  LET part == Head(rewriting[b].parts)
  IN  /\ rewriting[b].at = "read"
      /\ rewriting' = [rewriting EXCEPT ![b].at = "insert",
                          ![b].todo = SetToSeq(AuthorityDocs(part.scope, part.owner))]
      /\ UNCHANGED <<docs, undisturbed, breaks>>

\* One statement for each document; of an episode there may be one only.
InsertDoc(b) ==
  LET d == Head(rewriting[b].todo)
  IN  /\ rewriting[b].at = "insert"
      /\ IF rewriting[b].todo = <<>>
         THEN /\ rewriting' = [rewriting EXCEPT ![b].at = "wipe", ![b].parts = Tail(@)]
              /\ UNCHANGED <<docs, undisturbed>>
         ELSE IF d.scope = "episode" /\ Existing(d) # {}
         THEN rewriting' = [rewriting EXCEPT ![b].at = "broken"]
              /\ UNCHANGED <<docs, undisturbed>>
         ELSE /\ docs' = Inserted(d)
              /\ rewriting' = [rewriting EXCEPT ![b].todo = Tail(@)]
              /\ undisturbed' = undisturbed \cap {b}
      /\ UNCHANGED breaks

FinishRebuild(b) ==
  /\ rewriting[b].at = "wipe" /\ rewriting[b].parts = <<>>
  /\ rewriting' = [rewriting EXCEPT ![b].at = "done"]
  /\ UNCHANGED <<docs, undisturbed, breaks>>

\* A statement fails or the process dies: what is done stays.
BreakRebuild(b) ==
  /\ rewriting[b].at \in {"wipe", "read", "insert"} /\ breaks < MaxBreaks
  /\ rewriting' = [rewriting EXCEPT ![b].at = "broken"]
  /\ breaks' = breaks + 1
  /\ UNCHANGED <<docs, undisturbed>>

Rebuild(b) ==
  /\ \/ StartRebuild(b) \/ ListOwners(b) \/ Wipe(b) \/ ReadAuthority(b) \/ InsertDoc(b)
     \/ FinishRebuild(b) \/ BreakRebuild(b)
  /\ UNCHANGED <<rows, saving, organizing, issued, embedded, edges, saves>>
-----------------------------------------------------------------------------
IndexNext ==
  \/ \E r \in IndexRows, text \in Wordings, kept \in BOOLEAN : SaveRow(r, text, kept)
  \/ \E r \in IndexRows : CommitRow(r)
  \/ \E o \in Organizers : StartOrganize(o) \/ LinkSimilar(o) \/ SyncProjection(o)
  \/ \E w \in issued : RunIssued(w)
  \/ \E b \in Rebuilds : Rebuild(b)

IndexSpec == IndexInit /\ [][IndexNext]_indexVars
-----------------------------------------------------------------------------
OwnersOf(b) == IF AskedOf[b].owner = AllOwners THEN Owners ELSE {AskedOf[b].owner}

\* What a rebuild leaves when nothing else moved since it began, however often
\* it broke off before and whatever a race had left: each row of its scopes in
\* one document, with the text of the row, and no other (search-rebuild-pg.ts:33).
\* A rebuild for all goes through the agents that have rows of the scope.
RebuildHeals ==
  \A b \in undisturbed : rewriting[b].at = "done" =>
    \A scope \in Range(ScopeOrder), a \in OwnersOf(b) :
      /\ AskedOf[b].scope \in {"all", scope}
      /\ scope \in Wide \/ AskedOf[b].owner # AllOwners \/ a \in Listed(scope)
      => LET kept == {d \in docs : d.scope = scope /\ (scope \in Wide \/ d.home = a)}
         IN  /\ {Without(d) : d \in kept} = AuthorityDocs(scope, a)
             /\ Cardinality(kept) = Cardinality(AuthorityDocs(scope, a))
=============================================================================
