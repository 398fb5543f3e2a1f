---------------------------- MODULE SharedBlock ----------------------------
(***************************************************************************)
(* A shared block: sections that several agents edit by patches.  Every    *)
(* patch is logged with what it replaced, and every few patches a snapshot *)
(* of the sections is kept, so that the audit can show any past state.     *)
(* The block itself and its attachments are kept by the repository of      *)
(* PostgreSQL, statement by statement.                                     *)
(***************************************************************************)
EXTENDS Naturals, Sequences

CONSTANTS
  Agents,          \* agents that try to edit or attach
  Owner,           \* who created the block
  Admins,          \* rows of shared_block_admins
  Paths,           \* section paths
  Invalid,         \* paths that are not well formed
  Texts,           \* contents and titles
  NoText,          \* no row, or NULL
  SnapshotEvery,   \* AUTO_SNAPSHOT_INTERVAL
  MaxPatches       \* bound on the log

ASSUME BlockAssumption ==
  /\ Owner \in Agents /\ Admins \subseteq Agents
  /\ Invalid \subseteq Paths
  /\ NoText \notin Texts
  /\ SnapshotEvery \in Nat \ {0} /\ MaxPatches \in Nat

VARIABLES
  blockTitle,      \* shared_blocks.title, NoText before the row is there
  sections,        \* shared_block_sections.content
  patchLog,        \* shared_block_patch_log
  snapshots,       \* shared_block_snapshots: sequence number and sections
  attachments      \* shared_block_attachments

blockVars == <<blockTitle, sections, patchLog, snapshots, attachments>>

NoSections == [p \in Paths |-> NoText]

BlockInit ==
  /\ blockTitle = NoText
  /\ sections = NoSections
  /\ patchLog = <<>> /\ snapshots = {} /\ attachments = {}

\* createBlock: the row and its empty snapshot in two statements.
CreateBlock(title) ==
  /\ blockTitle = NoText
  /\ blockTitle' = title
  /\ UNCHANGED <<sections, patchLog, snapshots, attachments>>

FirstSnapshot ==
  /\ blockTitle # NoText
  /\ \A s \in snapshots : s.seq # 0
  /\ snapshots' = snapshots \union {[seq |-> 0, sections |-> NoSections]}
  /\ UNCHANGED <<blockTitle, sections, patchLog, attachments>>

IsAdmin(agent) == blockTitle # NoText /\ agent \in {Owner} \union Admins

Attach(agent, target) ==
  /\ IsAdmin(agent)
  /\ attachments' = attachments \union {target}
  /\ UNCHANGED <<blockTitle, sections, patchLog, snapshots>>

Detach(agent, target) ==
  /\ IsAdmin(agent)
  /\ attachments' = attachments \ {target}
  /\ UNCHANGED <<blockTitle, sections, patchLog, snapshots>>

(***************************************************************************)
(* Patches.                                                                *)
(***************************************************************************)

Patches ==
  [op : {"set_section"}, path : Paths, target : {NoText}, content : Texts]
    \union [op : {"delete_section"}, path : Paths, target : {NoText}, content : {NoText}]
    \union [op : {"move_section"}, path : Paths, target : Paths, content : {NoText}]
    \union [op : {"set_title"}, path : {NoText}, target : {NoText}, content : Texts]

\* applyOp throws: a path is not well formed, or a move finds its target taken.
\* The path of a deletion is not checked.
Throws(patch) ==
  \/ patch.op \in {"set_section", "move_section"} /\ {patch.path, patch.target} \cap Invalid # {}
  \/ patch.op = "move_section" /\ sections[patch.target] # NoText

\* The sections after a patch; a move of a section that is not there is logged
\* and moves nothing.
Patched(content, patch) ==
  CASE patch.op = "set_section" -> [content EXCEPT ![patch.path] = patch.content]
    [] patch.op = "delete_section" -> [content EXCEPT ![patch.path] = NoText]
    [] patch.op = "move_section" ->
         IF content[patch.path] = NoText THEN content
         ELSE [content EXCEPT ![patch.target] = content[patch.path], ![patch.path] = NoText]
    [] OTHER -> content

\* What the log keeps of the state before the patch.
Before(patch) ==
  CASE patch.op \in {"set_section", "delete_section"} -> sections[patch.path]
    [] patch.op = "move_section" -> patch.path
    [] patch.op = "set_title" -> blockTitle

After(patch) ==
  CASE patch.op = "delete_section" -> NoText
    [] patch.op = "move_section" -> patch.target
    [] OTHER -> patch.content

\* The snapshot is written in the transaction of the patch, after it.
Snapshot_Bug(seq, patch) ==        \* a mistake: it is taken before the patch
  IF seq % SnapshotEvery = 0 THEN {[seq |-> seq, sections |-> sections]} ELSE {}

Snapshot(seq, patch) ==
  IF seq % SnapshotEvery = 0
  THEN {[seq |-> seq, sections |-> Patched(sections, patch)]} ELSE {}

ApplyPatch(agent, patch) ==
  LET seq == Len(patchLog) + 1
  IN /\ IsAdmin(agent) /\ ~Throws(patch)
     /\ seq <= MaxPatches
     /\ sections' = Patched(sections, patch)
     /\ blockTitle' = IF patch.op = "set_title" THEN patch.content ELSE blockTitle
     /\ patchLog' = Append(patchLog, [patch |-> patch, before |-> Before(patch),
                                      after |-> After(patch), by |-> agent])
     /\ snapshots' = snapshots \union Snapshot(seq, patch)
     /\ UNCHANGED attachments

BlockNext ==
  \/ \E t \in Texts : CreateBlock(t)
  \/ FirstSnapshot
  \/ \E a \in Agents : \/ \E p \in Patches : ApplyPatch(a, p)
                       \/ \E b \in Agents : Attach(a, b) \/ Detach(a, b)

BlockSpec == BlockInit /\ [][BlockNext]_blockVars

(***************************************************************************)
(* Properties.                                                             *)
(***************************************************************************)

Step(content, entry) ==
  LET patch == entry.patch
  IN CASE patch.op \in {"set_section", "delete_section"} -> [content EXCEPT ![patch.path] = entry.after]
       [] patch.op = "move_section" /\ content[entry.before] # NoText ->
            [content EXCEPT ![entry.after] = content[entry.before], ![entry.before] = NoText]
       [] OTHER -> content

\* The sections that an auditor arrives at who starts from a snapshot.
Replayed(log, snapshot, upTo) ==
  LET at[i \in snapshot.seq..upTo] ==
        IF i = snapshot.seq THEN snapshot.sections ELSE Step(at[i - 1], log[i])
  IN  at[upTo]

Titles(log) == {i \in DOMAIN log : log[i].patch.op = "set_title"}

\* The log and the snapshots tell the truth to an auditor who reads values, not
\* operations: the before and after of the patches since any snapshot lead from
\* it to the present sections, each before is what was there at its turn, and
\* the titles follow each other.
AuditReplays ==
  /\ \A s \in snapshots :
       /\ Replayed(patchLog, s, Len(patchLog)) = sections
       /\ \A i \in (s.seq + 1)..Len(patchLog) :
            patchLog[i].patch.op \in {"set_section", "delete_section"} =>
              patchLog[i].before = Replayed(patchLog, s, i - 1)[patchLog[i].patch.path]
  /\ \A s1, s2 \in snapshots : s1.seq = s2.seq => s1 = s2
  /\ \A i \in Titles(patchLog) :
       LET later == {j \in Titles(patchLog) : j > i}
       IN  /\ later = {} => patchLog[i].after = blockTitle
           /\ \A j \in later : (\A k \in later : j <= k) =>
                patchLog[i].after = patchLog[j].before

=============================================================================
