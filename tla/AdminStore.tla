----------------------------- MODULE AdminStore -----------------------------
(***************************************************************************)
(* Personas and lore are JSON files that the cockpit edits: an admin       *)
(* service checks a change against its snapshot, replaces the file through *)
(* a temporary copy and a backup, and reloads the snapshot of the prompts  *)
(* and its own.  Somebody may edit the file by hand meanwhile, a step of   *)
(* the file system may fail, and the process may die.                      *)
(***************************************************************************)
EXTENDS Naturals

CONSTANTS
  Ids,            \* ids of cards or entries
  Values,         \* what one may say
  Absent,         \* no card of that id
  InUse,          \* personas that agents.json refers to
  Missing,        \* no such file
  Torn,           \* a file that does not parse
  MaxEdits,       \* bound on edits by hand
  MaxWrites       \* bound on writes

ASSUME AdminAssumption ==
  /\ Absent \notin Values
  /\ InUse \subseteq Ids
  /\ MaxEdits \in Nat /\ MaxWrites \in Nat

VARIABLES
  kind,           \* "persona" or "lore"
  disk,           \* the file, its temporary copy and its latest backup
  snap,           \* the admin service's snapshot and whether it was ever loaded
  live,           \* what the prompts are built from
  write,          \* the change under way
  reading,        \* what a reload has read and not yet installed
  edits, writes

adminVars == <<kind, disk, snap, live, write, reading, edits, writes>>

Contents == [Ids -> Values \union {Absent}]
Empty == [i \in Ids |-> Absent]

Changes ==
  [op : {"create", "update"}, id : Ids, value : Values]
    \union [op : {"delete"}, id : Ids, value : {Absent}]

IdleWrite == [at |-> "none", change |-> CHOOSE c \in Changes : TRUE,
              next |-> Empty, before |-> Missing, disturbed |-> FALSE]

\* What a load makes of the file: a persona file that does not parse is an
\* error, the runtime's lore is then empty.
Parses == disk.file # Torn
OnDisk == IF disk.file \in Contents THEN disk.file ELSE Empty

AdminInit ==
  /\ kind \in {"persona", "lore"}
  /\ \E c \in {Missing, Empty} : disk = [file |-> c, tmp |-> Missing, bak |-> Missing]
  /\ snap = [content |-> Empty, loaded |-> kind = "persona"]
  /\ live = Empty
  /\ write = IdleWrite
  /\ reading = Missing
  /\ edits = 0 /\ writes = 0

\* createPersona and createLore refuse an id that is there, update and delete
\* one that is not.
Refused(content, change) ==
  (change.op = "create") = (content[change.id] # Absent)

\* The service looks at its snapshot, and keeps that look to the end.
Begin(change) ==
  /\ write.at = "none"
  /\ snap.loaded
  /\ writes < MaxWrites
  /\ ~Refused(snap.content, change)
  /\ write' = [at |-> IF kind = "persona" /\ change.op = "delete" THEN "referenced" ELSE "backup",
               change |-> change,
               next |-> [snap.content EXCEPT ![change.id] = change.value],
               before |-> disk.file, disturbed |-> FALSE]
  /\ writes' = writes + 1
  /\ UNCHANGED <<kind, disk, snap, live, reading, edits>>

\* deletePersona reads agents.json: a persona in use stays.
CheckReferences ==
  /\ write.at = "referenced"
  /\ write' = IF write.change.id \in InUse THEN IdleWrite ELSE [write EXCEPT !.at = "backup"]
  /\ UNCHANGED <<kind, disk, snap, live, reading, edits, writes>>

\* The steps of writeJsonFileAtomic.
BackedUp == IF disk.file = Missing THEN disk.bak ELSE disk.file

BackUp ==
  /\ write.at = "backup"
  /\ disk' = [disk EXCEPT !.bak = BackedUp]
  /\ write' = [write EXCEPT !.at = "open", !.before = disk.file]
  /\ UNCHANGED <<kind, snap, live, reading, edits, writes>>

OpenTmp ==
  /\ write.at = "open"
  /\ disk' = [disk EXCEPT !.tmp = Torn]
  /\ write' = [write EXCEPT !.at = "fill"]
  /\ UNCHANGED <<kind, snap, live, reading, edits, writes>>

FillTmp ==
  /\ write.at = "fill"
  /\ disk' = [disk EXCEPT !.tmp = write.next]
  /\ write' = [write EXCEPT !.at = "rename"]
  /\ UNCHANGED <<kind, snap, live, reading, edits, writes>>

\* Where a rename does not replace, the file is removed first.
WithoutFirst ==
  /\ write.at = "rename"
  /\ disk' = [disk EXCEPT !.file = Missing]
  /\ write' = [write EXCEPT !.at = "renameAgain"]
  /\ UNCHANGED <<kind, snap, live, reading, edits, writes>>

Rename ==
  /\ write.at \in {"rename", "renameAgain"}
  /\ disk' = [disk EXCEPT !.file = disk.tmp, !.tmp = Missing]
  /\ write' = [write EXCEPT !.at = "validate"]
  /\ UNCHANGED <<kind, snap, live, reading, edits, writes>>

Validate ==
  /\ write.at = "validate"
  /\ Parses
  /\ write' = [write EXCEPT !.at = "reloadLive"]
  /\ UNCHANGED <<kind, disk, snap, live, reading, edits, writes>>

\* A step fails: the temporary file goes, and the old file comes back when the
\* new one may be in its place.  A file that was removed first does not.
Restored_Bug == disk.file   \* a mistake: what is there stays

Restored ==
  IF write.at # "validate" THEN disk.file ELSE write.before

FailWrite ==
  /\ write.at \in {"backup", "open", "fill", "rename", "renameAgain", "validate"}
  /\ disk' = [disk EXCEPT !.tmp = Missing, !.file = Restored]
  /\ write' = [write EXCEPT !.at = IF write.at = "renameAgain" THEN "lost" ELSE "failed"]
  /\ UNCHANGED <<kind, snap, live, reading, edits, writes>>

\* persistAndReload and persist: the prompts' snapshot, then the service's own.
\* A load that fails keeps both, except that the runtime's lore is emptied.
ReloadLive ==
  /\ write.at = "reloadLive"
  /\ live' = IF kind = "persona" /\ ~Parses THEN live ELSE OnDisk
  /\ write' = [write EXCEPT !.at = IF kind = "persona" /\ ~Parses THEN "stale" ELSE "reloadSnap"]
  /\ UNCHANGED <<kind, disk, snap, reading, edits, writes>>

ReloadSnap ==
  /\ write.at = "reloadSnap"
  /\ snap' = IF kind = "persona" THEN [content |-> live, loaded |-> TRUE]
             ELSE IF Parses THEN [content |-> OnDisk, loaded |-> TRUE] ELSE snap
  /\ write' = [write EXCEPT !.at = IF kind = "lore" /\ ~Parses THEN "stale" ELSE "done"]
  /\ UNCHANGED <<kind, disk, live, reading, edits, writes>>

\* The read of a reload fails: the request is answered 500 though the file has
\* been replaced.
FailReload ==
  /\ write.at = IF kind = "persona" THEN "reloadLive" ELSE "reloadSnap"
  /\ write' = [write EXCEPT !.at = "stale"]
  /\ UNCHANGED <<kind, disk, snap, live, reading, edits, writes>>

\* From now on the properties do not speak of the write under way.
Disturbed == IF write.at = "none" THEN write ELSE [write EXCEPT !.disturbed = TRUE]

\* The answer: done (2xx), failed (nothing was changed), lost (the file is gone),
\* or stale (the file was changed and a reload failed).
Reply ==
  /\ write.at \in {"done", "failed", "lost", "stale"}
  /\ write' = IdleWrite
  /\ UNCHANGED <<kind, disk, snap, live, reading, edits, writes>>

\* POST /v1/personas:reload, and the load before the first use of the lore.
Reload ==
  /\ kind = "persona" \/ ~snap.loaded
  /\ Parses
  /\ live' = IF kind = "persona" THEN OnDisk ELSE live
  /\ snap' = [content |-> OnDisk, loaded |-> TRUE]
  /\ UNCHANGED <<kind, disk, write, reading, edits, writes>>

\* Two requests may be the first to use the lore: both read the file, and the
\* read of one may return late.
StartLateLoad ==
  /\ kind = "lore" /\ ~snap.loaded
  /\ reading = Missing
  /\ Parses
  /\ reading' = OnDisk
  /\ UNCHANGED <<kind, disk, snap, live, write, edits, writes>>

FinishLateLoad ==
  /\ reading # Missing
  /\ snap' = [content |-> reading, loaded |-> TRUE]
  /\ reading' = Missing
  /\ write' = Disturbed
  /\ UNCHANGED <<kind, disk, live, edits, writes>>

\* Somebody saves the file in an editor.
EditedByHand ==
  {Torn} \union {[disk.file EXCEPT ![i] = v] :
                   i \in IF disk.file \in Contents THEN Ids ELSE {}, v \in Values}

EditByHand ==
  /\ edits < MaxEdits
  /\ \E c \in EditedByHand : disk' = [disk EXCEPT !.file = c]
  /\ edits' = edits + 1
  /\ write' = Disturbed
  /\ UNCHANGED <<kind, snap, live, reading, writes>>

\* A new process loads both from the file; it does not start with a persona file
\* that does not parse.
Restart ==
  /\ kind = "persona" => Parses
  /\ live' = OnDisk
  /\ snap' = IF kind = "persona" THEN [content |-> OnDisk, loaded |-> TRUE]
             ELSE [content |-> Empty, loaded |-> FALSE]
  /\ write' = IdleWrite
  /\ reading' = Missing
  /\ UNCHANGED <<kind, disk, edits, writes>>

AdminNext ==
  \/ \E c \in Changes : Begin(c)
  \/ CheckReferences \/ BackUp \/ OpenTmp \/ FillTmp \/ WithoutFirst \/ Rename
  \/ Validate \/ FailWrite \/ ReloadLive \/ ReloadSnap \/ FailReload \/ Reply
  \/ Reload \/ StartLateLoad \/ FinishLateLoad \/ EditByHand \/ Restart

AdminSpec == AdminInit /\ [][AdminNext]_adminVars

(***************************************************************************)
(* Properties.                                                             *)
(***************************************************************************)

\* A step of a write never leaves a torn file behind it: at every moment, so
\* after every crash, the file is whole, or it has been removed and the backup
\* holds what was in it.  And what the cockpit is told is so: a change that was
\* accepted is in the file, in the snapshot of the prompts and in the one the
\* next change is checked against; one that failed has left the file as it was;
\* after a reload that failed the change is in the file.
FileIsRecoverable ==
  \/ disk.file \in {write.before, write.next}
  \/ disk.file = Missing /\ disk.bak = write.before

AnswerIsTrue ==
  CASE write.at = "done" -> {disk.file, live, snap.content} = {write.next}
    [] write.at = "failed" -> disk.file = write.before
    [] write.at = "lost" -> disk.file = Missing
    [] write.at = "stale" -> disk.file = write.next
    [] OTHER -> TRUE

WritesAreAtomic ==
  (write.at # "none" /\ ~write.disturbed /\ write.before # Torn) =>
    FileIsRecoverable /\ AnswerIsTrue
=============================================================================
