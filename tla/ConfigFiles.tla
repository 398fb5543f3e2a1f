----------------------------- MODULE ConfigFiles -----------------------------
(***************************************************************************)
(* The files a project directory is configured by, and the terminal's      *)
(* `agent` and `config` commands: src/terminal-cli/commands/agent.ts and   *)
(* config.ts, with app/config/agents/ under them.  Every command is a      *)
(* process of its own.  It reads its files one after the other, decides,   *)
(* and writes a whole file in place: nothing locks a file, nothing looks   *)
(* whether it changed since it was read, and whoever reads between the     *)
(* truncation and the last byte finds it torn.                             *)
(*                                                                         *)
(* Left out: wording and layout of the output, the exit codes, the model   *)
(* and the limits of an agent (no command decides by them), and the        *)
(* listing of an empty directory, which reads like a missing file.         *)
(***************************************************************************)
EXTENDS Naturals, FiniteSets, SequencesExt

CONSTANTS
  CliRuns,         \* invocations of the terminal
  CommandsOf,      \* CliRuns -> set of [op, usage, agent, persona, memory, force, selector, secrets]
  Beginnings,      \* [files, keys]: what the directory and the environment may hold
  Shipped,         \* the examples `config init` copies
  PersonaNames,
  NoPersona,       \* an entry without a persona
  NoModel,         \* a model the file does not name
  MaxCuts          \* bound on the writes cut off half way

VARIABLES
  files,           \* name -> what a reader finds
  keys,            \* the providers with an API key in the environment
  cli              \* CliRuns -> where the invocation is

filesVars == <<files, keys, cli>>

(***************************************************************************)
(* What a file holds.                                                      *)
(***************************************************************************)
FileNames == <<".env", "providers", "auth", "agents", "personas", "lore", "runtime">>

\* "odd" is JSON of another shape than the reader of the file wants.
File(state, data) == [is |-> state, data |-> data]
TornFile == File("torn", <<>>)

ValidRoles == {"maiden", "rp_agent", "task_agent"}

Entry(id, role, persona, tools) ==
  [id |-> id, role |-> role, persona |-> persona, tools |-> tools, enabled |-> TRUE]

RejectedRoles(entries) == {i \in DOMAIN entries : entries[i].role \notin ValidRoles}

RepeatedIds(entries) ==
  {i \in DOMAIN entries : \E j \in 1 .. i - 1 : entries[j].id = entries[i].id}

UnknownPersonas(entries, known) ==
  {i \in DOMAIN entries : entries[i].persona # NoPersona /\ entries[i].persona \notin known}

\* An explicit list of tools must hold the one a role-playing agent answers with.
MissesSubmit(entries) ==
  {i \in DOMAIN entries : entries[i].role = "rp_agent" /\ entries[i].tools = "others"}

Diagnostics_Bug(entries, known) ==
  {"config.duplicate_agent_id"} \X RepeatedIds(entries)
  \union {"config.agent_persona_not_found"} \X UnknownPersonas(entries, known)

\* Without a list of personas the caller passes all names.
Diagnostics(entries, known) ==
  {"config.invalid_agent_role"} \X RejectedRoles(entries)
  \union {"config.duplicate_agent_id"} \X RepeatedIds(entries)
  \union {"config.agent_persona_not_found"} \X UnknownPersonas(entries, known)
  \union {"config.rp_missing_submit_rp_turn_permission"} \X MissesSubmit(entries)

\* A wrong role or a repeated id keeps every entry of that id out, the first too.
LoadedAgents(entries) ==
  LET fatal == {entries[i].id : i \in RejectedRoles(entries) \union RepeatedIds(entries)}
  IN {entry \in ToSet(entries) : entry.enabled /\ entry.id \notin fatal}

EnabledAgents(entries) == {entry \in ToSet(entries) : entry.enabled}

\* The file is taken for one with the commands alone at work: nobody else repeats
\* an agent.
OneEntryEach(file) ==
  file.is = "ok" =>
    /\ file.data \in Seq(ToSet(file.data))
    /\ \A i \in DOMAIN file.data :
         DOMAIN file.data[i] = {"id", "role", "persona", "tools", "enabled"}
    /\ RepeatedIds(file.data) = {}

ASSUME ConfigAssumption ==
  /\ \A b \in Beginnings : "agents" \in DOMAIN b.files /\ OneEntryEach(b.files["agents"])
  /\ OneEntryEach(Shipped["agents"])

(***************************************************************************)
(* The commands.                                                           *)
(***************************************************************************)
Creates == {"create-rp", "create-task"}
Switches == {"enable", "disable", "remove"}

\* The files a command looks at, in its order.  `config validate` asks whether
\* the first two exist before it parses anything.
Looks(op) ==
  CASE op \in Switches \union {"create-task", "list"} -> <<"agents">>
    [] op = "create-rp" -> <<"personas", "agents">>
    [] op \in {"show", "validate"} -> <<"agents", "personas">>
    [] op = "write-runtime" -> <<"runtime">>
    [] op = "config-show" -> <<"runtime", "runtime", "auth", "agents", "personas">>
    [] op = "config-validate" ->
         <<".env", "providers", "providers", "agents", "personas", "lore", "runtime">>
    [] op = "init" -> FileNames

Called(command) ==
  [command |-> command, at |-> "called", read |-> <<>>, target |-> "none", content |-> TornFile,
   answer |-> "none", notes |-> {}]

FilesInit ==
  /\ \E b \in Beginnings : files = b.files /\ keys = b.keys
  /\ cli \in {[c \in CliRuns |-> Called(pick[c])] :
               pick \in {f \in [CliRuns -> UNION {CommandsOf[c] : c \in CliRuns}] :
                            \A c \in CliRuns : f[c] \in CommandsOf[c]}}

Command(c) == cli[c].command
LooksOf(c) == Looks(Command(c).op)

Answered(run, answer, notes) == [run EXCEPT !.at = "done", !.answer = answer, !.notes = notes]
WillWrite(run, target, content) ==
  [run EXCEPT !.at = "write", !.target = target, !.content = content]

\* Unknown flags, a missing name, a missing model, or a removal without --force.
RejectUsage(c) ==
  /\ cli[c].at = "called"
  /\ ~Command(c).usage \/ (Command(c).op = "remove" /\ ~Command(c).force)
  /\ cli' = [cli EXCEPT ![c] = Answered(@, "usage", {})]
  /\ UNCHANGED <<files, keys>>

BeginCli(c) ==
  /\ cli[c].at = "called"
  /\ Command(c).usage /\ (Command(c).op = "remove" => Command(c).force)
  /\ cli' = [cli EXCEPT ![c].at = "reading"]
  /\ UNCHANGED <<files, keys>>

\* `config init` keeps a file that exists, unless it is forced.
ReadFile(c) ==
  LET run == cli[c]
      name == LooksOf(c)[Len(run.read) + 1]
      next == [run EXCEPT !.read = Append(@, files[name])]
  IN
  /\ run.at = "reading"
  /\ Len(run.read) < Len(LooksOf(c))
  /\ cli' = [cli EXCEPT ![c] =
       IF Command(c).op = "init" /\ (files[name].is = "missing" \/ Command(c).force)
       THEN WillWrite(next, name, Shipped[name])
       ELSE next]
  /\ UNCHANGED <<files, keys>>

\* What readPersonaIds makes of the file: none of a missing or unreadable one.
PersonaIds(file) == IF file.is = "ok" THEN ToSet(file.data) ELSE {}

\* readAgentFile: an error for a torn file and for one that is not an array.
Entries(file) == IF file.is = "ok" THEN file.data ELSE <<>>
Unreadable_Agents(file) == file.is \in {"torn", "odd"}

Listed_Agent(entries, id) == \E i \in DOMAIN entries : entries[i].id = id
SpotOf(entries, id) == CHOOSE i \in DOMAIN entries :
  entries[i].id = id /\ \A j \in 1 .. i - 1 : entries[j].id # id

Preset(command) ==
  IF command.op = "create-rp" THEN Entry(command.agent, "rp_agent", command.persona, "submit")
                              ELSE Entry(command.agent, "task_agent", NoPersona, "all")

CreateRefused_Bug(command, entries) == FALSE
CreateRefused(command, entries) ==
  command.op \in Creates /\ Listed_Agent(entries, command.agent)

AgentsWritten(command, entries) ==
  CASE command.op \in Creates -> Append(entries, Preset(command))
    [] command.op = "remove" -> RemoveAt(entries, SpotOf(entries, command.agent))
    [] OTHER -> [entries EXCEPT ![SpotOf(entries, command.agent)].enabled = command.op = "enable"]

\* The checks of an `agent` command, in its order.
AgentDenied(command, personas, agents) ==
  LET entries == Entries(agents) IN
  IF command.op = "create-rp" /\ command.persona \notin personas THEN "persona not found"
  ELSE IF Unreadable_Agents(agents) THEN "thrown"
  ELSE IF CreateRefused(command, entries) THEN "already exists"
  ELSE IF /\ command.op \in Switches \union {"show"}
             \/ (command.op = "validate" /\ command.agent # "all")
          /\ ~Listed_Agent(entries, command.agent) THEN "agent not found"
  ELSE "none"

Narrowed(command, entries) ==
  IF command.agent = "all" THEN entries ELSE <<entries[SpotOf(entries, command.agent)]>>

ConcludeAgent(c) ==
  LET command == Command(c)
      run == cli[c]
      agents == run.read[IF command.op = "create-rp" THEN 2 ELSE 1]
      personas == IF command.op = "create-rp" THEN PersonaIds(run.read[1])
                  ELSE IF Len(run.read) = 2 THEN PersonaIds(run.read[2]) ELSE {}
      denied == AgentDenied(command, personas, agents)
      entries == Entries(agents)
  IN
  /\ command.op \in Creates \union Switches \union {"list", "show", "validate"}
  /\ run.at = "reading" /\ Len(run.read) = Len(LooksOf(c))
  /\ cli' = [cli EXCEPT ![c] =
       CASE denied # "none" -> Answered(run, denied, {})
         [] denied = "none" /\ command.op \in Creates \union Switches ->
              WillWrite(run, "agents", File("ok", AgentsWritten(command, entries)))
         [] denied = "none" /\ command.op = "validate" ->
              Answered(run, "ok", Diagnostics(Narrowed(command, entries), personas))
         [] OTHER -> Answered(run, "ok", {})]
  /\ UNCHANGED <<files, keys>>

\* `config validate`: a list of personas that is no array knows nobody, one that
\* is not there or does not parse is not asked.
KnownTo(personas) ==
  CASE personas.is = "ok" -> ToSet(personas.data)
    [] personas.is = "odd" -> {}
    [] OTHER -> PersonaNames

RepeatedPersonas(personas) ==
  IF personas.is = "ok" /\ Cardinality(ToSet(personas.data)) < Len(personas.data)
  THEN {"config.duplicate_persona_id"} ELSE {}

HasChatKey == keys \intersect {"anthropic", "openai", "moonshot"} # {}

MisshapenMemory(runtime) ==
  runtime.is = "odd" \/ (runtime.is = "ok" /\ runtime.data.shape # "ok")

ValidateNotes(read) ==
  {"config.missing_required_file" : i \in {i \in 1 .. 2 : read[i].is = "missing"}}
  \union {"config.parse_error" : i \in {i \in 3 .. 7 : read[i].is = "torn"}}
  \union (IF HasChatKey THEN {} ELSE {"config.missing_required_env"})
  \union (IF MisshapenMemory(read[7]) THEN {"config.invalid_runtime_memory_shape"} ELSE {})
  \union RepeatedPersonas(read[5])
  \union {note[1] : note \in Diagnostics(Entries(read[4]), KnownTo(read[5]))}

\* loadRuntimeConfig gives up on another shape, but passes over a field.
RuntimeFails(runtime) ==
  runtime.is \in {"torn", "odd"} \/ (runtime.is = "ok" /\ runtime.data.shape = "memory")

\* The sections of `config show` and how each is shown; of a broken auth.json only
\* that it is broken, of broken agents an empty list.
ShownSections(command, read) ==
  LET wanted == IF command.selector = "all" THEN {"runtime", "auth", "agents", "personas"}
                ELSE {command.selector}
      how(section) ==
        CASE section = "runtime" /\ RuntimeFails(read[2]) -> "error"
          [] section = "auth" /\ read[3].is \in {"torn", "odd"} -> "error"
          [] section = "auth" /\ read[3].is = "ok" ->
               IF command.secrets THEN "secrets" ELSE "redacted"
          [] OTHER -> "plain"
  IN {<<section, how(section)>> : section \in wanted}

\* Another root than an object is written over without --force, a file that does
\* not parse only with it; everything beside the memory section is kept.
RuntimeWritten(command, runtime) ==
  File("ok", [memory |-> command.memory, shape |-> "ok",
              thinker |-> runtime.is = "ok" /\ runtime.data.thinker])

ConcludeConfig(c) ==
  LET command == Command(c)
      run == cli[c]
  IN
  /\ command.op \in {"config-validate", "config-show", "write-runtime", "init"}
  /\ run.at = "reading" /\ Len(run.read) = Len(LooksOf(c))
  /\ cli' = [cli EXCEPT ![c] =
       CASE command.op = "config-validate" -> Answered(run, "ok", ValidateNotes(run.read))
         [] command.op = "config-show" -> Answered(run, "ok", ShownSections(command, run.read))
         [] command.op = "init" -> Answered(run, "ok", {})
         [] OTHER -> IF run.read[1].is = "torn" /\ ~command.force
                     THEN Answered(run, "parse error", {})
                     ELSE WillWrite(run, "runtime", RuntimeWritten(command, run.read[1]))]
  /\ UNCHANGED <<files, keys>>

\* The file is truncated, then filled.
TruncateFile(c) ==
  /\ cli[c].at = "write"
  /\ files' = [files EXCEPT ![cli[c].target] = TornFile]
  /\ cli' = [cli EXCEPT ![c].at = "writing"]
  /\ UNCHANGED keys

\* `config init` goes on with its next file.
FillFile(c) ==
  /\ cli[c].at = "writing"
  /\ files' = [files EXCEPT ![cli[c].target] = cli[c].content]
  /\ cli' = [cli EXCEPT ![c] =
       IF Command(c).op = "init" THEN [@ EXCEPT !.at = "reading"] ELSE Answered(@, "ok", {})]
  /\ UNCHANGED keys

\* The process dies with its file half written.
CutOff(c) ==
  /\ cli[c].at = "writing"
  /\ Cardinality({d \in CliRuns : cli[d].at = "cut"}) < MaxCuts
  /\ cli' = [cli EXCEPT ![c].at = "cut"]
  /\ UNCHANGED <<files, keys>>

CliNext ==
  \E c \in CliRuns :
    \/ RejectUsage(c) \/ BeginCli(c) \/ ReadFile(c)
    \/ ConcludeAgent(c) \/ ConcludeConfig(c)
    \/ TruncateFile(c) \/ FillFile(c) \/ CutOff(c)

(***************************************************************************)
(* Properties.                                                             *)
(***************************************************************************)

\* Commands that overlap may undo each other, but none of them leaves two entries
\* of one agent behind, which would keep both out of the next start: each writer
\* checks the id in the list it appends to, however old that list is.
OneEntryPerAgent ==
  files["agents"].is = "ok" => RepeatedIds(files["agents"].data) = {}
=============================================================================
