------------------------------- MODULE AppHost -------------------------------
(***************************************************************************)
(* From the files of a directory to a running host, and back:              *)
(* createAppHost (app/host/create-app-host.ts), bootstrapRuntime           *)
(* (bootstrap/runtime.ts) with the registries it fills, `config doctor`    *)
(* (terminal-cli/commands/config.ts), and the callers that start a host    *)
(* and shut it down.                                                       *)
(*                                                                         *)
(* Left out: the wiring of one service to the next, ports and addresses,   *)
(* and the data directory.                                                 *)
(***************************************************************************)
EXTENDS ConfigFiles

CONSTANTS
  Hosts,           \* processes that create a host
  Callings,        \* [role, durable, caller, portFits, memory]: how a host may be created
  PresetProfiles,  \* the agents every runtime has
  Catalog,         \* provider -> [embeds, offered]: the built-in providers
  ProviderOf,      \* model -> provider, after normalizeModelRef
  DefaultChatModel,
  MaxTicks,        \* MAX_CONCURRENT_TICKS
  MaxFileSaves     \* bound on the edits by others

VARIABLES
  hosts,           \* Hosts -> where the host is
  fileSaves        \* edits by others so far

hostVars == <<hosts, fileSaves>>
appVars == <<filesVars, hostVars>>

(***************************************************************************)
(* What the loaders make of a file.                                        *)
(***************************************************************************)
NoMemory == [chat |-> NoModel, embed |-> NoModel, organizer |-> NoModel]

FileMemory(runtime) ==
  IF RuntimeFails(runtime) \/ runtime.is = "missing" THEN NoMemory ELSE runtime.data.memory

ThinkerEnabled(runtime) ==
  IF RuntimeFails(runtime) \/ runtime.is = "missing" THEN FALSE ELSE runtime.data.thinker

Either(a, b) == IF a # NoModel THEN a ELSE b

\* loadConfig: the environment before the file, the organizer's model after the
\* other; a runtime.json that cannot be loaded counts as empty.
ConfigMemory(env, runtime) ==
  LET file == FileMemory(runtime)
      embed == Either(env.embed, file.embed)
  IN [chat |-> Either(env.chat, file.chat), embed |-> embed,
      organizer |-> Either(Either(env.organizer, file.organizer), embed)]

\* The only thing loadConfig refuses without requireAllProviders is a port.  A
\* host then runs on defaults, which name no model.
HostMemory(h, runtime) ==
  IF hosts[h].how.portFits THEN ConfigMemory(hosts[h].how.memory, runtime) ELSE NoMemory

Credentials(auth) == keys \union (IF auth.is = "ok" THEN auth.data ELSE {})

\* A provider with a credential; an experimental one must also be switched on.
\* An entry of providers.json replaces the built-in one.
Offered(auth, overrides) ==
  LET all == (IF overrides.is = "ok" THEN overrides.data ELSE <<>>) @@ Catalog
      some == {p \in DOMAIN all : p \in Credentials(auth) /\ all[p].offered}
  IN [chat |-> some, embed |-> {p \in some : all[p].embeds}]

Resolves(providers, model) == model # NoModel /\ ProviderOf[model] \in providers

\* The status before the memory agent is built.
PreliminaryStatus(memory, offered) ==
  IF memory.embed = NoModel THEN "missing_embedding_model"
  ELSE IF ~Resolves(offered.chat, Either(memory.chat, DefaultChatModel))
    THEN "chat_model_unavailable"
  ELSE IF ~Resolves(offered.embed, memory.embed) THEN "embedding_model_unavailable"
  ELSE IF ~Resolves(offered.embed, Either(memory.organizer, memory.embed))
    THEN "organizer_embedding_model_unavailable"
  ELSE "partial"

\* The agent is built whenever an embedding model is named, and its being there
\* is what the final status asks for.
HasMemoryAgent(memory) == memory.embed # NoModel

PipelineStatus(memory, offered) ==
  IF HasMemoryAgent(memory) THEN "ready" ELSE PreliminaryStatus(memory, offered)

\* The presets, overlaid by the entries of agents.json of the same id.
Registered(agents) ==
  LET loaded == LoadedAgents(Entries(agents))
  IN {p \in PresetProfiles : \A entry \in loaded : entry.id # p.id} \union loaded

(***************************************************************************)
(* Creating a host.                                                        *)
(***************************************************************************)
IsDoctor(h) == hosts[h].how.caller = "doctor"

\* The doctor looks at five files before it creates a host, which reads its own.
BootLooks(h) ==
  (IF IsDoctor(h) THEN <<"runtime", "runtime", "auth", "personas", "agents">> ELSE <<>>)
  \o <<"runtime", "runtime", "auth", "providers", "agents">>

\* What createAppHost read, in its order.
Seen(h, n) == hosts[h].read[Len(BootLooks(h)) - 5 + n]

IdleHost(how) ==
  [how |-> how, at |-> "booting", read |-> <<>>, quiet |-> TRUE, agents |-> {}, status |-> "none",
   sweeper |-> FALSE, pool |-> "none", thinker |-> FALSE, server |-> FALSE, consumer |-> "none",
   lease |-> FALSE, ticks |-> 0, stopped |-> FALSE, verdict |-> "none", cause |-> "none"]

AppInit == FilesInit /\ hosts \in [Hosts -> {IdleHost(how) : how \in Callings}] /\ fileSaves = 0

LookAt(h) ==
  LET looks == BootLooks(h) IN
  /\ hosts[h].at = "booting" /\ Len(hosts[h].read) < Len(looks)
  /\ hosts' = [hosts EXCEPT ![h].read = Append(@, files[looks[Len(@) + 1]])]
  /\ UNCHANGED <<filesVars, fileSaves>>

\* A broken auth.json, providers.json or agents.json throws; a broken
\* runtime.json does not.  The sweeper starts here, before there is a pool, and
\* so its first sweep fails unseen.
Bootstrap(h) ==
  LET memory == HostMemory(h, Seen(h, 1))
      offered == Offered(Seen(h, 3), Seen(h, 4))
      throws == \E n \in 3 .. 5 : Seen(h, n).is \in {"torn", "odd"}
  IN
  /\ hosts[h].at = "booting" /\ Len(hosts[h].read) = Len(BootLooks(h))
  /\ hosts' = [hosts EXCEPT ![h] =
       IF throws THEN [@ EXCEPT !.at = "failed"]
       ELSE [@ EXCEPT !.at = "bootstrapped",
                      !.agents = Registered(Seen(h, 5)),
                      !.status = PipelineStatus(memory, offered),
                      !.thinker = ThinkerEnabled(Seen(h, 2)),
                      !.sweeper = HasMemoryAgent(memory)]]
  /\ UNCHANGED <<filesVars, fileSaves>>

HasConsumer(h) ==
  LET role == hosts[h].how.role IN
  \/ role = "worker"
  \/ role = "server" /\ hosts[h].how.durable
  \/ role = "local" /\ hosts[h].thinker

SweepsLeases(h) ==
  hosts[h].how.role \in {"worker", "maintenance"} \/ (hosts[h].how.role = "server" /\ hosts[h].how.durable)

\* Without a database the call throws and nobody holds the runtime whose sweeper
\* is running.  A local host starts its consumer by itself.
InitializePg(h) ==
  /\ hosts[h].at = "bootstrapped"
  /\ \E up \in BOOLEAN, opened \in {"none", "open"} :
       hosts' = [hosts EXCEPT ![h] =
         IF up THEN [@ EXCEPT !.at = "created", !.pool = "open",
                              !.consumer = IF ~HasConsumer(h) THEN "none"
                                           ELSE IF hosts[h].how.role = "local" THEN "on" ELSE "off"]
         ELSE [@ EXCEPT !.at = "failed", !.status = "none", !.pool = opened]]
  /\ UNCHANGED <<filesVars, fileSaves>>

(***************************************************************************)
(* The doctor.                                                             *)
(***************************************************************************)

\* An unreadable list of agents is passed over when it is no array, like a list
\* of personas.
GraphNotes(personas, agents) ==
  Diagnostics(Entries(agents), IF personas.is = "ok" THEN ToSet(personas.data) ELSE PersonaNames)

StatusSeen(h) == IF hosts[h].at = "created" THEN hosts[h].status ELSE "chat_model_unavailable"

Cause(h) ==
  LET read == hosts[h].read
      down == hosts[h].at = "failed"
  IN
  IF ~hosts[h].how.portFits THEN "config_load_failed"
  ELSE IF ~HasChatKey THEN "missing_api_key"
  ELSE IF read[4].is = "torn" \/ read[5].is = "torn" THEN "config_load_failed"
  ELSE IF GraphNotes(read[4], read[5]) # {} THEN "agent_graph_invalid"
  ELSE IF StatusSeen(h) = "missing_embedding_model" THEN "missing_embedding_model"
  ELSE IF StatusSeen(h) = "chat_model_unavailable"
    THEN IF down THEN "runtime_bootstrap_failed" ELSE "chat_model_unavailable"
  ELSE "none"

VerdictOf(cause) ==
  CASE cause = "none" -> "ready"
    [] cause = "missing_embedding_model" -> "degraded"
    [] OTHER -> "blocked"

Diagnose(h) ==
  /\ IsDoctor(h)
  /\ hosts[h].at \in {"created", "failed"} /\ hosts[h].verdict = "none"
  /\ hosts' = [hosts EXCEPT ![h].cause = Cause(h), ![h].verdict = VerdictOf(Cause(h))]
  /\ UNCHANGED <<filesVars, fileSaves>>

(***************************************************************************)
(* Running and stopping.                                                   *)
(***************************************************************************)

\* The scripts start what they create; the port may be taken, and then the
\* terminal's server shuts the host down.
StartHost(h) ==
  /\ hosts[h].how.caller = "script" /\ hosts[h].at = "created"
  /\ \/ hosts' = [hosts EXCEPT ![h] =
          [@ EXCEPT !.at = "started",
                    !.server = hosts[h].how.role = "server",
                    !.consumer = IF hosts[h].consumer = "none" THEN "none" ELSE "on",
                    !.lease = SweepsLeases(h)]]
     \/ hosts[h].how.role = "server" /\ hosts' = [hosts EXCEPT ![h].at = "unbound"]
  /\ UNCHANGED <<filesVars, fileSaves>>

StartTick(h) ==
  /\ hosts[h].consumer = "on" /\ hosts[h].ticks < MaxTicks
  /\ hosts' = [hosts EXCEPT ![h].ticks = @ + 1]
  /\ UNCHANGED <<filesVars, fileSaves>>

EndTick(h) ==
  /\ hosts[h].ticks > 0
  /\ hosts' = [hosts EXCEPT ![h].ticks = @ - 1]
  /\ UNCHANGED <<filesVars, fileSaves>>

\* Commands shut down in a `finally`; the servers on a signal.
MayShutdown(h) ==
  \/ hosts[h].at = "unbound"
  \/ hosts[h].at = "started"
  \/ hosts[h].at = "created" /\ hosts[h].how.caller = "command"
  \/ hosts[h].at = "created" /\ IsDoctor(h) /\ hosts[h].verdict # "none"

\* No new ticks, and the wait for those that run.
Shutdown(h) ==
  /\ MayShutdown(h) /\ ~hosts[h].stopped
  /\ hosts' = [hosts EXCEPT ![h] =
       [@ EXCEPT !.stopped = TRUE, !.at = "stopping", !.server = FALSE, !.lease = FALSE,
                 !.consumer = IF hosts[h].consumer = "on" THEN "draining"
                              ELSE hosts[h].consumer]]
  /\ UNCHANGED <<filesVars, fileSaves>>

Drained(h) == hosts[h].consumer = "draining" => hosts[h].ticks = 0

CloseRuntime(h) ==
  /\ hosts[h].at = "stopping"
  /\ Drained(h)
  /\ hosts' = [hosts EXCEPT ![h] = [@ EXCEPT !.at = "closed", !.sweeper = FALSE,
                                             !.pool = "closed", !.consumer = "none"]]
  /\ UNCHANGED <<filesVars, fileSaves>>

\* The servers' signal handler calls shutdown without waiting for it and exits:
\* what still ran is cut off, and left to its lease.
ExitProcess(h) ==
  /\ hosts[h].how.caller = "script" /\ hosts[h].at \in {"stopping", "closed"}
  /\ hosts' = [hosts EXCEPT ![h] = [@ EXCEPT !.at = "exited", !.ticks = 0, !.consumer = "none",
                                             !.sweeper = FALSE, !.pool = "closed"]]
  /\ UNCHANGED <<filesVars, fileSaves>>

\* Whose looks at the files a change falls between.
Unquiet ==
  [h \in Hosts |-> [hosts[h] EXCEPT !.quiet = @ /\ (hosts[h].read = <<>> \/ hosts[h].verdict # "none")]]

Writing(runs) == \E c \in CliRuns : runs[c].at = "writing"

\* An editor or another process saves a file in one go.
SaveByOthers(name, file) ==
  /\ fileSaves < MaxFileSaves
  /\ files' = [files EXCEPT ![name] = file]
  /\ fileSaves' = fileSaves + 1
  /\ hosts' = Unquiet
  /\ UNCHANGED <<keys, cli>>

HostNext ==
  \E h \in Hosts :
    \/ LookAt(h) \/ Bootstrap(h) \/ InitializePg(h) \/ Diagnose(h) \/ StartHost(h)
    \/ StartTick(h) \/ EndTick(h) \/ Shutdown(h) \/ CloseRuntime(h) \/ ExitProcess(h)

AppNext ==
  \/ CliNext /\ UNCHANGED fileSaves
       /\ hosts' = IF Writing(cli) \/ Writing(cli') THEN Unquiet ELSE hosts
  \/ HostNext
  \/ \E b \in Beginnings, name \in {"runtime", "agents", "personas"} :
       SaveByOthers(name, b.files[name])

AppSpec == AppInit /\ [][AppNext]_appVars

(***************************************************************************)
(* Properties.                                                             *)
(***************************************************************************)

\* What the doctor calls ready runs: if nobody wrote a file while it looked, the
\* host it created has every enabled agent of agents.json with the entry that is
\* there, whoever wrote it; each plays a persona that is listed, and the memory of
\* conversations is kept.  Validator, loader and registry are three pieces of code.
ReadyMeansLoaded ==
  \A h \in Hosts :
    (hosts[h].verdict = "ready" /\ hosts[h].quiet) =>
      LET read == hosts[h].read
          enabled == EnabledAgents(Entries(read[5]))
      IN /\ enabled \subseteq hosts[h].agents
         /\ read[4].is = "ok" =>
              \A entry \in enabled : entry.persona \in ToSet(read[4].data) \union {NoPersona}
         /\ FileMemory(read[1]).embed # NoModel \/ hosts[h].how.memory.embed # NoModel
=============================================================================
