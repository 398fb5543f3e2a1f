----------------------------- MODULE MCServices -----------------------------
(***************************************************************************)
(* Instances for TLC of the components whose properties are safety only.   *)
(* None of them reads the variables of another: the first state chooses    *)
(* which one runs, and the others stay as they are.                        *)
(***************************************************************************)
EXTENDS PrivateCognition, AdminStore, Gateway, SharedBlock, AreaState,
        PublicMemory, Navigator, Retrieval, SearchIndex, AppHost, ModelStream, TurnRelations, TLC

CONSTANTS
  Running,                         \* the components of this run
  belief, feeling, t1, t2, j1,     \* cognition keys and settlements
  g1, g2, tk1, tk2,                \* requests of the gateway and tokens
  s1, s2, s3, hall, mood, light,   \* settlements with area state
  guest, vault, garden,            \* entities that may become public
  q1, q2, a1, a2,                  \* explores and the agents they are for
  walk, cook, fact, trust, secret, Anyone  \* nodes of the memory graph

VARIABLE focus

Upserted(k, stance, basis, pre) ==
  [op |-> "upsert", key |-> k, stance |-> stance, basis |-> basis, pre |-> pre]
Retracted(k) == [op |-> "retract", key |-> k, stance |-> "none", basis |-> "none", pre |-> "none"]

KindOfInstance == (belief :> "assertion") @@ (feeling :> "evaluation")

\* A belief that is revised, contested and taken back, and one written, taken
\* back and written again in one settlement.
OpsInstance ==
  (t1 :> {<<Upserted(belief, "tentative", "belief", "none"),
            Upserted(feeling, "none", "none", "none")>>,
          <<Upserted(belief, "contested", "none", "accepted")>>})
  @@ (t2 :> {<<Upserted(belief, "accepted", "inference", "none"), Retracted(feeling)>>,
             <<Upserted(belief, "confirmed", "none", "none"), Retracted(belief),
               Upserted(belief, "accepted", "none", "none")>>})
  @@ (j1 :> {<<Upserted(belief, "hypothetical", "none", "none")>>,
             <<Upserted(feeling, "none", "none", "none"), Retracted(feeling)>>})

Route(group, op, scope) == [group |-> group, op |-> op, scope |-> scope, audit |-> group # "none"]

RoutesInstance ==
  (g1 :> {Route("turn", "stream", "write")})
  @@ (g2 :> {Route("lore", "update", "read"), Route("none", "any", "public"),
             Route("lore", "preflight", "read")})

BearerInstance == (g1 :> tk1) @@ (g2 :> tk2)

TokenInstance ==
  {(tk1 :> {"write"}) @@ (tk2 :> {"read"}), tk1 :> {"read"}}

\* Two settlements write one key, a third brings a time of its own.
ArtifactInstance ==
  (s1 :> [area |-> hall, key |-> mood, class |-> "latent", time |-> 0])
  @@ (s2 :> [area |-> hall, key |-> mood, class |-> "public", time |-> 0])
  @@ (s3 :> [area |-> hall, key |-> light, class |-> "latent", time |-> 1])

PublicationsInstance ==
  (s1 :> <<[scope |-> "area", blank |-> FALSE], [scope |-> "world", blank |-> FALSE]>>)
  @@ (s2 :> <<[scope |-> "area", blank |-> FALSE], [scope |-> "area", blank |-> TRUE],
              [scope |-> "world", blank |-> FALSE]>>)

PlaceInstance == (s1 :> hall) @@ (s2 :> Nowhere)

NamedInstance ==
  (hall :> "plain") @@ (guest :> "hidden") @@ (vault :> "secret") @@ (garden :> "plain")

\* An event in the hall, the cook it names, a fact they share with a secret
\* entity of the other agent, and a belief of the first about the cook.
AccessInstance ==
  (walk :> [scope |-> "area", of |-> hall]) @@ (cook :> [scope |-> "public", of |-> Nowhere])
  @@ (fact :> [scope |-> "public", of |-> Nowhere])
  @@ (trust :> [scope |-> "private", of |-> a1]) @@ (secret :> [scope |-> "private", of |-> a2])

Link(a, b, family, sort, row, time) ==
  [a |-> a, b |-> b, family |-> family, kind |-> sort, row |-> row, time |-> time]

LinksInstance == {
  Link(cook, secret, "fact", "fact_relation", fact, 1),
  Link(fact, cook, "stated", "fact_relation", fact, 1),
  Link(fact, secret, "stated", "fact_relation", fact, 1),
  Link(walk, fact, "support", "fact_support", fact, 2),
  Link(walk, cook, "participant", "participant", walk, 1),
  Link(cook, trust, "belief", "fact_relation", trust, 2),
  Link(trust, walk, "relation", "supports", trust, 2)}

ScoreInstance == (walk :> 90) @@ (cook :> 80) @@ (fact :> 70) @@ (trust :> 60) @@ (secret :> 50)

ViewerInstance == (q1 :> a1) @@ (q2 :> a2)
WhereInstance == (q1 :> hall) @@ (q2 :> Nowhere)
BeamInstance == (q1 :> 12) @@ (q2 :> 1)
NoTimeInstance == (q1 :> 0) @@ (q2 :> 0)
PlanTimeInstance == (q1 :> 0) @@ (q2 :> 1)

IntentsInstance == (q1 :> <<"why">>) @@ (q2 :> <<"relationship", "timeline">>)

FoundInstance == (q1 :> {{cook}, {fact, walk}}) @@ (q2 :> {{}, {fact}, {secret, walk}})

Call(role, strategy, on, budget, tokens) ==
  [role |-> role, strategy |-> strategy, on |-> on, budget |-> budget, tokens |-> tokens]

CallsInstance == {
  Call("rp_agent", "default_retrieval", <<>>, <<>>, <<>>),
  Call("rp_agent", "default_retrieval", <<>>, Each(1, 1, 1, 0), [cognition |-> 2]),
  Call("rp_agent", "deep_explain", [episode |-> FALSE], [conflict |-> 1], [narrative |-> 1]),
  Call("maiden", "deep_explain", [conflict |-> TRUE], [narrative |-> 1], <<>>)}

QueriesInstance ==
  {[words |-> words, entities |-> n, placed |-> TRUE] :
     words \in {{}, {"conflict"}, {"why", "change"}, {"timeline", "time", "memory", "scene"}},
     n \in {0, 2}}
  \union {[words |-> {"scene"}, entities |-> 1, placed |-> FALSE]}

EpisodesInstance == {<<>>, <<[text |-> walk], [text |-> cook], [text |-> fact]>>}

Hint(text, event, scope) == [text |-> text, event |-> event, scope |-> scope]

NarrativeInstance == {
  <<Hint(cook, TRUE, "area")>>,
  <<Hint(cook, FALSE, "world"), Hint(NoText, FALSE, "world"), Hint(trust, TRUE, "area"),
    Hint(fact, FALSE, "world")>>}

CognitionInstance == {
  <<[key |-> feeling, text |-> secret, kind |-> "evaluation", stance |-> "none",
     active |-> TRUE, evidence |-> <<>>]>>,
  <<[key |-> belief, text |-> walk, kind |-> "assertion", stance |-> "contested",
     active |-> TRUE, evidence |-> <<[text |-> hall], [text |-> vault]>>],
    [key |-> belief, text |-> fact, kind |-> "assertion", stance |-> "none",
     active |-> TRUE, evidence |-> <<>>],
    [key |-> NoText, text |-> garden, kind |-> "evaluation", stance |-> "none",
     active |-> TRUE, evidence |-> <<>>],
    [key |-> feeling, text |-> trust, kind |-> "commitment", stance |-> "none",
     active |-> FALSE, evidence |-> <<>>]>>}

TokensInstance == [text \in {walk, cook, fact, trust, secret, hall, vault, garden} |->
                     IF text \in {walk, trust} THEN 2 ELSE 1]

SortInstance == (cook :> "event") @@ (walk :> "event") @@ (trust :> "assertion")
                @@ (fact :> "fact") @@ (secret :> "episode")

HomeInstance == (cook :> hall) @@ (walk :> hall) @@ (trust :> a1) @@ (fact :> Nowhere)
                @@ (secret :> a1)

ChangedInstance == s1 :> <<walk, trust, cook>>

AskedInstance == (g1 :> [scope |-> "all", owner |-> a1])
                 @@ (g2 :> [scope |-> "episode", owner |-> Anyone])

\* Commands that add, switch, take out and look at one agent, beside those that
\* write and check the other files.
Memories(chat, embed) == [chat |-> chat, embed |-> embed, organizer |-> NoText]

Run(op) ==
  [op |-> op, usage |-> TRUE, agent |-> a1, persona |-> guest, force |-> FALSE,
   selector |-> "all", secrets |-> FALSE, memory |-> Memories(cook, trust)]

CommandsInstance ==
  (g1 :> {Run("create-rp"), Run("enable"), [Run("remove") EXCEPT !.force = TRUE],
          Run("write-runtime"), Run("config-validate"), [Run("validate") EXCEPT !.agent = "all"]})
  @@ (g2 :> {Run("create-task"), Run("disable"), Run("remove"), [Run("show") EXCEPT !.usage = FALSE],
             [Run("init") EXCEPT !.force = TRUE], Run("init"), Run("validate"),
             [Run("config-show") EXCEPT !.selector = "auth", !.secrets = TRUE], Run("config-show")})

Beginning(present, given) ==
  [files |-> given @@ [name \in ToSet(FileNames) |-> File("missing", <<>>)], keys |-> present]

RuntimeFile(memory, shape, thinker) ==
  File("ok", [memory |-> memory, shape |-> shape, thinker |-> thinker])

BeginningsInstance ==
  {Beginning({}, "agents" :> File("ok", <<>>)),
   Beginning({"anthropic", "openai"},
     "agents" :> File("ok", <<Entry(a2, "rp_agent", guest, "submit")>>)
     @@ "personas" :> File("ok", <<guest>>)
     @@ "runtime" :> RuntimeFile(Memories(NoText, trust), "ok", TRUE)),
   Beginning({"openai"},
     "agents" :> File("ok", <<Entry(a2, "ghost", NoText, "all")>>)
     @@ "personas" :> File("ok", <<vault>>)
     @@ "runtime" :> RuntimeFile(Memories(cook, trust), "ok", FALSE)),
   Beginning({"moonshot"},
     "agents" :> File("ok", <<Entry(a2, "ghost", NoText, "all"), Entry(a1, "rp_agent", vault, "others")>>)
     @@ "personas" :> File("odd", <<>>) @@ "auth" :> File("odd", <<>>)
     @@ "runtime" :> RuntimeFile(Memories(NoText, NoText), "memory", FALSE)),
   Beginning({"anthropic"},
     "agents" :> File("odd", <<>>) @@ "personas" :> File("ok", <<guest, guest>>)
     @@ "providers" :> File("ok", "moonshot" :> [embeds |-> TRUE, offered |-> TRUE])
     @@ "auth" :> File("ok", {"openai"})
     @@ "runtime" :> RuntimeFile(Memories(cook, trust), "field", FALSE))}

ShippedInstance ==
  [name \in ToSet(FileNames) |->
     CASE name = "agents" -> File("ok", <<Entry(a2, "rp_agent", guest, "submit")>>)
       [] name = "personas" -> File("ok", <<guest>>)
       [] name = "auth" -> File("ok", {"openai"})
       [] name = "runtime" -> RuntimeFile(Memories(cook, trust), "ok", FALSE)
       [] OTHER -> File("ok", <<>>)]

Calling(role, durable, caller, fits, memory) ==
  [role |-> role, durable |-> durable, caller |-> caller, portFits |-> fits, memory |-> memory]

PlainCalling == Calling("maintenance", FALSE, "script", TRUE, Memories(cook, trust))

CallingsInstance ==
  {Calling("local", FALSE, "doctor", TRUE, Memories(NoText, NoText)),
   Calling("local", FALSE, "doctor", FALSE, Memories(NoText, trust)),
   Calling("local", FALSE, "command", TRUE, Memories(NoText, trust)),
   Calling("server", TRUE, "script", TRUE, Memories(NoText, NoText)),
   PlainCalling}

CatalogInstance ==
  ("anthropic" :> [embeds |-> FALSE, offered |-> TRUE])
  @@ ("openai" :> [embeds |-> TRUE, offered |-> TRUE])
  @@ ("moonshot" :> [embeds |-> TRUE, offered |-> FALSE])

PresetsInstance == {Entry(feeling, "maiden", NoText, "all"), Entry(belief, "task_agent", NoText, "all")}

ProviderInstance == (cook :> "openai") @@ (trust :> "openai") @@ (walk :> "anthropic")

Ask(flavor, thinks, reader, messages) ==
  [flavor |-> flavor, thinks |-> thinks, reader |-> reader, system |-> TRUE, messages |-> messages]

Hello == Turn("user", {}, NoCall)
PlainRequest == Ask("openai", FALSE, "loop", <<Hello>>)

\* Requests with and without a tool called before, one of whose calls was never answered.
ModelRequestsInstance ==
  {PlainRequest,
   Ask("openai_usage", TRUE, "memory", <<Hello>>),
   Ask("openai", TRUE, "buffered", <<Hello>>),
   Ask("anthropic", FALSE, "buffered", <<Hello, Turn("assistant", {q1}, NoCall), Turn("tool", {}, q1)>>),
   Ask("anthropic", FALSE, "memory", <<Turn("system", {}, NoCall), Hello>>),
   Ask("openai_usage", FALSE, "loop", <<Hello, Turn("assistant", {q1}, NoCall)>>)}

PartsInstance == (q1 :> 2) @@ (q2 :> 1)

Upsert(sort, k, stance) ==
  [op |-> "upsert", key |-> k, kind |-> sort, stance |-> stance, is |-> "ok"]
Local(name, is) == [ref |-> Plain(name), is |-> is]
Written(pre, name) == [pre |-> pre, name |-> name]
Intent(word, from, to) == [intent |-> word, from |-> from, to |-> to, is |-> "ok"]
Factor(pre, name, is) == [ref |-> Written(pre, name), is |-> is]

Outcome(ops, episodes, intents, factors) ==
  [NoOutcome EXCEPT !.reply = TRUE, !.ops = ops, !.episodes = episodes, !.intents = intents,
                    !.factors = factors]

\* One key as an assertion and as an evaluation, references with and without
\* their prefixes, to what is there and to what is not.
WalkSupports(k) == Intent("supports", Written("episode", walk), Written("cognition", k))

OutcomesInstance ==
  (j1 :> {Outcome(<<Upsert("assertion", belief, "contested"), Upsert("evaluation", feeling, "none")>>,
                  <<Local(walk, "ok"), Local(cook, "ok")>>,
                  <<WalkSupports(belief), Intent("triggered", Plain(cook), Plain(feeling)),
                    [WalkSupports(feeling) EXCEPT !.is = "malformed"]>>,
                  <<Factor("", feeling, "ok"), Factor("episode", walk, "ok"),
                    Factor("cognition", feeling, "ok"), Factor("assertion", belief, "ok"),
                    Factor("", belief, "blank")>>),
          Outcome(<<Upsert("evaluation", belief, "none")>>, <<Local(cook, "ok")>>,
                  <<WalkSupports(belief), Intent("triggered", Plain(cook), Plain(belief))>>, <<>>),
          Outcome(<<>>, <<Local(walk, "malformed")>>, <<>>, <<>>)})
  @@ (t2 :> {Outcome(<<Upsert("evaluation", belief, "none")>>, <<Local(walk, "ok")>>,
                     <<WalkSupports(belief)>>, <<>>),
             Outcome(<<Upsert("assertion", belief, "contested"),
                       [Upsert("assertion", feeling, "none") EXCEPT !.is = "malformed"]>>,
                     <<Local(walk, "ok")>>, <<WalkSupports(belief), WalkSupports(feeling)>>,
                     <<Factor("cognition_key", belief, "ok"), Factor("fact", walk, "ok")>>)})
  @@ (t1 :> {[Outcome(<<Upsert("assertion", belief, "contested"), Upsert("commitment", feeling, "none")>>,
                      <<Local(walk, "ok"), Local(feeling, "ok")>>,
                      <<WalkSupports(belief), Intent("triggered", Plain(walk), Plain(feeling)),
                        Intent("triggered", Plain(walk), Plain(belief))>>,
                      <<Factor("episode", walk, "ok"), Factor("", guest, "ok")>>)
               EXCEPT !.publications = <<Local(cook, "ok")>>],
             [Outcome(<<Upsert("evaluation", belief, "none"), Upsert("assertion", feeling, "contested")>>,
                      <<Local(walk, "ok")>>, <<WalkSupports(feeling)>>,
                      <<Factor("publication", cook, "ok"), Factor("", belief, "ok")>>)
               EXCEPT !.publications = <<Local(cook, "ok")>>],
             [NoOutcome EXCEPT !.ops = <<[Upsert("assertion", belief, "none") EXCEPT !.is = "malformed"]>>]})

servicesVars == <<focus, cogVars, adminVars, gatewayVars, blockVars, areaVars, publicVars,
                  navVars, retrievalVars, indexVars, appVars, streamVars, relationVars>>

\* A component that does not run starts in one way only.
ServicesInit ==
  /\ focus \in Running
  /\ CogInit /\ (focus # "beliefs" => ledgered)
  /\ AdminInit /\ (focus # "admin" => kind = "persona" /\ disk.file = Missing)
  /\ GatewayInit
  /\ focus # "gateway" => authFile.content = Unreadable /\ RouteOf(g2).group = "none"
  /\ BlockInit /\ AreaInit /\ PublicInit /\ NavInit /\ RetrievalInit /\ IndexInit /\ RelationInit
  /\ StreamInit /\ (focus # "stream" => request.of = PlainRequest)
  /\ AppInit
  /\ focus \notin {"boot", "files"} => keys = {} /\ cli[g1].command = Run("create-rp")
  /\ focus # "files" => cli[g2].command = Run("remove")
  /\ focus = "boot" => cli[g1].command \in {Run("create-rp"), Run("write-runtime")}
  /\ focus # "boot" => \A h \in Hosts : hosts[h].how = PlainCalling

\* A rebuild of all meets a rebuild of one scope or an organizer.
OrganizerOrRebuild == organizing'[s1].at = "idle" \/ rewriting'[g2].at = "idle"

\* Beside a command nobody else saves a file, but for the plainest of hosts.
EditOrCommand ==
  \/ fileSaves' = 0
  \/ cli'[g1].at = "called"
  \/ hosts[q1].how = PlainCalling

ServicesNext ==
  /\ UNCHANGED focus
  /\ \/ focus = "beliefs" /\ CogNext
          /\ UNCHANGED <<adminVars, gatewayVars, blockVars, areaVars, publicVars, navVars,
                         retrievalVars, indexVars, appVars, streamVars, relationVars>>
     \/ focus = "admin" /\ AdminNext
          /\ UNCHANGED <<cogVars, gatewayVars, blockVars, areaVars, publicVars, navVars,
                         retrievalVars, indexVars, appVars, streamVars, relationVars>>
     \/ focus = "gateway" /\ GatewayNext
          /\ UNCHANGED <<cogVars, adminVars, blockVars, areaVars, publicVars, navVars,
                         retrievalVars, indexVars, appVars, streamVars, relationVars>>
     \/ focus = "block" /\ BlockNext
          /\ UNCHANGED <<cogVars, adminVars, gatewayVars, areaVars, publicVars, navVars,
                         retrievalVars, indexVars, appVars, streamVars, relationVars>>
     \/ focus = "area" /\ AreaNext
          /\ UNCHANGED <<cogVars, adminVars, gatewayVars, blockVars, publicVars, navVars,
                         retrievalVars, indexVars, appVars, streamVars, relationVars>>
     \/ focus = "publish" /\ PublishNext
          /\ UNCHANGED <<cogVars, adminVars, gatewayVars, blockVars, areaVars, navVars,
                         retrievalVars, indexVars, appVars, streamVars, relationVars>>
     \/ focus = "promote" /\ PromoteNext
          /\ UNCHANGED <<cogVars, adminVars, gatewayVars, blockVars, areaVars, navVars,
                         retrievalVars, indexVars, appVars, streamVars, relationVars>>
     \/ focus = "explore" /\ NavNext
          /\ UNCHANGED <<cogVars, adminVars, gatewayVars, blockVars, areaVars, publicVars,
                         retrievalVars, indexVars, appVars, streamVars, relationVars>>
     \/ focus = "retrieve" /\ RetrievalNext
          /\ UNCHANGED <<cogVars, adminVars, gatewayVars, blockVars, areaVars, publicVars,
                         navVars, indexVars, appVars, streamVars, relationVars>>
     \/ focus = "index" /\ IndexNext /\ OrganizerOrRebuild
          /\ UNCHANGED <<cogVars, adminVars, gatewayVars, blockVars, areaVars, publicVars,
                         navVars, retrievalVars, appVars, streamVars, relationVars>>
     \/ focus = "files" /\ CliNext
          /\ UNCHANGED <<cogVars, adminVars, gatewayVars, blockVars, areaVars, publicVars,
                         navVars, retrievalVars, indexVars, hostVars, streamVars, relationVars>>
     \/ focus = "boot" /\ AppNext /\ EditOrCommand /\ cli'[g2] = cli[g2]
          /\ UNCHANGED <<cogVars, adminVars, gatewayVars, blockVars, areaVars, publicVars,
                         navVars, retrievalVars, indexVars, streamVars, relationVars>>
     \/ focus = "stream" /\ StreamNext
          /\ UNCHANGED <<cogVars, adminVars, gatewayVars, blockVars, areaVars, publicVars,
                         navVars, retrievalVars, indexVars, appVars, relationVars>>
     \/ focus = "relate" /\ RelationNext
          /\ UNCHANGED <<cogVars, adminVars, gatewayVars, blockVars, areaVars, publicVars,
                         navVars, retrievalVars, indexVars, appVars, streamVars>>

ServicesSpec == ServicesInit /\ [][ServicesNext]_servicesVars
=============================================================================
