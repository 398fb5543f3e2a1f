------------------------------- MODULE Gateway -------------------------------
(***************************************************************************)
(* The HTTP gateway of the cockpit: what happens to a request from its     *)
(* arrival to its answer (preflight, bearer token, route, handler, audit   *)
(* line), and the event stream of a turn.  The tokens come from a file     *)
(* that may be edited at any time; the process may be started again.       *)
(***************************************************************************)
EXTENDS Naturals, Sequences, FiniteSets, SequencesExt

CONSTANTS
  HttpRequests,      \* requests
  RoutesOf,          \* the routes a request may name: [group, op, scope, audit]
  BearerOf,          \* the token it brings, or NoToken
  NoToken,
  TokenFiles,        \* contents auth.json may have: a function token -> scope
  Unreadable,        \* auth.json cannot be read or does not parse
  MaxSaves,          \* bound on edits of auth.json
  MaxEvents          \* bound on the observations of a turn

ASSUME GatewayAssumption == MaxSaves \in Nat /\ MaxEvents \in Nat \ {0}

VARIABLES
  authFile,          \* what auth.json holds and when it was last saved
  auth,              \* the loader: what it has read, the time it remembers
  http,              \* where each request is
  trail,             \* the audit lines
  sse                \* the events of each turn's stream

gatewayVars == <<authFile, auth, http, trail, sse>>

Untold(route) ==
  [at |-> "new", route |-> route, status |-> 0, principal |-> NoToken, granted |-> {}, unlogged |-> FALSE]
RouteOf(r) == http[r].route
NoStream == [at |-> "none", events |-> <<>>, seen |-> 0, failed |-> FALSE]

(***************************************************************************)
(* The tokens.                                                             *)
(***************************************************************************)

NoTokens == [t \in {} |-> {}]

GatewayInit ==
  /\ authFile \in [content : TokenFiles \union {Unreadable}, saved : {0}]
  /\ auth = [at |-> "down", tokens |-> NoTokens, seen |-> 0, raced |-> FALSE]
  /\ \E route \in [HttpRequests -> UNION {RoutesOf[r] : r \in HttpRequests}] :
       /\ \A r \in HttpRequests : route[r] \in RoutesOf[r]
       /\ http = [r \in HttpRequests |-> Untold(route[r])]
  /\ trail = <<>>
  /\ sse = [r \in HttpRequests |-> NoStream]

SaveAuthFile ==
  /\ authFile.saved < MaxSaves
  /\ \E c \in TokenFiles \union {Unreadable} :
       authFile' = [content |-> c, saved |-> authFile.saved + 1]
  /\ auth' = [auth EXCEPT !.raced = @ \/ auth.at = "parsed"]
  /\ UNCHANGED <<http, trail, sse>>

\* createAuthLoader parses the file and then asks for the time of its last
\* change; -1 stands for a time it does not have.
ParseAtStart ==
  /\ auth.at = "down"
  /\ auth' = IF authFile.content = Unreadable
             THEN [at |-> "up", tokens |-> NoTokens, seen |-> -1, raced |-> FALSE]
             ELSE [at |-> "parsed", tokens |-> authFile.content, seen |-> -1, raced |-> FALSE]
  /\ UNCHANGED <<authFile, http, trail, sse>>

StatAtStart ==
  /\ auth.at = "parsed"
  /\ auth' = [auth EXCEPT !.at = "up", !.seen = authFile.saved]
  /\ UNCHANGED <<authFile, http, trail, sse>>

\* The loader after maybeReloadSnapshot: it reads the file when the time has
\* changed, and keeps what it has when the file cannot be read.
Refreshed_Bug ==              \* a mistake: the reload is not awaited
  IF authFile.content = Unreadable THEN auth ELSE [auth EXCEPT !.seen = authFile.saved, !.raced = FALSE]

Refreshed ==
  IF authFile.saved = auth.seen \/ authFile.content = Unreadable THEN auth
  ELSE [auth EXCEPT !.tokens = authFile.content, !.seen = authFile.saved, !.raced = FALSE]

\* write includes read.
HasRequiredScope(required, granted) ==
  required \in granted \/ "write" \in granted

(***************************************************************************)
(* The handlers: the status of each group of routes, by what the service   *)
(* behind it does.                                                         *)
(***************************************************************************)

\* Create and list sessions.
OpenSessionStatus(op, outcome) ==
  CASE outcome = "ok" -> IF op = "create" THEN 201 ELSE 200
    [] outcome = "unavailable" -> IF op = "list" THEN 501 ELSE 503
    [] outcome = "malformed" -> 400
    [] outcome = "not_found" -> IF op = "create" THEN 400 ELSE 500
    [] outcome = "refused" -> IF op = "list" THEN 400 ELSE 500
    [] OTHER -> 500

\* Close and recover a session; whatever refuses a close makes it 404.
CloseSessionStatus(op, outcome) ==
  CASE outcome = "ok" -> 200
    [] outcome = "unavailable" -> 503
    [] outcome = "malformed" -> 400
    [] outcome = "not_found" -> 404
    [] outcome = "refused" -> IF op = "recover" THEN 400 ELSE 404
    [] OTHER -> 500

\* Episodes, narratives and settlements of an agent.
MemoryStatus(outcome) ==
  CASE outcome = "ok" -> 200
    [] outcome = "unavailable" -> 501
    [] outcome = "malformed" -> 400
    [] OTHER -> 500

\* Core memory blocks, pinned summaries and decisions.
BlockStatus(op, outcome) ==
  CASE outcome = "not_found" /\ op = "block" -> 404
    [] outcome = "refused" /\ op = "decisions" -> 400
    [] OTHER -> MemoryStatus(outcome)

\* The inspection of a request: its trace may be unknown, the rest throws.
InspectStatus(op, outcome) ==
  CASE outcome = "ok" -> 200
    [] outcome = "unavailable" -> IF op = "retrieval" THEN 501 ELSE 503
    [] outcome = "malformed" -> 400
    [] outcome = "not_found" -> IF op = "retrieval" THEN 404 ELSE 500
    [] OTHER -> 500

\* Agents, providers and the runtime: a service that is not there, or an error.
CatalogStatus(op, outcome) ==
  CASE outcome = "ok" -> 200
    [] outcome = "unavailable" -> 501
    [] OTHER -> 500

JobStatus(op, outcome) ==
  CASE outcome = "ok" -> 200
    [] outcome = "unavailable" -> 501
    [] outcome = "malformed" -> 400
    [] outcome = "not_found" -> IF op = "get" THEN 404 ELSE 500
    [] OTHER -> 500

PersonaStatus(op, outcome) ==
  CASE outcome = "ok" -> IF op = "create" THEN 201 ELSE 200
    [] outcome = "unavailable" -> 501
    [] outcome \in {"malformed", "refused"} -> 400
    [] outcome = "not_found" -> 404
    [] outcome = "conflict" -> 409
    [] OTHER -> 500

\* An update of an entry that does not exist is answered 400, unlike the others.
LoreStatus(op, outcome) ==
  CASE outcome = "ok" -> IF op = "create" THEN 201 ELSE 200
    [] outcome = "unavailable" -> 501
    [] outcome \in {"malformed", "refused"} -> 400
    [] outcome = "not_found" -> IF op = "update" THEN 400 ELSE 404
    [] outcome = "conflict" -> IF op = "create" THEN 409 ELSE 500
    [] OTHER -> 500

Outcomes == {"ok", "unavailable", "malformed", "not_found", "refused", "conflict", "broken"}

StatusOf(route, outcome) ==
  CASE route.group = "session" /\ route.op \in {"create", "list"} -> OpenSessionStatus(route.op, outcome)
    [] route.group = "session" /\ route.op \notin {"create", "list"} -> CloseSessionStatus(route.op, outcome)
    [] route.group = "memory" -> MemoryStatus(outcome)
    [] route.group = "block" -> BlockStatus(route.op, outcome)
    [] route.group = "inspect" -> InspectStatus(route.op, outcome)
    [] route.group = "catalog" -> CatalogStatus(route.op, outcome)
    [] route.group = "job" -> JobStatus(route.op, outcome)
    [] route.group = "persona" -> PersonaStatus(route.op, outcome)
    [] route.group = "lore" -> LoreStatus(route.op, outcome)

(***************************************************************************)
(* A request.                                                              *)
(***************************************************************************)

\* An OPTIONS request is answered at once, without token and without audit.
Preflight(r) ==
  /\ auth.at = "up" /\ http[r].at = "new"
  /\ RouteOf(r).op = "preflight"
  /\ \E status \in {204, 400, 403} :
       http' = [http EXCEPT ![r].at = "answered", ![r].status = status]
  /\ UNCHANGED <<authFile, auth, trail, sse>>

\* requireAuth: the route's scope against the token's.
RequireAuth(r) ==
  LET route == RouteOf(r)
      loader == Refreshed
      token == BearerOf[r]
  IN /\ auth.at = "up" /\ http[r].at = "new" /\ route.op # "preflight"
     /\ auth' = loader
     /\ http' = [http EXCEPT ![r] =
          CASE route.scope = "public" -> [@ EXCEPT !.at = "routed", !.principal = "public"]
            [] route.scope # "public" /\ token \notin DOMAIN loader.tokens ->
                 [@ EXCEPT !.at = "finalizing", !.status = 401]
            [] route.scope # "public" /\ token \in DOMAIN loader.tokens ->
                 IF HasRequiredScope(route.scope, loader.tokens[token])
                 THEN [@ EXCEPT !.at = "routed", !.principal = token, !.granted = loader.tokens[token]]
                 ELSE [@ EXCEPT !.at = "finalizing", !.status = 403]]
     /\ UNCHANGED <<authFile, trail, sse>>

NotFound(r) ==
  /\ http[r].at = "routed" /\ RouteOf(r).group = "none"
  /\ http' = [http EXCEPT ![r].at = "finalizing", ![r].status = 404]
  /\ UNCHANGED <<authFile, auth, trail, sse>>

Handle(r) ==
  /\ http[r].at = "routed" /\ RouteOf(r).group \notin {"none", "turn"}
  /\ \E outcome \in Outcomes :
       http' = [http EXCEPT ![r].at = "finalizing", ![r].status = StatusOf(RouteOf(r), outcome)]
  /\ UNCHANGED <<authFile, auth, trail, sse>>

\* finalize: one line for an audited route before the client has its answer; a
\* failed append is only reported, and the client has its answer all the same.
Audited(r) == RouteOf(r).audit

Finalize(r) ==
  /\ http[r].at = "finalizing"
  /\ \/ /\ http' = [http EXCEPT ![r].at = "answered"]
        /\ trail' = IF Audited(r)
                    THEN Append(trail, [request |-> r, status |-> http[r].status,
                                        principal |-> http[r].principal])
                    ELSE trail
     \/ /\ Audited(r)
        /\ http' = [http EXCEPT ![r].at = "answered", ![r].unlogged = TRUE]
        /\ UNCHANGED trail
  /\ UNCHANGED <<authFile, auth, sse>>

(***************************************************************************)
(* The stream of a turn.                                                   *)
(***************************************************************************)

\* What the client sees of an observation; the rest is dropped.
ToGatewayEvent(kind) ==
  CASE kind = "text_delta" -> "delta"
    [] kind = "tool_use_start" -> "tool_call"
    [] kind = "tool_execution_result" -> "tool_result"
    [] kind = "error" -> "error"
    [] OTHER -> "none"

Observations == {"text_delta", "tool_use_start", "tool_execution_result", "error", "message_end"}

Observed(stream, kind) ==
  [stream EXCEPT
    !.seen = @ + 1,
    !.failed = @ \/ kind = "error",
    !.events = IF ToGatewayEvent(kind) = "none" THEN @ ELSE Append(@, ToGatewayEvent(kind))]

\* The handler waits for the first observation before it answers; a turn that
\* throws before is answered with a stream of one error.
OpenStream(r) ==
  /\ http[r].at = "routed" /\ RouteOf(r).group = "turn"
  /\ \/ /\ http' = [http EXCEPT ![r].at = "finalizing", ![r].status = 400]
        /\ UNCHANGED sse
     \/ /\ http' = [http EXCEPT ![r].at = "finalizing", ![r].status = 200]
        /\ \/ sse' = [sse EXCEPT ![r] = [@ EXCEPT !.at = "closed", !.events = <<"error">>, !.failed = TRUE]]
           \/ sse' = [sse EXCEPT ![r] = [@ EXCEPT !.at = "drained", !.events = <<"status">>]]
           \/ \E kind \in Observations :
                sse' = [sse EXCEPT ![r] =
                  Observed([@ EXCEPT !.at = "open", !.events = <<"status">>], kind)]
  /\ UNCHANGED <<authFile, auth, trail>>

NextObservation(r) ==
  /\ http[r].at = "answered" /\ sse[r].at = "open"
  /\ sse[r].seen < MaxEvents
  /\ \E kind \in Observations : sse' = [sse EXCEPT ![r] = Observed(@, kind)]
  /\ UNCHANGED <<authFile, auth, http, trail>>

\* The turn throws: an error event is the last.
TurnThrows(r) ==
  /\ http[r].at = "answered" /\ sse[r].at = "open"
  /\ sse' = [sse EXCEPT ![r].at = "closed", ![r].failed = TRUE, ![r].events = Append(@, "error")]
  /\ UNCHANGED <<authFile, auth, http, trail>>

\* The turn has ended: done follows unless an error was seen.
MayBeDone(stream) == ~stream.failed

EndStream(r) ==
  /\ http[r].at = "answered" /\ sse[r].at \in {"open", "drained"}
  /\ sse' = [sse EXCEPT ![r].at = "closed",
                        ![r].events = IF MayBeDone(sse[r]) THEN Append(@, "done") ELSE @]
  /\ UNCHANGED <<authFile, auth, http, trail>>

\* The client goes away: the generator is returned, the turn behind it is not.
Disconnect(r) ==
  /\ http[r].at = "answered" /\ sse[r].at \in {"open", "drained"}
  /\ sse' = [sse EXCEPT ![r].at = "cancelled"]
  /\ UNCHANGED <<authFile, auth, http, trail>>

\* The process ends and another is started: its requests are gone.
RestartGateway ==
  /\ auth.at # "down"
  /\ auth' = [at |-> "down", tokens |-> NoTokens, seen |-> 0, raced |-> FALSE]
  /\ http' = [r \in HttpRequests |->
       IF http[r].at \in {"routed", "finalizing"} THEN [http[r] EXCEPT !.at = "lost"] ELSE http[r]]
  /\ sse' = [r \in HttpRequests |->
       IF sse[r].at \in {"open", "drained"} THEN [sse[r] EXCEPT !.at = "cancelled"] ELSE sse[r]]
  /\ UNCHANGED <<authFile, trail>>

GatewayNext ==
  \/ SaveAuthFile \/ ParseAtStart \/ StatAtStart \/ RestartGateway
  \/ \E r \in HttpRequests :
       \/ Preflight(r) \/ RequireAuth(r) \/ NotFound(r) \/ Handle(r) \/ Finalize(r)
       \/ OpenStream(r) \/ NextObservation(r) \/ TurnThrows(r) \/ EndStream(r) \/ Disconnect(r)

GatewaySpec == GatewayInit /\ [][GatewayNext]_gatewayVars

(***************************************************************************)
(* Properties.                                                             *)
(***************************************************************************)

\* Whoever is let through has, at that moment, the scope in auth.json: a token
\* that was taken out or reduced is refused by the next request, unless the file
\* cannot be read, or was saved between the two looks of the start.
GrantedByFile ==
  [][\A r \in HttpRequests :
       (http[r].at = "new" /\ http'[r].at = "routed" /\ RouteOf(r).scope # "public"
          /\ authFile.content # Unreadable /\ ~auth'.raced) =>
         /\ BearerOf[r] \in DOMAIN authFile.content
         /\ HasRequiredScope(RouteOf(r).scope, authFile.content[BearerOf[r]])]_gatewayVars

\* The trail tells what happened: exactly one line for each audited request that
\* was answered, with the status its client got and the token it came with; none
\* when the append failed.
AuditTellsAnswers ==
  \A r \in HttpRequests :
    LET lines == SelectSeq(trail, LAMBDA l : l.request = r)
    IN (http[r].at = "answered" /\ RouteOf(r).audit /\ RouteOf(r).op # "preflight") =>
         IF http[r].unlogged THEN lines = <<>> ELSE
         /\ Len(lines) = 1
         /\ lines[1].status = http[r].status
         /\ lines[1].status < 400 => lines[1].principal = BearerOf[r]

\* A stream that was not cut off tells its end once: done is its last event and
\* it has no error, or it has an error and no done.
StreamEndsOnce ==
  \A r \in HttpRequests :
    sse[r].at = "closed" =>
      LET kinds == ToSet(sse[r].events)
      IN /\ ("done" \in kinds) # ("error" \in kinds)
         /\ "done" \in kinds =>
              /\ Last(sse[r].events) = "done"
              /\ Cardinality({i \in DOMAIN sse[r].events : sse[r].events[i] = "done"}) = 1
=============================================================================
