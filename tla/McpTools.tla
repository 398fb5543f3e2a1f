------------------------------- MODULE McpTools -----------------------------
(***************************************************************************)
(* Tool calls of concurrent runs that go to one MCP server: the executor   *)
(* loads the server's tool list once, however many ask for it, the client  *)
(* connects, and the transport matches the lines the server writes with    *)
(* the requests that wait, by id.  The server answers in any order, not at *)
(* all, or exits.                                                          *)
(***************************************************************************)
EXTENDS Integers, FiniteSets

CONSTANTS
  ToolUsers,     \* calls of ToolExecutor.execute
  MaxRequests,   \* bound on request ids
  NoRequestId

VARIABLES
  registered,  \* whether the executor still knows the server
  user,        \* where each call stands, and the id it waits for
  schemas,     \* the registration: unloaded, loading or loaded
  loadId,      \* the id of the tools/list request the loader waits for
  connected,   \* McpClient.connected
  server,      \* the process: none, up, killed (and not yet gone)
  requestId,
  pending,     \* ids with a resolver
  written      \* ids the server has read and may still answer

mcpVars == <<registered, user, schemas, loadId, connected, server, requestId, pending, written>>

McpInit ==
  /\ registered = TRUE
  /\ user = [u \in ToolUsers |-> [at |-> "idle", id |-> NoRequestId]]
  /\ schemas = "unloaded" /\ loadId = NoRequestId
  /\ connected = FALSE /\ server = "none"
  /\ requestId = 0
  /\ pending = {} /\ written = {}

Settle(u, how) == user' = [user EXCEPT ![u] = [at |-> how, id |-> NoRequestId]]
-----------------------------------------------------------------------------
\* connect() is called before each request; it spawns the server the first
\* time, and trusts the flag from then on.
Connect ==
  /\ connected' = TRUE
  /\ server' = IF connected THEN server ELSE "up"

\* request(): with no process the call is rejected at once.
Write(id) ==
  /\ requestId' = id
  /\ pending' = pending \cup {id}
  /\ written' = written \cup {id}

\* execute: the tool list is loaded first, by whoever finds it unloaded; the
\* others wait for that one.
Execution(u) ==
  /\ user[u].at = "idle"
  /\ CASE ~registered -> Settle(u, "failed") /\ UNCHANGED schemas
       [] registered /\ schemas = "loaded" ->
            user' = [user EXCEPT ![u].at = "calling"] /\ UNCHANGED schemas
       [] OTHER -> user' = [user EXCEPT ![u].at = "loading"] /\ schemas' = "loading"
  /\ UNCHANGED <<registered, loadId, connected, server, requestId, pending, written>>

LoadFails ==
  /\ user' = [u \in ToolUsers |->
       IF user[u].at = "loading" THEN [at |-> "failed", id |-> NoRequestId] ELSE user[u]]
  /\ schemas' = "unloaded"
  /\ loadId' = NoRequestId

SendList ==
  /\ schemas = "loading" /\ loadId = NoRequestId
  /\ IF connected /\ server # "up"
     THEN LoadFails /\ UNCHANGED <<connected, server, requestId, pending, written>>
     ELSE /\ requestId < MaxRequests
          /\ Connect /\ Write(requestId + 1)
          /\ loadId' = requestId + 1
          /\ UNCHANGED <<user, schemas>>
  /\ UNCHANGED registered

SendCall(u) ==
  /\ user[u].at = "calling"
  /\ IF connected /\ server # "up"
     THEN Settle(u, "failed") /\ UNCHANGED <<connected, server, requestId, pending, written>>
     ELSE /\ requestId < MaxRequests
          /\ Connect /\ Write(requestId + 1)
          /\ user' = [user EXCEPT ![u] = [at |-> "waiting", id |-> requestId + 1]]
  /\ UNCHANGED <<registered, schemas, loadId>>

\* Whom the answer to an id wakes.
Resolver(id) == {u \in ToolUsers : user[u].at = "waiting" /\ user[u].id = id}

\* onLine: an answer whose id nobody waits for is dropped.  Lines of a server
\* that is being killed are still read.
Answer(id, good) ==
  /\ server # "none" /\ id \in written
  /\ written' = written \ {id}
  /\ IF id \notin pending THEN UNCHANGED <<user, schemas, loadId, pending>>
     ELSE /\ pending' = pending \ {id}
          /\ IF id = loadId
             THEN IF good
                  THEN /\ schemas' = "loaded" /\ loadId' = NoRequestId
                       /\ user' = [u \in ToolUsers |->
                            IF user[u].at = "loading" THEN [user[u] EXCEPT !.at = "calling"]
                                                      ELSE user[u]]
                  ELSE LoadFails
             ELSE /\ user' = [u \in ToolUsers |->
                       IF u \in Resolver(id)
                       THEN [at |-> IF good THEN "answered" ELSE "failed", id |-> user[u].id]
                       ELSE user[u]]
                  /\ UNCHANGED <<schemas, loadId>>
  /\ UNCHANGED <<registered, connected, server, requestId>>

\* The server reads a request and never answers it.
Ignore(id) ==
  /\ id \in written
  /\ written' = written \ {id}
  /\ UNCHANGED <<registered, user, schemas, loadId, connected, server, requestId, pending>>

Rejected_Bug == {}

\* The ids whose resolvers the exit handler rejects.
Rejected == pending

Exits ==
  /\ user' = [u \in ToolUsers |->
       IF \/ user[u].at = "waiting" /\ user[u].id \in Rejected
          \/ user[u].at = "loading" /\ loadId \in Rejected
       THEN [at |-> "failed", id |-> NoRequestId] ELSE user[u]]
  /\ schemas' = IF schemas = "loading" /\ loadId \in Rejected THEN "unloaded" ELSE schemas
  /\ loadId' = IF loadId \in Rejected THEN NoRequestId ELSE loadId
  /\ pending' = {} /\ written' = {}
  /\ server' = "none"
  /\ UNCHANGED <<registered, requestId>>

\* The server exits by itself: the client still believes it is connected,
\* and no later call spawns another server.
ServerExits == server = "up" /\ Exits /\ UNCHANGED connected

\* unregisterMCP forgets the server and disconnects its client: disconnect()
\* kills the process and waits for its exit; where the process is gone already
\* there is nothing to wait for.
Unregister ==
  /\ registered /\ registered' = FALSE
  /\ server' = IF connected /\ server = "up" THEN "killed" ELSE server
  /\ connected' = (connected /\ server = "up")
  /\ UNCHANGED <<user, schemas, loadId, requestId, pending, written>>

KilledServerExits == server = "killed" /\ Exits /\ connected' = FALSE

McpNext ==
  \/ \E u \in ToolUsers : Execution(u) \/ SendCall(u)
  \/ SendList
  \/ \E id \in 1..MaxRequests :
       (\E good \in BOOLEAN : Answer(id, good)) \/ Ignore(id)
  \/ ServerExits \/ Unregister \/ KilledServerExits

\* A killed process exits, and what was called runs to its next await.
McpFairness ==
  /\ WF_mcpVars(KilledServerExits)
  /\ WF_mcpVars(SendList)

McpSpec == McpInit /\ [][McpNext]_mcpVars /\ McpFairness
-----------------------------------------------------------------------------
\* Nobody waits for a server that is gone: a call or the loading of the tool
\* list, once the server has been killed or has exited, is settled
\* (mcp-client.ts:73).
NobodyWaitsForTheDead ==
  \A u \in ToolUsers :
    (user[u].at = "waiting" /\ server # "up") ~> (user[u].at # "waiting")

\* All who wait for the tool list wait for one request (tool-executor.ts:119),
\* which the transport knows: neither a second load nor a failed one leaves
\* somebody behind.
LoadersAreServed ==
  \A u \in ToolUsers :
    user[u].at = "loading" =>
      /\ schemas = "loading"
      /\ loadId = NoRequestId \/ (loadId \in pending /\ server # "none")
=============================================================================
