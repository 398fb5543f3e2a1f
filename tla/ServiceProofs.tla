---------------------------- MODULE ServiceProofs ---------------------------
(***************************************************************************)
(* Theorems about what surrounds the runtime: the files of the cockpit and *)
(* the tokens of the gateway.                                              *)
(***************************************************************************)
EXTENDS AdminStore, Gateway, AppHost, Integers, SequenceTheorems, TLAPS

(***************************************************************************)
(* The files the cockpit edits.                                            *)
(***************************************************************************)

OnDiskValues == Contents \union {Missing, Torn}

WriteSteps ==
  {"none", "referenced", "backup", "open", "fill", "rename", "renameAgain", "validate",
   "reloadLive", "reloadSnap", "done", "failed", "lost", "stale"}

AnyChange == Changes \union {CHOOSE c \in Changes : TRUE}

AdminTyped ==
  /\ kind \in {"persona", "lore"}
  /\ disk \in [file : OnDiskValues, tmp : OnDiskValues, bak : OnDiskValues]
  /\ snap \in [content : Contents, loaded : BOOLEAN]
  /\ live \in Contents
  /\ write \in [at : WriteSteps, change : AnyChange, next : Contents, before : OnDiskValues,
                disturbed : BOOLEAN]
  /\ reading \in Contents \union {Missing}

\* How far a write nobody disturbed has come tells what is on the disk, and,
\* once it reloads, what is in the snapshots.
WriteOK ==
  ~write.disturbed =>
    /\ write.at \in {"referenced", "backup", "open", "fill", "rename", "failed"} =>
         disk.file = write.before
    /\ write.at \in {"open", "fill", "rename", "renameAgain", "lost"} =>
         write.before = Missing \/ disk.bak = write.before
    /\ write.at \in {"rename", "renameAgain"} => disk.tmp = write.next
    /\ write.at \in {"renameAgain", "lost"} => disk.file = Missing
    /\ write.at \in {"validate", "reloadLive", "reloadSnap", "done", "stale"} =>
         disk.file = write.next
    /\ write.at \in {"reloadSnap", "done"} => live = write.next
    /\ write.at = "done" => snap.content = write.next

AdminInv == AdminTyped /\ WriteOK

LEMMA IdleIsTyped ==
  /\ IdleWrite \in [at : WriteSteps, change : AnyChange, next : Contents, before : OnDiskValues,
                    disturbed : BOOLEAN]
  /\ IdleWrite.at = "none"
BY DEF IdleWrite, WriteSteps, AnyChange, Contents, Empty, OnDiskValues

LEMMA AdminStarts == AdminInit => AdminInv
<1> SUFFICES ASSUME AdminInit PROVE AdminInv
  OBVIOUS
<1>1. Empty \in Contents
  BY DEF Empty, Contents
<1>2. PICK c \in {Missing, Empty} : disk = [file |-> c, tmp |-> Missing, bak |-> Missing]
  BY DEF AdminInit
<1>3. disk \in [file : OnDiskValues, tmp : OnDiskValues, bak : OnDiskValues]
  BY <1>1, <1>2 DEF OnDiskValues
<1>4. AdminTyped
  BY <1>1, <1>3, IdleIsTyped DEF AdminInit, AdminTyped
<1>5. WriteOK
  BY IdleIsTyped DEF AdminInit, WriteOK
<1>. QED  BY <1>4, <1>5 DEF AdminInv

LEMMA AdminTypedStep ==
  ASSUME AdminTyped, AdminNext
  PROVE  AdminTyped'
<1>1. OnDisk \in Contents /\ Empty \in Contents
  BY DEF OnDisk, Empty, Contents
<1>2. ASSUME NEW c \in Changes, Begin(c) PROVE AdminTyped'
  <2>1. [snap.content EXCEPT ![c.id] = c.value] \in Contents
    BY DEF AdminTyped, Contents, Changes
  <2>2. write' \in [at : WriteSteps, change : AnyChange, next : Contents, before : OnDiskValues,
                    disturbed : BOOLEAN]
    BY <1>2, <2>1 DEF Begin, AdminTyped, WriteSteps, AnyChange
  <2>. QED  BY <1>2, <2>2 DEF Begin, AdminTyped
<1>3. ASSUME CheckReferences \/ Validate \/ Reply \/ FailReload PROVE AdminTyped'
  BY <1>3, IdleIsTyped DEF CheckReferences, Validate, Reply, FailReload, AdminTyped, WriteSteps
<1>4. ASSUME BackUp PROVE AdminTyped'
  <2>1. BackedUp \in OnDiskValues
    BY DEF BackedUp, AdminTyped
  <2>. QED  BY <1>4, <2>1 DEF BackUp, AdminTyped, WriteSteps
<1>5. ASSUME OpenTmp \/ FillTmp \/ WithoutFirst \/ Rename PROVE AdminTyped'
  <2>1. /\ Torn \in OnDiskValues /\ Missing \in OnDiskValues /\ write.next \in OnDiskValues
        /\ disk.tmp \in OnDiskValues
    BY DEF AdminTyped, OnDiskValues
  <2>2. CASE OpenTmp
    BY <2>1, <2>2 DEF OpenTmp, AdminTyped, WriteSteps
  <2>3. CASE FillTmp
    BY <2>1, <2>3 DEF FillTmp, AdminTyped, WriteSteps
  <2>4. CASE WithoutFirst
    BY <2>1, <2>4 DEF WithoutFirst, AdminTyped, WriteSteps
  <2>5. CASE Rename
    BY <2>1, <2>5 DEF Rename, AdminTyped, WriteSteps
  <2>. QED  BY <1>5, <2>2, <2>3, <2>4, <2>5
<1>6. ASSUME FailWrite PROVE AdminTyped'
  <2>1. Restored \in OnDiskValues /\ Missing \in OnDiskValues
    BY DEF Restored, AdminTyped, OnDiskValues
  <2>2. PICK at \in {"lost", "failed"} : write' = [write EXCEPT !.at = at]
    BY <1>6 DEF FailWrite
  <2>3. disk' \in [file : OnDiskValues, tmp : OnDiskValues, bak : OnDiskValues]
    BY <1>6, <2>1 DEF FailWrite, AdminTyped
  <2>. QED  BY <1>6, <2>2, <2>3 DEF FailWrite, AdminTyped, WriteSteps
<1>7. ASSUME ReloadLive PROVE AdminTyped'
  <2>1. PICK at \in {"stale", "reloadSnap"} : write' = [write EXCEPT !.at = at]
    BY <1>7 DEF ReloadLive
  <2>2. live' \in Contents
    BY <1>1, <1>7 DEF ReloadLive, AdminTyped
  <2>. QED  BY <1>7, <2>1, <2>2 DEF ReloadLive, AdminTyped, WriteSteps
<1>13. ASSUME ReloadSnap PROVE AdminTyped'
  <2>1. PICK at \in {"stale", "done"} : write' = [write EXCEPT !.at = at]
    BY <1>13 DEF ReloadSnap
  <2>2. snap' = snap \/ \E c \in {live, OnDisk} : snap' = [content |-> c, loaded |-> TRUE]
    BY <1>13 DEF ReloadSnap
  <2>3. snap' \in [content : Contents, loaded : BOOLEAN]
    <3>1. live \in Contents /\ snap \in [content : Contents, loaded : BOOLEAN]
      BY DEF AdminTyped
    <3>2. \A c \in Contents : [content |-> c, loaded |-> TRUE] \in
                               [content : Contents, loaded : BOOLEAN]
      OBVIOUS
    <3>. QED  BY <1>1, <2>2, <3>1, <3>2, Zenon
  <2>4. write' \in [at : WriteSteps, change : AnyChange, next : Contents,
                    before : OnDiskValues, disturbed : BOOLEAN]
    BY <2>1 DEF AdminTyped, WriteSteps
  <2>5. UNCHANGED <<kind, disk, live, reading>>
    BY <1>13 DEF ReloadSnap
  <2>. QED  BY <2>3, <2>4, <2>5 DEF AdminTyped
<1>8. ASSUME Reload \/ StartLateLoad PROVE AdminTyped'
  <2>1. live' \in Contents /\ reading' \in Contents \union {Missing}
    BY <1>1, <1>8 DEF Reload, StartLateLoad, AdminTyped
  <2>2. snap' = snap \/ snap' = [content |-> OnDisk, loaded |-> TRUE]
    BY <1>8 DEF Reload, StartLateLoad
  <2>3. [content |-> OnDisk, loaded |-> TRUE] \in [content : Contents, loaded : BOOLEAN]
    BY <1>1
  <2>4. snap' \in [content : Contents, loaded : BOOLEAN]
    BY <2>2, <2>3, Zenon DEF AdminTyped
  <2>. QED  BY <1>8, <2>1, <2>4 DEF Reload, StartLateLoad, AdminTyped
<1>9. Disturbed \in [at : WriteSteps, change : AnyChange, next : Contents,
                     before : OnDiskValues, disturbed : BOOLEAN]
  BY DEF AdminTyped, Disturbed
<1>10. ASSUME FinishLateLoad PROVE AdminTyped'
  BY <1>9, <1>10 DEF FinishLateLoad, AdminTyped
<1>11. ASSUME EditByHand PROVE AdminTyped'
  <2>1. \A c \in EditedByHand : c \in OnDiskValues
    BY DEF EditedByHand, OnDiskValues, Contents
  <2>2. \E c \in EditedByHand : disk' = [disk EXCEPT !.file = c]
    BY <1>11, Zenon DEF EditByHand
  <2>3. \E c \in OnDiskValues : disk' = [disk EXCEPT !.file = c]
    BY <2>1, <2>2
  <2>4. disk' \in [file : OnDiskValues, tmp : OnDiskValues, bak : OnDiskValues]
    BY <2>3 DEF AdminTyped
  <2>. QED  BY <1>9, <1>11, <2>4 DEF EditByHand, AdminTyped
<1>12. ASSUME Restart PROVE AdminTyped'
  BY <1>1, <1>12, IdleIsTyped DEF Restart, AdminTyped
<1>. QED  BY <1>2, <1>3, <1>4, <1>5, <1>6, <1>7, <1>8, <1>10, <1>11, <1>12, <1>13
     DEF AdminNext

LEMMA WriteStep ==
  ASSUME AdminInv, AdminNext
  PROVE  WriteOK'
<1> USE DEF AdminInv, AdminTyped, WriteOK
<1>1. ASSUME NEW c \in Changes, Begin(c) PROVE WriteOK'
  BY <1>1 DEF Begin
<1>2. ASSUME CheckReferences \/ Validate \/ Reply PROVE WriteOK'
  BY <1>2, IdleIsTyped DEF CheckReferences, Validate, Reply
<1>3. ASSUME BackUp PROVE WriteOK'
  BY <1>3 DEF BackUp, BackedUp
<1>4. ASSUME OpenTmp \/ FillTmp PROVE WriteOK'
  BY <1>4 DEF OpenTmp, FillTmp
<1>12. ASSUME WithoutFirst \/ Rename PROVE WriteOK'
  BY <1>12 DEF WithoutFirst, Rename
<1>5. ASSUME FailWrite PROVE WriteOK'
  <2>1. disk'.file = IF write.at # "validate" THEN disk.file ELSE write.before
    BY <1>5 DEF FailWrite, Restored
  <2>2. disk'.bak = disk.bak
    BY <1>5 DEF FailWrite
  <2>3. write'.at = IF write.at = "renameAgain" THEN "lost" ELSE "failed"
    BY <1>5 DEF FailWrite
  <2>4. write'.next = write.next /\ write'.before = write.before
          /\ write'.disturbed = write.disturbed
    BY <1>5 DEF FailWrite
  <2>5. write.at \in {"backup", "open", "fill", "rename", "renameAgain", "validate"}
    BY <1>5 DEF FailWrite
  <2>. QED  BY <2>1, <2>2, <2>3, <2>4, <2>5
<1>6. ASSUME ReloadLive PROVE WriteOK'
  BY <1>6 DEF ReloadLive, OnDisk
<1>10. ASSUME FailReload PROVE WriteOK'
  BY <1>10 DEF FailReload
<1>11. ASSUME ReloadSnap PROVE WriteOK'
  <2>1. write.at = "reloadSnap" /\ write'.at \in {"stale", "done"}
    BY <1>11 DEF ReloadSnap
  <2>2. write'.next = write.next /\ write'.before = write.before
          /\ write'.disturbed = write.disturbed
    BY <1>11 DEF ReloadSnap
  <2>3. UNCHANGED <<disk, live>>
    BY <1>11 DEF ReloadSnap
  <2>4. write'.at = "done" => snap'.content \in {live, OnDisk}
    BY <1>11 DEF ReloadSnap
  <2>5. disk.file \in Contents => OnDisk = disk.file
    BY DEF OnDisk
  <2>. QED  BY <2>1, <2>2, <2>3, <2>4, <2>5
<1>7. ASSUME Reload \/ StartLateLoad PROVE WriteOK'
  BY <1>7 DEF Reload, StartLateLoad, OnDisk
<1>8. ASSUME FinishLateLoad \/ EditByHand PROVE WriteOK'
  <2>1. write'.disturbed \/ write'.at = "none"
    BY <1>8 DEF FinishLateLoad, EditByHand, Disturbed
  <2>. QED  BY <2>1
<1>9. ASSUME Restart PROVE WriteOK'
  BY <1>9, IdleIsTyped DEF Restart
<1>. QED  BY <1>1, <1>2, <1>3, <1>4, <1>5, <1>6, <1>7, <1>8, <1>9, <1>10, <1>11, <1>12
     DEF AdminNext

LEMMA AdminInvariant == AdminSpec => []AdminInv
<1>1. AdminInv /\ [AdminNext]_adminVars => AdminInv'
  <2>1. AdminInv /\ AdminNext => AdminInv'
    BY AdminTypedStep, WriteStep DEF AdminInv
  <2>2. AdminInv /\ UNCHANGED adminVars => AdminInv'
    BY DEF adminVars, AdminInv, AdminTyped, WriteOK
  <2>. QED  BY <2>1, <2>2
<1>. QED  BY <1>1, AdminStarts, PTL DEF AdminSpec

\* However a write of a persona or lore file is cut off or answered, the file is
\* whole or its backup is, and the answer the cockpit gets is so.
THEOREM WritesCorrect == AdminSpec => []WritesAreAtomic
<1>1. AdminInv => WritesAreAtomic
  <2> SUFFICES ASSUME AdminInv, write.at # "none", ~write.disturbed
               PROVE  FileIsRecoverable /\ AnswerIsTrue
    BY DEF WritesAreAtomic
  <2>1. FileIsRecoverable
    BY DEF AdminInv, AdminTyped, WriteOK, WriteSteps, FileIsRecoverable
  <2>2. AnswerIsTrue
    BY DEF AdminInv, AdminTyped, WriteOK, AnswerIsTrue
  <2>. QED  BY <2>1, <2>2
<1>. QED  BY <1>1, AdminInvariant, PTL

(***************************************************************************)
(* The tokens of the gateway.                                              *)
(***************************************************************************)

\* Every request is a record that has a place, whatever else it holds.
RequestsTyped ==
  /\ DOMAIN http = HttpRequests
  /\ \A r \in HttpRequests : "at" \in DOMAIN http[r]

LoaderStates ==
  [at : {"down", "parsed", "up"}, tokens : TokenFiles \union {Unreadable, NoTokens},
   seen : Int, raced : BOOLEAN]

TokensTyped ==
  /\ authFile \in [content : TokenFiles \union {Unreadable}, saved : Nat]
  /\ auth \in LoaderStates
  /\ auth.seen <= authFile.saved

\* A loader that was not raced at its start and remembers the time of the last
\* save holds what was saved then: a later save has a later time.
LoaderIsCurrent ==
  (~auth.raced /\ authFile.content # Unreadable) =>
    /\ auth.at = "parsed" => auth.tokens = authFile.content
    /\ (auth.at = "up" /\ auth.seen = authFile.saved) => auth.tokens = authFile.content

TokensInv == RequestsTyped /\ TokensTyped /\ LoaderIsCurrent

LEMMA TokensStart == GatewayInit => TokensInv
<1> SUFFICES ASSUME GatewayInit PROVE TokensInv
  OBVIOUS
<1>1. PICK route \in [HttpRequests -> UNION {RoutesOf[r] : r \in HttpRequests}] :
        http = [r \in HttpRequests |-> Untold(route[r])]
  BY DEF GatewayInit
<1>2. RequestsTyped
  BY <1>1 DEF RequestsTyped, Untold
<1>3. TokensTyped /\ LoaderIsCurrent
  BY DEF GatewayInit, TokensTyped, LoaderStates, LoaderIsCurrent
<1>. QED  BY <1>2, <1>3 DEF TokensInv

LEMMA RequestsTypedStep ==
  ASSUME RequestsTyped, GatewayNext
  PROVE  RequestsTyped'
<1> USE DEF RequestsTyped
<1>1. ASSUME SaveAuthFile \/ ParseAtStart \/ StatAtStart PROVE RequestsTyped'
  BY <1>1 DEF SaveAuthFile, ParseAtStart, StatAtStart
<1>2. ASSUME RestartGateway PROVE RequestsTyped'
  BY <1>2 DEF RestartGateway
<1>3. ASSUME NEW r \in HttpRequests, Preflight(r) \/ NotFound(r) \/ Finalize(r)
      PROVE  RequestsTyped'
  BY <1>3 DEF Preflight, NotFound, Finalize
<1>4. ASSUME NEW r \in HttpRequests, RequireAuth(r)
      PROVE  RequestsTyped'
  <2>1. DOMAIN http' = HttpRequests /\ \A q \in HttpRequests \ {r} : http'[q] = http[q]
    BY <1>4 DEF RequireAuth
  <2>2. "at" \in DOMAIN http'[r]
    BY <1>4 DEF RequireAuth
  <2>. QED  BY <2>1, <2>2
<1>5. ASSUME NEW r \in HttpRequests, Handle(r)
      PROVE  RequestsTyped'
  <2>1. PICK status : http' = [http EXCEPT ![r].at = "finalizing", ![r].status = status]
    BY <1>5 DEF Handle
  <2>. QED  BY <2>1
<1>6. ASSUME NEW r \in HttpRequests, OpenStream(r)
      PROVE  RequestsTyped'
  <2>1. PICK status : http' = [http EXCEPT ![r].at = "finalizing", ![r].status = status]
    BY <1>6 DEF OpenStream
  <2>. QED  BY <2>1
<1>7. ASSUME NEW r \in HttpRequests,
             NextObservation(r) \/ TurnThrows(r) \/ EndStream(r) \/ Disconnect(r)
      PROVE  RequestsTyped'
  BY <1>7 DEF NextObservation, TurnThrows, EndStream, Disconnect
<1>. QED  BY <1>1, <1>2, <1>3, <1>4, <1>5, <1>6, <1>7 DEF GatewayNext

LEMMA TokensStep ==
  ASSUME TokensTyped, LoaderIsCurrent, GatewayNext
  PROVE  (TokensTyped /\ LoaderIsCurrent)'
<1> USE DEF TokensTyped, LoaderIsCurrent
<1>1. ASSUME SaveAuthFile PROVE (TokensTyped /\ LoaderIsCurrent)'
  <2>1. PICK c \in TokenFiles \union {Unreadable} :
          authFile' = [content |-> c, saved |-> authFile.saved + 1]
    BY <1>1 DEF SaveAuthFile
  <2>2. PICK raced \in BOOLEAN : auth' = [auth EXCEPT !.raced = raced]
    BY <1>1, Zenon DEF SaveAuthFile
  <2>3. auth' \in LoaderStates
    BY <2>2 DEF LoaderStates
  <2>4. auth'.at = auth.at /\ auth'.tokens = auth.tokens /\ auth'.seen = auth.seen
    BY <2>2 DEF LoaderStates
  <2>5. auth.raced => auth'.raced
    BY <1>1 DEF SaveAuthFile, LoaderStates
  <2>6. auth.at = "parsed" => auth'.raced
    BY <1>1 DEF SaveAuthFile, LoaderStates
  <2>7. authFile' \in [content : TokenFiles \union {Unreadable}, saved : Nat]
          /\ auth'.seen < authFile'.saved
    BY <2>1, <2>4 DEF LoaderStates
  <2>8. TokensTyped'
    BY <2>3, <2>7 DEF LoaderStates
  <2>9. LoaderIsCurrent'
    BY <2>4, <2>6, <2>7, <2>8 DEF LoaderStates
  <2>. QED  BY <2>8, <2>9
<1>2. ASSUME RestartGateway PROVE (TokensTyped /\ LoaderIsCurrent)'
  BY <1>2 DEF RestartGateway, LoaderStates
<1>5. ASSUME StatAtStart PROVE (TokensTyped /\ LoaderIsCurrent)'
  <2>1. auth'.at = "up" /\ auth'.tokens = auth.tokens /\ auth'.seen = authFile.saved
          /\ auth'.raced = auth.raced /\ auth' \in LoaderStates
    <3>1. PICK seen \in Int : seen = authFile.saved
      OBVIOUS
    <3>2. auth' = [auth EXCEPT !.at = "up", !.seen = seen]
      BY <1>5, <3>1 DEF StatAtStart
    <3>. QED  BY <3>1, <3>2 DEF LoaderStates
  <2>. QED  BY <1>5, <2>1 DEF StatAtStart
<1>6. ASSUME ParseAtStart PROVE (TokensTyped /\ LoaderIsCurrent)'
  <2>1. UNCHANGED authFile
    BY <1>6 DEF ParseAtStart, LoaderStates
  <2>2. CASE authFile.content = Unreadable
    BY <1>6, <2>1, <2>2 DEF ParseAtStart, LoaderStates
  <2>3. CASE authFile.content # Unreadable
    BY <1>6, <2>1, <2>3 DEF ParseAtStart, LoaderStates
  <2>. QED  BY <2>2, <2>3
<1>3. ASSUME NEW r \in HttpRequests, RequireAuth(r)
      PROVE  (TokensTyped /\ LoaderIsCurrent)'
  <2>1. auth' = Refreshed /\ UNCHANGED authFile
    BY <1>3 DEF RequireAuth
  <2>2. CASE Refreshed = auth
    BY <2>1, <2>2
  <2>3. CASE authFile.saved # auth.seen /\ authFile.content # Unreadable
    <3>1. auth'.at = auth.at /\ auth'.tokens = authFile.content
            /\ auth'.seen = authFile.saved /\ auth' \in LoaderStates
      <4>1. PICK seen \in Int, tokens \in TokenFiles :
              seen = authFile.saved /\ tokens = authFile.content
        BY <2>3
      <4>2. auth' = [auth EXCEPT !.tokens = tokens, !.seen = seen, !.raced = FALSE]
        BY <2>1, <2>3, <4>1 DEF Refreshed
      <4>. QED  BY <4>1, <4>2 DEF LoaderStates
    <3>. QED  BY <2>1, <3>1
  <2>. QED  BY <2>2, <2>3 DEF Refreshed
<1>4. ASSUME NEW r \in HttpRequests,
             \/ Preflight(r) \/ NotFound(r) \/ Handle(r) \/ Finalize(r) \/ OpenStream(r)
             \/ NextObservation(r) \/ TurnThrows(r) \/ EndStream(r) \/ Disconnect(r)
      PROVE  (TokensTyped /\ LoaderIsCurrent)'
  <2>1. UNCHANGED <<authFile, auth>>
    BY <1>4 DEF Preflight, NotFound, Handle, Finalize, OpenStream, NextObservation,
                TurnThrows, EndStream, Disconnect
  <2>. QED  BY <2>1
<1>. QED  BY <1>1, <1>2, <1>3, <1>4, <1>5, <1>6 DEF GatewayNext

LEMMA TokensInvariant == GatewaySpec => []TokensInv
<1>1. TokensInv /\ [GatewayNext]_gatewayVars => TokensInv'
  <2>1. TokensInv /\ GatewayNext => TokensInv'
    BY RequestsTypedStep, TokensStep DEF TokensInv
  <2>2. TokensInv /\ UNCHANGED gatewayVars => TokensInv'
    BY DEF gatewayVars, TokensInv, RequestsTyped, TokensTyped, LoaderIsCurrent
  <2>. QED  BY <2>1, <2>2
<1>. QED  BY <1>1, TokensStart, PTL DEF GatewaySpec

\* Only requireAuth lets a request through.
LEMMA OnlyRequireAuthRoutes ==
  ASSUME RequestsTyped, GatewayNext, NEW r \in HttpRequests,
         http[r].at = "new", http'[r].at = "routed"
  PROVE  RequireAuth(r)
<1> USE DEF RequestsTyped
<1>1. ~(SaveAuthFile \/ ParseAtStart \/ StatAtStart)
  BY DEF SaveAuthFile, ParseAtStart, StatAtStart
<1>2. ~RestartGateway
  BY DEF RestartGateway
<1>3. ASSUME NEW q \in HttpRequests, Preflight(q) \/ NotFound(q) \/ Finalize(q)
      PROVE  FALSE
  <2>1. PICK new : http' = [http EXCEPT ![q] = new] /\ new.at # "routed"
    BY <1>3 DEF Preflight, NotFound, Finalize
  <2>. QED  BY <2>1
<1>4. ASSUME NEW q \in HttpRequests, Handle(q) \/ OpenStream(q)
      PROVE  FALSE
  <2>1. PICK status : http' = [http EXCEPT ![q].at = "finalizing", ![q].status = status]
    BY <1>4 DEF Handle, OpenStream
  <2>. QED  BY <2>1
<1>5. ASSUME NEW q \in HttpRequests,
             NextObservation(q) \/ TurnThrows(q) \/ EndStream(q) \/ Disconnect(q)
      PROVE  FALSE
  BY <1>5 DEF NextObservation, TurnThrows, EndStream, Disconnect
<1>6. ASSUME NEW q \in HttpRequests, RequireAuth(q), q # r
      PROVE  FALSE
  <2>1. http'[r] = http[r]
    BY <1>6 DEF RequireAuth
  <2>. QED  BY <2>1
<1>. QED  BY <1>1, <1>2, <1>3, <1>4, <1>5, <1>6 DEF GatewayNext

LEMMA GrantingStep ==
  ASSUME TokensInv, GatewayNext, NEW r \in HttpRequests,
         http[r].at = "new", http'[r].at = "routed", RouteOf(r).scope # "public",
         authFile.content # Unreadable, ~auth'.raced
  PROVE  /\ BearerOf[r] \in DOMAIN authFile.content
         /\ HasRequiredScope(RouteOf(r).scope, authFile.content[BearerOf[r]])
<1>1. RequireAuth(r)
  BY OnlyRequireAuthRoutes DEF TokensInv
<1>2. auth' = Refreshed /\ auth.at = "up"
  BY <1>1 DEF RequireAuth
<1>3. Refreshed.tokens = authFile.content
  <2>1. CASE authFile.saved = auth.seen
    BY <1>2, <2>1 DEF Refreshed, TokensInv, LoaderIsCurrent
  <2>2. CASE authFile.saved # auth.seen
    BY <2>2 DEF Refreshed, TokensInv, TokensTyped, LoaderStates
  <2>. QED  BY <2>1, <2>2
<1>4. PICK tokens : tokens = Refreshed.tokens
  OBVIOUS
<1>5. "at" \in DOMAIN http[r] /\ r \in DOMAIN http
  BY DEF TokensInv, RequestsTyped
<1>6. BearerOf[r] \in DOMAIN tokens
  BY <1>1, <1>4, <1>5 DEF RequireAuth, RouteOf
<1>7. HasRequiredScope(RouteOf(r).scope, tokens[BearerOf[r]])
  BY <1>1, <1>4, <1>5, <1>6 DEF RequireAuth, RouteOf
<1>. QED  BY <1>3, <1>4, <1>6, <1>7

\* A token is let through only with the scope that auth.json gives it at that
\* moment, however often the file is saved and the gateway started again.
THEOREM GrantsCorrect == GatewaySpec => GrantedByFile
<1>1. TokensInv /\ [GatewayNext]_gatewayVars =>
        [\A r \in HttpRequests :
           (http[r].at = "new" /\ http'[r].at = "routed" /\ RouteOf(r).scope # "public"
              /\ authFile.content # Unreadable /\ ~auth'.raced) =>
             /\ BearerOf[r] \in DOMAIN authFile.content
             /\ HasRequiredScope(RouteOf(r).scope, authFile.content[BearerOf[r]])]_gatewayVars
  BY GrantingStep
<1>. QED  BY <1>1, TokensInvariant, PTL DEF GatewaySpec, GrantedByFile

(***************************************************************************)
(* The files of the configuration.                                         *)
(***************************************************************************)

\* A list of agents without a repetition.
Sound(entries) ==
  /\ entries \in Seq(ToSet(entries))
  /\ \A i \in DOMAIN entries : DOMAIN entries[i] = {"id", "role", "persona", "tools", "enabled"}
  /\ \A i, j \in DOMAIN entries : entries[i].id = entries[j].id => i = j

LEMMA SoundFiles ==
  ASSUME NEW file, file.is = "ok"
  PROVE  OneEntryEach(file) <=> Sound(file.data)
<1>1. PICK data : data = file.data
  OBVIOUS
<1>2. ASSUME data \in Seq(ToSet(data))
      PROVE  RepeatedIds(data) = {} <=> \A i, j \in DOMAIN data : data[i].id = data[j].id => i = j
  <2>1. Len(data) \in Nat /\ DOMAIN data = 1 .. Len(data)
    BY <1>2
  <2>2. \A i, j \in DOMAIN data : j < i => j \in 1 .. i - 1
    BY <2>1
  <2>3. \A i \in DOMAIN data : \A j \in 1 .. i - 1 : j \in DOMAIN data /\ j # i
    BY <2>1
  <2>4. ASSUME RepeatedIds(data) = {}, NEW i \in DOMAIN data, NEW j \in DOMAIN data,
               data[i].id = data[j].id
        PROVE  i = j
    BY <2>1, <2>2, <2>4 DEF RepeatedIds
  <2>5. (\A i, j \in DOMAIN data : data[i].id = data[j].id => i = j) => RepeatedIds(data) = {}
    BY <2>3 DEF RepeatedIds
  <2>. QED  BY <2>4, <2>5
<1>. QED  BY <1>1, <1>2 DEF OneEntryEach, Sound

LEMMA Looked ==
  /\ Looks("create-rp") = <<"personas", "agents">>
  /\ \A op \in {"validate", "show"} : Looks(op) = <<"agents", "personas">>
  /\ \A op \in Switches \union {"create-task", "list"} : Looks(op) = <<"agents">>
BY DEF Looks, Switches

IsSeq(s) == s \in Seq(ToSet(s))

LEMMA Appended ==
  ASSUME NEW s, IsSeq(s), NEW x
  PROVE  /\ IsSeq(Append(s, x)) /\ Len(s) \in Nat /\ DOMAIN s = 1 .. Len(s)
         /\ Len(Append(s, x)) = Len(s) + 1 /\ DOMAIN Append(s, x) = 1 .. Len(s) + 1
         /\ \A i \in 1 .. Len(s) : Append(s, x)[i] = s[i]
         /\ Append(s, x)[Len(s) + 1] = x
<1>1. PICK more : more = ToSet(s) \union {x}
  OBVIOUS
<1>2. s \in Seq(more) /\ x \in more
  <2>1. s \in Seq(ToSet(s)) /\ ToSet(s) \subseteq more
    BY <1>1 DEF IsSeq
  <2>. QED  BY <1>1, <2>1, SeqMonotonic
<1>3. /\ Append(s, x) \in Seq(more) /\ Len(s) \in Nat /\ DOMAIN s = 1 .. Len(s)
      /\ Len(Append(s, x)) = Len(s) + 1 /\ DOMAIN Append(s, x) = 1 .. Len(s) + 1
      /\ \A i \in 1 .. Len(s) : Append(s, x)[i] = s[i]
      /\ Append(s, x)[Len(s) + 1] = x
  BY <1>2, AppendProperties, LenProperties
<1>4. PICK t : t = Append(s, x)
  OBVIOUS
<1>5. t \in Seq(ToSet(t))
  BY <1>3, <1>4 DEF ToSet
<1>. QED  BY <1>3, <1>4, <1>5 DEF IsSeq

LEMMA CreatedSound ==
  ASSUME NEW entries, Sound(entries), NEW command, ~Listed_Agent(entries, command.agent),
         command.op \in Creates
  PROVE  Sound(AgentsWritten(command, entries))
<1>1. PICK entry : entry = Preset(command)
  OBVIOUS
<1>2. /\ entry.id = command.agent
      /\ DOMAIN entry = {"id", "role", "persona", "tools", "enabled"}
  BY <1>1 DEF Preset, Entry
<1>3. PICK written : written = Append(entries, entry)
  OBVIOUS
<1>4. IsSeq(entries)
  BY DEF Sound, IsSeq
<1>5. /\ IsSeq(written) /\ Len(entries) \in Nat /\ DOMAIN entries = 1 .. Len(entries)
      /\ DOMAIN written = 1 .. Len(entries) + 1
      /\ \A i \in 1 .. Len(entries) : written[i] = entries[i]
      /\ written[Len(entries) + 1] = entry
  BY <1>3, <1>4, Appended
<1>6. \A i \in DOMAIN written : i \in DOMAIN entries \/ i = Len(entries) + 1
  BY <1>5
<1>7. \A i \in DOMAIN entries : entries[i].id # entry.id
  BY <1>2 DEF Listed_Agent
<1>8. \A i \in DOMAIN written : DOMAIN written[i] = {"id", "role", "persona", "tools", "enabled"}
  BY <1>2, <1>5, <1>6 DEF Sound
<1>9. \A i, j \in DOMAIN written : written[i].id = written[j].id => i = j
  BY <1>5, <1>6, <1>7 DEF Sound
<1>10. AgentsWritten(command, entries) = written
  BY <1>1, <1>3 DEF AgentsWritten, Creates
<1>. QED  BY <1>5, <1>8, <1>9, <1>10 DEF Sound, IsSeq

LEMMA SwitchedSound ==
  ASSUME NEW entries, Sound(entries), NEW command, Listed_Agent(entries, command.agent),
         command.op \in Switches
  PROVE  Sound(AgentsWritten(command, entries))
<1>1. PICK spot : spot = SpotOf(entries, command.agent)
  OBVIOUS
<1>2. Len(entries) \in Nat /\ DOMAIN entries = 1 .. Len(entries)
  BY DEF Sound
<1>3. spot \in DOMAIN entries
  <2>1. PICK i \in DOMAIN entries : entries[i].id = command.agent
    BY DEF Listed_Agent
  <2>2. \A j \in 1 .. i - 1 : entries[j].id # command.agent
    BY <1>2, <2>1 DEF Sound
  <2>. QED  BY <1>1, <2>1, <2>2, Zenon DEF SpotOf
<1>4. CASE command.op = "remove"
  <2> DEFINE before == SubSeq(entries, 1, spot - 1)
             after  == SubSeq(entries, spot + 1, Len(entries))
  <2>1. PICK all : all = ToSet(entries)
    OBVIOUS
  <2>2. entries \in Seq(all)
    BY <2>1 DEF Sound
  <2>3. /\ before \in Seq(all) /\ Len(before) = spot - 1
        /\ \A k \in 1 .. spot - 1 : before[k] = entries[k]
    BY <1>2, <1>3, <2>2, SubSeqProperties
  <2>4. /\ after \in Seq(all) /\ Len(after) = Len(entries) - spot
        /\ \A k \in 1 .. Len(entries) - spot : after[k] = entries[k + spot]
    BY <1>2, <1>3, <2>2, SubSeqProperties
  <2>5. PICK written : written = before \o after
    OBVIOUS
  <2>6. AgentsWritten(command, entries) = written
    BY <1>1, <1>4, <2>5 DEF AgentsWritten, RemoveAt, Creates
  <2> HIDE DEF before, after
  <2>7. /\ written \in Seq(all) /\ Len(written) = Len(before) + Len(after)
        /\ \A k \in 1 .. Len(before) + Len(after) :
             written[k] = IF k <= Len(before) THEN before[k] ELSE after[k - Len(before)]
    BY <2>3, <2>4, <2>5, ConcatProperties
  <2>8. Len(before) + Len(after) = Len(entries) - 1 /\ DOMAIN written = 1 .. Len(entries) - 1
    <3>1. Len(before) + Len(after) = Len(entries) - 1
      BY <1>2, <1>3, <2>3, <2>4
    <3>. QED  BY <2>7, <3>1, LenProperties
  <2>9. ASSUME NEW k \in DOMAIN written
        PROVE  /\ k < spot => k \in DOMAIN entries /\ written[k] = entries[k]
               /\ ~ k < spot => k + 1 \in DOMAIN entries /\ written[k] = entries[k + 1]
    <3>1. CASE k < spot
      <4>1. k \in 1 .. spot - 1 /\ k <= spot - 1 /\ k \in DOMAIN entries
        BY <1>2, <1>3, <2>8, <3>1
      <4>. QED  BY <3>1, <4>1, <2>3, <2>7, <2>8
    <3>2. CASE ~ k < spot
      <4>1. /\ k - (spot - 1) \in 1 .. Len(entries) - spot /\ (k - (spot - 1)) + spot = k + 1
            /\ ~ k <= spot - 1 /\ k + 1 \in DOMAIN entries
        BY <1>2, <1>3, <2>8, <3>2
      <4>2. written[k] = after[k - (spot - 1)]
        BY <4>1, <2>3, <2>7, <2>8
      <4>. QED  BY <3>2, <4>1, <4>2, <2>4
    <3>. QED  BY <3>1, <3>2
  <2>10. \A k \in DOMAIN written : DOMAIN written[k] = {"id", "role", "persona", "tools", "enabled"}
    BY <2>9 DEF Sound
  <2>11. ASSUME NEW k \in DOMAIN written, NEW l \in DOMAIN written, written[k].id = written[l].id
         PROVE  k = l
    <3>1. k \in Int /\ l \in Int /\ spot \in Int
      BY <1>2, <1>3, <2>8
    <3>2. \A i, j \in DOMAIN entries : entries[i].id = entries[j].id => i = j
      BY DEF Sound
    <3>3. CASE k < spot /\ l < spot
      BY <2>9, <2>11, <3>2, <3>3
    <3>4. CASE ~ k < spot /\ ~ l < spot
      <4>1. k + 1 = l + 1
        BY <2>9, <2>11, <3>2, <3>4
      <4>. QED  BY <3>1, <4>1
    <3>5. CASE k < spot /\ ~ l < spot
      <4>1. k = l + 1
        BY <2>9, <2>11, <3>2, <3>5
      <4>. QED  BY <3>1, <3>5, <4>1
    <3>6. CASE ~ k < spot /\ l < spot
      <4>1. k + 1 = l
        BY <2>9, <2>11, <3>2, <3>6
      <4>. QED  BY <3>1, <3>6, <4>1
    <3>. QED  BY <3>3, <3>4, <3>5, <3>6
  <2>12. written \in Seq(ToSet(written))
    BY <2>7, LenProperties DEF ToSet
  <2>. QED  BY <2>6, <2>10, <2>11, <2>12 DEF Sound
<1>5. CASE command.op # "remove"
  <2>1. PICK on : on = (command.op = "enable")
    OBVIOUS
  <2>2. PICK written : written = [entries EXCEPT ![spot] = [@ EXCEPT !.enabled = on]]
    OBVIOUS
  <2>3. AgentsWritten(command, entries) = written
    BY <1>1, <1>5, <2>1, <2>2 DEF AgentsWritten, Creates, Switches
  <2>4. PICK changed : changed = [entries[spot] EXCEPT !.enabled = on]
    OBVIOUS
  <2>5. changed.id = entries[spot].id /\ DOMAIN changed = DOMAIN entries[spot]
    BY <1>3, <2>4 DEF Sound
  <2>6. /\ DOMAIN written = DOMAIN entries /\ written[spot] = changed
        /\ \A i \in DOMAIN entries \ {spot} : written[i] = entries[i]
        /\ written = [i \in DOMAIN written |-> written[i]]
    BY <1>3, <2>2, <2>4
  <2>7. Len(written) = Len(entries) /\ written \in Seq(ToSet(written))
    BY <1>2, <2>6 DEF ToSet
  <2>8. /\ \A i \in DOMAIN written :
            DOMAIN written[i] = {"id", "role", "persona", "tools", "enabled"}
        /\ \A i, j \in DOMAIN written : written[i].id = written[j].id => i = j
    BY <1>3, <2>5, <2>6 DEF Sound
  <2>. QED  BY <2>3, <2>7, <2>8 DEF Sound
<1>. QED  BY <1>4, <1>5

AgentsRead(op, read) == \A i \in DOMAIN read : Looks(op)[i] = "agents" => OneEntryEach(read[i])

RunOK(run) ==
  /\ DOMAIN run = {"command", "at", "read", "target", "content", "answer", "notes"}
  /\ IsSeq(run.read) /\ AgentsRead(run.command.op, run.read)
  /\ run.at \in {"write", "writing"} /\ run.target = "agents" => OneEntryEach(run.content)

\* What lies on the disk, what any run has read of it, however long ago, and what
\* any run will write there.
FilesInv ==
  /\ "agents" \in DOMAIN files /\ OneEntryEach(files["agents"])
  /\ DOMAIN cli = CliRuns
  /\ \A c \in CliRuns : RunOK(cli[c])

LEMMA FilesStart == FilesInit => FilesInv
<1> SUFFICES ASSUME FilesInit PROVE FilesInv
  OBVIOUS
<1>1. "agents" \in DOMAIN files /\ OneEntryEach(files["agents"])
  BY ConfigAssumption DEF FilesInit, ConfigAssumption
<1>2. PICK pick : cli = [c \in CliRuns |-> Called(pick[c])]
  BY DEF FilesInit
<1>3. ASSUME NEW command PROVE RunOK(Called(command))
  <2>1. <<>> \in Seq(ToSet(<<>>)) /\ DOMAIN <<>> = {}
    OBVIOUS
  <2>2. PICK run : run = Called(command)
    OBVIOUS
  <2>3. /\ DOMAIN run = {"command", "at", "read", "target", "content", "answer", "notes"}
        /\ run.at = "called" /\ run.read = <<>>
    BY <2>2 DEF Called
  <2>. QED  BY <2>1, <2>2, <2>3 DEF RunOK, AgentsRead, IsSeq
<1>. QED  BY <1>1, <1>2, <1>3 DEF FilesInv

LEMMA RunAnswered ==
  ASSUME NEW run, RunOK(run), NEW answer, NEW notes
  PROVE  RunOK(Answered(run, answer, notes))
<1>1. PICK new : new = Answered(run, answer, notes)
  OBVIOUS
<1>2. DOMAIN new = DOMAIN run /\ new.at = "done" /\ new.read = run.read /\ new.command = run.command
  BY <1>1 DEF Answered, RunOK
<1>. QED  BY <1>1, <1>2 DEF RunOK

LEMMA RunWrites ==
  ASSUME NEW run, RunOK(run), NEW target, NEW content, target = "agents" => OneEntryEach(content)
  PROVE  RunOK(WillWrite(run, target, content))
<1>1. PICK new : new = WillWrite(run, target, content)
  OBVIOUS
<1>2. /\ DOMAIN new = DOMAIN run /\ new.read = run.read /\ new.command = run.command
      /\ new.target = target /\ new.content = content
  BY <1>1 DEF WillWrite, RunOK
<1>. QED  BY <1>1, <1>2 DEF RunOK

LEMMA RunMoves ==
  ASSUME NEW run, RunOK(run), NEW at, at \in {"write", "writing"} => run.at \in {"write", "writing"}
  PROVE  RunOK([run EXCEPT !.at = at])
<1>1. PICK new : new = [run EXCEPT !.at = at]
  OBVIOUS
<1>2. /\ DOMAIN new = DOMAIN run /\ new.read = run.read /\ new.command = run.command
      /\ new.target = run.target /\ new.content = run.content /\ new.at = at
  BY <1>1 DEF RunOK
<1>. QED  BY <1>1, <1>2 DEF RunOK

LEMMA RunReads ==
  ASSUME NEW run, RunOK(run), NEW file,
         Looks(run.command.op)[Len(run.read) + 1] = "agents" => OneEntryEach(file)
  PROVE  RunOK([run EXCEPT !.read = Append(@, file)])
<1>1. PICK read : read = Append(run.read, file)
  OBVIOUS
<1>2. PICK new : new = [run EXCEPT !.read = read]
  OBVIOUS
<1>3. /\ DOMAIN new = DOMAIN run /\ new.read = read /\ new.command = run.command
      /\ new.target = run.target /\ new.content = run.content /\ new.at = run.at
  BY <1>2 DEF RunOK
<1>4. /\ IsSeq(read) /\ DOMAIN read = 1 .. Len(run.read) + 1 /\ Len(run.read) \in Nat
      /\ DOMAIN run.read = 1 .. Len(run.read)
      /\ \A i \in 1 .. Len(run.read) : read[i] = run.read[i]
      /\ read[Len(run.read) + 1] = file
  BY <1>1, Appended DEF RunOK
<1>5. \A i \in DOMAIN read : i \in DOMAIN run.read \/ i = Len(run.read) + 1
  BY <1>4
<1>6. AgentsRead(run.command.op, read)
  BY <1>4, <1>5 DEF RunOK, AgentsRead
<1>. QED  BY <1>1, <1>2, <1>3, <1>4, <1>6 DEF RunOK

LEMMA RunStep ==
  ASSUME FilesInv, NEW c \in CliRuns, NEW new, RunOK(new), cli' = [cli EXCEPT ![c] = new],
         UNCHANGED files
  PROVE  FilesInv'
<1>1. /\ DOMAIN cli' = CliRuns /\ cli'[c] = new
      /\ \A d \in CliRuns \ {c} : cli'[d] = cli[d]
  BY DEF FilesInv
<1>2. \A d \in CliRuns : RunOK(cli'[d])
  BY <1>1 DEF FilesInv
<1>. QED  BY <1>1, <1>2 DEF FilesInv, RunOK

\* The agent commands write a list made of the one they read.
LEMMA AgentStep ==
  ASSUME FilesInv, NEW c \in CliRuns, ConcludeAgent(c)
  PROVE  FilesInv'
<1>1. PICK run : run = cli[c]
  OBVIOUS
<1>2. PICK command : command = Command(c)
  OBVIOUS
<1>3. RunOK(run) /\ command = run.command
  BY <1>1, <1>2 DEF FilesInv, Command
<1>4. PICK agents : agents = run.read[IF command.op = "create-rp" THEN 2 ELSE 1]
  OBVIOUS
<1>5. PICK personas : personas = IF command.op = "create-rp" THEN PersonaIds(run.read[1])
                                 ELSE IF Len(run.read) = 2 THEN PersonaIds(run.read[2]) ELSE {}
  OBVIOUS
<1>6. PICK denied : denied = AgentDenied(command, personas, agents)
  OBVIOUS
<1>7. PICK entries : entries = Entries(agents)
  OBVIOUS
<1>8. /\ command.op \in Creates \union Switches \union {"list", "show", "validate"}
      /\ Len(run.read) = Len(Looks(command.op))
      /\ UNCHANGED <<files, keys>>
  BY <1>1, <1>2, Zenon DEF ConcludeAgent, LooksOf
<1>9. cli' = [cli EXCEPT ![c] =
         CASE denied # "none" -> Answered(run, denied, {})
           [] denied = "none" /\ command.op \in Creates \union Switches ->
                WillWrite(run, "agents", File("ok", AgentsWritten(command, entries)))
           [] denied = "none" /\ command.op = "validate" ->
                Answered(run, "ok", Diagnostics(Narrowed(command, entries), personas))
           [] OTHER -> Answered(run, "ok", {})]
  BY <1>1, <1>2, <1>4, <1>5, <1>6, <1>7, Zenon DEF ConcludeAgent
<1>10. DOMAIN run.read = 1 .. Len(run.read)
  BY <1>3, LenProperties DEF RunOK, IsSeq
<1>11. OneEntryEach(agents)
  <2>1. CASE command.op = "create-rp"
    <3>1. Looks(command.op) = <<"personas", "agents">>
      BY <2>1, Looked
    <3>2. 2 \in DOMAIN run.read /\ Looks(command.op)[2] = "agents"
      BY <1>8, <1>10, <3>1
    <3>. QED  BY <1>3, <1>4, <2>1, <3>2 DEF RunOK, AgentsRead
  <2>2. CASE command.op # "create-rp"
    <3>1. Looks(command.op) \in {<<"agents">>, <<"agents", "personas">>}
      BY <1>8, <2>2, Looked DEF Creates
    <3>2. 1 \in DOMAIN run.read /\ Looks(command.op)[1] = "agents"
      BY <1>8, <1>10, <3>1
    <3>. QED  BY <1>3, <1>4, <2>2, <3>2 DEF RunOK, AgentsRead
  <2>. QED  BY <2>1, <2>2
<1>12. Sound(entries)
  <2>1. Sound(<<>>)
    BY DEF Sound
  <2>. QED  BY <1>7, <1>11, <2>1, SoundFiles DEF Entries
<1>13. ASSUME denied = "none", command.op \in Creates \union Switches
       PROVE  OneEntryEach(File("ok", AgentsWritten(command, entries)))
  <2>1. CASE command.op \in Creates
    <3>1. ~ CreateRefused(command, entries)
      BY <1>6, <1>7, <1>13 DEF AgentDenied
    <3>2. ~ Listed_Agent(entries, command.agent)
      BY <2>1, <3>1 DEF CreateRefused
    <3>. QED  BY <1>12, <2>1, <3>2, CreatedSound, SoundFiles DEF File
  <2>2. CASE command.op \in Switches
    <3>1. Listed_Agent(entries, command.agent)
      BY <1>6, <1>7, <1>13, <2>2 DEF AgentDenied
    <3>. QED  BY <1>12, <2>2, <3>1, SwitchedSound, SoundFiles DEF File
  <2>. QED  BY <1>13, <2>1, <2>2
<1>14. CASE denied = "none" /\ command.op \in Creates \union Switches
  <2>1. PICK new : new = WillWrite(run, "agents", File("ok", AgentsWritten(command, entries)))
    OBVIOUS
  <2>2. cli' = [cli EXCEPT ![c] = new]
    BY <1>9, <1>14, <2>1 DEF Creates, Switches
  <2>. QED  BY <1>3, <1>8, <1>13, <1>14, <2>1, <2>2, RunWrites, RunStep
<1>15. CASE ~ (denied = "none" /\ command.op \in Creates \union Switches)
  <2>1. \E answer, notes : cli' = [cli EXCEPT ![c] = Answered(run, answer, notes)]
    BY <1>9, <1>15
  <2>. QED  BY <1>3, <1>8, <2>1, RunAnswered, RunStep
<1>. QED  BY <1>14, <1>15

LEMMA CliStep ==
  ASSUME FilesInv, NEW c \in CliRuns, 
         \/ RejectUsage(c) \/ BeginCli(c) \/ ReadFile(c) \/ ConcludeAgent(c) \/ ConcludeConfig(c)
         \/ TruncateFile(c) \/ FillFile(c) \/ CutOff(c)
  PROVE  FilesInv'
<1>1. RunOK(cli[c]) /\ DOMAIN cli = CliRuns
  BY DEF FilesInv
<1>2. CASE RejectUsage(c)
  BY <1>1, <1>2, RunAnswered, RunStep DEF RejectUsage
<1>3. CASE BeginCli(c) \/ CutOff(c)
  <2>1. PICK at \in {"reading", "cut"} : cli' = [cli EXCEPT ![c] = [cli[c] EXCEPT !.at = at]]
    BY <1>3 DEF BeginCli, CutOff
  <2>2. RunOK([cli[c] EXCEPT !.at = at])
    BY <1>1, <2>1, RunMoves
  <2>. QED  BY <1>3, <2>1, <2>2, RunStep DEF BeginCli, CutOff
<1>4. CASE ReadFile(c)
  <2>1. PICK run : run = cli[c]
    OBVIOUS
  <2>2. PICK name : name = Looks(run.command.op)[Len(run.read) + 1]
    OBVIOUS
  <2>3. PICK next : next = [run EXCEPT !.read = Append(@, files[name])]
    OBVIOUS
  <2>4. /\ cli' = [cli EXCEPT ![c] = next]
           \/ cli' = [cli EXCEPT ![c] = WillWrite(next, name, Shipped[name])]
        /\ UNCHANGED files
    BY <1>4, <2>1, <2>2, <2>3 DEF ReadFile, LooksOf, Command
  <2>5. RunOK(next)
    <3>1. name = "agents" => OneEntryEach(files[name])
      BY DEF FilesInv
    <3>. QED  BY <1>1, <2>1, <2>2, <2>3, <3>1, RunReads
  <2>6. RunOK(WillWrite(next, name, Shipped[name]))
    <3>1. name = "agents" => OneEntryEach(Shipped[name])
      BY ConfigAssumption DEF ConfigAssumption
    <3>. QED  BY <2>5, <3>1, RunWrites
  <2>. QED  BY <2>4, <2>5, <2>6, RunStep
<1>5. CASE ConcludeAgent(c)
  BY <1>5, AgentStep
<1>6. CASE ConcludeConfig(c)
  <2>1. /\ \/ \E answer, notes : cli' = [cli EXCEPT ![c] = Answered(cli[c], answer, notes)]
           \/ \E content : cli' = [cli EXCEPT ![c] = WillWrite(cli[c], "runtime", content)]
        /\ UNCHANGED files
    BY <1>6 DEF ConcludeConfig
  <2>. QED  BY <1>1, <2>1, RunAnswered, RunWrites, RunStep
<1>7. CASE TruncateFile(c)
  <2>1. PICK new : new = [cli[c] EXCEPT !.at = "writing"]
    OBVIOUS
  <2>2. RunOK(new)
    BY <1>1, <1>7, <2>1, RunMoves DEF TruncateFile
  <2>3. /\ cli' = [cli EXCEPT ![c] = new]
        /\ files' = [files EXCEPT ![cli[c].target] = TornFile]
    BY <1>7, <2>1 DEF TruncateFile
  <2>4. OneEntryEach(TornFile)
    BY DEF OneEntryEach, TornFile, File
  <2>5. "agents" \in DOMAIN files' /\ OneEntryEach(files'["agents"])
    BY <2>3, <2>4 DEF FilesInv
  <2>6. DOMAIN cli' = CliRuns /\ \A d \in CliRuns : RunOK(cli'[d])
    BY <2>2, <2>3 DEF FilesInv
  <2>. QED  BY <2>5, <2>6 DEF FilesInv, RunOK
<1>8. CASE FillFile(c)
  <2>1. PICK new : new = IF Command(c).op = "init" THEN [cli[c] EXCEPT !.at = "reading"]
                         ELSE Answered(cli[c], "ok", {})
    OBVIOUS
  <2>2. RunOK(new)
    BY <1>1, <2>1, RunMoves, RunAnswered
  <2>3. /\ cli' = [cli EXCEPT ![c] = new] /\ cli[c].at = "writing"
        /\ files' = [files EXCEPT ![cli[c].target] = cli[c].content]
    BY <1>8, <2>1 DEF FillFile
  <2>4. cli[c].target = "agents" => OneEntryEach(cli[c].content)
    BY <1>1, <2>3 DEF RunOK
  <2>5. "agents" \in DOMAIN files' /\ OneEntryEach(files'["agents"])
    BY <2>3, <2>4 DEF FilesInv
  <2>6. DOMAIN cli' = CliRuns /\ \A d \in CliRuns : RunOK(cli'[d])
    BY <2>2, <2>3 DEF FilesInv
  <2>. QED  BY <2>5, <2>6 DEF FilesInv, RunOK
<1>. QED  BY <1>2, <1>3, <1>4, <1>5, <1>6, <1>7, <1>8

LEMMA FilesStep == FilesInv /\ [AppNext]_appVars => FilesInv'
<1> SUFFICES ASSUME FilesInv, [AppNext]_appVars PROVE FilesInv'
  OBVIOUS
<1>1. CASE UNCHANGED <<files, cli>>
  BY <1>1 DEF FilesInv, RunOK
<1>2. ASSUME NEW h \in Hosts,
             \/ LookAt(h) \/ Bootstrap(h) \/ InitializePg(h) \/ Diagnose(h) \/ StartHost(h)
             \/ StartTick(h) \/ EndTick(h) \/ Shutdown(h) \/ CloseRuntime(h) \/ ExitProcess(h)
      PROVE  UNCHANGED <<files, cli>>
  BY <1>2 DEF LookAt, Bootstrap, InitializePg, Diagnose, StartHost, StartTick, EndTick, Shutdown,
              CloseRuntime, ExitProcess, filesVars
<1>3. CASE HostNext
  BY <1>1, <1>2, <1>3, Zenon DEF HostNext
<1>4. CASE CliNext
  BY <1>4, CliStep DEF CliNext
<1>5. ASSUME NEW b \in Beginnings, NEW name, SaveByOthers(name, b.files[name])
      PROVE  FilesInv'
  <2>1. files' = [files EXCEPT ![name] = b.files[name]] /\ cli' = cli
    BY <1>5 DEF SaveByOthers
  <2>2. OneEntryEach(b.files["agents"])
    BY ConfigAssumption DEF ConfigAssumption
  <2>3. "agents" \in DOMAIN files' /\ OneEntryEach(files'["agents"])
    BY <2>1, <2>2 DEF FilesInv
  <2>. QED  BY <2>1, <2>3 DEF FilesInv, RunOK
<1>6. CASE UNCHANGED appVars
  BY <1>1, <1>6 DEF appVars, filesVars
<1>. QED  BY <1>3, <1>4, <1>5, <1>6 DEF AppNext

\* Commands that overlap leave no agent twice in its file (addAgentEntry and the
\* other writers of agents.json, each in a process of its own).
THEOREM AgentsCorrect == AppSpec => []OneEntryPerAgent
<1>1. AppInit => FilesInv
  BY FilesStart DEF AppInit
<1>2. FilesInv => OneEntryPerAgent
  BY DEF FilesInv, OneEntryPerAgent, OneEntryEach
<1>. QED  BY <1>1, <1>2, FilesStep, PTL DEF AppSpec

(***************************************************************************)
(* What the doctor calls ready.                                            *)
(***************************************************************************)

LooksBy(how) ==
  (IF how.caller = "doctor" THEN <<"runtime", "runtime", "auth", "personas", "agents">> ELSE <<>>)
  \o <<"runtime", "runtime", "auth", "providers", "agents">>

LEMMA BootLooksBy == \A h \in Hosts : BootLooks(h) = LooksBy(hosts[h].how)
BY DEF BootLooks, LooksBy, IsDoctor

OwnLooks == <<"runtime", "runtime", "auth", "personas", "agents">>
HostLooks == <<"runtime", "runtime", "auth", "providers", "agents">>

LookNames == {"runtime", "auth", "personas", "providers", "agents"}

LEMMA LooksAreLists ==
  /\ OwnLooks \in Seq(LookNames) /\ HostLooks \in Seq(LookNames) /\ <<>> \in Seq(LookNames)
  /\ Len(OwnLooks) = 5 /\ Len(HostLooks) = 5
  /\ OwnLooks[1] = HostLooks[1] /\ OwnLooks[5] = HostLooks[5]
<1>1. OwnLooks \in Seq(LookNames)
  BY DEF OwnLooks, LookNames
<1>2. HostLooks \in Seq(LookNames)
  BY DEF HostLooks, LookNames
<1>3. <<>> \in Seq(LookNames)
  OBVIOUS
<1>4. Len(OwnLooks) = 5 /\ Len(HostLooks) = 5
  BY DEF OwnLooks, HostLooks
<1>5. OwnLooks[1] = HostLooks[1] /\ OwnLooks[5] = HostLooks[5]
  BY DEF OwnLooks, HostLooks
<1>. QED  BY <1>1, <1>2, <1>3, <1>4, <1>5

LEMMA LooksLength == \A how : Len(LooksBy(how)) \in Nat
<1> SUFFICES ASSUME NEW how PROVE Len(LooksBy(how)) \in Nat
  OBVIOUS
<1>1. CASE how.caller = "doctor"
  <2>1. LooksBy(how) = OwnLooks \o HostLooks
    BY <1>1 DEF LooksBy, OwnLooks, HostLooks
  <2>. QED  BY <2>1, LooksAreLists, ConcatProperties, LenProperties
<1>2. CASE how.caller # "doctor"
  <2>1. LooksBy(how) = <<>> \o HostLooks
    BY <1>2 DEF LooksBy, HostLooks
  <2>. QED  BY <2>1, LooksAreLists, ConcatProperties, LenProperties
<1>. QED  BY <1>1, <1>2

\* The doctor and the host it creates look at the same files.
LEMMA DoctorLooks ==
  ASSUME NEW how, how.caller = "doctor"
  PROVE  /\ Len(LooksBy(how)) = 10
         /\ LooksBy(how)[1] = LooksBy(how)[6] /\ LooksBy(how)[5] = LooksBy(how)[10]
<1>1. LooksBy(how) = OwnLooks \o HostLooks
  BY DEF LooksBy, OwnLooks, HostLooks
<1>2. PICK both : both = OwnLooks \o HostLooks
  OBVIOUS
<1>3. /\ Len(both) = 10
      /\ \A i \in 1 .. 10 : both[i] = IF i <= 5 THEN OwnLooks[i] ELSE HostLooks[i - 5]
  <2>1. /\ Len(both) = Len(OwnLooks) + Len(HostLooks)
        /\ \A i \in 1 .. Len(OwnLooks) + Len(HostLooks) :
             both[i] = IF i <= Len(OwnLooks) THEN OwnLooks[i] ELSE HostLooks[i - Len(OwnLooks)]
    BY <1>2, LooksAreLists, ConcatProperties
  <2>2. Len(OwnLooks) = 5 /\ Len(HostLooks) = 5 /\ 5 + 5 = 10
    BY LooksAreLists
  <2>. QED  BY <2>1, <2>2
<1>4. /\ both[1] = OwnLooks[1] /\ both[5] = OwnLooks[5]
      /\ both[6] = HostLooks[1] /\ both[10] = HostLooks[5]
  BY <1>3
<1>. QED  BY <1>1, <1>2, <1>3, <1>4, LooksAreLists

LEMMA UnnamedIsMissing ==
  ASSUME NEW memory, NEW offered, memory.embed = NoModel
  PROVE  PipelineStatus(memory, offered) = "missing_embedding_model"
<1>1. PreliminaryStatus(memory, offered) = "missing_embedding_model"
  BY DEF PreliminaryStatus
<1>. QED  BY <1>1 DEF PipelineStatus, HasMemoryAgent

\* A host that got through bootstrapRuntime has the agents of its own last look
\* at their file, and embeds unless its status says that no model is named.
Booted(host) ==
  /\ Len(host.read) = Len(LooksBy(host.how))
  /\ host.agents = Registered(host.read[Len(host.read)])
  /\ host.how.portFits /\ host.status # "missing_embedding_model" =>
       ConfigMemory(host.how.memory, host.read[Len(host.read) - 4]).embed # NoModel

\* What has to be so for the doctor to find nothing.
FoundReady(host) ==
  /\ host.how.caller = "doctor" /\ Len(host.read) = 10
  /\ host.agents = Registered(host.read[10])
  /\ GraphNotes(host.read[4], host.read[5]) = {}
  /\ ConfigMemory(host.how.memory, host.read[6]).embed # NoModel

\* Looks at the same file found the same, if nobody wrote between them.
SameLooks(host) ==
  \A i, j \in DOMAIN host.read :
    LooksBy(host.how)[i] = LooksBy(host.how)[j] => host.read[i] = host.read[j]

UpToDate(host, now) == \A i \in DOMAIN host.read : host.read[i] = now[LooksBy(host.how)[i]]

HostFields == {"how", "at", "read", "quiet", "agents", "status", "sweeper", "pool", "thinker",
               "server", "consumer", "lease", "ticks", "stopped", "verdict", "cause"}

HostOK(host, now) ==
  /\ DOMAIN host = HostFields /\ host.quiet \in BOOLEAN
  /\ IsSeq(host.read) /\ Len(host.read) <= Len(LooksBy(host.how))
  /\ host.at = "booting" => host.verdict = "none"
  /\ host.quiet => SameLooks(host)
  /\ host.quiet /\ host.verdict = "none" => UpToDate(host, now)
  /\ host.at \notin {"booting", "failed"} => Booted(host)
  /\ host.verdict = "ready" => FoundReady(host)

HostsInv == DOMAIN hosts = Hosts /\ \A h \in Hosts : HostOK(hosts[h], files)

LEMMA HostsStart == AppInit => HostsInv
<1> SUFFICES ASSUME AppInit PROVE HostsInv
  OBVIOUS
<1>1. ASSUME NEW how PROVE HostOK(IdleHost(how), files)
  <2>1. PICK host : host = IdleHost(how)
    OBVIOUS
  <2>2. /\ DOMAIN host = HostFields /\ host.quiet = TRUE /\ host.read = <<>> /\ host.how = how
        /\ host.at = "booting" /\ host.verdict = "none"
    BY <2>1 DEF IdleHost, HostFields
  <2>3. <<>> \in Seq(ToSet(<<>>)) /\ DOMAIN <<>> = {} /\ Len(<<>>) = 0
    OBVIOUS
  <2>4. Len(LooksBy(how)) \in Nat
    BY LooksLength
  <2>5. SameLooks(host) /\ UpToDate(host, files) /\ IsSeq(host.read)
    BY <2>2, <2>3 DEF SameLooks, UpToDate, IsSeq
  <2>6. Len(host.read) <= Len(LooksBy(host.how))
    BY <2>2, <2>3, <2>4
  <2>. QED  BY <2>1, <2>2, <2>5, <2>6 DEF HostOK
<1>. QED  BY <1>1 DEF AppInit, HostsInv

LEMMA HostMoved ==
  ASSUME HostsInv, NEW h \in Hosts, NEW new, HostOK(new, files),
         hosts' = [hosts EXCEPT ![h] = new], UNCHANGED files
  PROVE  HostsInv'
<1>1. /\ DOMAIN hosts' = Hosts /\ hosts'[h] = new
      /\ \A o \in Hosts \ {h} : hosts'[o] = hosts[o]
  BY DEF HostsInv
<1>2. \A o \in Hosts : HostOK(hosts'[o], files')
  BY <1>1 DEF HostsInv
<1>. QED  BY <1>1, <1>2 DEF HostsInv, HostOK, UpToDate

\* A host moves on and keeps what it found.
LEMMA HostKept ==
  ASSUME HostsInv, NEW h \in Hosts, NEW new, hosts' = [hosts EXCEPT ![h] = new], UNCHANGED files,
         DOMAIN new = HostFields, new.how = hosts[h].how, new.read = hosts[h].read,
         new.quiet = hosts[h].quiet, new.agents = hosts[h].agents, new.verdict = hosts[h].verdict,
         new.at = "failed" \/ new.status = hosts[h].status,
         new.at # hosts[h].at => hosts[h].at \notin {"booting", "failed"} /\ new.at # "booting"
  PROVE  HostsInv'
<1>1. HostOK(hosts[h], files)
  BY DEF HostsInv
<1>2. new.at \notin {"booting", "failed"} => Booted(new)
  BY <1>1 DEF HostOK, Booted
<1>3. HostOK(new, files)
  BY <1>1, <1>2 DEF HostOK, SameLooks, UpToDate, FoundReady
<1>. QED  BY <1>3, HostMoved

LEMMA LookStep ==
  ASSUME HostsInv, NEW h \in Hosts, LookAt(h)
  PROVE  HostsInv'
<1>1. PICK host : host = hosts[h]
  OBVIOUS
<1>2. PICK looks : looks = LooksBy(host.how)
  OBVIOUS
<1>3. PICK file : file = files[looks[Len(host.read) + 1]]
  OBVIOUS
<1>4. PICK read : read = Append(host.read, file)
  OBVIOUS
<1>5. PICK new : new = [host EXCEPT !.read = read]
  OBVIOUS
<1>6. /\ hosts' = [hosts EXCEPT ![h] = new] /\ UNCHANGED files
      /\ host.at = "booting" /\ Len(host.read) < Len(looks)
  BY <1>1, <1>2, <1>3, <1>4, <1>5, BootLooksBy DEF LookAt, filesVars
<1>7. HostOK(host, files)
  BY <1>1 DEF HostsInv
<1>8. /\ DOMAIN new = HostFields /\ new.how = host.how /\ new.at = host.at /\ new.read = read
      /\ new.quiet = host.quiet /\ new.verdict = host.verdict
  BY <1>5, <1>7 DEF HostOK, HostFields
<1>9. /\ IsSeq(read) /\ Len(host.read) \in Nat /\ DOMAIN host.read = 1 .. Len(host.read)
      /\ Len(read) = Len(host.read) + 1 /\ DOMAIN read = 1 .. Len(host.read) + 1
      /\ \A i \in 1 .. Len(host.read) : read[i] = host.read[i]
      /\ read[Len(host.read) + 1] = file
  BY <1>4, <1>7, Appended DEF HostOK
<1>10. \A i \in DOMAIN read : i \in DOMAIN host.read \/ i = Len(host.read) + 1
  BY <1>9
<1>11. host.verdict = "none"
  BY <1>6, <1>7 DEF HostOK
<1>12. new.quiet => UpToDate(new, files)
  BY <1>2, <1>3, <1>7, <1>8, <1>9, <1>10, <1>11 DEF HostOK, UpToDate
<1>13. new.quiet => SameLooks(new)
  BY <1>12 DEF SameLooks, UpToDate
<1>14. Len(read) <= Len(looks)
  <2>1. Len(looks) \in Nat
    BY <1>2, LooksLength
  <2>. QED  BY <2>1, <1>6, <1>9
<1>15. HostOK(new, files)
  BY <1>2, <1>6, <1>7, <1>8, <1>9, <1>11, <1>12, <1>13, <1>14 DEF HostOK
<1>. QED  BY <1>6, <1>15, HostMoved

LEMMA BootStep ==
  ASSUME HostsInv, NEW h \in Hosts, Bootstrap(h)
  PROVE  HostsInv'
<1>1. PICK host : host = hosts[h]
  OBVIOUS
<1>2. HostOK(host, files)
  BY <1>1 DEF HostsInv
<1>3. PICK memory : memory = HostMemory(h, Seen(h, 1))
  OBVIOUS
<1>4. PICK status : status = PipelineStatus(memory, Offered(Seen(h, 3), Seen(h, 4)))
  OBVIOUS
<1>5. PICK thinker, sweeper : thinker = ThinkerEnabled(Seen(h, 2)) /\ sweeper = HasMemoryAgent(memory)
  OBVIOUS
<1>6. PICK agents : agents = Registered(Seen(h, 5))
  OBVIOUS
<1>7. /\ \/ hosts' = [hosts EXCEPT ![h] = [host EXCEPT !.at = "failed"]]
         \/ hosts' = [hosts EXCEPT ![h] =
                        [host EXCEPT !.at = "bootstrapped", !.agents = agents, !.status = status,
                                     !.thinker = thinker, !.sweeper = sweeper]]
      /\ host.at = "booting" /\ Len(host.read) = Len(LooksBy(host.how)) /\ UNCHANGED files
  BY <1>1, <1>3, <1>4, <1>5, <1>6, BootLooksBy, Zenon DEF Bootstrap, filesVars
<1>8. CASE hosts' = [hosts EXCEPT ![h] = [host EXCEPT !.at = "failed"]]
  <2>1. PICK new : new = [host EXCEPT !.at = "failed"]
    OBVIOUS
  <2>2. /\ DOMAIN new = HostFields /\ new.how = host.how /\ new.at = "failed"
        /\ new.read = host.read /\ new.quiet = host.quiet /\ new.verdict = host.verdict
    BY <1>2, <2>1 DEF HostOK, HostFields
  <2>3. HostOK(new, files)
    BY <1>2, <1>7, <2>2 DEF HostOK, SameLooks, UpToDate
  <2>. QED  BY <1>7, <1>8, <2>1, <2>3, HostMoved
<1>9. CASE hosts' = [hosts EXCEPT ![h] =
                       [host EXCEPT !.at = "bootstrapped", !.agents = agents, !.status = status,
                                    !.thinker = thinker, !.sweeper = sweeper]]
  <2>1. PICK new : new = [host EXCEPT !.at = "bootstrapped", !.agents = agents, !.status = status,
                                      !.thinker = thinker, !.sweeper = sweeper]
    OBVIOUS
  <2>2. /\ DOMAIN new = HostFields /\ new.how = host.how /\ new.at = "bootstrapped"
        /\ new.read = host.read /\ new.quiet = host.quiet /\ new.verdict = host.verdict
        /\ new.agents = agents /\ new.status = status
    BY <1>2, <2>1 DEF HostOK, HostFields
  <2>3. Len(host.read) \in Nat
    BY <1>2, LenProperties DEF HostOK, IsSeq
  <2>4. /\ Seen(h, 5) = host.read[Len(host.read)] /\ Seen(h, 1) = host.read[Len(host.read) - 4]
    BY <1>1, <1>7, <2>3, BootLooksBy DEF Seen
  <2>5. ASSUME host.how.portFits, status # "missing_embedding_model"
        PROVE  ConfigMemory(host.how.memory, host.read[Len(host.read) - 4]).embed # NoModel
    <3>1. memory.embed # NoModel
      BY <1>4, <2>5, UnnamedIsMissing
    <3>2. memory = ConfigMemory(host.how.memory, host.read[Len(host.read) - 4])
      BY <1>1, <1>3, <2>4, <2>5 DEF HostMemory
    <3>. QED  BY <3>1, <3>2
  <2>6. Booted(new)
    BY <1>6, <1>7, <2>2, <2>4, <2>5 DEF Booted
  <2>7. HostOK(new, files)
    BY <1>2, <1>7, <2>2, <2>6 DEF HostOK, SameLooks, UpToDate
  <2>. QED  BY <1>7, <1>9, <2>1, <2>7, HostMoved
<1>. QED  BY <1>7, <1>8, <1>9

LEMMA DiagnoseStep ==
  ASSUME HostsInv, NEW h \in Hosts, Diagnose(h)
  PROVE  HostsInv'
<1>1. PICK host : host = hosts[h]
  OBVIOUS
<1>2. PICK cause, verdict : cause = Cause(h) /\ verdict = VerdictOf(cause)
  OBVIOUS
<1>3. PICK new : new = [host EXCEPT !.cause = cause, !.verdict = verdict]
  OBVIOUS
<1>4. /\ host.how.caller = "doctor" /\ host.at \in {"created", "failed"} /\ host.verdict = "none"
      /\ UNCHANGED files
  BY <1>1 DEF Diagnose, IsDoctor, filesVars
<1>5. HostOK(host, files)
  BY <1>1 DEF HostsInv
<1>6. hosts' = [hosts EXCEPT ![h] = new]
  <2>1. hosts' = [hosts EXCEPT ![h].cause = cause, ![h].verdict = verdict]
    BY <1>2 DEF Diagnose
  <2>2. host = hosts[h] /\ DOMAIN host = HostFields
    BY <1>1, <1>5 DEF HostOK
  <2>. QED  BY <1>3, <2>1, <2>2 DEF HostsInv, HostFields
<1>7. /\ DOMAIN new = HostFields /\ new.how = host.how /\ new.at = host.at /\ new.read = host.read
      /\ new.quiet = host.quiet /\ new.agents = host.agents /\ new.status = host.status
      /\ new.verdict = verdict
  BY <1>3, <1>5 DEF HostOK, HostFields
<1>8. ASSUME verdict = "ready" PROVE FoundReady(new)
  <2>1. cause = "none"
    BY <1>2, <1>8 DEF VerdictOf
  <2>2. /\ host.how.portFits /\ GraphNotes(host.read[4], host.read[5]) = {}
        /\ StatusSeen(h) # "missing_embedding_model" /\ StatusSeen(h) # "chat_model_unavailable"
    BY <1>1, <1>2, <2>1 DEF Cause
  <2>3. host.at = "created" /\ host.status # "missing_embedding_model"
    BY <1>1, <2>2 DEF StatusSeen
  <2>4. Booted(host)
    BY <1>5, <2>3 DEF HostOK
  <2>5. Len(host.read) = 10
    BY <1>4, <2>4, DoctorLooks DEF Booted
  <2>6. 10 - 4 = 6
    OBVIOUS
  <2>. QED  BY <1>4, <1>7, <2>2, <2>3, <2>4, <2>5, <2>6 DEF Booted, FoundReady
<1>9. new.at \notin {"booting", "failed"} => Booted(new)
  BY <1>5, <1>7 DEF HostOK, Booted
<1>10. HostOK(new, files)
  BY <1>4, <1>5, <1>7, <1>8, <1>9 DEF HostOK, SameLooks, UpToDate
<1>. QED  BY <1>4, <1>6, <1>10, HostMoved

\* The steps of a host that is up, or is not to be.
LEMMA RunningStep ==
  ASSUME HostsInv, NEW h \in Hosts,
         \/ InitializePg(h) \/ StartHost(h) \/ StartTick(h) \/ EndTick(h) \/ Shutdown(h)
         \/ CloseRuntime(h) \/ ExitProcess(h)
  PROVE  HostsInv'
<1>1. PICK host : host = hosts[h]
  OBVIOUS
<1>2. DOMAIN host = HostFields /\ UNCHANGED files
  BY <1>1 DEF HostsInv, HostOK, InitializePg, StartHost, StartTick, EndTick, Shutdown,
              CloseRuntime, ExitProcess, filesVars
<1>3. CASE InitializePg(h)
  <2>1. host.at = "bootstrapped"
    BY <1>1, <1>3 DEF InitializePg
  <2>2. PICK consumer, pool :
          \/ hosts' = [hosts EXCEPT ![h] = [host EXCEPT !.at = "created", !.pool = "open",
                                                        !.consumer = consumer]]
          \/ hosts' = [hosts EXCEPT ![h] = [host EXCEPT !.at = "failed", !.status = "none",
                                                        !.pool = pool]]
    BY <1>1, <1>3 DEF InitializePg
  <2>3. PICK up, down :
          /\ up = [host EXCEPT !.at = "created", !.pool = "open", !.consumer = consumer]
          /\ down = [host EXCEPT !.at = "failed", !.status = "none", !.pool = pool]
    OBVIOUS
  <2>4. \A new \in {up, down} :
          /\ DOMAIN new = HostFields /\ new.how = host.how /\ new.read = host.read
          /\ new.quiet = host.quiet /\ new.agents = host.agents /\ new.verdict = host.verdict
          /\ new.at \in {"created", "failed"}
          /\ new.at = "failed" \/ new.status = host.status
    BY <1>2, <2>3 DEF HostFields
  <2>5. PICK new \in {up, down} : hosts' = [hosts EXCEPT ![h] = new]
    BY <2>2, <2>3
  <2>. QED  BY <1>1, <1>2, <2>1, <2>4, <2>5, HostKept
<1>4. CASE StartHost(h)
  <2>1. host.at = "created"
    BY <1>1, <1>4 DEF StartHost
  <2>2. PICK up, down :
          /\ up = [hosts[h] EXCEPT !.at = "started", !.server = hosts[h].how.role = "server",
                                   !.consumer = IF hosts[h].consumer = "none" THEN "none" ELSE "on",
                                   !.lease = SweepsLeases(h)]
          /\ down = [hosts[h] EXCEPT !.at = "unbound"]
    OBVIOUS
  <2>3. PICK new \in {up, down} : hosts' = [hosts EXCEPT ![h] = new]
    BY <1>4, <2>2, Zenon DEF StartHost
  <2>4. PICK server, lease : server = (host.how.role = "server") /\ lease = SweepsLeases(h)
    OBVIOUS
  <2>5. /\ up = [host EXCEPT !.at = "started", !.server = server,
                             !.consumer = IF host.consumer = "none" THEN "none" ELSE "on",
                             !.lease = lease]
        /\ down = [host EXCEPT !.at = "unbound"]
    BY <1>1, <2>2, <2>4
  <2>6. ASSUME NEW some \in {up, down}
        PROVE  /\ DOMAIN some = HostFields /\ some.how = host.how /\ some.read = host.read
               /\ some.quiet = host.quiet /\ some.agents = host.agents
               /\ some.verdict = host.verdict /\ some.status = host.status
               /\ some.at \in {"started", "unbound"}
    <3>1. CASE some = up
      BY <1>2, <2>5, <3>1 DEF HostFields
    <3>2. CASE some = down
      BY <1>2, <2>5, <3>2 DEF HostFields
    <3>. QED  BY <3>1, <3>2
  <2>. QED  BY <1>1, <1>2, <2>1, <2>3, <2>6, HostKept
<1>5. CASE StartTick(h) \/ EndTick(h)
  <2>1. PICK ticks : hosts' = [hosts EXCEPT ![h] = [host EXCEPT !.ticks = ticks]]
    BY <1>1, <1>5 DEF StartTick, EndTick
  <2>2. PICK new : new = [host EXCEPT !.ticks = ticks]
    OBVIOUS
  <2>3. /\ DOMAIN new = HostFields /\ new.how = host.how /\ new.read = host.read
        /\ new.quiet = host.quiet /\ new.agents = host.agents /\ new.verdict = host.verdict
        /\ new.at = host.at /\ new.status = host.status
    BY <1>2, <2>2 DEF HostFields
  <2>. QED  BY <1>1, <1>2, <2>1, <2>2, <2>3, HostKept
<1>6. CASE Shutdown(h)
  <2>1. host.at \in {"unbound", "started", "created"}
    BY <1>1, <1>6 DEF Shutdown, MayShutdown
  <2>2. PICK new : new = [hosts[h] EXCEPT !.stopped = TRUE, !.at = "stopping", !.server = FALSE,
                                          !.lease = FALSE,
                                          !.consumer = IF hosts[h].consumer = "on" THEN "draining"
                                                       ELSE hosts[h].consumer]
    OBVIOUS
  <2>3. hosts' = [hosts EXCEPT ![h] = new]
    BY <1>6, <2>2, Zenon DEF Shutdown
  <2>4. new = [host EXCEPT !.stopped = TRUE, !.at = "stopping", !.server = FALSE, !.lease = FALSE,
                           !.consumer = IF host.consumer = "on" THEN "draining" ELSE host.consumer]
    BY <1>1, <2>2
  <2>5. /\ DOMAIN new = HostFields /\ new.how = host.how /\ new.read = host.read
        /\ new.quiet = host.quiet /\ new.agents = host.agents /\ new.verdict = host.verdict
        /\ new.at = "stopping" /\ new.status = host.status
    BY <1>2, <2>4 DEF HostFields
  <2>. QED  BY <1>1, <1>2, <2>1, <2>3, <2>5, HostKept
<1>7. CASE CloseRuntime(h)
  <2>1. host.at = "stopping"
    BY <1>1, <1>7 DEF CloseRuntime
  <2>2. PICK new : new = [host EXCEPT !.at = "closed", !.sweeper = FALSE, !.pool = "closed",
                                      !.consumer = "none"]
    OBVIOUS
  <2>3. hosts' = [hosts EXCEPT ![h] = new]
    BY <1>1, <1>7, <2>2 DEF CloseRuntime
  <2>4. /\ DOMAIN new = HostFields /\ new.how = host.how /\ new.read = host.read
        /\ new.quiet = host.quiet /\ new.agents = host.agents /\ new.verdict = host.verdict
        /\ new.at = "closed" /\ new.status = host.status
    BY <1>2, <2>2 DEF HostFields
  <2>. QED  BY <1>1, <1>2, <2>1, <2>3, <2>4, HostKept
<1>8. CASE ExitProcess(h)
  <2>1. host.at \in {"stopping", "closed"}
    BY <1>1, <1>8 DEF ExitProcess
  <2>2. PICK new : new = [host EXCEPT !.at = "exited", !.ticks = 0, !.consumer = "none",
                                      !.sweeper = FALSE, !.pool = "closed"]
    OBVIOUS
  <2>3. hosts' = [hosts EXCEPT ![h] = new]
    BY <1>1, <1>8, <2>2 DEF ExitProcess
  <2>4. /\ DOMAIN new = HostFields /\ new.how = host.how /\ new.read = host.read
        /\ new.quiet = host.quiet /\ new.agents = host.agents /\ new.verdict = host.verdict
        /\ new.at = "exited" /\ new.status = host.status
    BY <1>2, <2>2 DEF HostFields
  <2>. QED  BY <1>1, <1>2, <2>1, <2>3, <2>4, HostKept
<1>. QED  BY <1>3, <1>4, <1>5, <1>6, <1>7, <1>8

\* A file that changes makes nobody's looks agree who has begun to look.
LEMMA UnquietStep ==
  ASSUME HostsInv, hosts' = Unquiet
  PROVE  HostsInv'
<1>1. DOMAIN hosts' = Hosts
  BY DEF Unquiet
<1>2. ASSUME NEW h \in Hosts PROVE HostOK(hosts'[h], files')
  <2>1. PICK host : host = hosts[h]
    OBVIOUS
  <2>2. HostOK(host, files)
    BY <2>1 DEF HostsInv
  <2>3. PICK quiet \in BOOLEAN : quiet = (host.quiet /\ (host.read = <<>> \/ host.verdict # "none"))
    BY Zenon
  <2>4. PICK new : new = [host EXCEPT !.quiet = quiet]
    OBVIOUS
  <2>5. hosts'[h] = new
    BY <2>1, <2>3, <2>4, Zenon DEF Unquiet
  <2>6. /\ DOMAIN new = HostFields /\ new.how = host.how /\ new.read = host.read
        /\ new.quiet = quiet /\ new.agents = host.agents /\ new.verdict = host.verdict
        /\ new.at = host.at /\ new.status = host.status
    BY <2>2, <2>4 DEF HostOK, HostFields
  <2>7. quiet => host.quiet
    BY <2>3, Zenon
  <2>8. quiet => host.read = <<>> \/ host.verdict # "none"
    BY <2>3, Zenon
  <2>9. host.read = <<>> => UpToDate(new, files')
    <3>1. DOMAIN <<>> = {}
      OBVIOUS
    <3>. QED  BY <2>6, <3>1 DEF UpToDate
  <2>10. Booted(new) <=> Booted(host)
    BY <2>6 DEF Booted
  <2>11. FoundReady(new) <=> FoundReady(host)
    BY <2>6 DEF FoundReady
  <2>12. SameLooks(new) <=> SameLooks(host)
    BY <2>6 DEF SameLooks
  <2>. QED  BY <2>2, <2>5, <2>6, <2>7, <2>8, <2>9, <2>10, <2>11, <2>12 DEF HostOK
<1>. QED  BY <1>1, <1>2 DEF HostsInv

\* A command changes a file with the steps that write alone.
LEMMA CliWrites ==
  ASSUME FilesInv, CliNext, ~ Writing(cli), ~ Writing(cli')
  PROVE  UNCHANGED files
<1>1. PICK c \in CliRuns : \/ RejectUsage(c) \/ BeginCli(c) \/ ReadFile(c) \/ ConcludeAgent(c)
                           \/ ConcludeConfig(c) \/ TruncateFile(c) \/ FillFile(c) \/ CutOff(c)
  BY DEF CliNext
<1>2. ~ FillFile(c)
  BY DEF FillFile, Writing
<1>3. ASSUME TruncateFile(c) PROVE FALSE
  <2>1. PICK new : new = [cli[c] EXCEPT !.at = "writing"]
    OBVIOUS
  <2>2. new.at = "writing" /\ cli' = [cli EXCEPT ![c] = new]
    BY <1>3, <2>1 DEF TruncateFile, FilesInv, RunOK
  <2>3. cli'[c].at = "writing"
    BY <2>2 DEF FilesInv
  <2>. QED  BY <2>3 DEF Writing
<1>. QED  BY <1>1, <1>2, <1>3
          DEF RejectUsage, BeginCli, ReadFile, ConcludeAgent, ConcludeConfig, CutOff

LEMMA HostsStep == FilesInv /\ HostsInv /\ [AppNext]_appVars => HostsInv'
<1> SUFFICES ASSUME FilesInv, HostsInv, [AppNext]_appVars PROVE HostsInv'
  OBVIOUS
<1>1. CASE HostNext
  BY <1>1, LookStep, BootStep, DiagnoseStep, RunningStep DEF HostNext
<1>2. CASE UNCHANGED <<files, hosts>>
  BY <1>2 DEF HostsInv
<1>3. CASE CliNext /\ hosts' = IF Writing(cli) \/ Writing(cli') THEN Unquiet ELSE hosts
  <2>1. CASE Writing(cli) \/ Writing(cli')
    BY <1>3, <2>1, UnquietStep
  <2>2. CASE ~ (Writing(cli) \/ Writing(cli'))
    BY <1>2, <1>3, <2>2, CliWrites
  <2>. QED  BY <2>1, <2>2
<1>4. ASSUME NEW b \in Beginnings, NEW name, SaveByOthers(name, b.files[name])
      PROVE  HostsInv'
  BY <1>4, UnquietStep DEF SaveByOthers
<1>5. CASE UNCHANGED appVars
  BY <1>2, <1>5 DEF appVars, filesVars, hostVars
<1>. QED  BY <1>1, <1>3, <1>4, <1>5 DEF AppNext

\* A list that the doctor finds nothing in loads whole.
LEMMA SoundGraphLoads ==
  ASSUME NEW personas, NEW agents, GraphNotes(personas, agents) = {}
  PROVE  /\ EnabledAgents(Entries(agents)) \subseteq Registered(agents)
         /\ personas.is = "ok" =>
              \A entry \in EnabledAgents(Entries(agents)) :
                entry.persona \in ToSet(personas.data) \union {NoPersona}
<1>1. PICK entries : entries = Entries(agents)
  OBVIOUS
<1>2. PICK known : known = IF personas.is = "ok" THEN ToSet(personas.data) ELSE PersonaNames
  OBVIOUS
<1>3. Diagnostics(entries, known) = {}
  BY <1>1, <1>2 DEF GraphNotes
<1>4. RejectedRoles(entries) = {} /\ RepeatedIds(entries) = {} /\ UnknownPersonas(entries, known) = {}
  <2>1. \A i \in RejectedRoles(entries) : <<"config.invalid_agent_role", i>> \in Diagnostics(entries, known)
    BY DEF Diagnostics
  <2>2. \A i \in RepeatedIds(entries) : <<"config.duplicate_agent_id", i>> \in Diagnostics(entries, known)
    BY DEF Diagnostics
  <2>3. \A i \in UnknownPersonas(entries, known) :
          <<"config.agent_persona_not_found", i>> \in Diagnostics(entries, known)
    BY DEF Diagnostics
  <2>. QED  BY <1>3, <2>1, <2>2, <2>3
<1>5. EnabledAgents(entries) \subseteq LoadedAgents(entries)
  BY <1>4 DEF EnabledAgents, LoadedAgents
<1>6. EnabledAgents(entries) \subseteq Registered(agents)
  BY <1>1, <1>5 DEF Registered
<1>7. ASSUME personas.is = "ok", NEW entry \in EnabledAgents(entries)
      PROVE  entry.persona \in ToSet(personas.data) \union {NoPersona}
  <2>1. PICK i \in DOMAIN entries : entry = entries[i]
    BY DEF EnabledAgents, ToSet
  <2>. QED  BY <1>2, <1>4, <1>7, <2>1 DEF UnknownPersonas
<1>. QED  BY <1>1, <1>6, <1>7

LEMMA ReadyIsLoaded == HostsInv => ReadyMeansLoaded
<1> SUFFICES ASSUME HostsInv, NEW h \in Hosts, hosts[h].verdict = "ready", hosts[h].quiet
             PROVE  LET read == hosts[h].read
                        enabled == EnabledAgents(Entries(read[5]))
                    IN /\ enabled \subseteq hosts[h].agents
                       /\ read[4].is = "ok" =>
                            \A entry \in enabled : entry.persona \in ToSet(read[4].data) \union {NoPersona}
                       /\ FileMemory(read[1]).embed # NoModel \/ hosts[h].how.memory.embed # NoModel
  BY DEF ReadyMeansLoaded
<1>1. PICK host : host = hosts[h]
  OBVIOUS
<1>2. HostOK(host, files)
  BY <1>1 DEF HostsInv
<1>3. FoundReady(host) /\ SameLooks(host)
  BY <1>1, <1>2 DEF HostOK
<1>4. {1, 5, 6, 10} \subseteq DOMAIN host.read
  BY <1>2, <1>3, LenProperties DEF HostOK, FoundReady, IsSeq
<1>5. host.read[1] = host.read[6] /\ host.read[5] = host.read[10]
  BY <1>3, <1>4, DoctorLooks DEF SameLooks, FoundReady
<1>6. FileMemory(host.read[1]).embed # NoModel \/ host.how.memory.embed # NoModel
  BY <1>3, <1>5 DEF FoundReady, ConfigMemory, Either
<1>. QED  BY <1>1, <1>3, <1>5, <1>6, SoundGraphLoads DEF FoundReady

\* What `config doctor` calls ready runs whole: validator (collectAgentDiagnostics),
\* loader and registry agree on every file that nobody wrote while it looked.
THEOREM ReadyCorrect == AppSpec => []ReadyMeansLoaded
<1>1. AppInit => FilesInv /\ HostsInv
  BY FilesStart, HostsStart DEF AppInit
<1>. QED  BY <1>1, FilesStep, HostsStep, ReadyIsLoaded, PTL DEF AppSpec

=============================================================================
