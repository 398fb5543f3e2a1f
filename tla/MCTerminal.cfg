\* A belief that is taken back, then written again by another settlement.
CONSTANTS
  Running = {"beliefs"}
  belief = belief
  feeling = feeling
  t1 = t1
  t2 = t2
  j1 = j1
  CogKeys = {belief, feeling}
  KindOf <- KindOfInstance
  TurnSettlements = {t1, t2}
  JobSettlements = {j1}
  SubmittedOps <- OpsInstance
  NoCognition = NoCognition
  MaxCommits = 2
  Ids = {i1, i2}
  Values = {v1, v2}
  Absent = Absent
  InUse = {i2}
  Missing = Missing
  Torn = Torn
  MaxEdits = 1
  MaxWrites = 2
  g1 = g1
  g2 = g2
  tk1 = tk1
  tk2 = tk2
  HttpRequests = {g1, g2}
  RoutesOf <- RoutesInstance
  BearerOf <- BearerInstance
  NoToken = NoToken
  TokenFiles <- TokenInstance
  Unreadable = Unreadable
  MaxSaves = 2
  MaxEvents = 2
  Agents = {a1, a2}
  Owner = a1
  Admins = {}
  Paths = {p1, p2, bad}
  Invalid = {bad}
  Texts = {x1, x2}
  NoText = NoText
  SnapshotEvery = 2
  MaxPatches = 3
  s1 = s1
  s2 = s2
  s3 = s3
  hall = hall
  mood = mood
  light = light
  guest = guest
  vault = vault
  garden = garden
  AreaWriters = {s1, s2, s3}
  ArtifactOf <- ArtifactInstance
  Areas = {hall}
  NoArea = NoArea
  LastTime = 2
  MaxEventIds = 5
  Publishers = {s1, s2}
  PublicationsOf <- PublicationsInstance
  PlaceOf <- PlaceInstance
  Nowhere = Nowhere
  Anyone = Anyone
  MaxRuns = 2
  EntityKeys = {hall, guest, vault, garden}
  Places = {hall, vault, garden}
  NamedAs <- NamedInstance
  SharedAtFirst = {hall}
  Records = {r1}
  MaxPublic = 3
  q1 = q1
  q2 = q2
  a1 = a1
  a2 = a2
  walk = walk
  cook = cook
  fact = fact
  trust = trust
  secret = secret
  Explores = {q1, q2}
  ViewerOf <- ViewerInstance
  AreaOf <- WhereInstance
  NoPlace = Nowhere
  IntentsOf <- IntentsInstance
  AskedTime <- NoTimeInstance
  PlanTime <- PlanTimeInstance
  BeamWidth <- BeamInstance
  MaxCandidates <- BeamInstance
  FoundBy <- FoundInstance
  Nodes = {walk, cook, fact, trust, secret}
  AccessOf <- AccessInstance
  SeedScore <- ScoreInstance
  Links <- LinksInstance
  Perishable = {fact, trust}
  MaxDepth = 2
  Calls <- CallsInstance
  Queries <- QueriesInstance
  ContestedCounts = {0, 4}
  SaidBefore = {secret}
  RecentKeys = {}
  EpisodesFound <- EpisodesInstance
  NarrativeFound <- NarrativeInstance
  CognitionFound <- CognitionInstance
  NoKey = NoText
  Blank = NoText
  TokensOf <- TokensInstance
  IndexRows = {walk, trust, cook, secret}
  SortOf <- SortInstance
  HomeOf <- HomeInstance
  Owners = {a1, a2}
  Commons = Nowhere
  AllOwners = Anyone
  Wordings = {0, 1}
  NoSummary = 0
  NoRow = NoRow
  Organizers = {s1}
  ChangedBy <- ChangedInstance
  Rebuilds = {g1, g2}
  AskedOf <- AskedInstance
  MaxRowSaves = 2
  MaxBreaks = 1
  CliRuns = {g1, g2}
  CommandsOf <- CommandsInstance
  Beginnings <- BeginningsInstance
  Shipped <- ShippedInstance
  PersonaNames = {guest, vault}
  NoPersona = NoText
  NoModel = NoText
  MaxCuts = 1
  Hosts = {q1}
  Callings <- CallingsInstance
  PresetProfiles <- PresetsInstance
  Catalog <- CatalogInstance
  ProviderOf <- ProviderInstance
  DefaultChatModel = walk
  MaxTicks = 2
  MaxFileSaves = 1
  ModelCalls = {q1, q2}
  PartsOf <- PartsInstance
  NoCall = NoCall
  ModelRequests <- ModelRequestsInstance
  Thoughts = {j1, t2}
  PlainTurns = {t1}
  OutcomesOf <- OutcomesInstance
  BeliefKeys = {belief, feeling}
  NoSettlement = NoSettlement
  NoRef = NoRef
  MaxThoughts = 2
SPECIFICATION ServicesSpec
PROPERTIES TerminalStanceIsFinal
\* Everything may be settled and flushed.
CHECK_DEADLOCK FALSE
