SPECIFICATION LibrarySpec
CONSTANTS
  ChunkCalls <- MCChunkCalls
  DefaultChunk = 7
  h1 = h1
  h2 = h2
  h3 = h3
  Chunks = {h1, h2, h3}
  Titles <- MCTitles
  NoTitle = NoTitle
  Window <- MCWindow
  Plans <- MCPlans
  EntityAnswers <- MCEntities
  RelationAnswers <- MCRelations
  RelationBatchSize = 2
  MaxConcurrent = 2
  TokenThreshold = 80
  KeepRecentMessages = 1
  Sizes = {8, 200}
  MaxMessages = 8
  MaxSecond = 1
  Fields = {1, 2}
  Statements <- MCStatements
  Byte = {0, 1}
  Block = 4
  MaxWrite = 6
  MaxInput = 9
  Callers = {k1, k2}
  Values = {x, y}
  TTLs <- MCTTLs
  MaxTime = 2
  Requests = {r1, r2}
  Tenants = {t1}
  NoTenant = none
  MaxWrites = 2
  MaxTxs = 2
  Clients = {c1, c2}
  Projects = {p1, p2}
  Users = {u1}
  OptionSets = {o1}
  MaxMemories = 2
  DefaultSize = 7
  PlaceholderLen = 2
  NoText = NoText
INVARIANT SplitWell
INVARIANT PartsKeptTogether
INVARIANT ChunkedWell
INVARIANT BuilderKeepsAnswers
INVARIANT GraphAgreesWithRelations
INVARIANT DiagramIsComplete
INVARIANT ConversationContinues
PROPERTY LastResultsStay
INVARIANT StatementsAreTheRequests
INVARIANT DigestOfTheWhole
INVARIANT CacheAnswers
INVARIANT TenantsServed
INVARIANT ClientsKeepToTheirProject
CHECK_DEADLOCK FALSE
