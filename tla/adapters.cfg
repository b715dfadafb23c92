SPECIFICATION Spec
CONSTANTS
  Adapters = {"links", "archive", "gates", "context"}
  Inventory <- MCInventory
  SortedPaths <- MCSortedPaths
  Policies <- MCPolicies
  MaxDepth = 2
  MaxFollow = 3
  MaxText = 3
  p1 = p1
  p2 = p2
  Callers = {p1, p2}
  Archives <- MCArchives
  Listing <- MCListing
  ManifestPath <- MCManifestPath
  MaxStops = 2
  MaxChanges = 1
  k1 = k1
  Keys = {k1}
  Values <- MCValues
  Requirements <- MCRequirements
  FactSets <- MCFactSets
  e1 = e1
  e2 = e2
  Refs = {e1, e2}
  Targets = {1, 2}
  None = None
  MaxAge = 1
  Validity = 2
  MaxTime = 2
  MaxObservations = 2
  MaxRewrites = 1
  d1 = d1
  d2 = d2
  Library <- MCLibrary
  Intents <- MCIntents
  Profiles <- MCProfiles
  Embeddings <- MCEmbeddings
  Found <- MCFound
  Absent = Absent
  NotANumber = NotANumber
  TopScore = 4
  Times = {0, 1, 2}
  MaxDocumentChanges = 1
INVARIANTS
  AcceptedRestores
  ReceiptIsTree
  AuthorityIsBacked
  PromptWithinPolicy
  BestCandidates
CHECK_DEADLOCK FALSE
