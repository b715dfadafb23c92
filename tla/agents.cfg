SPECIFICATION Spec
CONSTANTS
  t1 = t1  t2 = t2  t3 = t3  parentRun = parentRun  k1 = k1  k2 = k2
  docs = docs  inner = inner  aside = aside  n1 = n1  n2 = n2  tool = tool
  out = out  d1 = d1  d2 = d2
  NoTask = NoTask  NoKey = NoKey  NoDigest = NoDigest
  Tasks <- MCTasks
  Parents <- MCParents
  Keys <- MCKeys
  Tools <- MCTools
  Names <- MCNames
  Places <- MCPlaces
  Below <- MCBelow
  Paths <- MCPaths
  Digests <- MCDigests
  Contracts <- MCContracts
  Scopes <- MCScopes
  MergeLists <- MCMergeLists
  MaxClock = 1
  MaxRetargets = 1
INVARIANTS
  TypeOK
  WritersDisjoint
  LeasesMatchWriters
  MergeSound
PROPERTIES
  DisjointAtDelegation
  LeaseOnlyYielded
SYMMETRY EqualDigests
