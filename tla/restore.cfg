SPECIFICATION Spec
CONSTANTS
  p1 = p1  p2 = p2  b1 = b1  b2 = b2  r1 = r1  r2 = r2  l1 = l1
  Procs <- MCProcs
  Dirs <- MCDirs
  LinkDirs <- MCLinkDirs
  Bindings <- MCBindings
  Members <- StateMembers
  Sized = {}
  Shared <- MCShared
  NumFiles = 2
  NumBlocks = 2
  NumLinks = 2
  MaxAttempts = 2
  MaxFaults = 1
  MaxAfterLoss = 1
INVARIANTS
  TypeOK
  LinksOnWholeTree
  LinkReceiptTrue
PROPERTIES
  RestoreReceiptTrue
  AnswersFromTree
SYMMETRY Equal
CHECK_DEADLOCK FALSE
