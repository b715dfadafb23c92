SPECIFICATION Spec
CONSTANTS
  p1 = p1  p2 = p2  b1 = b1  b2 = b2  bundle = bundle
  Dirs <- OneBundle
  Procs <- TwoProcs
  Bindings <- TwoBindings
  Members <- PackMembers
  Sized <- Parts
  NumParts = 2
  FailureBudget = 2
  MaxAttempts = 3
  MaxFaults = 2
INVARIANTS
  TypeOK
  CompletedIsWhole
  OneConfiguration
  OwnReceipt
PROPERTIES
  ResultIsWhole
  NothingOverwritten
SYMMETRY EqualProcs
CHECK_DEADLOCK FALSE
