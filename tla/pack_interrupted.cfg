SPECIFICATION OperatedSpec
CONSTANTS
  p1 = p1  p2 = p2  b1 = b1  b2 = b2  bundle = bundle
  Dirs <- OneBundle
  Procs <- OneProc
  Bindings <- OneBinding
  Members <- PackMembers
  Sized <- Parts
  NumParts = 2
  FailureBudget = 2
  MaxAttempts = 3
  MaxFaults = 1
PROPERTIES
  ResumeCompletes
CHECK_DEADLOCK FALSE
