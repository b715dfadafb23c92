SPECIFICATION Spec
CONSTANTS
  Kinds = {"package_retained", "destination_acceptance"}
  Required <- MCRequired
  Bound = {"package_retained"}
  Archives = {a1}
  NoArchive = NoArchive
  NoCutover = NoCutover
  FirstEpoch = 1
  MaxReceipts = 3
  MaxEpoch = 2
INVARIANTS
  TypeOK
  NothingForgotten
  CompletionCorrectsFailures
PROPERTIES
  StageByStage
  ImplementsTransfer
CHECK_DEADLOCK FALSE
