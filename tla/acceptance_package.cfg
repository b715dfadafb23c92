SPECIFICATION Spec
CONSTANTS
  Kinds = {"package_retained", "destination_acceptance"}
  Required <- MCRequired
  Bound = {"package_retained"}
  Archives = {a1, a2}
  NoArchive = NoArchive
  NoCutover = NoCutover
  FirstEpoch = 1
  MaxReceipts = 2
  MaxEpoch = 2
INVARIANTS
  AcceptedPackage
CHECK_DEADLOCK FALSE
