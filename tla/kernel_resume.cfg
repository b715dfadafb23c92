SPECIFICATION Spec
CONSTANTS
  r1 = r1  r2 = r2  look = look  edit = edit  wipe = wipe
  text = text  feed = feed
  NoRun = NoRun  NoTool = NoTool  NoContent = NoContent
  Runs <- TwoRuns
  Tools <- MCTools
  Effect <- MCEffect
  Risk <- MCRisk
  Registered <- MCTools
  Contents <- OneContent
  LineBreaking <- NoContents
  WriteFaults <- SafeFaults
  PinHead = FALSE
  Envelopes <- TwoEnvelopes
  ModelActions <- AllActions
  MaxFaults = 1
  MaxCrashes = 1
  MaxDisturbances = 0
  MaxClock = 1
  MaxResumes = 1
  MaxInterrupts = 1
CONSTRAINT OneFocus
INVARIANTS
  TypeOK
  PublishedIsReadable
  IntentBeforeEffect
  BudgetAcrossResumes
  WithinEnvelope
  SelfAcceptance
  ReplayMatchesLive
  NothingAfterCompletion
PROPERTIES
  NoEffectWhileUnresolved
  DeadlineNotReset
CHECK_DEADLOCK FALSE
