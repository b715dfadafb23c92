SPECIFICATION Spec
CONSTANTS
  r1 = r1  r2 = r2  look = look  edit = edit  wipe = wipe
  text = text  feed = feed
  NoRun = NoRun  NoTool = NoTool  NoContent = NoContent
  Runs <- OneRun
  Tools <- MCTools
  Effect <- MCEffect
  Risk <- MCRisk
  Registered <- MCTools
  Contents <- TwoContents
  LineBreaking <- FeedBreaks
  WriteFaults <- SafeFaults
  PinHead = FALSE
  Envelopes <- OneEnvelope
  ModelActions <- AnswerActions
  MaxFaults = 0
  MaxCrashes = 0
  MaxDisturbances = 0
  MaxClock = 1
  MaxResumes = 1
  MaxInterrupts = 0
INVARIANTS
  PublishedIsReadable
CHECK_DEADLOCK FALSE
