SPECIFICATION FairSpec
CONSTANTS
  r1 = r1  r2 = r2  look = look  edit = edit  wipe = wipe
  text = text  feed = feed
  NoRun = NoRun  NoTool = NoTool  NoContent = NoContent
  Runs <- OneRun
  Tools <- MCTools
  Effect <- MCEffect
  Risk <- MCRisk
  Registered <- MCTools
  Contents <- OneContent
  LineBreaking <- NoContents
  WriteFaults <- SafeFaults
  PinHead = TRUE
  Envelopes <- OneEnvelope
  ModelActions <- EditActions
  MaxFaults = 1
  MaxCrashes = 1
  MaxDisturbances = 1
  MaxClock = 0
  MaxResumes = 1
  MaxInterrupts = 0
INVARIANTS
  AtMostOnce
PROPERTIES
  AnswersFromIntactLedger
  Returns
CHECK_DEADLOCK FALSE
