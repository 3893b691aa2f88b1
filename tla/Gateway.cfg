SPECIFICATION GatewaySpec
CONSTANTS
  Nonce <- Clock
  NoNonce = 0
  Tolerated = 2
  Codes <- CloseCodes
  MaxAttempts = 15
  MaxRetries = 3
  MaxSessions = 3
  Users = {"bot", "user"}
  Self = "bot"
  Transitions = {0, 7}
  MaxPending = 1
  MaxSetups = 3
  MaxSilence = 2
  MaxLooks = 2
  SaveEvery = 2
  SeqWidth = 3
  MaxTold = 2
CHECK_DEADLOCK FALSE
INVARIANTS
  QuietIsBounded
  GivesUpForCause
  VoiceIsOwned
  VoiceRuns
  StateIsOfSession
  ShutdownIsTold
  KeptForItsSession
  ConnectedAreRecognized
  SpeakingIsTold
PROPERTIES
  GatewayMovesOn
  RestBeforeQuiet
