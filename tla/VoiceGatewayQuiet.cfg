SPECIFICATION VoiceSpec
CONSTANTS
  Codes = {4015}
  MaxAttempts = 15
  MaxRetries = 3
  MaxSessions = 2
INVARIANTS QuietWhileRecovering
CHECK_DEADLOCK FALSE
