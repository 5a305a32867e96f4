SPECIFICATION FairSpec
CONSTANTS
  Sessions = {s1}
  MaxTokens = 3
  MaxCrashes = 2
INVARIANTS
  ServesExpectedModel
  AdviceAsStreamed
  NothingAfterFailure
  KeepaliveOnlyWhileReading
PROPERTIES
  DebriefCanBeLeft
CHECK_DEADLOCK FALSE
