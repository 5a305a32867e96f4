SPECIFICATION Spec
CONSTANTS
  Calls <- Jobs
  MaxClip = 1
  MaxChunks = 4
  Kinds = {"word"}
  Window = 2
  OverlapWords = 1
  MaxBuffer = 3
  Workers = 1
  Others = 1
  Faults = {"failed"}
INVARIANT EventLoopNeverBlocked
CHECK_DEADLOCK FALSE
