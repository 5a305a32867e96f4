SPECIFICATION Spec
CONSTANTS
  Calls <- Jobs
  MaxClip = 2
  MaxChunks = 3
  Kinds = {"word"}
  Window = 2
  OverlapWords = 1
  MaxBuffer = 3
  Workers = 2
  Others = 0
  Faults = {"failed", "overtaken", "impatient", "late_close", "returned", "late_reset", "stray", "silent_line"}
INVARIANTS
  NoLeakedEntry
  BufferStaysShort
  IntactPoolNeverBlocks
  ModelsExclusive
CHECK_DEADLOCK FALSE
