SPECIFICATION FairSpec
CONSTANTS
  Calls <- Jobs
  MaxClip = 1
  MaxChunks = 6
  Kinds = {"word", "noise", "silence"}
  Window = 2
  OverlapWords = 2
  MaxBuffer = 3
  Workers = 1
  Others = 1
  Faults = {"failed", "overtaken"}
INVARIANTS
  TranscriptFaithful
PROPERTY FinaliseAnswers
CHECK_DEADLOCK FALSE
