SPECIFICATION Spec
CONSTANTS
  Blank = Blank
  Null = Null
  Missing = Missing
  Names = {intro, calm}
  Files = {f1, f2}
  Ranges <- MCRanges
  Intervals <- MCIntervals
  Scorings <- MCScorings
  Plain <- MCPlain
  Limits <- MCLimits
  Responses <- MCResponses
  Seconds = 12
  MaxClips = 2
  MaxBranches = 2
  MaxTuned = 1
SYMMETRY Symmetric
INVARIANTS
  FormAgreesWithLoader
  NeverStranded
  JudgedInOrder
