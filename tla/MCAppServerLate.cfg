SPECIFICATION Spec
CONSTANTS
  None = None
  s1 = s1
  s2 = s2
  t1 = t1
  Sessions = {s1, s2}
  MaxSessions = 1
  MaxQueueSize = 1
  CapacityPolicy = "QUEUE"
  Admins = {s1}
  MaxSockets = 2
  MaxTurns = 2
  Transitions = {t1}
  Scenarios <- MCScenarios
  Guidance <- MCGuidance
  Entry <- MCEntry
  Branches <- MCBranches
  ScenarioOf <- MCScenarioOf
  Scores = {2, 5}
  Faults = {"late_heartbeat", "racing_end", "slow_transition", "wrong_clip"}
INVARIANTS
  WaitersAreTold
  PausedIsAttended
CHECK_DEADLOCK FALSE
