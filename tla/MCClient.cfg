SPECIFICATION FairSpec
CONSTANTS
  None = None
  shout = shout
  calm = calm
  Entries = {shout}
  Leads <- MCLeads
  MaxConnects = 2
  MaxTurns = 3
  MaxRequests = 3
  Faults = {}
INVARIANTS
  StatesAgree
  HistoryAgrees
  MediaInPlay
PROPERTY AnswersLeadOn
CHECK_DEADLOCK FALSE
