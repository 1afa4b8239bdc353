SPECIFICATION Spec
CONSTANTS
  Ann = Ann
  Bob = Bob
  Cyd = Cyd
  Web = Web
  n1 = n1
  n2 = n2
  n3 = n3
  NoNumber = NoNumber
  NoAgent = NoAgent
  NoRule = NoRule
  Stores = {"postgres", "memory"}
  Numbers = {n1, n2, n3}
  Agents = {Ann, Bob, Cyd}
  AgentTeam <- TeamOfAgents
  HomeTeam = 1
  Sources = {Web}
  Rules = {1}
  Uploads <- Files
  Jobs = {j1, j2}
  Batch = 2
  MaxAttempt = 2
  MaxRuns = 1
  MaxDesk = 2
  Calls = {1, 2}
  MaxLead = 2
  Grants <- Manager
  MaxUpsets = 1
  MaxMoves = 1
  Filters <- Queries
  Presses = {"createLead", "updateLead", "createFollowUp", "addNote", "applyRules"}
  Servers = {s1, s2}
  Tools = {t1}
  Sealables = {1, 2}
  PageSize = 1
  MaxKey = 2
  Dee = Dee
  Staff = {Dee}
  NoStaff = NoStaff
  Phones = {p1}
  Tickets = {1, 2}
  Tokens = {1, 2, 3, 4, 5, 6}
  NoToken = 0
  CallIds = {c1}
  MaxTerms = 2
  MaxOpen = 1
SYMMETRY Symmetry
CHECK_DEADLOCK FALSE
INVARIANTS
  DeskInv
  AtRestFresh
  AuditTrail
  ImportInv
  NoNumberTwice
  TurnsRotate
  SealedCallsOpen
PROPERTIES
  OwnersEligible
  RowsTakeEffectOnce
  SessionsChained
