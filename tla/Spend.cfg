SPECIFICATION AllSpec
CONSTANTS
  Projects = {"p1"}
  Findings <- OneFinding
  Requests = {q1, q2}
  Modes = {"relayTriage", "relayRemediate", "adminTriage", "adminRemediate"}
  Limit = 3
  AllowAgain = FALSE
  ReadsFail = FALSE
  AdminOps = {"add", "reclaim"}
  Amounts = {1, 3}
  MaxAllocated = 6
  MaxLost = 1
  MaxJobs = 2
  MaxFailures = 1
  NoRequest = NoRequest
  GroupFindings <- GroupedFindings
  GroupModes = {"relayTriage", "adminTriage"}
  GroupLimit = 2
  GroupOps = {"add", "reclaim", "setExtra", "clearExtras"}
  GroupAmounts = {0, 1, 2}
  GroupAllocated = 2
  Admins = {d1, d2}
  Pool = 2
  Needs = {0, 1}
  Extras = {1}
  MaxUsed = 1
  Months = 2
  MaxEntries = 3
  MaxTrouble = 3
SYMMETRY Symmetry
INVARIANTS
  GroupTriagedOnce
  PoolNeverOverrun
  HeldForInFlight
  WithinAllocation
  LedgerMatchesCharges
  RemediatedOnce
  ChainHolds
  BooksAgree
PROPERTY GivesWhatItMay
