SPECIFICATION AllSpec
CONSTANTS
  Ids = {i1, i2, i3}
  Addresses = {x, y}
  Custom = {"r"}
  Requests = {q1, q2}
  None = None
  MaxCli = 1
  Tabs = {"t", "u"}
  MaxLinks = 2
  MaxPasswords = 3
  Projects = {q1, q2}
  Mailboxes = {"dev"}
  Developer <- OneDeveloper
  List = "list"
  MaxAge = 1
  ReadsFail = TRUE
  OpensIssues = FALSE
  Scanned = {"p1"}
  Tasks = {q1, q2}
  MaxRound = 2
  MaxStarted = 2
  MaxWindows = 2
SYMMETRY Symmetry
INVARIANTS
  AlwaysAnAdmin
  AccountsAgree
  LinksDoTheirWork
  NotNagged
  SchedulerAlive
  RoundsKeepTheirRescan
PROPERTY NotedWentOut
