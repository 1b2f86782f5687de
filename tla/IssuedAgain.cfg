SPECIFICATION AutomationSpec
CONSTANTS
  P = p1
  Q = p2
  Dev = d1
  Projects = {p1, p2}
  Addresses = {d1}
  List = l1
  None = None
  Developer <- OneDeveloper
  MaxAge = 1
  ReadsFail = FALSE
  OpensIssues = TRUE
INVARIANT IssuedOnce
