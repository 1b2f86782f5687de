SPECIFICATION Spec
CONSTANTS
  Projects = {p1}
  Tasks = {t1}
  MaxRound = 2
  MaxStarted = 1
  MaxWindows = 2
INVARIANTS
  EndsWithResult
CHECK_DEADLOCK FALSE
