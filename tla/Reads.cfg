SPECIFICATION PartsSpec
CONSTANTS
  Keys = {k1}
  Readers = {r1, r2}
  Loads = {l1, l2, l3}
  Max = 1
  NoLoad = NoLoad
  Nothing = Nothing
  Findings = {r1, r2}
  MaxVerdicts = 1
  MaxFailures = 1
  MaxAgain = 2
  Budgets = {"b1", "b2"}
  Targets = {"t1", "t2"}
  TooMany = {"b2"}
  Plan <- TwoPlans
  Months = 2
  MaxUsed = 2
  MaxChanges = 2
SYMMETRY Symmetry
INVARIANTS
  ReaderNeverBehindRefresh
  LoadsInOrder
  OlderOnlyIfRaced
  MarksAreKept
  DoneIsRevalidated
PROPERTY
  OnlyForAReason
