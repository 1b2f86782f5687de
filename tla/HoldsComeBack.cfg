SPECIFICATION Spec
CONSTANTS
  Targets = {t1}
  Budgets = {b1}
  UntilReleased = {}
  Parts = {x}
  Inherited = {}
  NoPre = NoPre
PROPERTIES
  NoHoldComesBack
