SPECIFICATION FairSpec
CONSTANTS
  Targets = {t1}
  Budgets = {b1, b2}
  UntilReleased = {b2}
  Parts = {x, y}
  Inherited = {y}
  NoPre = NoPre
INVARIANTS
  Undoable
  AppliedIsOff
PROPERTIES
  HeldIsRestricted
  FreedIsPutBack
