SPECIFICATION Spec
CONSTANTS
  Months = 1
  MaxEntries = 3
  MaxFaults = 0
INVARIANTS
  CarriesOn
