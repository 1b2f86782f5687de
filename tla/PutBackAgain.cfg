SPECIFICATION Spec
CONSTANTS
  Versions = {1}
  Faulty = {1}
  Broken = {}
  Keep = 1
  StartTimeout = 2
  TrialTime = 1
  MaxTasks = 2
  MaxStops = 0
PROPERTY PutBackStaysOut
CHECK_DEADLOCK FALSE
