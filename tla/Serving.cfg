SPECIFICATION AllSpec
CONSTANTS
  Servers = {s1, s2, s3}
  Stale = 3
  Wait = 3
  Crashes = TRUE
  NoFile = NoFile
  Versions = {1, 2}
  Faulty = {1}
  Broken = {2}
  Keep = 1
  StartTimeout = 2
  TrialTime = 1
  MaxTasks = 1
  MaxStops = 1
  Containers = {"a", "b", "c"}
  MayFail <- AllCalls
  MayTimeOut <- AllCalls
  MayDie <- AllCalls
  MaxFaults = 3
  First = {"a"}
INVARIANTS
  OneOfEach
  GoodOneIsKept
PROPERTIES
  StarterDecides
  BrokenIsReplaced
  RunsAgain
CHECK_DEADLOCK FALSE
