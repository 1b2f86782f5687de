SPECIFICATION AllSpec
CONSTANTS
  Projects = {"p1", "p2"}
  Tasks = {t1}
  MaxRound = 2
  MaxStarted = 2
  MaxWindows = 2
  People = {"p"}
  Numbers = {1, 2}
  None = None
  MaxStops = 2
INVARIANTS
  EndedStaysEnded
PROPERTIES
  TurnIsTaken
  DataGoes
CHECK_DEADLOCK FALSE
