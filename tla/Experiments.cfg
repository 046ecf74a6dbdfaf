SPECIFICATION FairSpec
CONSTANTS
  Points <- MCPoints
  MaxStops = 1
  MaxFaults = 1
INVARIANTS
  MachinesReady
  FinishedIsWritten
PROPERTIES
  FinishedIsKept
  AllFiguresDone
CHECK_DEADLOCK FALSE
