SPECIFICATION ReorgsSpec
CONSTANTS
  Blocks = 10
  MaxFaults = 16
CHECK_DEADLOCK FALSE
INVARIANTS ScriptsHold ReorgsAsNamed
PROPERTIES NothingLeftRunning
