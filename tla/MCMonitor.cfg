SPECIFICATION Spec
CONSTANTS
  Window = 2
  Chunk = 2
  MaxBlock = 3
  MaxFailures = 1
  MaxEvents = 2
CHECK_DEADLOCK FALSE
INVARIANTS NoTickBacklog TablesAreWindows HighlightIsScrolled
