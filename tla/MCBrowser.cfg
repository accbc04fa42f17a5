CONSTANTS
  Conn = {c1, c2}
  MaxWorkers = 1
SPECIFICATION Spec
CHECK_DEADLOCK FALSE
INVARIANT BrowserLeavesNothing
PROPERTIES
  BrowserEnds
  
