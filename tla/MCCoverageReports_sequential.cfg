SPECIFICATION Spec
CONSTANTS
  None = None
  Threads = {t1, t2}
  MapIds = {0}
  Concurrent = FALSE
  MaxMethods = 1
  MaxDepth = 2
  MaxInvocations = 2
  MaxHistories = 2
SYMMETRY Symmetry
CHECK_DEADLOCK FALSE
INVARIANTS ReportsAreExact
