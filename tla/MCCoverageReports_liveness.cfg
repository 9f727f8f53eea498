SPECIFICATION FairSpec
CONSTANTS
  None = None
  Threads = {t1, t2}
  MapIds = {0}
  Concurrent = TRUE
  MaxMethods = 1
  MaxDepth = 1
  MaxInvocations = 1
  MaxHistories = 1
CHECK_DEADLOCK FALSE
PROPERTIES CallbacksReturn
