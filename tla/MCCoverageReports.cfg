SPECIFICATION Spec
CONSTANTS
  None = None
  Threads = {t1, t2}
  MapIds = {0}
  Concurrent = TRUE
  MaxMethods = 2
  MaxDepth = 1
  MaxInvocations = 1
  MaxHistories = 2
SYMMETRY Symmetry
CHECK_DEADLOCK FALSE
INVARIANTS TypeOK DictionaryClosed
PROPERTIES MailboxSpec
