SPECIFICATION Spec
CONSTANTS
  fA = fA
  fA2 = fA2
  fB = fB
  h = h
  mA = mA
  mB = mB
  mH = mH
  None = None
  Null = Null
  NoFunction = NoFunction
  HostFunction = HostFunction
  Threads = {t1}
  Spawned = {}
  Functions = {fA, h}
  Methods = {mA, mH}
  MethodOf <- MCMethodOf
  Mains = {mA}
  MapIds = {0}
  PassiveRuns = {FALSE, TRUE}
  TailCallees = {fA}
  EscapeDepth = 1
  FinallyThrows = FALSE
  Aborts = TRUE
  InvokeFails = FALSE
  MaxDepth = 7
  MaxInvocations = 2
CHECK_DEADLOCK FALSE
INVARIANTS TypeOK BalanceIsMainDepth OneReportPerInvocation AssertionsHold FilterCountIsExact
