SPECIFICATION Spec
CONSTANTS
  fA = fA
  fA2 = fA2
  fB = fB
  h = h
  mA = mA
  mB = mB
  mH = mH
  None = None
  Null = Null
  NoFunction = NoFunction
  HostFunction = HostFunction
  Threads = {t1}
  Spawned = {}
  Functions = {fA, fB}
  Methods = {mA, mB}
  MethodOf <- MCMethodOf
  Mains = {mA, mB}
  MapIds = {0}
  PassiveRuns = {FALSE}
  TailCallees = {}
  EscapeDepth = 1
  FinallyThrows = FALSE
  Aborts = FALSE
  InvokeFails = FALSE
  MaxDepth = 5
  MaxInvocations = 2
CHECK_DEADLOCK FALSE
INVARIANTS BalanceIsMainDepth
