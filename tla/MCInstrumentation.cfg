SPECIFICATION FairSpec
CONSTANTS
  M1 = M1
  M2 = M2
  M3 = M3
  T1 = T1
  T2 = T2
  fA = fA
  fA2 = fA2
  fB = fB
  h1 = h1
  h2 = h2
  TokenOfB = T1
  None = None
  Null = Null
  Threads = {c1, o1}
  Clients = {c1}
  Functions = {fA, fA2, fB, h2}
  Modules = {M1, M2, M3}
  Tokens = {T1, T2}
  MethodOf <- MCMethodOf
  Mains <- MCMains
  Common = {h2}
  PassiveRuns = {FALSE, TRUE}
  ParallelInstantiations = FALSE
  MayFail = {M1}
  MaxRequests = 1
CHECK_DEADLOCK FALSE
INVARIANTS TypeOK RewrittenOnce OnlyMainsRewritten ProbesFit EntryMainHasProbes RequestsAwaited
PROPERTIES ShutdownEnds
