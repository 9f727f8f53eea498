SPECIFICATION FairSpec
CONSTANTS
  t1 = t1  t2 = t2
  mA = mA  mB = mB  mC = mC  mN = mN  mG = mG
  a1 = a1  a2 = a2  a3 = a3  e1 = e1
  T = T  E = E  d1 = d1
  Null = Null  None = None  Unknown = Unknown  Zero = Zero
  Characters = {"p", "q", "r", "s"}
  Tasks = {t1, t2}
  Objects <- MCObjects
  Types = {T, E}
  Data = {d1}
  Key <- MCKey
  Addresses = {a1, a2, a3, e1}
  TypeOf <- MCTypeOf
  SizeOf <- MCSizeOf
  Batches <- MCBatches
  Methods = {mA, mB, mC, mN, mG}
  Missing = {mN}
  NoGraph = {mG}
  AssemblyOf <- MCAssemblyOf
  Garbage <- MCGarbage
  StrayOffsets = {99}
  InfoOf <- MCInfoOf
  ExceptionTypes = {E}
  ExpectedCoverage <- MCExpectedCoverage
INVARIANTS TypeOK ResolvedAsArranged ReproducedAsExpected VerdictIsBisimilarity DepthIsBounded HistoryDecoded CoverageIsOwn ErrorsAreOwn
PROPERTIES BatchesEnd
