------------------------ MODULE ThreadTrackerProofs -------------------------
(***************************************************************************)
(* Lemmas about the storages and the handlers of ThreadTracker, each the   *)
(* contract of one operation: what it leaves in every storage and when its *)
(* assertions hold.  They give the types of ThreadTracking for all         *)
(* programs; ThreadTrackingProofs builds on them.                          *)
(***************************************************************************)
EXTENDS ThreadTracking, FiniteSetTheorems, SequenceTheorems, TLAPS

-----------------------------------------------------------------------------
(* The names of the assertions, and what of a tracker the handlers change. *)
Assertions == {"store", "load", "update", "remove", "tracked", "balance", "lose", "function"}

View(s) == <<s.threadId, s.balance, s.unwind, s.inFilter, s.coverage, s.reports, s.crashed>>

(* Assignments to one storage, field by field. *)
SetThreadId(s, v) == [s EXCEPT !.threadId = v]
SetBalance(s, v)  == [s EXCEPT !.balance = v]
SetUnwind(s, v)   == [s EXCEPT !.unwind = v]
SetInFilter(s, v) == [s EXCEPT !.inFilter = v]
SetCoverage(s, v) == [s EXCEPT !.coverage = v]
AddReport(s, v)   == [s EXCEPT !.reports = Append(@, v)]

(* A check changes `failed` only, and only when the condition is false. *)
LEMMA CheckFacts ==
  ASSUME NEW s \in Slots, NEW c, NEW a \in Assertions
  PROVE  /\ Check(s, c, a) \in Slots
         /\ View(Check(s, c, a)) = View(s)
         /\ c => Check(s, c, a) = s
BY DEF Check, Slots, View, Assertions

(* An assignment changes its storage and nothing else. *)
LEMMA SetThreadIdFacts ==
  ASSUME NEW s \in Slots, NEW v \in Int \cup {None}
  PROVE  /\ SetThreadId(s, v) \in Slots /\ SetThreadId(s, v).failed = s.failed
         /\ View(SetThreadId(s, v)) =
              <<v, s.balance, s.unwind, s.inFilter, s.coverage, s.reports, s.crashed>>
BY DEF Slots, View, SetThreadId

(* The same for stackBalances.                                             *)
LEMMA SetBalanceFacts ==
  ASSUME NEW s \in Slots, NEW v \in Int \cup {None}
  PROVE  /\ SetBalance(s, v) \in Slots /\ SetBalance(s, v).failed = s.failed
         /\ View(SetBalance(s, v)) =
              <<s.threadId, v, s.unwind, s.inFilter, s.coverage, s.reports, s.crashed>>
BY DEF Slots, View, SetBalance

(* The same for unwindFunctionIds.                                         *)
LEMMA SetUnwindFacts ==
  ASSUME NEW s \in Slots, NEW v \in Functions \cup {NoFunction, HostFunction, None}
  PROVE  /\ SetUnwind(s, v) \in Slots /\ SetUnwind(s, v).failed = s.failed
         /\ View(SetUnwind(s, v)) =
              <<s.threadId, s.balance, v, s.inFilter, s.coverage, s.reports, s.crashed>>
BY DEF Slots, View, SetUnwind

(* The same for inFilterMapping.                                           *)
LEMMA SetInFilterFacts ==
  ASSUME NEW s \in Slots, NEW v \in Int \cup {None}
  PROVE  /\ SetInFilter(s, v) \in Slots /\ SetInFilter(s, v).failed = s.failed
         /\ View(SetInFilter(s, v)) =
              <<s.threadId, s.balance, s.unwind, v, s.coverage, s.reports, s.crashed>>
BY DEF Slots, View, SetInFilter

(* The same for trackedCoverage.                                           *)
LEMMA SetCoverageFacts ==
  ASSUME NEW s \in Slots, NEW v \in Histories \cup {Null, None}
  PROVE  /\ SetCoverage(s, v) \in Slots /\ SetCoverage(s, v).failed = s.failed
         /\ View(SetCoverage(s, v)) =
              <<s.threadId, s.balance, s.unwind, s.inFilter, v, s.reports, s.crashed>>
BY DEF Slots, View, SetCoverage

(* A null dereference: the process is gone, no assertion was evaluated.    *)
LEMMA CrashFacts ==
  ASSUME NEW s \in Slots
  PROVE  Crash(s) \in Slots /\ Crash(s).failed = s.failed /\ Crash(s).crashed
BY DEF Slots, Crash

(* The message of an invocation joins those that are already reported.     *)
LEMMA ReportFacts ==
  ASSUME NEW s \in Slots, NEW v \in [id : Int, of : SUBSET Nat]
  PROVE  /\ AddReport(s, v) \in Slots /\ AddReport(s, v).failed = s.failed
         /\ View(AddReport(s, v)) =
              <<s.threadId, s.balance, s.unwind, s.inFilter, s.coverage, Append(s.reports, v),
                s.crashed>>
<1>1. Append(s.reports, v) \in Seq([id : Int, of : SUBSET Nat])
  BY DEF Slots
<1>2. QED BY <1>1 DEF Slots, View, AddReport

(* load() returns the entry, or the zero of its type when there is none.   *)
LEMMA LoadFacts ==
  ASSUME NEW s \in Slots
  PROVE  /\ Load(s, "balance") \in Int /\ Load(s, "inFilter") \in Int
         /\ s.balance # None => Load(s, "balance") = s.balance
         /\ s.inFilter # None => Load(s, "inFilter") = s.inFilter
         /\ Load(s, "unwind") \in Functions \cup {NoFunction, HostFunction}
         /\ s.unwind # None => Load(s, "unwind") = s.unwind
         /\ Load(s, "coverage") \in Histories \cup {Null}
         /\ s.coverage # None => Load(s, "coverage") = s.coverage
         /\ s.coverage = None => Load(s, "coverage") = Null
BY TrackingAssumption DEF Load, Exist, Zero, Slots

(* The operations of ThreadStorage. *)
LEMMA AddBalance ==
  ASSUME NEW s \in Slots, NEW d \in Int
  PROVE  /\ Add(s, "balance", d) \in Slots
         /\ (s.balance # None => Add(s, "balance", d).failed = s.failed)
         /\ View(Add(s, "balance", d)) =
              <<s.threadId, Load(s, "balance") + d, s.unwind, s.inFilter, s.coverage, s.reports,
                s.crashed>>
<1> DEFINE c == Check(s, Exist(s, "balance"), "update")
<1>1. c \in Slots /\ View(c) = View(s) /\ (s.balance # None => c = s)
  BY CheckFacts DEF Assertions, Exist
<1>2. Add(s, "balance", d) = SetBalance(c, Load(s, "balance") + d) BY DEF Add, SetBalance
<1> HIDE DEF c
<1>3. Load(s, "balance") + d \in Int \cup {None} BY LoadFacts
<1>4. /\ SetBalance(c, Load(s, "balance") + d) \in Slots
      /\ SetBalance(c, Load(s, "balance") + d).failed = c.failed
      /\ View(SetBalance(c, Load(s, "balance") + d)) =
           <<c.threadId, Load(s, "balance") + d, c.unwind, c.inFilter, c.coverage, c.reports,
             c.crashed>>
  BY <1>1, <1>3, SetBalanceFacts
<1>5. QED BY <1>1, <1>2, <1>4 DEF View

(* inFilterMapping: an add without an entry fails its assertion.           *)
LEMMA AddInFilter ==
  ASSUME NEW s \in Slots, NEW d \in Int
  PROVE  /\ Add(s, "inFilter", d) \in Slots
         /\ (s.inFilter # None => Add(s, "inFilter", d).failed = s.failed)
         /\ View(Add(s, "inFilter", d)) =
              <<s.threadId, s.balance, s.unwind, Load(s, "inFilter") + d, s.coverage, s.reports,
                s.crashed>>
<1> DEFINE c == Check(s, Exist(s, "inFilter"), "update")
<1>1. c \in Slots /\ View(c) = View(s) /\ (s.inFilter # None => c = s)
  BY CheckFacts DEF Assertions, Exist
<1>2. Add(s, "inFilter", d) = SetInFilter(c, Load(s, "inFilter") + d) BY DEF Add, SetInFilter
<1> HIDE DEF c
<1>3. Load(s, "inFilter") + d \in Int \cup {None} BY LoadFacts
<1>4. /\ SetInFilter(c, Load(s, "inFilter") + d) \in Slots
      /\ SetInFilter(c, Load(s, "inFilter") + d).failed = c.failed
      /\ View(SetInFilter(c, Load(s, "inFilter") + d)) =
           <<c.threadId, c.balance, c.unwind, Load(s, "inFilter") + d, c.coverage, c.reports,
             c.crashed>>
  BY <1>1, <1>3, SetInFilterFacts
<1>5. QED BY <1>1, <1>2, <1>4 DEF View

(* threadIdMapping: a removal of an entry that is not there fails.         *)
LEMMA RemoveThreadId ==
  ASSUME NEW s \in Slots
  PROVE  /\ Remove(s, "threadId") \in Slots
         /\ (s.threadId # None => Remove(s, "threadId").failed = s.failed)
         /\ View(Remove(s, "threadId")) =
              <<None, s.balance, s.unwind, s.inFilter, s.coverage, s.reports, s.crashed>>
<1> DEFINE c == Check(s, Exist(s, "threadId"), "remove")
<1>1. c \in Slots /\ View(c) = View(s) /\ (s.threadId # None => c = s)
  BY CheckFacts DEF Assertions, Exist
<1>2. Remove(s, "threadId") = SetThreadId(c, None) BY DEF Remove, SetThreadId
<1> HIDE DEF c
<1>3. None \in Int \cup {None} BY LoadFacts
<1>4. /\ SetThreadId(c, None) \in Slots /\ SetThreadId(c, None).failed = c.failed
      /\ View(SetThreadId(c, None)) =
           <<None, c.balance, c.unwind, c.inFilter, c.coverage, c.reports, c.crashed>>
  BY <1>1, <1>3, SetThreadIdFacts
<1>5. QED BY <1>1, <1>2, <1>4 DEF View

(* stackBalances: the same, and nothing else changes.                      *)
LEMMA RemoveBalance ==
  ASSUME NEW s \in Slots
  PROVE  /\ Remove(s, "balance") \in Slots
         /\ (s.balance # None => Remove(s, "balance").failed = s.failed)
         /\ View(Remove(s, "balance")) =
              <<s.threadId, None, s.unwind, s.inFilter, s.coverage, s.reports, s.crashed>>
<1> DEFINE c == Check(s, Exist(s, "balance"), "remove")
<1>1. c \in Slots /\ View(c) = View(s) /\ (s.balance # None => c = s)
  BY CheckFacts DEF Assertions, Exist
<1>2. Remove(s, "balance") = SetBalance(c, None) BY DEF Remove, SetBalance
<1> HIDE DEF c
<1>3. None \in Int \cup {None} BY LoadFacts
<1>4. /\ SetBalance(c, None) \in Slots /\ SetBalance(c, None).failed = c.failed
      /\ View(SetBalance(c, None)) =
           <<c.threadId, None, c.unwind, c.inFilter, c.coverage, c.reports, c.crashed>>
  BY <1>1, <1>3, SetBalanceFacts
<1>5. QED BY <1>1, <1>2, <1>4 DEF View

(* unwindFunctionIds: the same.                                            *)
LEMMA RemoveUnwind ==
  ASSUME NEW s \in Slots
  PROVE  /\ Remove(s, "unwind") \in Slots
         /\ (s.unwind # None => Remove(s, "unwind").failed = s.failed)
         /\ View(Remove(s, "unwind")) =
              <<s.threadId, s.balance, None, s.inFilter, s.coverage, s.reports, s.crashed>>
<1> DEFINE c == Check(s, Exist(s, "unwind"), "remove")
<1>1. c \in Slots /\ View(c) = View(s) /\ (s.unwind # None => c = s)
  BY CheckFacts DEF Assertions, Exist
<1>2. Remove(s, "unwind") = SetUnwind(c, None) BY DEF Remove, SetUnwind
<1> HIDE DEF c
<1>3. None \in Functions \cup {NoFunction, HostFunction, None} BY LoadFacts
<1>4. /\ SetUnwind(c, None) \in Slots /\ SetUnwind(c, None).failed = c.failed
      /\ View(SetUnwind(c, None)) =
           <<c.threadId, c.balance, None, c.inFilter, c.coverage, c.reports, c.crashed>>
  BY <1>1, <1>3, SetUnwindFacts
<1>5. QED BY <1>1, <1>2, <1>4 DEF View

(* inFilterMapping: the same.                                              *)
LEMMA RemoveInFilter ==
  ASSUME NEW s \in Slots
  PROVE  /\ Remove(s, "inFilter") \in Slots
         /\ (s.inFilter # None => Remove(s, "inFilter").failed = s.failed)
         /\ View(Remove(s, "inFilter")) =
              <<s.threadId, s.balance, s.unwind, None, s.coverage, s.reports, s.crashed>>
<1> DEFINE c == Check(s, Exist(s, "inFilter"), "remove")
<1>1. c \in Slots /\ View(c) = View(s) /\ (s.inFilter # None => c = s)
  BY CheckFacts DEF Assertions, Exist
<1>2. Remove(s, "inFilter") = SetInFilter(c, None) BY DEF Remove, SetInFilter
<1> HIDE DEF c
<1>3. None \in Int \cup {None} BY LoadFacts
<1>4. /\ SetInFilter(c, None) \in Slots /\ SetInFilter(c, None).failed = c.failed
      /\ View(SetInFilter(c, None)) =
           <<c.threadId, c.balance, c.unwind, None, c.coverage, c.reports, c.crashed>>
  BY <1>1, <1>3, SetInFilterFacts
<1>5. QED BY <1>1, <1>2, <1>4 DEF View

(* trackedCoverage: the same.                                              *)
LEMMA RemoveCoverage ==
  ASSUME NEW s \in Slots
  PROVE  /\ Remove(s, "coverage") \in Slots
         /\ (s.coverage # None => Remove(s, "coverage").failed = s.failed)
         /\ View(Remove(s, "coverage")) =
              <<s.threadId, s.balance, s.unwind, s.inFilter, None, s.reports, s.crashed>>
<1> DEFINE c == Check(s, Exist(s, "coverage"), "remove")
<1>1. c \in Slots /\ View(c) = View(s) /\ (s.coverage # None => c = s)
  BY CheckFacts DEF Assertions, Exist
<1>2. Remove(s, "coverage") = SetCoverage(c, None) BY DEF Remove, SetCoverage
<1> HIDE DEF c
<1>3. None \in Histories \cup {Null, None} BY LoadFacts
<1>4. /\ SetCoverage(c, None) \in Slots /\ SetCoverage(c, None).failed = c.failed
      /\ View(SetCoverage(c, None)) =
           <<c.threadId, c.balance, c.unwind, c.inFilter, None, c.reports, c.crashed>>
  BY <1>1, <1>3, SetCoverageFacts
<1>5. QED BY <1>1, <1>2, <1>4 DEF View

(* threadIdMapping: a store over an entry fails its assertion.             *)
LEMMA StoreThreadId ==
  ASSUME NEW s \in Slots, NEW v \in Int
  PROVE  /\ Store(s, "threadId", v) \in Slots
         /\ (s.threadId = None => Store(s, "threadId", v).failed = s.failed)
         /\ View(Store(s, "threadId", v)) =
              <<v, s.balance, s.unwind, s.inFilter, s.coverage, s.reports, s.crashed>>
<1> DEFINE c == Check(s, ~Exist(s, "threadId"), "store")
<1>1. c \in Slots /\ View(c) = View(s) /\ (s.threadId = None => c = s)
  BY CheckFacts DEF Assertions, Exist
<1>2. Store(s, "threadId", v) = SetThreadId(c, v) BY DEF Store, SetThreadId
<1> HIDE DEF c
<1>3. v \in Int \cup {None} BY LoadFacts
<1>4. /\ SetThreadId(c, v) \in Slots /\ SetThreadId(c, v).failed = c.failed
      /\ View(SetThreadId(c, v)) =
           <<v, c.balance, c.unwind, c.inFilter, c.coverage, c.reports, c.crashed>>
  BY <1>1, <1>3, SetThreadIdFacts
<1>5. QED BY <1>1, <1>2, <1>4 DEF View

(* stackBalances: the same for a new balance.                              *)
LEMMA StoreBalance ==
  ASSUME NEW s \in Slots, NEW v \in Int
  PROVE  /\ Store(s, "balance", v) \in Slots
         /\ (s.balance = None => Store(s, "balance", v).failed = s.failed)
         /\ View(Store(s, "balance", v)) =
              <<s.threadId, v, s.unwind, s.inFilter, s.coverage, s.reports, s.crashed>>
<1> DEFINE c == Check(s, ~Exist(s, "balance"), "store")
<1>1. c \in Slots /\ View(c) = View(s) /\ (s.balance = None => c = s)
  BY CheckFacts DEF Assertions, Exist
<1>2. Store(s, "balance", v) = SetBalance(c, v) BY DEF Store, SetBalance
<1> HIDE DEF c
<1>3. v \in Int \cup {None} BY LoadFacts
<1>4. /\ SetBalance(c, v) \in Slots /\ SetBalance(c, v).failed = c.failed
      /\ View(SetBalance(c, v)) =
           <<c.threadId, v, c.unwind, c.inFilter, c.coverage, c.reports, c.crashed>>
  BY <1>1, <1>3, SetBalanceFacts
<1>5. QED BY <1>1, <1>2, <1>4 DEF View

(* inFilterMapping: the same.                                              *)
LEMMA StoreInFilter ==
  ASSUME NEW s \in Slots, NEW v \in Int
  PROVE  /\ Store(s, "inFilter", v) \in Slots
         /\ (s.inFilter = None => Store(s, "inFilter", v).failed = s.failed)
         /\ View(Store(s, "inFilter", v)) =
              <<s.threadId, s.balance, s.unwind, v, s.coverage, s.reports, s.crashed>>
<1> DEFINE c == Check(s, ~Exist(s, "inFilter"), "store")
<1>1. c \in Slots /\ View(c) = View(s) /\ (s.inFilter = None => c = s)
  BY CheckFacts DEF Assertions, Exist
<1>2. Store(s, "inFilter", v) = SetInFilter(c, v) BY DEF Store, SetInFilter
<1> HIDE DEF c
<1>3. v \in Int \cup {None} BY LoadFacts
<1>4. /\ SetInFilter(c, v) \in Slots /\ SetInFilter(c, v).failed = c.failed
      /\ View(SetInFilter(c, v)) =
           <<c.threadId, c.balance, c.unwind, v, c.coverage, c.reports, c.crashed>>
  BY <1>1, <1>3, SetInFilterFacts
<1>5. QED BY <1>1, <1>2, <1>4 DEF View

(* trackedCoverage: the same for a new history.                            *)
LEMMA StoreCoverage ==
  ASSUME NEW s \in Slots, NEW v \in Histories
  PROVE  /\ Store(s, "coverage", v) \in Slots
         /\ (s.coverage = None => Store(s, "coverage", v).failed = s.failed)
         /\ View(Store(s, "coverage", v)) =
              <<s.threadId, s.balance, s.unwind, s.inFilter, v, s.reports, s.crashed>>
<1> DEFINE c == Check(s, ~Exist(s, "coverage"), "store")
<1>1. c \in Slots /\ View(c) = View(s) /\ (s.coverage = None => c = s)
  BY CheckFacts DEF Assertions, Exist
<1>2. Store(s, "coverage", v) = SetCoverage(c, v) BY DEF Store, SetCoverage
<1> HIDE DEF c
<1>3. v \in Histories \cup {Null, None} BY LoadFacts
<1>4. /\ SetCoverage(c, v) \in Slots /\ SetCoverage(c, v).failed = c.failed
      /\ View(SetCoverage(c, v)) =
           <<c.threadId, c.balance, c.unwind, c.inFilter, v, c.reports, c.crashed>>
  BY <1>1, <1>3, SetCoverageFacts
<1>5. QED BY <1>1, <1>2, <1>4 DEF View

(* unwindFunctionIds: a load without an entry inserts a zero.              *)
LEMMA LoadedUnwind ==
  ASSUME NEW s \in Slots
  PROVE  /\ Loaded(s, "unwind") \in Slots
         /\ (s.unwind # None => Loaded(s, "unwind").failed = s.failed)
         /\ View(Loaded(s, "unwind")) =
              <<s.threadId, s.balance, Load(s, "unwind"), s.inFilter, s.coverage, s.reports,
                s.crashed>>
<1> DEFINE c == Check(s, Exist(s, "unwind"), "load")
<1>1. c \in Slots /\ View(c) = View(s) /\ (s.unwind # None => c = s)
  BY CheckFacts DEF Assertions, Exist
<1>2. Loaded(s, "unwind") = SetUnwind(c, Load(s, "unwind")) BY DEF Loaded, SetUnwind
<1> HIDE DEF c
<1>3. Load(s, "unwind") \in Functions \cup {NoFunction, HostFunction, None} BY LoadFacts
<1>4. /\ SetUnwind(c, Load(s, "unwind")) \in Slots
      /\ SetUnwind(c, Load(s, "unwind")).failed = c.failed
      /\ View(SetUnwind(c, Load(s, "unwind"))) =
           <<c.threadId, c.balance, Load(s, "unwind"), c.inFilter, c.coverage, c.reports,
             c.crashed>>
  BY <1>1, <1>3, SetUnwindFacts
<1>5. QED BY <1>1, <1>2, <1>4 DEF View

(* trackedCoverage: a load without an entry inserts null.                  *)
LEMMA LoadedCoverage ==
  ASSUME NEW s \in Slots
  PROVE  /\ Loaded(s, "coverage") \in Slots
         /\ (s.coverage # None => Loaded(s, "coverage").failed = s.failed)
         /\ View(Loaded(s, "coverage")) =
              <<s.threadId, s.balance, s.unwind, s.inFilter, Load(s, "coverage"), s.reports,
                s.crashed>>
<1> DEFINE c == Check(s, Exist(s, "coverage"), "load")
<1>1. c \in Slots /\ View(c) = View(s) /\ (s.coverage # None => c = s)
  BY CheckFacts DEF Assertions, Exist
<1>2. Loaded(s, "coverage") = SetCoverage(c, Load(s, "coverage")) BY DEF Loaded, SetCoverage
<1> HIDE DEF c
<1>3. Load(s, "coverage") \in Histories \cup {Null, None} BY LoadFacts
<1>4. /\ SetCoverage(c, Load(s, "coverage")) \in Slots
      /\ SetCoverage(c, Load(s, "coverage")).failed = c.failed
      /\ View(SetCoverage(c, Load(s, "coverage"))) =
           <<c.threadId, c.balance, c.unwind, c.inFilter, Load(s, "coverage"), c.reports,
             c.crashed>>
  BY <1>1, <1>3, SetCoverageFacts
<1>5. QED BY <1>1, <1>2, <1>4 DEF View

(* The operations of CoverageTracker and ThreadTracker. *)
LEMMA TrackFacts ==
  ASSUME NEW s \in Slots
  PROVE  /\ TrackCurrentThread(s) \in Slots
         /\ View(TrackCurrentThread(s)) =
              <<s.threadId, 0, s.unwind, 0, s.coverage, s.reports, s.crashed>>
         /\ s.balance = None /\ s.inFilter = None => TrackCurrentThread(s).failed = s.failed
<1> DEFINE b == Store(s, "balance", 0)
<1>1. /\ b \in Slots /\ (s.balance = None => b.failed = s.failed)
      /\ View(b) = <<s.threadId, 0, s.unwind, s.inFilter, s.coverage, s.reports, s.crashed>>
  BY StoreBalance
<1>2. TrackCurrentThread(s) = Store(b, "inFilter", 0) BY DEF TrackCurrentThread
<1> HIDE DEF b
<1>3. QED BY <1>1, <1>2, StoreInFilter DEF View

(* stackBalanceUp() adds one; it asserts that the thread is tracked.       *)
LEMMA UpFacts ==
  ASSUME NEW s \in Slots
  PROVE  /\ StackBalanceUp(s) \in Slots
         /\ View(StackBalanceUp(s)) = <<s.threadId, Load(s, "balance") + 1, s.unwind,
                                        s.inFilter, s.coverage, s.reports, s.crashed>>
         /\ IsTracked(s) => StackBalanceUp(s).failed = s.failed
<1> DEFINE c == Check(s, IsTracked(s), "tracked")
<1>1. c \in Slots /\ View(c) = View(s) /\ (IsTracked(s) => c = s)
  BY CheckFacts DEF Assertions
<1>2. StackBalanceUp(s) = Add(c, "balance", 1) BY DEF StackBalanceUp
<1>3. Load(c, "balance") = Load(s, "balance") BY <1>1 DEF Load, Exist, View
<1> HIDE DEF c
<1>4. QED BY <1>1, <1>2, <1>3, AddBalance DEF View, IsTracked, Exist

(* stackBalanceDown() subtracts one; it asserts that it stays positive.    *)
LEMMA DownFacts ==
  ASSUME NEW s \in Slots
  PROVE  /\ StackBalanceDown(s) \in Slots
         /\ View(StackBalanceDown(s)) = <<s.threadId, Load(s, "balance") - 1, s.unwind,
                                          s.inFilter, s.coverage, s.reports, s.crashed>>
         /\ IsTracked(s) /\ s.balance >= 1 => StackBalanceDown(s).failed = s.failed
<1> DEFINE c == Check(s, IsTracked(s), "tracked")
           d == Add(c, "balance", -1)
<1>1. c \in Slots /\ View(c) = View(s) /\ (IsTracked(s) => c = s)
  BY CheckFacts DEF Assertions
<1>2. StackBalanceDown(s) = Check(d, d.balance >= 0, "balance") BY DEF StackBalanceDown
<1>3. Load(c, "balance") = Load(s, "balance") BY <1>1 DEF Load, Exist, View
<1>4. /\ d \in Slots /\ (c.balance # None => d.failed = c.failed)
      /\ View(d) = <<c.threadId, Load(c, "balance") + (-1), c.unwind, c.inFilter, c.coverage,
                     c.reports, c.crashed>>
  <2> HIDE DEF c
  <2>1. QED BY <1>1, AddBalance
<1> HIDE DEF c, d
<1>5. /\ Check(d, d.balance >= 0, "balance") \in Slots
      /\ View(Check(d, d.balance >= 0, "balance")) = View(d)
      /\ d.balance >= 0 => Check(d, d.balance >= 0, "balance") = d
  BY <1>4, CheckFacts DEF Assertions
<1>6. View(d) = <<s.threadId, Load(s, "balance") - 1, s.unwind, s.inFilter, s.coverage,
                  s.reports, s.crashed>>
  BY <1>1, <1>3, <1>4, LoadFacts DEF View
<1>7. IsTracked(s) /\ s.balance >= 1 => d.failed = s.failed /\ d.balance >= 0
  BY <1>1, <1>4, <1>6, LoadFacts DEF IsTracked, Exist, View, Slots
<1>8. QED BY <1>2, <1>5, <1>6, <1>7

(* addCoverage() records the invocation, or dereferences a null history.   *)
LEMMA CoverageFacts ==
  ASSUME NEW s \in Slots, NEW event, NEW n \in Nat
  PROVE  LET r == AddCoverage(s, event, n)
         IN  /\ r \in Slots
             /\ event = "EnterMain" /\ s.coverage = None =>
                  /\ View(r) = <<s.threadId, s.balance, s.unwind, s.inFilter, [of |-> {n}],
                                 s.reports, s.crashed>>
                  /\ r.failed = s.failed
             /\ s.coverage \in Histories =>
                  /\ View(r) = <<s.threadId, s.balance, s.unwind, s.inFilter,
                                 [of |-> s.coverage.of \cup {n}], s.reports, s.crashed>>
                  /\ r.failed = s.failed
             /\ ~(event = "EnterMain" /\ s.coverage = None) /\ s.coverage \notin Histories => r.crashed
             /\ s.coverage # None => r.failed = s.failed
<1>0. None \notin Histories /\ Null \notin Histories /\ Null # None /\ [of |-> {n}] \in Histories
  BY TrackingAssumption DEF Histories
<1>1. CASE event = "EnterMain" /\ s.coverage = None
  BY <1>0, <1>1, StoreCoverage DEF AddCoverage, Exist
<1>2. CASE s.coverage \in Histories
  <2>1. AddCoverage(s, event, n) = [s EXCEPT !.coverage.of = @ \cup {n}]
    BY <1>0, <1>2 DEF AddCoverage, Load, Exist
  <2>2. [s.coverage EXCEPT !.of = @ \cup {n}] = [of |-> s.coverage.of \cup {n}]
    BY <1>2 DEF Histories
  <2>3. [of |-> s.coverage.of \cup {n}] \in Histories BY <1>2 DEF Histories
  <2>4. AddCoverage(s, event, n) = SetCoverage(s, [of |-> s.coverage.of \cup {n}])
    BY <2>1, <2>2 DEF SetCoverage, Slots
  <2>5. /\ AddCoverage(s, event, n) \in Slots /\ AddCoverage(s, event, n).failed = s.failed
        /\ View(AddCoverage(s, event, n)) = <<s.threadId, s.balance, s.unwind, s.inFilter,
                                 [of |-> s.coverage.of \cup {n}], s.reports, s.crashed>>
    BY <2>3, <2>4, SetCoverageFacts
  <2>6. QED BY <1>0, <1>2, <2>5
<1>3. CASE ~(event = "EnterMain" /\ s.coverage = None) /\ s.coverage \notin Histories
  <2>1. Load(s, "coverage") = Null BY <1>3, LoadFacts DEF Slots
  <2>2. AddCoverage(s, event, n) = Crash(Loaded(s, "coverage"))
    BY <1>3, <2>1 DEF AddCoverage, Exist
  <2>3. /\ Loaded(s, "coverage") \in Slots
        /\ s.coverage # None => Loaded(s, "coverage").failed = s.failed
    BY LoadedCoverage
  <2>4. QED BY <1>3, <2>2, <2>3, CrashFacts
<1>4. QED BY <1>1, <1>2, <1>3

(* invocationFinished() reports the history and forgets it.                *)
LEMMA FinishedFacts ==
  ASSUME NEW s \in Slots
  PROVE  LET r == InvocationFinished(s)
             id == IF Exist(s, "threadId") THEN s.threadId ELSE 0
         IN  /\ r \in Slots
             /\ s.coverage \in Histories =>
                  /\ View(r) = <<s.threadId, s.balance, s.unwind, s.inFilter, None,
                                 Append(s.reports, [id |-> id, of |-> s.coverage.of]), s.crashed>>
                  /\ r.failed = s.failed
             /\ s.coverage \notin Histories => r.crashed
             /\ s.coverage # None => r.failed = s.failed
<1> DEFINE id == IF Exist(s, "threadId") THEN s.threadId ELSE 0
           v  == [id |-> id, of |-> s.coverage.of]
<1>0. None \notin Histories /\ Null \notin Histories /\ Null # None
  BY TrackingAssumption
<1>1. id \in Int BY DEF Exist, Slots
<1> HIDE DEF id
<1>2. CASE s.coverage \in Histories
  <2>1. v \in [id : Int, of : SUBSET Nat] BY <1>1, <1>2 DEF Histories
  <2>2. InvocationFinished(s) = Remove(AddReport(s, v), "coverage")
    BY <1>0, <1>2 DEF InvocationFinished, AddReport, Load, Exist, id
  <2> HIDE DEF v
  <2>3. AddReport(s, v) \in Slots /\ AddReport(s, v).failed = s.failed
        /\ View(AddReport(s, v)) = <<s.threadId, s.balance, s.unwind, s.inFilter, s.coverage,
                                     Append(s.reports, v), s.crashed>>
    BY <2>1, ReportFacts
  <2>4. /\ Remove(AddReport(s, v), "coverage") \in Slots
        /\ Remove(AddReport(s, v), "coverage").failed = s.failed
        /\ View(Remove(AddReport(s, v), "coverage")) =
              <<s.threadId, s.balance, s.unwind, s.inFilter, None, Append(s.reports, v), s.crashed>>
    BY <1>0, <1>2, <2>3, RemoveCoverage DEF View
  <2>5. QED BY <1>2, <2>2, <2>4 DEF v, id
<1>3. CASE s.coverage \notin Histories
  <2>1. Load(s, "coverage") = Null BY <1>3, LoadFacts DEF Slots
  <2>2. InvocationFinished(s) = Crash(Loaded(s, "coverage"))
    BY <2>1 DEF InvocationFinished
  <2>3. /\ Loaded(s, "coverage") \in Slots
        /\ s.coverage # None => Loaded(s, "coverage").failed = s.failed
    BY LoadedCoverage
  <2>4. QED BY <1>3, <2>2, <2>3, CrashFacts
<1>4. QED BY <1>2, <1>3

(* What the end of an invocation leaves of a tracker, if it does not crash. *)
Closed(s) ==
  <<IF isPassiveRun THEN s.threadId ELSE None, None, s.unwind, None, None,
    Append(s.reports, [id |-> IF Exist(s, "threadId") THEN s.threadId ELSE 0,
                       of |-> s.coverage.of]),
    s.crashed>>

(* onCurrentThreadFinished() also forgets the thread.                      *)
LEMMA OverFacts ==
  ASSUME NEW s \in Slots, ~s.crashed
  PROVE  LET r == OnCurrentThreadFinished(s)
         IN  /\ r \in Slots
             /\ s.coverage \in Histories => View(r) = Closed(s)
             /\ s.coverage \notin Histories => r.crashed
             /\ s.balance # None /\ s.inFilter # None /\ s.coverage # None
                /\ (isPassiveRun \/ s.threadId # None) => r.failed = s.failed
<1> DEFINE d == InvocationFinished(s)
           b == Remove(d, "balance")
           l == Remove(b, "inFilter")
           m == Remove(l, "threadId")
<1>0. s.coverage # None \/ s.coverage \notin Histories BY TrackingAssumption
<1>1. /\ d \in Slots
      /\ s.coverage \in Histories =>
           View(d) = <<s.threadId, s.balance, s.unwind, s.inFilter, None,
                       Append(s.reports, [id |-> IF Exist(s, "threadId") THEN s.threadId ELSE 0,
                                          of |-> s.coverage.of]), s.crashed>>
      /\ s.coverage \notin Histories => d.crashed
      /\ s.coverage # None => d.failed = s.failed
  BY FinishedFacts
<1>2. OnCurrentThreadFinished(s) = IF d.crashed THEN d ELSE IF isPassiveRun THEN l ELSE m
  BY DEF OnCurrentThreadFinished
<1> HIDE DEF d
<1>3. /\ b \in Slots /\ (d.balance # None => b.failed = d.failed)
      /\ View(b) = <<d.threadId, None, d.unwind, d.inFilter, d.coverage, d.reports, d.crashed>>
  BY <1>1, RemoveBalance
<1> HIDE DEF b
<1>4. /\ l \in Slots /\ (b.inFilter # None => l.failed = b.failed)
      /\ View(l) = <<b.threadId, b.balance, b.unwind, None, b.coverage, b.reports, b.crashed>>
  BY <1>3, RemoveInFilter
<1> HIDE DEF l
<1>5. /\ m \in Slots /\ (l.threadId # None => m.failed = l.failed)
      /\ View(m) = <<None, l.balance, l.unwind, l.inFilter, l.coverage, l.reports, l.crashed>>
  BY <1>4, RemoveThreadId
<1> HIDE DEF m
<1>6. OnCurrentThreadFinished(s) \in Slots BY <1>1, <1>2, <1>4, <1>5
<1>7. ASSUME s.coverage \notin Histories
      PROVE  /\ OnCurrentThreadFinished(s).crashed
             /\ s.coverage # None => OnCurrentThreadFinished(s).failed = s.failed
  BY <1>1, <1>2, <1>7
<1>8. ASSUME s.coverage \in Histories, ~s.crashed
      PROVE  View(OnCurrentThreadFinished(s)) = Closed(s)
  <2>1. View(d) = <<s.threadId, s.balance, s.unwind, s.inFilter, None,
                    Append(s.reports, [id |-> IF Exist(s, "threadId") THEN s.threadId ELSE 0,
                                       of |-> s.coverage.of]), s.crashed>>
    BY <1>1, <1>8
  <2>2. ~d.crashed BY <1>8, <2>1 DEF View
  <2>3. View(l) = <<s.threadId, None, s.unwind, None, None,
                    Append(s.reports, [id |-> IF Exist(s, "threadId") THEN s.threadId ELSE 0,
                                       of |-> s.coverage.of]), s.crashed>>
    BY <1>3, <1>4, <2>1 DEF View
  <2>4. CASE isPassiveRun BY <1>2, <2>2, <2>3, <2>4 DEF Closed, View
  <2>5. CASE ~isPassiveRun BY <1>2, <1>5, <2>2, <2>3, <2>5 DEF Closed, View
  <2>6. QED BY <2>4, <2>5
<1>9. ASSUME s.coverage \in Histories, s.balance # None, s.inFilter # None,
             isPassiveRun \/ s.threadId # None
      PROVE  OnCurrentThreadFinished(s).failed = s.failed
  <2>1. View(d) = <<s.threadId, s.balance, s.unwind, s.inFilter, None,
                    Append(s.reports, [id |-> IF Exist(s, "threadId") THEN s.threadId ELSE 0,
                                       of |-> s.coverage.of]), s.crashed>>
        /\ d.failed = s.failed
    BY <1>0, <1>1, <1>9
  <2>2. l.failed = s.failed /\ l.threadId = s.threadId
    BY <1>3, <1>4, <1>9, <2>1 DEF View
  <2>3. QED BY <1>2, <1>5, <1>9, <2>1, <2>2
<1>10. QED BY <1>6, <1>7, <1>8, <1>9

(* loseCurrentThread() asserts that main and its filters were left.        *)
LEMMA LoseFacts ==
  ASSUME NEW s \in Slots, ~s.crashed
  PROVE  LET r == LoseCurrentThread(s)
         IN  /\ r \in Slots
             /\ s.coverage \in Histories => View(r) = Closed(s)
             /\ s.coverage \notin Histories => r.crashed
             /\ s.balance = 0 /\ s.inFilter = 0 /\ s.coverage # None
                /\ (isPassiveRun \/ s.threadId # None) => r.failed = s.failed
<1> DEFINE g == IsTracked(s) /\ Load(s, "balance") = 0 /\ Load(s, "inFilter") = 0
           c == Check(s, g, "lose")
<1>1. c \in Slots /\ View(c) = View(s) /\ (g => c = s)
  <2> HIDE DEF g
  <2>1. QED BY CheckFacts DEF Assertions
<1>2. s.balance = 0 /\ s.inFilter = 0 => g
  BY TrackingAssumption, LoadFacts DEF IsTracked, Exist
<1>3. LoseCurrentThread(s) = OnCurrentThreadFinished(c) BY DEF LoseCurrentThread
<1> HIDE DEF c, g
<1>4. Closed(c) = Closed(s) BY <1>1 DEF Closed, View, Exist
<1>5. c.crashed = s.crashed /\ c.coverage = s.coverage BY <1>1 DEF View
<1>6. 0 # None BY TrackingAssumption
<1>7. QED BY <1>1, <1>2, <1>3, <1>4, <1>5, <1>6, OverFacts

(* The probes and the callbacks of an unwinding. *)
LEMMA EnterMainFacts ==
  ASSUME NEW s \in Slots, NEW n \in Nat
  PROVE  LET r == TrackEnterMain(s, n)
         IN  /\ r \in Slots
             /\ s.balance # None =>
                  /\ View(r) = <<s.threadId, s.balance + 1, s.unwind, s.inFilter, s.coverage,
                                 s.reports, s.crashed>>
                  /\ r.failed = s.failed
             /\ s.balance = None /\ s.coverage = None =>
                  /\ View(r) = <<s.threadId, 1, s.unwind, 0, [of |-> {n}], s.reports, s.crashed>>
                  /\ s.inFilter = None => r.failed = s.failed
<1>1. CASE s.balance # None
  BY <1>1, UpFacts, LoadFacts DEF TrackEnterMain, IsTracked, Exist
<1>2. CASE s.balance = None
  <2> DEFINE k == TrackCurrentThread(s)
             u == StackBalanceUp(k)
  <2>1. /\ k \in Slots /\ (s.inFilter = None => k.failed = s.failed)
        /\ View(k) = <<s.threadId, 0, s.unwind, 0, s.coverage, s.reports, s.crashed>>
    BY <1>2, TrackFacts
  <2>2. TrackEnterMain(s, n) = AddCoverage(u, "EnterMain", n)
    BY <1>2 DEF TrackEnterMain, IsTracked, Exist
  <2> HIDE DEF k
  <2>3. k.balance = 0 /\ Load(k, "balance") = 0 /\ IsTracked(k)
    BY <2>1, TrackingAssumption DEF Load, Exist, View, IsTracked
  <2>4. /\ u \in Slots /\ (s.inFilter = None => u.failed = s.failed)
        /\ View(u) = <<s.threadId, 1, s.unwind, 0, s.coverage, s.reports, s.crashed>>
    BY <2>1, <2>3, UpFacts DEF View
  <2> HIDE DEF u
  <2>5. /\ AddCoverage(u, "EnterMain", n) \in Slots
        /\ u.coverage = None =>
             /\ View(AddCoverage(u, "EnterMain", n)) =
                  <<u.threadId, u.balance, u.unwind, u.inFilter, [of |-> {n}], u.reports, u.crashed>>
             /\ AddCoverage(u, "EnterMain", n).failed = u.failed
    BY <2>4, CoverageFacts
  <2>6. /\ u.threadId = s.threadId /\ u.balance = 1 /\ u.unwind = s.unwind /\ u.inFilter = 0
        /\ u.coverage = s.coverage /\ u.reports = s.reports /\ u.crashed = s.crashed
    BY <2>4 DEF View
  <2>7. QED BY <1>2, <2>2, <2>4, <2>5, <2>6
<1>3. QED BY <1>1, <1>2

(* A probe of an untracked thread does nothing.                            *)
LEMMA ProbeFacts ==
  ASSUME NEW s \in Slots, NEW n \in Nat
  PROVE  LET r == TrackCoverage(s, n)
         IN  /\ r \in Slots
             /\ s.balance = None => r = s
             /\ s.balance # None /\ s.coverage \in Histories =>
                  View(r) = <<s.threadId, s.balance, s.unwind, s.inFilter,
                              [of |-> s.coverage.of \cup {n}], s.reports, s.crashed>>
             /\ s.balance # None /\ s.coverage \notin Histories => r.crashed
             /\ s.coverage # None => r.failed = s.failed
BY CoverageFacts DEF TrackCoverage, WhenTracked, IsTracked, Exist

(* Track_Tailcall leaves a frame of main.                                  *)
LEMMA TailcallFacts ==
  ASSUME NEW s \in Slots, NEW n \in Nat
  PROVE  LET r == TrackTailcall(s, n)
         IN  /\ r \in Slots
             /\ s.balance = None => r = s
             /\ s.balance # None /\ s.coverage \in Histories =>
                  View(r) = <<s.threadId, s.balance - 1, s.unwind, s.inFilter,
                              [of |-> s.coverage.of \cup {n}], s.reports, s.crashed>>
             /\ s.balance # None /\ s.coverage \notin Histories => r.crashed
             /\ s.balance # None /\ s.balance >= 1 /\ s.coverage # None => r.failed = s.failed
<1> DEFINE d == StackBalanceDown(s)
<1>1. /\ d \in Slots /\ (s.balance # None /\ s.balance >= 1 => d.failed = s.failed)
      /\ View(d) = <<s.threadId, Load(s, "balance") - 1, s.unwind, s.inFilter, s.coverage,
                     s.reports, s.crashed>>
  BY DownFacts DEF IsTracked, Exist
<1>2. TrackTailcall(s, n) = IF s.balance # None THEN AddCoverage(d, "Tailcall", n) ELSE s
  BY DEF TrackTailcall, WhenTracked, IsTracked, Exist
<1> HIDE DEF d
<1>3. /\ d.threadId = s.threadId /\ d.balance = Load(s, "balance") - 1 /\ d.unwind = s.unwind
      /\ d.inFilter = s.inFilter /\ d.coverage = s.coverage /\ d.reports = s.reports
      /\ d.crashed = s.crashed
  BY <1>1 DEF View
<1>4. /\ AddCoverage(d, "Tailcall", n) \in Slots
      /\ d.coverage \in Histories =>
           View(AddCoverage(d, "Tailcall", n)) =
             <<d.threadId, d.balance, d.unwind, d.inFilter, [of |-> d.coverage.of \cup {n}],
               d.reports, d.crashed>>
      /\ d.coverage \notin Histories => AddCoverage(d, "Tailcall", n).crashed
      /\ d.coverage # None => AddCoverage(d, "Tailcall", n).failed = d.failed
  BY <1>1, CoverageFacts
<1>5. s.balance # None => Load(s, "balance") = s.balance BY LoadFacts
<1>6. QED BY <1>1, <1>2, <1>3, <1>4, <1>5

(* Track_LeaveMain leaves a frame of main, and the thread with the last one. *)
LEMMA LeaveMainFacts ==
  ASSUME NEW s \in Slots, ~s.crashed, NEW n \in Nat
  PROVE  LET r == TrackLeaveMain(s, n)
             id == IF Exist(s, "threadId") THEN s.threadId ELSE 0
         IN  /\ r \in Slots
             /\ s.balance = None => r = s
             /\ s.balance # None /\ s.balance # 1 /\ s.coverage \in Histories =>
                  View(r) = <<s.threadId, s.balance - 1, s.unwind, s.inFilter,
                              [of |-> s.coverage.of \cup {n}], s.reports, s.crashed>>
             /\ s.balance = 1 /\ s.coverage \in Histories =>
                  View(r) = <<IF isPassiveRun THEN s.threadId ELSE None, None, s.unwind, None, None,
                              Append(s.reports, [id |-> id, of |-> s.coverage.of \cup {n}]),
                              s.crashed>>
             /\ s.balance # None /\ s.coverage \notin Histories => r.crashed
             /\ /\ s.balance # None /\ s.balance >= 1 /\ s.coverage # None
                /\ s.balance = 1 => s.inFilter = 0 /\ (isPassiveRun \/ s.threadId # None)
                => r.failed = s.failed
<1> DEFINE c == AddCoverage(s, "LeaveMain", n)
           d == StackBalanceDown(c)
<1>1. TrackLeaveMain(s, n) =
        IF s.balance = None THEN s
        ELSE IF c.crashed THEN c ELSE IF d.balance # 0 THEN d ELSE LoseCurrentThread(d)
  BY DEF TrackLeaveMain, WhenTracked, IsTracked, Exist
<1>2. /\ c \in Slots
      /\ s.coverage \in Histories =>
           View(c) = <<s.threadId, s.balance, s.unwind, s.inFilter,
                       [of |-> s.coverage.of \cup {n}], s.reports, s.crashed>>
      /\ s.coverage \notin Histories => c.crashed
      /\ s.coverage # None => c.failed = s.failed
  BY CoverageFacts
<1> HIDE DEF c
<1>3. /\ d \in Slots
      /\ View(d) = <<c.threadId, Load(c, "balance") - 1, c.unwind, c.inFilter, c.coverage,
                     c.reports, c.crashed>>
      /\ c.balance # None /\ c.balance >= 1 => d.failed = c.failed
  BY <1>2, DownFacts DEF IsTracked, Exist
<1> HIDE DEF d
<1>4. ASSUME s.balance # None, s.coverage \in Histories
      PROVE  /\ ~c.crashed
             /\ View(d) = <<s.threadId, s.balance - 1, s.unwind, s.inFilter,
                            [of |-> s.coverage.of \cup {n}], s.reports, s.crashed>>
             /\ s.balance >= 1 => d.failed = s.failed
  <2>1. /\ c.threadId = s.threadId /\ c.balance = s.balance /\ c.unwind = s.unwind
        /\ c.inFilter = s.inFilter /\ c.coverage = [of |-> s.coverage.of \cup {n}]
        /\ c.reports = s.reports /\ c.crashed = s.crashed
    BY <1>2, <1>4 DEF View
  <2>2. Load(c, "balance") = s.balance BY <1>4, <2>1 DEF Load, Exist
  <2>3. c.failed = s.failed BY <1>2, <1>4, TrackingAssumption
  <2>4. View(d) = <<s.threadId, s.balance - 1, s.unwind, s.inFilter,
                    [of |-> s.coverage.of \cup {n}], s.reports, s.crashed>>
    BY <1>3, <2>1, <2>2
  <2>5. s.balance >= 1 => d.failed = s.failed BY <1>3, <1>4, <2>1, <2>3
  <2>6. QED BY <2>1, <2>4, <2>5
<1>5. CASE s.balance = None
  <2>1. s.balance # 1 BY <1>5, TrackingAssumption
  <2>2. QED BY <1>1, <1>5, <2>1
<1>6. CASE s.balance # None /\ s.coverage \notin Histories
  BY <1>1, <1>2, <1>6
<1>7. CASE s.balance # None /\ s.balance # 1 /\ s.coverage \in Histories
  <2>1. d.balance # 0 BY <1>4, <1>7 DEF View, Slots
  <2>2. QED BY <1>1, <1>3, <1>4, <1>7, <2>1
<1>8. CASE s.balance = 1 /\ s.coverage \in Histories
  <2>0. 1 # None BY TrackingAssumption
  <2>1. /\ d.balance = 0 /\ d.inFilter = s.inFilter /\ d.threadId = s.threadId
        /\ d.coverage = [of |-> s.coverage.of \cup {n}] /\ d.unwind = s.unwind
        /\ d.reports = s.reports /\ d.crashed = s.crashed
    BY <1>4, <1>8, <2>0 DEF View
  <2>2. TrackLeaveMain(s, n) = LoseCurrentThread(d) BY <1>1, <1>4, <1>8, <2>0, <2>1
  <2>3. d.coverage \in Histories /\ d.coverage # None
    BY <1>8, <2>1, TrackingAssumption DEF Histories
  <2>4. /\ LoseCurrentThread(d) \in Slots
        /\ View(LoseCurrentThread(d)) = Closed(d)
        /\ s.inFilter = 0 /\ (isPassiveRun \/ s.threadId # None) =>
             LoseCurrentThread(d).failed = d.failed
    BY <1>3, <2>1, <2>3, LoseFacts
  <2>5. Closed(d) = <<IF isPassiveRun THEN s.threadId ELSE None, None, s.unwind, None, None,
                      Append(s.reports, [id |-> IF Exist(s, "threadId") THEN s.threadId ELSE 0,
                                         of |-> s.coverage.of \cup {n}]), s.crashed>>
    <3>1. d.coverage.of = s.coverage.of \cup {n} BY <2>1
    <3>2. QED BY <2>1, <3>1 DEF Closed, Exist
  <2>6. QED BY <1>4, <1>8, <2>0, <2>2, <2>4, <2>5
<1>9. QED BY <1>5, <1>6, <1>7, <1>8

(* unwindFunctionEnter() remembers the function that is unwound.           *)
LEMMA UnwindEnterFacts ==
  ASSUME NEW s \in Slots, NEW f \in Functions \cup {HostFunction}
  PROVE  LET r == UnwindFunctionEnter(s, f)
         IN  /\ r \in Slots /\ r.failed = s.failed
             /\ View(r) = <<s.threadId, s.balance, f, s.inFilter, s.coverage, s.reports, s.crashed>>
<1>1. f # NoFunction BY TrackingAssumption
<1>2. Check(s, f # NoFunction, "function") = s BY <1>1 DEF Check
<1>3. UnwindFunctionEnter(s, f) = SetUnwind(s, f)
  BY <1>2 DEF UnwindFunctionEnter, StoreOrUpdate, SetUnwind
<1>4. QED BY <1>3, SetUnwindFacts

(* unwindFunctionLeave() forgets it, and leaves main if it was main.       *)
LEMMA UnwindLeaveFacts ==
  ASSUME NEW s \in Slots, ~s.crashed
  PROVE  LET r == UnwindFunctionLeave(s)
             stays == \/ Load(s, "unwind") # mainFunctionId
                      \/ Load(s, "inFilter") > 0 /\ Load(s, "balance") <= 1
             id == IF Exist(s, "threadId") THEN s.threadId ELSE 0
         IN  /\ r \in Slots
             /\ stays => /\ View(r) = <<s.threadId, s.balance, None, s.inFilter, s.coverage,
                                        s.reports, s.crashed>>
                         /\ s.unwind # None => r.failed = s.failed
             /\ ~stays /\ Load(s, "balance") # 1 =>
                  /\ View(r) = <<s.threadId, Load(s, "balance") - 1, None, s.inFilter, s.coverage,
                                 s.reports, s.crashed>>
                  /\ s.unwind # None /\ s.balance # None /\ s.balance >= 1 => r.failed = s.failed
             /\ ~stays /\ Load(s, "balance") = 1 =>
                  /\ s.coverage \in Histories =>
                       View(r) = <<IF isPassiveRun THEN s.threadId ELSE None, None, None, None,
                                   None, Append(s.reports, [id |-> id, of |-> s.coverage.of]),
                                   s.crashed>>
                  /\ s.coverage \notin Histories => r.crashed
                  /\ /\ s.unwind # None /\ s.balance # None /\ s.coverage # None
                     /\ s.inFilter = 0 /\ (isPassiveRun \/ s.threadId # None)
                     => r.failed = s.failed
<1> DEFINE u == Loaded(s, "unwind")
           l == Remove(u, "unwind")
           d == StackBalanceDown(l)
           stays == \/ Load(s, "unwind") # mainFunctionId
                    \/ Load(s, "inFilter") > 0 /\ Load(s, "balance") <= 1
<1>1. UnwindFunctionLeave(s) =
        IF \/ Load(s, "unwind") # mainFunctionId
           \/ Load(l, "inFilter") > 0 /\ Load(l, "balance") <= 1
        THEN l ELSE IF d.balance = 0 THEN LoseCurrentThread(d) ELSE d
  BY DEF UnwindFunctionLeave
<1>2. /\ u \in Slots /\ (s.unwind # None => u.failed = s.failed)
      /\ View(u) = <<s.threadId, s.balance, Load(s, "unwind"), s.inFilter, s.coverage,
                     s.reports, s.crashed>>
  BY LoadedUnwind
<1> HIDE DEF u
<1>3. /\ l \in Slots /\ (u.unwind # None => l.failed = u.failed)
      /\ View(l) = <<u.threadId, u.balance, None, u.inFilter, u.coverage, u.reports, u.crashed>>
  BY <1>2, RemoveUnwind
<1> HIDE DEF l
<1>4. Load(s, "unwind") # None BY LoadFacts, TrackingAssumption
<1>5. /\ View(l) = <<s.threadId, s.balance, None, s.inFilter, s.coverage, s.reports, s.crashed>>
      /\ s.unwind # None => l.failed = s.failed
  BY <1>2, <1>3, <1>4 DEF View
<1>6. Load(l, "inFilter") = Load(s, "inFilter") /\ Load(l, "balance") = Load(s, "balance")
  BY <1>5 DEF View, Load, Exist
<1>7. /\ d \in Slots
      /\ View(d) = <<s.threadId, Load(s, "balance") - 1, None, s.inFilter, s.coverage,
                     s.reports, s.crashed>>
      /\ s.unwind # None /\ s.balance # None /\ s.balance >= 1 => d.failed = s.failed
  BY <1>3, <1>5, <1>6, DownFacts DEF View, IsTracked, Exist
<1> HIDE DEF d
<1>8. CASE stays BY <1>1, <1>3, <1>5, <1>6, <1>8
<1>9. CASE ~stays /\ Load(s, "balance") # 1
  <2>1. d.balance # 0 BY <1>7, <1>9, LoadFacts DEF View
  <2>2. UnwindFunctionLeave(s) = d BY <1>1, <1>6, <1>9, <2>1
  <2>3. QED BY <1>7, <1>9, <2>2
<1>10. CASE ~stays /\ Load(s, "balance") = 1
  <2>1. /\ d.balance = 0 /\ d.inFilter = s.inFilter /\ d.threadId = s.threadId
        /\ d.coverage = s.coverage /\ d.unwind = None
        /\ d.reports = s.reports /\ d.crashed = s.crashed
    BY <1>7, <1>10 DEF View
  <2>2. UnwindFunctionLeave(s) = LoseCurrentThread(d) BY <1>1, <1>6, <1>10, <2>1
  <2>3. /\ LoseCurrentThread(d) \in Slots
        /\ s.coverage \in Histories => View(LoseCurrentThread(d)) = Closed(d)
        /\ s.coverage \notin Histories => LoseCurrentThread(d).crashed
        /\ s.coverage # None /\ s.inFilter = 0 /\ (isPassiveRun \/ s.threadId # None) =>
             LoseCurrentThread(d).failed = d.failed
    BY <1>7, <2>1, LoseFacts
  <2>4. Closed(d) = <<IF isPassiveRun THEN s.threadId ELSE None, None, None, None, None,
                      Append(s.reports, [id |-> IF Exist(s, "threadId") THEN s.threadId ELSE 0,
                                         of |-> s.coverage.of]), s.crashed>>
    BY <2>1 DEF Closed, Exist
  <2>5. s.balance # None => s.balance >= 1 BY <1>10, LoadFacts
  <2>6. QED BY <1>7, <1>10, <2>2, <2>3, <2>4, <2>5
<1>11. QED BY <1>8, <1>9, <1>10

-----------------------------------------------------------------------------
(* The frame of an exception that has entered it is still there. *)
Entered(n, e) == e.phase = "entered" => e.target < n

(* Every exception that waits for a funclet can be resumed. *)
Resumable(s, e) ==
  /\ Entered(Len(s), e)
  /\ \A i \in 1..Len(s) : Entered(i - 1, s[i].resume)

(* Of every thread. *)
Structured == \A t \in Threads : Resumable(stack[t], exn[t])

(* Stacks. *)
LEMMA PushFacts ==
  ASSUME NEW s \in Seq(Entries), NEW x \in Entries
  PROVE  /\ Append(s, x) \in Seq(Entries) /\ Len(s) \in Nat /\ Len(Append(s, x)) = Len(s) + 1
         /\ Append(s, x)[Len(s) + 1] = x
         /\ \A i \in 1..Len(s) : Append(s, x)[i] = s[i] /\ s[i] \in Entries
OBVIOUS

(* The entries below the top stay.                                         *)
LEMMA PopFacts ==
  ASSUME NEW s \in Seq(Entries), s # <<>>
  PROVE  /\ Pop(s) \in Seq(Entries) /\ Len(s) \in Nat /\ Len(s) >= 1
         /\ Len(Pop(s)) = Len(s) - 1
         /\ \A i \in 1..(Len(s) - 1) : Pop(s)[i] = s[i]
         /\ \A i \in 1..Len(s) : s[i] \in Entries
<1>1. Len(s) \in Nat /\ Len(s) >= 1 /\ \A i \in 1..Len(s) : s[i] \in Entries OBVIOUS
<1>2. Pop(s) = SubSeq(s, 1, Len(s) - 1) BY DEF Pop
<1>3. /\ Pop(s) \in Seq(Entries) /\ Len(Pop(s)) = Len(s) - 1
      /\ \A i \in 1..(Len(s) - 1) : Pop(s)[i] = s[i]
  <2> DEFINE n == Len(s) - 1
  <2>1. n \in Int /\ \A i \in 1..n : s[i] \in Entries BY <1>1
  <2>2. /\ SubSeq(s, 1, n) \in Seq(Entries)
        /\ Len(SubSeq(s, 1, n)) = IF 1 <= n THEN n - 1 + 1 ELSE 0
        /\ \A i \in 1..(n - 1 + 1) : SubSeq(s, 1, n)[i] = s[1 + i - 1]
    <3> HIDE DEF n
    <3>1. QED BY <2>1, SubSeqProperties
  <2>3. \A i \in 1..n : Pop(s)[i] = s[i]
    <3>1. TAKE i \in 1..n
    <3>2. i \in 1..(n - 1 + 1) /\ 1 + i - 1 = i BY <2>1
    <3>3. QED BY <1>2, <2>2, <3>2
  <2>4. Len(Pop(s)) = n
    <3>1. n \in Nat BY <1>1
    <3>2. Pop(s) = SubSeq(s, 1, n) BY <1>2
    <3> HIDE DEF n
    <3>3. CASE 1 <= n BY <2>2, <3>1, <3>2, <3>3
    <3>4. CASE ~(1 <= n) BY <2>2, <3>1, <3>2, <3>4
    <3>5. QED BY <3>3, <3>4
  <2>5. QED BY <1>2, <2>2, <2>3, <2>4
<1>4. QED BY <1>1, <1>3

(* A push of a method, or of a funclet that interrupts an exception which  *)
(* can be resumed, and a pop keep every waiting exception resumable.       *)
LEMMA PushResumable ==
  ASSUME NEW s \in Seq(Entries), NEW x \in Entries, NEW e \in Exns, NEW f \in Exns,
         Resumable(s, e), Entered(Len(s), x.resume), Entered(Len(s) + 1, f)
  PROVE  Resumable(Append(s, x), f)
BY PushFacts DEF Resumable

(* A pop keeps every waiting exception resumable.                          *)
LEMMA PopResumable ==
  ASSUME NEW s \in Seq(Entries), s # <<>>, NEW e \in Exns, NEW f \in Exns,
         Resumable(s, e), Entered(Len(s) - 1, f)
  PROVE  Resumable(Pop(s), f)
<1>1. /\ Len(Pop(s)) = Len(s) - 1 /\ Len(s) \in Nat
      /\ \A i \in 1..(Len(s) - 1) : Pop(s)[i] = s[i]
  BY PopFacts
<1>2. QED BY <1>1 DEF Resumable

(* So does another exception in flight that can be resumed.                *)
LEMMA Steady ==
  ASSUME NEW s \in Seq(Entries), NEW e \in Exns, NEW f \in Exns,
         Resumable(s, e), Entered(Len(s), f)
  PROVE  Resumable(s, f)
BY DEF Resumable

(* What TypeOK says of one thread. *)
LEMMA TypesAt ==
  ASSUME TypeOK, NEW t \in Threads
  PROVE  /\ tracker[t] \in Slots /\ stack[t] \in Seq(Entries) /\ exn[t] \in Exns
         /\ started[t] \in Nat /\ request[t] \in Mains \cup {None} /\ armed[t] \in BOOLEAN
BY DEF TypeOK

(* The variables indexed by threads keep their types when one entry does. *)
LEMMA ThreadStep ==
  ASSUME TypeOK, Structured, NEW t \in Threads,
         NEW r \in Slots, NEW s \in Seq(Entries), NEW e \in Exns,
         Resumable(s, e),
         tracker' = [tracker EXCEPT ![t] = r],
         stack' = [stack EXCEPT ![t] = s],
         exn' = [exn EXCEPT ![t] = e]
  PROVE  /\ tracker' \in [Threads -> Slots] /\ stack' \in [Threads -> Seq(Entries)]
         /\ exn' \in [Threads -> Exns] /\ Structured'
<1>1. /\ tracker' \in [Threads -> Slots] /\ stack' \in [Threads -> Seq(Entries)]
      /\ exn' \in [Threads -> Exns]
  BY DEF TypeOK
<1>2. \A u \in Threads : stack'[u] = (IF u = t THEN s ELSE stack[u])
                      /\ exn'[u] = (IF u = t THEN e ELSE exn[u])
  BY DEF TypeOK
<1>3. \A u \in Threads : Resumable(stack'[u], exn'[u]) BY <1>2 DEF Structured
<1>4. QED BY <1>1, <1>3 DEF Structured

(* An entry assigned to itself changes nothing.                            *)
LEMMA SelfUpdate ==
  ASSUME TypeOK, NEW t \in Threads
  PROVE  /\ tracker = [tracker EXCEPT ![t] = tracker[t]]
         /\ stack = [stack EXCEPT ![t] = stack[t]]
         /\ exn = [exn EXCEPT ![t] = exn[t]]
BY DEF TypeOK

(* A handler that returns at once when the thread is not tracked.          *)
LEMMA WhenTrackedFacts ==
  ASSUME NEW s \in Slots, NEW r, s.balance # None => r \in Slots
  PROVE  WhenTracked(s, r) = (IF s.balance # None THEN r ELSE s) /\ WhenTracked(s, r) \in Slots
BY DEF WhenTracked, IsTracked, Exist

(* The steps of Execute. *)
LEMMA TypeExecute ==
  ASSUME TypeOK, Structured, NEW t \in Threads, Execute(t)
  PROVE  TypeOK' /\ Structured'
<1> USE TrackingAssumption
<1>1. CASE \E m \in Mains : SetEntryMain(t, m)
  <2>1. PICK m \in Mains : SetEntryMain(t, m) BY <1>1
  <2>2. Structured' BY <2>1 DEF SetEntryMain, Structured
  <2>3. TypeOK' BY <2>1 DEF SetEntryMain, TypeOK
  <2>4. QED BY <2>2, <2>3
<1>2. CASE \E id \in MapIds : SetCurrentThreadId(t, id)
  <2>1. PICK id \in MapIds : SetCurrentThreadId(t, id) BY <1>2
  <2> DEFINE r == MapCurrentThread(tracker[t], id)
  <2>2. r \in Slots BY TypesAt, StoreThreadId DEF MapCurrentThread
  <2>3. /\ tracker' = [tracker EXCEPT ![t] = r] /\ stack' = stack /\ exn' = exn
        /\ armed' = [armed EXCEPT ![t] = TRUE] /\ UNCHANGED <<profilerVars, request, started>>
    BY <2>1 DEF SetCurrentThreadId
  <2> HIDE DEF r
  <2>4. tracker' \in [Threads -> Slots] BY <2>2, <2>3 DEF TypeOK
  <2>5. Structured' BY <2>3 DEF Structured
  <2>6. TypeOK' BY <2>3, <2>4 DEF TypeOK, profilerVars
  <2>7. QED BY <2>5, <2>6
<1>3. QED BY <1>1, <1>2 DEF Execute

(* Compilation keeps the types of what it writes. *)
LEMMA TypeJit ==
  ASSUME TypeOK, NEW f \in Functions, Jit(f)
  PROVE  /\ compiled' \subseteq Functions /\ probed' \subseteq compiled'
         /\ mainFunctionId' \in Functions \cup {NoFunction} /\ f \in compiled'
BY DEF Jit, TypeOK

(* The steps of the program.                                               *)
LEMMA TypeProgram ==
  ASSUME TypeOK, Structured, NEW t \in Threads, Program(t)
  PROVE  TypeOK' /\ Structured'
<1> USE TrackingAssumption
<1>0. /\ tracker[t] \in Slots /\ stack[t] \in Seq(Entries) /\ exn[t] \in Exns
      /\ started[t] \in Nat /\ Resumable(stack[t], exn[t])
  BY TypesAt DEF Structured
<1>1. CASE \E f \in Functions : CallFunction(t, f)
  <2>1. PICK f \in Functions : CallFunction(t, f) BY <1>1
  <2>2. Jit(f) /\ Enter(t, f) /\ exn' = exn BY <2>1 DEF CallFunction
  <2>3. started' \in [Threads -> Nat] BY <2>2 DEF Enter, TypeOK
  <2> DEFINE r == IF f \in probed' THEN TrackEnterMain(tracker[t], started'[t]) ELSE tracker[t]
             s == Append(stack[t], Frame(f))
  <2>4. r \in Slots BY <1>0, <2>3, EnterMainFacts
  <2>5. tracker' = [tracker EXCEPT ![t] = r] BY <2>2 DEF Enter
  <2>6. Frame(f) \in Entries /\ ~(exn[t].phase = "entered")
    BY <2>1 DEF Frame, Entries, Exns, NoExn, CallFunction, Runs
  <2>7. s \in Seq(Entries) BY <1>0, <2>6
  <2>8. Resumable(s, exn[t])
    BY <1>0, <2>6, PushResumable DEF Frame, NoExn, Entered
  <2>9. stack' = [stack EXCEPT ![t] = s] BY <2>1 DEF CallFunction
  <2> HIDE DEF r, s
  <2>10. /\ tracker' \in [Threads -> Slots] /\ stack' \in [Threads -> Seq(Entries)]
         /\ exn' \in [Threads -> Exns] /\ Structured'
    BY <1>0, <2>2, <2>4, <2>5, <2>7, <2>8, <2>9, SelfUpdate, ThreadStep
  <2>11. /\ isPassiveRun' = isPassiveRun /\ entryMain' = entryMain
         /\ armed' = [armed EXCEPT ![t] = FALSE] /\ request' = [request EXCEPT ![t] = None]
    BY <2>1 DEF CallFunction
  <2>12. TypeOK' BY <2>2, <2>3, <2>10, <2>11, TypeJit DEF TypeOK
  <2>13. QED BY <2>10, <2>12
<1>2. CASE \E f \in TailCallees : TailCall(t, f)
  <2>1. PICK f \in TailCallees : TailCall(t, f) BY <1>2
  <2>2. f \in Functions /\ Jit(f) /\ exn' = exn BY <2>1 DEF TailCall
  <2> DEFINE c == TrackCoverage(tracker[t], started[t])
             l == TrackTailcall(c, started[t])
             r == IF f \in probed' THEN TrackEnterMain(l, started[t]) ELSE l
             s == Append(Pop(stack[t]), Frame(f))
  <2>3. c \in Slots BY <1>0, ProbeFacts
  <2> HIDE DEF c
  <2>4. l \in Slots BY <1>0, <2>3, TailcallFacts
  <2> HIDE DEF l
  <2>5. r \in Slots BY <1>0, <2>4, EnterMainFacts
  <2>6. tracker' = [tracker EXCEPT ![t] = r] BY <2>1 DEF TailCall, c, l
  <2>7. /\ Frame(f) \in Entries /\ ~(exn[t].phase = "entered") /\ stack[t] # <<>>
    BY <2>1, <2>2 DEF Frame, Entries, Exns, NoExn, TailCall, Runs
  <2>8. Pop(stack[t]) \in Seq(Entries) /\ Resumable(Pop(stack[t]), exn[t])
    BY <1>0, <2>7, PopFacts, PopResumable DEF Entered
  <2>9. s \in Seq(Entries) BY <2>7, <2>8
  <2>10. Resumable(s, exn[t])
    BY <1>0, <2>7, <2>8, PushResumable DEF Frame, NoExn, Entered
  <2>11. stack' = [stack EXCEPT ![t] = s] BY <2>1 DEF TailCall
  <2> HIDE DEF r, s
  <2>12. /\ tracker' \in [Threads -> Slots] /\ stack' \in [Threads -> Seq(Entries)]
         /\ exn' \in [Threads -> Exns] /\ Structured'
    BY <1>0, <2>2, <2>5, <2>6, <2>9, <2>10, <2>11, SelfUpdate, ThreadStep
  <2>13. UNCHANGED <<isPassiveRun, entryMain, request, armed, started>>
    BY <2>1 DEF TailCall
  <2>14. TypeOK' BY <2>2, <2>12, <2>13, TypeJit DEF TypeOK
  <2>15. QED BY <2>12, <2>14
<1>3. CASE Return(t)
  <2> DEFINE r == IF IsMainFrame(Top(t)) THEN TrackLeaveMain(tracker[t], started[t])
                  ELSE tracker[t]
  <2>1. ~tracker[t].crashed /\ ~(exn[t].phase = "entered") /\ stack[t] # <<>>
    BY <1>3 DEF Return, Runs, Alive
  <2>2. r \in Slots BY <1>0, <2>1, LeaveMainFacts
  <2>3. /\ tracker' = [tracker EXCEPT ![t] = r] /\ stack' = [stack EXCEPT ![t] = Pop(stack[t])]
        /\ exn' = exn /\ UNCHANGED <<profilerVars, request, armed, started>>
    BY <1>3 DEF Return
  <2> HIDE DEF r
  <2>4. Pop(stack[t]) \in Seq(Entries) /\ Resumable(Pop(stack[t]), exn[t])
    BY <1>0, <2>1, PopFacts, PopResumable DEF Entered
  <2>5. /\ tracker' \in [Threads -> Slots] /\ stack' \in [Threads -> Seq(Entries)]
        /\ exn' \in [Threads -> Exns] /\ Structured'
    BY <1>0, <2>2, <2>3, <2>4, SelfUpdate, ThreadStep
  <2>6. TypeOK' BY <2>3, <2>5 DEF TypeOK, profilerVars
  <2>7. QED BY <2>5, <2>6
<1>4. CASE Probe(t)
  <2> DEFINE r == TrackCoverage(tracker[t], started[t])
  <2>1. r \in Slots BY <1>0, ProbeFacts
  <2>2. /\ tracker' = [tracker EXCEPT ![t] = r] /\ UNCHANGED <<profilerVars, runtimeVars>>
    BY <1>4 DEF Probe
  <2> HIDE DEF r
  <2>3. tracker' \in [Threads -> Slots] BY <2>1, <2>2 DEF TypeOK
  <2>4. Structured' BY <2>2 DEF Structured, runtimeVars
  <2>5. TypeOK' BY <2>2, <2>3 DEF TypeOK, profilerVars, runtimeVars
  <2>6. QED BY <2>4, <2>5
<1>5. QED BY <1>1, <1>2, <1>3, <1>4 DEF Program

(* abortCurrentThread() reads the history invocationAborted() has nulled.  *)
LEMMA AbortedFacts ==
  ASSUME NEW s \in Slots, ~s.crashed
  PROVE  /\ AbortCurrentThread(InvocationAborted(s)) \in Slots
         /\ AbortCurrentThread(InvocationAborted(s)).crashed
         /\ s.coverage # None => AbortCurrentThread(InvocationAborted(s)).failed = s.failed
<1> DEFINE c == Check(s, Exist(s, "coverage"), "update")
           a == InvocationAborted(s)
<1>1. c \in Slots /\ View(c) = View(s) /\ (s.coverage # None => c = s)
  BY CheckFacts DEF Assertions, Exist
<1>2. a = SetCoverage(c, Null) BY DEF InvocationAborted, SetCoverage
<1> HIDE DEF c, a
<1>3. /\ a \in Slots /\ a.failed = c.failed
      /\ View(a) = <<c.threadId, c.balance, c.unwind, c.inFilter, Null, c.reports, c.crashed>>
  BY <1>1, <1>2, SetCoverageFacts
<1>4. ~a.crashed /\ a.coverage = Null BY <1>1, <1>3 DEF View
<1>5. Null \notin Histories /\ Null # None BY TrackingAssumption
<1>6. AbortCurrentThread(a) = OnCurrentThreadFinished(a) BY DEF AbortCurrentThread
<1>7. /\ AbortCurrentThread(a) \in Slots /\ AbortCurrentThread(a).crashed
      /\ AbortCurrentThread(a).failed = a.failed
  <2>1. OnCurrentThreadFinished(a) = InvocationFinished(a)
    BY <1>3, <1>4, <1>5, FinishedFacts DEF OnCurrentThreadFinished
  <2>2. QED BY <1>3, <1>4, <1>5, <1>6, <2>1, FinishedFacts
<1>8. QED BY <1>1, <1>3, <1>7 DEF a

(* A step of the exception machinery keeps types if the callback does and  *)
(* the exceptions of the new stack can be resumed.                         *)
LEMMA ExceptionStep ==
  ASSUME TypeOK, Structured, NEW t \in Threads,
         NEW r, tracker[t].balance # None => r \in Slots, Callback(t, r),
         NEW s \in Seq(Entries), NEW e \in Exns, Resumable(s, e),
         stack' = [stack EXCEPT ![t] = s], exn' = [exn EXCEPT ![t] = e],
         UNCHANGED <<profilerVars, request, armed, started>>
  PROVE  TypeOK' /\ Structured'
<1>1. WhenTracked(tracker[t], r) \in Slots BY TypesAt, WhenTrackedFacts
<1>2. tracker' = [tracker EXCEPT ![t] = WhenTracked(tracker[t], r)] BY DEF Callback
<1>3. /\ tracker' \in [Threads -> Slots] /\ stack' \in [Threads -> Seq(Entries)]
      /\ exn' \in [Threads -> Exns] /\ Structured'
  BY <1>1, <1>2, ThreadStep
<1>4. QED BY <1>3 DEF TypeOK, profilerVars

(* The steps of an exception.                                              *)
LEMMA TypeExceptions ==
  ASSUME TypeOK, Structured, NEW t \in Threads, Exceptions(t)
  PROVE  TypeOK' /\ Structured'
<1> USE TrackingAssumption
<1> DEFINE r == tracker[t]
           s == stack[t]
           e == exn[t]
<1>0. /\ r \in Slots /\ s \in Seq(Entries) /\ e \in Exns /\ Resumable(s, e) /\ Len(s) \in Nat
      /\ DOMAIN s = 1..Len(s)
      /\ \A i \in 1..Len(s) : s[i] \in Entries /\ s[i].resume \in Exns /\ s[i].fn \in Functions
  <2>1. r \in Slots /\ s \in Seq(Entries) /\ e \in Exns /\ Resumable(s, e)
    BY TypesAt DEF Structured
  <2> HIDE DEF r, s, e
  <2>2. /\ Len(s) \in Nat /\ DOMAIN s = 1..Len(s) /\ \A i \in 1..Len(s) : s[i] \in Entries
    BY <2>1
  <2>3. \A x \in Entries : x.resume \in Exns /\ x.fn \in Functions BY DEF Entries
  <2>4. QED BY <2>1, <2>2, <2>3
<1>1. /\ tracker = [tracker EXCEPT ![t] = r] /\ stack = [stack EXCEPT ![t] = s]
      /\ exn = [exn EXCEPT ![t] = e]
  BY SelfUpdate
<1>2. ASSUME NEW abort \in BOOLEAN, Throw(t, abort) PROVE TypeOK' /\ Structured'
  <2>1. PICK target \in 0..Len(s) :
          exn' = [exn EXCEPT ![t] = [phase |-> "search", target |-> target]]
    BY <1>2 DEF Throw
  <2> DEFINE f == [phase |-> "search", target |-> target]
             a == IF abort THEN AbortCurrentThread(InvocationAborted(r)) ELSE r
  <2>2. ~r.crashed BY <1>2 DEF Throw, Runs, Alive
  <2>3. a \in Slots BY <1>0, <2>2, AbortedFacts
  <2>4. Callback(t, a) /\ stack' = stack /\ UNCHANGED <<profilerVars, request, armed, started>>
    BY <1>2 DEF Throw
  <2>5. f \in Exns /\ Resumable(s, f) BY <1>0 DEF Exns, Resumable, Entered
  <2> HIDE DEF a, f, r, s, e
  <2>6. exn' = [exn EXCEPT ![t] = f] BY <2>1 DEF f
  <2>7. QED BY <1>0, <1>1, <2>3, <2>4, <2>5, <2>6, ExceptionStep
<1>3. CASE ThrowFromFilter(t)
  <2>1. PICK i \in 1..Len(s) :
          exn' = [exn EXCEPT ![t] = [phase |-> "search", target |-> i - 1]]
    BY <1>0, <1>3 DEF ThrowFromFilter
  <2> DEFINE f == [phase |-> "search", target |-> i - 1]
  <2>2. tracker' = tracker /\ stack' = stack /\ UNCHANGED <<profilerVars, request, armed, started>>
    BY <1>3 DEF ThrowFromFilter
  <2>3. f \in Exns /\ Resumable(s, f) BY <1>0 DEF Exns, Resumable, Entered
  <2> HIDE DEF f, r, s, e
  <2>4. exn' = [exn EXCEPT ![t] = f] BY <2>1 DEF f
  <2>5. /\ tracker' \in [Threads -> Slots] /\ stack' \in [Threads -> Seq(Entries)]
        /\ exn' \in [Threads -> Exns] /\ Structured'
    BY <1>0, <1>1, <2>2, <2>3, <2>4, ThreadStep
  <2>6. QED BY <2>2, <2>5 DEF TypeOK, profilerVars
<1>4. CASE RunFilter(t)
  <2>1. PICK i \in 1..Len(s) :
          stack' = [stack EXCEPT ![t] = Append(s, Funclet("filter", s[i].fn, e))]
    BY <1>0, <1>4 DEF RunFilter
  <2> DEFINE x == Funclet("filter", s[i].fn, e)
  <2>2. /\ e.phase = "search" /\ exn' = [exn EXCEPT ![t] = NoExn]
        /\ Callback(t, FilterEnter(r)) /\ UNCHANGED <<profilerVars, request, armed, started>>
    BY <1>4 DEF RunFilter
  <2>3. x \in Entries /\ NoExn \in Exns BY <1>0 DEF Funclet, Entries, NoExn, Exns
  <2>4. x.resume = e BY DEF Funclet
  <2> HIDE DEF x, r, s, e
  <2>5. Append(s, x) \in Seq(Entries) BY <1>0, <2>3
  <2>6. Resumable(Append(s, x), NoExn)
    BY <1>0, <2>2, <2>3, <2>4, PushResumable DEF Entered, NoExn
  <2>7. FilterEnter(r) \in Slots BY <1>0, AddInFilter DEF FilterEnter
  <2>8. QED BY <2>1, <2>2, <2>3, <2>5, <2>6, <2>7, ExceptionStep DEF x
<1>5. CASE FilterReturns(t)
  <2>1. /\ s # <<>> /\ exn' = [exn EXCEPT ![t] = s[Len(s)].resume]
        /\ stack' = [stack EXCEPT ![t] = Pop(s)] /\ Callback(t, FilterLeave(r))
        /\ UNCHANGED <<profilerVars, request, armed, started>>
    BY <1>5 DEF FilterReturns, Top
  <2> HIDE DEF r, s, e
  <2>2. Len(s) \in 1..Len(s) BY <1>0, <2>1
  <2>3. s[Len(s)].resume \in Exns /\ Entered(Len(s) - 1, s[Len(s)].resume)
    BY <1>0, <2>2 DEF Resumable
  <2>4. Pop(s) \in Seq(Entries) /\ Resumable(Pop(s), s[Len(s)].resume)
    BY <1>0, <2>1, <2>3, PopFacts, PopResumable
  <2>5. FilterLeave(r) \in Slots BY <1>0, AddInFilter DEF FilterLeave
  <2>6. QED BY <2>1, <2>3, <2>4, <2>5, ExceptionStep
<1>6. CASE SwallowedByFilter(t)
  <2> DEFINE f == [e EXCEPT !.phase = "search"]
  <2>1. /\ exn' = [exn EXCEPT ![t] = f] /\ Callback(t, FilterLeave(r)) /\ stack' = stack
        /\ UNCHANGED <<profilerVars, request, armed, started>>
    BY <1>6 DEF SwallowedByFilter, TypeOK
  <2>2. f \in Exns /\ Resumable(s, f) BY <1>0 DEF Exns, Resumable, Entered
  <2> HIDE DEF f, r, s, e
  <2>3. FilterLeave(r) \in Slots BY <1>0, AddInFilter DEF FilterLeave
  <2>4. QED BY <1>0, <1>1, <2>1, <2>2, <2>3, ExceptionStep
<1>7. CASE UnwindEnter(t)
  <2> DEFINE f == [e EXCEPT !.phase = "entered"]
             u == UnwindFunctionEnter(r, s[Len(s)].fn)
  <2>1. /\ exn' = [exn EXCEPT ![t] = f] /\ Callback(t, u) /\ stack' = stack
        /\ UNCHANGED <<profilerVars, request, armed, started>> /\ Len(s) > e.target
    BY <1>7 DEF UnwindEnter, Top, TypeOK
  <2>2. f \in Exns /\ Resumable(s, f) BY <1>0, <2>1 DEF Exns, Resumable, Entered
  <2>3. Len(s) \in 1..Len(s) BY <1>0, <2>1 DEF Exns
  <2>4. u \in Slots BY <1>0, <2>3, UnwindEnterFacts
  <2> HIDE DEF f, u, r, s, e
  <2>5. QED BY <1>0, <1>1, <2>1, <2>2, <2>4, ExceptionStep
<1>8. CASE UnwindLeave(t)
  <2> DEFINE x == s[Len(s)]
             f == IF x.kind = "filter" THEN [x.resume EXCEPT !.phase = "swallowed"]
                  ELSE [e EXCEPT !.phase = "unwind"]
             u == UnwindFunctionLeave(r)
  <2>1. /\ exn' = [exn EXCEPT ![t] = f] /\ Callback(t, u)
        /\ stack' = [stack EXCEPT ![t] = Pop(s)]
        /\ UNCHANGED <<profilerVars, request, armed, started>> /\ e.phase = "entered"
        /\ ~r.crashed
    BY <1>8 DEF UnwindLeave, Top, TypeOK, Alive
  <2>2. Len(s) >= 1 /\ s # <<>>
    BY <1>0, <2>1 DEF Resumable, Entered, Exns
  <2>3. x \in Entries /\ x.resume \in Exns BY <1>0, <2>2
  <2>4. f \in Exns /\ f.phase # "entered" BY <1>0, <2>3 DEF Exns
  <2>5. u \in Slots BY <1>0, <2>1, UnwindLeaveFacts
  <2> HIDE DEF f, u, r, s, e
  <2>6. Pop(s) \in Seq(Entries) /\ Resumable(Pop(s), f)
    BY <1>0, <2>2, <2>4, PopFacts, PopResumable DEF Entered
  <2>7. QED BY <2>1, <2>4, <2>5, <2>6, ExceptionStep
<1>9. CASE Catch(t)
  <2> DEFINE u == UnwindFunctionEnter(r, FunctionAt(t, e.target))
  <2>1. /\ exn' = [exn EXCEPT ![t] = NoExn] /\ Callback(t, u) /\ stack' = stack
        /\ UNCHANGED <<profilerVars, request, armed, started>> /\ Len(s) = e.target
    BY <1>9 DEF Catch
  <2>2. NoExn \in Exns /\ Resumable(s, NoExn) BY <1>0 DEF Exns, NoExn, Resumable, Entered
  <2>3. FunctionAt(t, e.target) \in Functions \cup {HostFunction}
    BY <1>0, <2>1 DEF FunctionAt
  <2>4. u \in Slots BY <1>0, <2>3, UnwindEnterFacts
  <2> HIDE DEF u, r, s, e
  <2>5. QED BY <1>0, <1>1, <2>1, <2>2, <2>4, ExceptionStep
<1>10. CASE RunFinally(t)
  <2> DEFINE x == Funclet("finally", s[Len(s)].fn, e)
  <2>1. /\ exn' = [exn EXCEPT ![t] = NoExn] /\ stack' = [stack EXCEPT ![t] = Append(s, x)]
        /\ tracker' = tracker /\ UNCHANGED <<profilerVars, request, armed, started>>
        /\ e.phase = "entered"
    BY <1>10 DEF RunFinally, Top
  <2>2. Len(s) >= 1 /\ Entered(Len(s), e)
    BY <1>0, <2>1 DEF Resumable, Entered, Exns
  <2> Len(s) \in 1..Len(s) BY <1>0, <2>2
  <2>3. x \in Entries /\ NoExn \in Exns /\ x.resume = e
    BY <1>0, <2>2 DEF Funclet, Entries, NoExn, Exns
  <2> HIDE DEF x, r, s, e
  <2>4. Append(s, x) \in Seq(Entries) BY <1>0, <2>3
  <2>5. Resumable(Append(s, x), NoExn)
    BY <1>0, <2>2, <2>3, PushResumable DEF Entered, NoExn
  <2>6. /\ tracker' \in [Threads -> Slots] /\ stack' \in [Threads -> Seq(Entries)]
        /\ exn' \in [Threads -> Exns] /\ Structured'
    BY <1>0, <1>1, <2>1, <2>3, <2>4, <2>5, ThreadStep
  <2>7. QED BY <2>1, <2>6 DEF TypeOK, profilerVars
<1>11. CASE FinallyReturns(t)
  <2>1. /\ s # <<>> /\ exn' = [exn EXCEPT ![t] = s[Len(s)].resume]
        /\ stack' = [stack EXCEPT ![t] = Pop(s)] /\ tracker' = tracker
        /\ UNCHANGED <<profilerVars, request, armed, started>>
    BY <1>11 DEF FinallyReturns, Top
  <2> HIDE DEF r, s, e
  <2>2. Len(s) \in 1..Len(s) BY <1>0, <2>1
  <2>3. s[Len(s)].resume \in Exns /\ Entered(Len(s) - 1, s[Len(s)].resume)
    BY <1>0, <2>2 DEF Resumable
  <2>4. Pop(s) \in Seq(Entries) /\ Resumable(Pop(s), s[Len(s)].resume)
    BY <1>0, <2>1, <2>3, PopFacts, PopResumable
  <2>5. /\ tracker' \in [Threads -> Slots] /\ stack' \in [Threads -> Seq(Entries)]
        /\ exn' \in [Threads -> Exns] /\ Structured'
    BY <1>0, <1>1, <2>1, <2>3, <2>4, ThreadStep
  <2>6. QED BY <2>1, <2>5 DEF TypeOK, profilerVars
<1> HIDE DEF r, s, e
<1>12. QED
  BY <1>2, <1>3, <1>4, <1>5, <1>6, <1>7, <1>8, <1>9, <1>10, <1>11 DEF Exceptions

(* Every step.                                                             *)
LEMMA TypeStep ==
  ASSUME TypeOK, Structured, [Next]_vars
  PROVE  TypeOK' /\ Structured'
<1>1. CASE \E t \in Threads : Execute(t) \/ Program(t) \/ Exceptions(t)
  BY <1>1, TypeExecute, TypeProgram, TypeExceptions
<1>2. CASE UNCHANGED vars
  <2>1. TypeOK' BY <1>2 DEF vars, TypeOK
  <2>2. Structured' BY <1>2 DEF vars, Structured
  <2>3. QED BY <2>1, <2>2
<1>3. QED BY <1>1, <1>2 DEF Next

(* The initial states.                                                     *)
LEMMA TypeInit == Init => TypeOK /\ Structured
<1> SUFFICES ASSUME Init PROVE TypeOK /\ Structured OBVIOUS
<1>1. NoEntries \in Slots BY DEF NoEntries, Slots
<1>2. NoExn \in Exns BY DEF NoExn, Exns
<1>3. TypeOK BY <1>1, <1>2, TrackingAssumption DEF Init, TypeOK
<1>4. Structured BY DEF Init, Structured, Resumable, Entered, NoExn
<1>5. QED BY <1>3, <1>4

(* The tracker of a thread, its stack and the exception in flight always   *)
(* have their types, whatever the program under test does: no handler of   *)
(* threadTracker.cpp leaves an entry of another kind.                      *)
THEOREM TypeCorrect == Spec => []TypeOK
<1>1. Init => TypeOK /\ Structured BY TypeInit
<1>2. TypeOK /\ Structured /\ [Next]_vars => (TypeOK /\ Structured)' BY TypeStep
<1>3. QED BY <1>1, <1>2, PTL DEF Spec
=============================================================================
