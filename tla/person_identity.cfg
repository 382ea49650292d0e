SPECIFICATION FairSpec
CONSTANTS
  a = a
  b = b
  c = c
  generic = generic
  w1 = w1
  w2 = w2
  t1 = t1
  t2 = t2
  t3 = t3
  t4 = t4
  DistinctIds = {a, b, c, generic}
  GenericIds = {generic}
  Persons = {p1, p2, p3, p4}
  NoPerson = NoPerson
  Tasks = {t1, t2, t3}
  NoTask = NoTask
  Workers = {w1, w2}
  CrashingWorkers = {w1}
  PoolSize = 4
  MaxMergeAttempts = 3
  Assignments <- AllScenarios
  Seeds <- SomeStrangers
INVARIANTS TypeOK TablesConsistent LocksMatchTransactions
PROPERTIES NeverSplit EveryTaskEnds EveryEventGetsAPerson ImplementsStore
