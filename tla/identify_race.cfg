SPECIFICATION Spec
CONSTANTS
  a = a
  b = b
  c = c
  generic = generic
  w1 = w1
  w2 = w2
  t1 = t1
  t2 = t2
  t3 = t3
  t4 = t4
  DistinctIds = {a, b, c}
  GenericIds = {}
  Persons = {p1, p2, p3, p4}
  NoPerson = NoPerson
  Tasks = {t1, t2}
  NoTask = NoTask
  Workers = {w1, w2}
  CrashingWorkers = {}
  PoolSize = 4
  MaxMergeAttempts = 3
  Assignments <- TwoIdentifies
  Seeds <- Strangers
PROPERTY IdentifySparesIdentified
