SPECIFICATION FairSpec
CONSTANTS
  k1 = k1
  g1 = g1
  a = a
  b = b
  c = c
  w1 = w1
  w2 = w2
  e1 = e1
  e2 = e2
  e3 = e3
  Keys = {k1}
  Events = {e1, e2, e3}
  Types = {a, b, c}
  GroupKeys = {g1}
  Workers = {w1, w2}
  WorkerOf <- TwoWorkers
  MaxGroupTypes = 2
  Histories <- Both
  NoEvent = NoEvent
  Before = Before
  NoKey = NoKey
  NoIndex = NoIndex
  NoCache = NoCache
  NoLock = NoLock
INVARIANTS TypeOK ColumnsAgree GroupsResolved
PROPERTIES ImplementsStore EveryEventStored
