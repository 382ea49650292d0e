SPECIFICATION Spec
CONSTANTS
  k1 = k1
  e1 = e1
  e2 = e2
  e3 = e3
  Keys = {k1}
  Events = {e1, e2, e3}
  NoEvent = NoEvent
  Before = Before
  NoLock = NoLock
  Histories <- AnyThree
INVARIANT PersonAlwaysFound
