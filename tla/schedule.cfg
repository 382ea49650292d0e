SPECIFICATION FairSpec
CONSTANTS
  Servers = {s1, s2}
  Faulty = {s1}
  NoServer = NoServer
  Tasks = {t1, t2}
  MayStop = {s1, s2}
  MayDie = {s1, s2}
  MayReload = {s1}
INVARIANTS TypeOK OneServerUnlessLost StoppedIsQuiet
PROPERTIES TakesOver StopScheduleEnds
CHECK_DEADLOCK FALSE
