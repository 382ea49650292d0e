SPECIFICATION FairSpec
CONSTANTS
  s1 = s1
  s2 = s2
  Servers = {s1, s2}
  Jobs = {1, 2}
  Deployments <- SomeDeployments
  MaxPauses = 1
  Flaky = {s2}
  MayPause = {s1}
  MayStop = {s1}
  MayDie = {s2}
INVARIANTS TypeOK RunnerAtRest OneTurnPolls
PROPERTIES RanBeforeDeleted JobsTaken
CHECK_DEADLOCK FALSE
