SPECIFICATION FairSpec
CONSTANTS
  MaxReloads = 3
  MaxSetupRetries = 2
  Transacted = {3}
INVARIANTS TypeOK NoOrphans
PROPERTIES ConfigSettles
CHECK_DEADLOCK FALSE
