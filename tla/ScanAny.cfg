SPECIFICATION Spec
CONSTANTS
  NumVars = 2
  NumTemps = 2
  NumRegs = 2
  Horizon = 4
INVARIANTS
  TypeOK
  ClashesComeFromSpills
  SharingIsMarked
  SpillFindsVictim
  LeaksComeFromEqualEnds
CHECK_DEADLOCK FALSE
