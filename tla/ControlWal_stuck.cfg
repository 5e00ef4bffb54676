SPECIFICATION FairSpec
CONSTANTS
  Preemptive = FALSE
  MaxVer = 2
  MaxGated = 1
  MaxFull = 1
  MaxCrash = 0
  MaxInstall = 1
  MaxFlush = 0
CHECK_DEADLOCK FALSE
PROPERTY SuspectIsRecovered
