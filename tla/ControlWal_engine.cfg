SPECIFICATION Spec
CONSTANTS
  Preemptive = FALSE
  MaxVer = 2
  MaxGated = 1
  MaxFull = 0
  MaxCrash = 0
  MaxInstall = 1
  MaxFlush = 0
CHECK_DEADLOCK FALSE
INVARIANT WalNeverAheadOfEngine
