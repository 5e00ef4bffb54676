SPECIFICATION Spec
CONSTANTS
  Preemptive = TRUE
  CatchUpPasses = 2
  MaxVer = 2
  MaxGated = 2
  MaxFull = 1
  MaxCrash = 0
INVARIANT VouchedSurvivesRestart
