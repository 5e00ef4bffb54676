SPECIFICATION FairSpec
CONSTANTS
  Preemptive = FALSE
  CatchUpPasses = 2
  MaxVer = 2
  MaxGated = 2
  MaxFull = 2
  MaxCrash = 1
CHECK_DEADLOCK FALSE
INVARIANTS TypeOK VouchedSurvivesRestart DurableIndexOnDisk WalReplayable GatedInRoundOrder TmpNotShared
PROPERTIES RoundsMoveForward HeldIsReleased SuspectIsRecovered
