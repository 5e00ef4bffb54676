SPECIFICATION SafetySpec
CONSTANTS
  Preemptive = FALSE
  MaxVer = 2
  MaxGated = 2
  MaxFull = 2
  MaxCrash = 1
  MaxInstall = 1
  MaxFlush = 1
  Tablets = {A, B}
  Errors = {}
  MaxRound = 2
  MaxFail = 2
  MaxNodeCrash = 1
  n1 = n1
  n2 = n2
  n3 = n3
  Node <- Voters
  Hosts <- MayLead
  First = n1
  Keys = {k}
  NoKey = NoKey
  Offset = 2
  RotationBound = 0
  Wall <- WallOf
  MaxAsk = 4
  MaxTerm = 2
  MaxLog = 4
  MaxOps = 2
  MaxCompact = 1
  MaxProcessCrash = 1
CHECK_DEADLOCK FALSE
INVARIANTS TypeOK RecordsVouchedSurvive DurableIndexOnDisk WalReplayable GatedInRoundOrder SharedTypeOK AckedSurvives NoGap NoWriteBelowRead TsIncreasing
SYMMETRY Symmetry
VIEW View
