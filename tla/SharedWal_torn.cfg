SPECIFICATION SharedSpec
CONSTANTS
  Tablets = {A, B}
  Errors = {"short"}
  MaxRound = 1
  MaxFail = 1
  MaxNodeCrash = 0
CHECK_DEADLOCK FALSE
INVARIANTS AckedSurvives
