SPECIFICATION Spec
CONSTANTS
  n1 = n1
  n2 = n2
  n3 = n3
  Nil = Nil
  Node <- MCNode
  Start <- FreshOrPowerLoss
  MaxBatch = 1
SYMMETRY Symmetry
CHECK_DEADLOCK FALSE
INVARIANTS TypeOK ElectionSafety LogMatching AckedSurvives
VIEW View
