SPECIFICATION LiveSpec
CONSTANTS
  loop = loop
  apply = apply
  rewrite = rewrite
  Nobody = Nobody
  Tasks <- MCTasks
  MaxTickets = 6
  NoTxn = NoTxn
  NoVal = NoVal
  Plain = Plain
CHECK_DEADLOCK FALSE
INVARIANTS TypeOK MutualExclusion NeverStranded
PROPERTIES IsFifoMutex LockServed CallerAnswered SuspectIsRewritten InDoubtIsDecided CommittedIsResolved HeldIsReleased
