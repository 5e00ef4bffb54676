CONSTANTS
    c1 = c1
    c2 = c2
    ka = ka
    kb = kb
    kc = kc
    A = A
    B = B
    Clients = {c1}
    Keys = {ka, kb, kc}
    Tablets = {A, B}
    TabletOf <- MCTabletOf
    AnchorOf <- MCAnchorOf
    Writes <- MCWrites
    Absent <- Nothing
    Pre <- OtherAbsent
    Workers = {w1}
    MaxAttempts = 2
    Start <- OneWrite
    NoTxn = NoTxn
    NoVal = NoVal
    Plain = Plain
SPECIFICATION Spec
INVARIANT DefiniteFailureNeverCommits
CHECK_DEADLOCK FALSE
