CONSTANTS
    c1 = c1
    c2 = c2
    ka = ka
    kb = kb
    kc = kc
    A = A
    B = B
    Clients = {c1, c2}
    Keys = {ka, kb, kc}
    Tablets = {A, B}
    TabletOf <- MCTabletOf
    AnchorOf <- MCAnchorOf
    Writes <- MCWrites
    Absent <- OwnAbsent
    Pre <- Nothing
    Workers = {w1}
    MaxAttempts = 2
    Start <- RivalsOrOne
    NoTxn = NoTxn
    NoVal = NoVal
    Plain = Plain
SYMMETRY Symmetry
SPECIFICATION Spec
INVARIANTS TypeOK NoResurrection
PROPERTIES IsAtomicStore
CHECK_DEADLOCK FALSE
