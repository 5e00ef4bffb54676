CONSTANTS
    c1 = c1
    c2 = c2
    ka = ka
    kb = kb
    kc = kc
    A = A
    B = B
    Clients = {c1, c2}
    Keys = {ka, kb}
    Tablets = {A, B}
    TabletOf <- MCTabletOf
    AnchorOf <- CrossAnchor
    Writes <- CrossWrites
    Absent <- Nothing
    Pre <- Nothing
    Workers = {w1}
    MaxAttempts = 2
    Start <- OneFault
    NoTxn = NoTxn
    NoVal = NoVal
    Plain = Plain
SPECIFICATION Spec
INVARIANT NoResurrection
CHECK_DEADLOCK FALSE
