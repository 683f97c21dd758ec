SPECIFICATION Spec
CONSTANTS
    Nil = Nil
    t1 = t1  t2 = t2  t3 = t3  s1 = s1  s2 = s2  r1 = r1  a1 = a1  p1 = p1  p2 = p2
    Unit = 2
    Txns = {t1}
    Slots = {s1}
    Procs = {p1}
    Readers = {r1}
    Adjusters = {a1}
    ProcOf <- MCOneProc
    Amount <- MCAmount
    AdjustBy <- MCAdjustBy
    InitialBalance <- MCInitialBalance
    LockAttempts = 2
    MaxRetries = 1
    Budget <- Upsets
INVARIANTS
    CompletedMeansDebited
    NeverOverdrawn
    FailedIsRefunded
