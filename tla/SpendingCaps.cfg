SPECIFICATION SpendingSpec
CONSTANTS
    Nil = Nil
    p1 = p1  p2 = p2  p3 = p3
    daily = daily
    Periods = {daily}
    Payouts = {p1, p2, p3}
    AmountOf <- MCAmountOf
    Limits = {1, 2}
    Budget <- MCBudget
SYMMETRY Swap
CHECK_DEADLOCK FALSE
INVARIANTS
    NoImmortalCounter
    LimitEnforced
