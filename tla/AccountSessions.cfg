SPECIFICATION Spec
CONSTANTS
    Nil = Nil
    c1 = c1  c2 = c2  c3 = c3  b = b  e1 = e1  e2 = e2
    Calls = {c1, c2, c3}
    Before = b
    Emails = {e1, e2}
    Admin = TRUE
    Budget <- Rough
CHECK_DEADLOCK FALSE
INVARIANTS
    SessionInv
    KeysAreCurrent
