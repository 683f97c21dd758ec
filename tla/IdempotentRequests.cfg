SPECIFICATION FairSpec
CONSTANTS
    Nil = Nil
    q1 = q1  q2 = q2  q3 = q3  q4 = q4
    Requests = {q1, q2, q3, q4}
    Budget <- Disturbed
INVARIANTS
    OncePerKey
    DuplicatesBounded
PROPERTIES
    KeySettles
