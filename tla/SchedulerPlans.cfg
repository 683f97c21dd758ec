SPECIFICATION FairSpec
CONSTANTS
    Nil = Nil
    d1 = d1  d2 = d2  k1 = k1  k2 = k2  c1 = c1  e1 = e1
    Plans = {d1, d2}
    Ticks = {k1, k2}
    Cancels = {c1}
    Edits = {e1}
    PlanOf <- MCPlanOf
    Budget <- Rough
INVARIANTS
    RunsOnce
    OutcomeIsTrue
PROPERTIES
    CancelledIsLeftAlone
    PlansMove
