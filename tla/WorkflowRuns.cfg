SPECIFICATION FairSpec
CONSTANTS
    Nil = Nil
    x1 = x1  r1 = r1  r2 = r2  n1 = n1  n2 = n2  n3 = n3  s1 = s1  s2 = s2  p1 = p1  p2 = p2
    Executions = {x1}
    Retriers = {r1, r2}
    Nodes = {n1, n2, n3}
    TypeOf <- MCTypeOf
    Graphs <- MCGraphs
    MaxRetries = 1
    Slots = {s1, s2}
    Procs = {p1, p2}
    ProcOf <- MCProcOf
    Unsteady = {p1}
    Budget <- Rough
    Total = 1
CHECK_DEADLOCK FALSE
INVARIANTS
    RetriesBounded
    RunsSound
    ResultsTellTheRun
PROPERTIES
    ExecutionsEnd
