SPECIFICATION Spec
CONSTANTS
    Nil = Nil
    c1 = c1  c2 = c2  c3 = c3  b = b  o = o  a = a  g1 = g1
    n1 = n1  n2 = n2  m1 = m1  m2 = m2
    Calls = {c1, c2, c3}
    Before = b
    Users = {o, a, g1}
    Owner = o
    Author = a
    Granted = {"guest"}
    Names = {n1, n2}
    First = n1
    Pages = {m1, m2}
    PinLimit = 1
    EditsKept = 1
    Mixes <- OneAtATime
SYMMETRY CallSymmetry
CHECK_DEADLOCK FALSE
INVARIANTS
    DocumentsSound
    WorkspaceSound
    CountsTellReactions
    HiddenByChoice
PROPERTIES
    ChangesKept
    OneConversation
