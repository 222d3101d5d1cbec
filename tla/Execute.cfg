CONSTANTS
    p1 = p1
    p2 = p2
    f1 = f1
    c1 = c1
    d1 = d1
    Procs = {p1, p2}
    Files = {f1}
    Candidates = {c1}
    FileOf <- MCFileOf
    Drafts = {d1}
    Events = {"edit", "kill", "raise", "torn", "rollback"}
    MaxDisturbances = 2
    MaxOrders = 3
SYMMETRY Symmetry
SPECIFICATION Spec
CHECK_DEADLOCK FALSE
INVARIANTS HandedBack AppliedOnce 
