CONSTANTS
    p1 = p1
    p2 = p2
    s1 = s1
    s2 = s2
    Procs = {p1, p2}
    Scenarios = {s1, s2}
    MaxRuns = 3
    Named = {2}
    Keep = 1
    Trouble = {"kill", "abort"}
SPECIFICATION Spec
SYMMETRY Symmetry
CONSTRAINT OneInterrupted
INVARIANTS GreenRerunProven ReportsAgree
