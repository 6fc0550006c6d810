CONSTANTS
    p1 = p1
    p2 = p2
    s1 = s1
    s2 = s2
    Procs = {p1}
    Scenarios = {s1, s2}
    MaxRuns = 2
    Named = {}
    Keep = 1
    Trouble = {"abort"}
SPECIFICATION Spec
INVARIANT GreenRerunRan
