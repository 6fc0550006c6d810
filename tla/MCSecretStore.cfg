CONSTANTS
    p1 = p1
    p2 = p2
    p3 = p3
    a = a
    b = b
    Procs = {p1, p2, p3}
    Names = {a, b}
    Commands <- TwoSetters
    EnvKeyed = {p2}
SPECIFICATION Spec
INVARIANTS TokensOpen KeyBeforeToken
PROPERTIES NoLostUpdate CommandsEnd
