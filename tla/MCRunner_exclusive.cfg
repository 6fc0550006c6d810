CONSTANTS
    N = 4
    Jobs = 2
    Exclusive = {3}
    AuthoredSkip = {}
    Quarantined = {}
    Batches <- FirstHasTwo
    Promotes <- TwoPromote
    k1 = k1
    Keys = {k1}
    MaxFail = 2
    MaxLate = 1
    Engine = {"ok", "assert"}
SPECIFICATION Spec
CONSTRAINT FewLate
INVARIANTS ExclusiveAlone StoreKept StopsCleanly
