CONSTANTS
    N = 3
    Jobs = 2
    Exclusive = {2}
    AuthoredSkip = {3}
    Quarantined = {2}
    Batches <- OneBatch
    Promotes <- AllPromote
    k1 = k1
    Keys = {}
    MaxFail = 0
    MaxLate = 2
    Engine = {"ok", "warned", "assert", "user", "infra", "unprepared", "noSession", "teardownFails", "panic"}
SPECIFICATION Spec
INVARIANTS SettledOnce RecordAgrees NoSilentGreen
PROPERTIES TailIsTail RunReturns KeepsContract
