CONSTANTS
    a = a
    b = b
    Dirs <- MCDirs
    FirstDir = a
SPECIFICATION WatchSpec
INVARIANTS InterruptReachesRun NeverSelfFed
PROPERTY InterruptLeaves
