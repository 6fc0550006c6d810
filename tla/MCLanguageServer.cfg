CONSTANTS
    Features = {"feature"}
    Packs = {"pack"}
    Fragments = {"fragment"}
    OnDisk <- BrokenPack
SPECIFICATION Spec
INVARIANTS AnswersFresh ScreenTrue
PROPERTY EditsReachScreen
