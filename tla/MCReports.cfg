SPECIFICATION Spec
CONSTANTS
    Plans <- AllPlans
    Wrap = 2
    MaxAnnotations = 2
    Percent = 95
    Budget = 5
    LaterRuns <- Later
    MaxRuns = 4
    MinSamples = 2
    RecoveryRuns = 2
    OutageRate = 8
    N = 2
    Tables <- Files
    Suites <- Selections
    Projects <- Found
    Asks <- Asked
    Hashes <- Spread
    Procs = {"x", "y"}
    Names = {"token"}
    Plain = {"p"}
    Forms <- Secrets
    Texts <- Answers
    Numbers = {7}
    Scenarios = 2
    Most = 8
    Casts <- AllCasts
    Folding = {"folding"}
    Volumes = {"exact", "folding"}
    Leftovers <- Left
INVARIANTS StateSound SecretsStayOut StagedTrue ViewsAgree DocumentsAgree TrendsTrue MatrixTrue
CHECK_DEADLOCK FALSE
