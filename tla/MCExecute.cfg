CONSTANTS
    SetupScenarios <- MCSetup
    SuiteScenarios <- MCSuite
    TeardownScenarios <- MCTeardown
    Parked <- MCParked
    Quarantined <- MCQuarantined
    Width = 2
    MaxFail = 1
    Trouble <- EveryTrouble
SPECIFICATION Spec
INVARIANTS TailTrue FixturesHold ExitTells
