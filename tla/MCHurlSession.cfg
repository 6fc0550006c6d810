CONSTANTS
    Vars <- MCVars
    Scenarios <- MCScenarios
    Timeout = 2
    Interval = 1
    Delay = 1
    Following <- Redirected
    Hops = 1
    Margin = 1
    MaxBudget = 40
SPECIFICATION Spec
INVARIANTS VerdictsTrue RanAsAuthored RequestsFed BudgetSuffices
