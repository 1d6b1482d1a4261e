CONSTANTS
    Cases <- MCCases
    Gated = {"t3"}
    Outcomes <- MCOutcomes
    RevmResults <- MCRevmResults
    ForkChoices <- MCForkChoices
    MaxRuns = 2
SPECIFICATION Spec
INVARIANTS GreenIsEarned NoFalseAlarms FailuresAreExplained StatusIsTrue
