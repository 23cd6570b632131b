SPECIFICATION Spec
CONSTANTS
    Exprs <- MCExprs
    Rules <- MCRules
    Inputs <- MCInputs
    Variables <- MCVariables
    MaxRounds = 2
INVARIANTS MeaningKept ReadsBack
PROPERTY MatchesExact
CHECK_DEADLOCK FALSE
