SPECIFICATION GSpec
CONSTANTS
    Loc <- MCLoc
    What <- MCWhat
    Programs <- MCFaithfulUnstructured
    Unsplittable = {}
    Role <- MCRole
    FeatureUnstructured = TRUE
INVARIANTS MemoHolds NeverAborts Flows
PROPERTIES Faithful Terminates
