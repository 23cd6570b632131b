SPECIFICATION GSpec
CONSTANTS
    Loc <- MCLoc
    What <- MCWhat
    Programs <- MCInverted
    Unsplittable = {}
    Role <- MCRole
    FeatureUnstructured = FALSE
INVARIANTS NoContinueInverted
