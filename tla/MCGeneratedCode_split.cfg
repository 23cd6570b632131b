SPECIFICATION GSpec
CONSTANTS
    Loc <- MCLoc
    What <- MCWhat
    Programs <- MCSplit4
    Unsplittable = {}
    Role <- MCRole
    FeatureUnstructured = FALSE
INVARIANTS SplitAssigned
