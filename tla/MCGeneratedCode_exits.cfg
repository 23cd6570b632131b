SPECIFICATION GSpec
CONSTANTS
    Loc <- MCLoc
    What <- MCWhat
    Programs <- MCTwoExits
    Unsplittable = {}
    Role <- MCRole
    FeatureUnstructured = FALSE
INVARIANTS ChopsTheSame
