SPECIFICATION GSpec
CONSTANTS
    Loc <- MCLoc
    What <- MCWhat
    Programs <- MCStructured
    Unsplittable = {}
    Role <- MCRole
    FeatureUnstructured = FALSE
INVARIANTS GotosHaveLabels NoGotosLeft JumpsBack Scoped
PROPERTIES Faithful GoesOn
