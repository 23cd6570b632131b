SPECIFICATION Spec
CONSTANTS
    Loc <- MCLoc
    What <- MCWhat
    Programs <- MCReuse
    FeatureUnstructured = FALSE
INVARIANTS HandlersFinish
