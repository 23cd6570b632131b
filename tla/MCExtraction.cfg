SPECIFICATION FairSpec
CONSTANTS
    Loc <- MCLoc
    What <- MCWhat
    Programs <- MCAll
    FeatureUnstructured = FALSE
INVARIANTS TypeOK ReplayAligned MemoHolds MemoComplete CopiesVisited
INVARIANTS Explored ConditionAsked DepthBounded NeverAborts Flows
PROPERTIES Forks Terminates
