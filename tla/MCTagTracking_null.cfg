SPECIFICATION Spec
CONSTANTS
    here = here
    later = later
    zero = zero
    one = one
    Null = Null
    Loc <- MCLoc
    DeferredLoc <- MCDeferredLoc
    Value <- MCValue
    MaxStatics = 2
    MaxDyns = 1
    MaxIds = 1
INVARIANTS ComparesSafely
