SPECIFICATION Spec
CONSTANTS
    here = here
    later = later
    zero = zero
    one = one
    Null = Null
    Loc <- MCLoc
    DeferredLoc <- MCDeferredLoc
    Value <- MCValue
    MaxStatics = 2
    MaxDyns = 2
    MaxIds = 2
SYMMETRY MCSymmetry
INVARIANTS TypeOK LiveTracked DistinctDyns TagsSound TagsRecur
