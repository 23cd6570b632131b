SPECIFICATION Spec
CONSTANTS
    Functions <- MCFunctions
    Inputs <- MCInputs
    Pointers <- MCPointers
    Narrow <- MCNone
    CallResult = 1
    Changes <- MCNothing
    Fuel = 80
INVARIANT CopiesGone
PROPERTY MeaningKept
CHECK_DEADLOCK FALSE
