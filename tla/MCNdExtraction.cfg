SPECIFICATION Spec
CONSTANTS
    Tag <- MCTag
    Initially <- MCInitially
    Type <- MCType
    TestedType = "int"
    PerChunk = 2
    Programs <- MCPrograms
INVARIANTS TypeOK GuessesHold ArenaHolds
PROPERTIES GuessesGoUp AllocatesFresh Terminates
CHECK_DEADLOCK FALSE
