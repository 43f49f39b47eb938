CONSTANTS
    Tries = 1
SPECIFICATION FairSpec
PROPERTY WaitIsBounded
CHECK_DEADLOCK FALSE
