CONSTANTS
    b1 = b1
    b2 = b2
    Buffers = {b1, b2}
    NoBuffer = NoBuffer
    Pts <- OwnPts
    SetPts = {TRUE, FALSE}
    MaxCallbacks = 1
    Twice = {b1}
    Tries = 3
SPECIFICATION PartsSpec
INVARIANT FramesPaced
INVARIANT ClosedGivesBack
INVARIANT AnswersLand
PROPERTY QueueDrains
PROPERTY CloseReturns
