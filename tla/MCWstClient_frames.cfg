SPECIFICATION PartsSpec
CONSTANTS
    b1 = b1
    b2 = b2
    b3 = b3
    NoBuffer = NoBuffer
    Buffers <- Three
    DisplayTime <- OwnTimes
    MaxReady = 3
    Faults = {"refuse"}
    ReadSize = 5
    MaxStream = 7
INVARIANT DisplayedWasShown
INVARIANT DroppedWasNotShown
PROPERTY KeepsContract
PROPERTY PauseAfterLastFrame
PROPERTY CloseReturns
PROPERTY FramesReported
PROPERTY ReadsMessages
