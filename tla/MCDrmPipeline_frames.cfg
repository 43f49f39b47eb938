CONSTANTS
    Buffers = {b1, b2, b3}
    NoBuffer = NoBuffer
    BlackFrame = BlackFrame
    MaxDelay = 1
    ThreadCreation = {TRUE, FALSE}
SPECIFICATION FairSpec
INVARIANT ReportedEntityIsAlive
INVARIANT ScreenBufferHeld
PROPERTY KeepsContract
PROPERTY CloseReturns
PROPERTY PlayerIsFed
PROPERTY FramesAreReported
