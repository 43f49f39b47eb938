CONSTANTS
    Buffers = {b1, b2, b3}
    NoBuffer = NoBuffer
    MaxCount = 4
    Faults = {"connect", "thread", "queue", "instant"}
SPECIFICATION ClosingSpec
PROPERTY ReleasedWhenDue
PROPERTY UnderflowWasEmpty
PROPERTY CloseReturns
PROPERTY FramesComeBack
