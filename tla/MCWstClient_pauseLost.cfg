SPECIFICATION PartsSpec
CONSTANTS
    b1 = b1
    b2 = b2
    b3 = b3
    NoBuffer = NoBuffer
    Buffers <- Two
    DisplayTime <- TwoTimes
    MaxReady = 2
    Faults = {}
    ReadSize = 1
    MaxStream = 0
PROPERTY PauseReachesServer
