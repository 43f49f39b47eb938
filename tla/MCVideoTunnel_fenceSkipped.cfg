CONSTANTS
    Buffers = {b1, b2}
    NoBuffer = NoBuffer
    MaxCount = 3
    Faults = {}
SPECIFICATION Spec
INVARIANT FenceAwaited
