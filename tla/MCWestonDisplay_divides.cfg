CONSTANTS
    CropDenom = 100000
    None = None
    Modes <- TwoOutputs
    Frames <- OneFrame
    WindowRects <- OneWindow
    Asked <- OneSize
    MaxEvents = 2
    ZoomModes = {"zoom"}
    ForceFullScreen = FALSE
    WstWindows <- MiddleWindow
    WstFrames <- FullFrame
    Transforms <- ThreeTransforms
SPECIFICATION PartsSpec
INVARIANT PositionHasTransform
