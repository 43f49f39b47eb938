SPECIFICATION KeysSpec
CONSTANTS
    DrmRects = {r1, r2}
    NoRect = NoRect
    Freezen = TRUE
    Crops <- TwoCrops
    Frames <- TwoFrames
    Rates <- TwoRates
    Untold = Untold
INVARIANT MuteEndsWithSession
INVARIANT ServerUpToDate
INVARIANT CropNotHeldBack
PROPERTY SentCropFits
CHECK_DEADLOCK FALSE
