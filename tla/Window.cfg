SPECIFICATION MCSpec
CONSTANTS
    Sizes = {1, 2}
    MaxActivations = 2
    MaxSignals = 2
    TouchCapacity = 4
INVARIANTS EngineIsWoken DrawableIsCurrent TouchesArePaired
PROPERTIES FramesAreFresh FramesGoOn NoTouchIsStuck
    SurfaceFollowsWindow GeometryFollowsMovie
