SPECIFICATION FairSpec
CONSTANTS
    Longs = {1, 2, 3}
PROPERTIES SurfaceFollowsWindow
