SPECIFICATION MCSpec
CONSTANTS
    Running = {"area"}
    HEAP_SIZE = 64
    HEAP_BINS = 5
    Requests = {4, 12}
    Stamp <- MCStamp
    Paths = {"a", "b", "n"}
    Bundled = {"a", "b"}
    Dir <- MCDir
    Slot <- MCSlot
    MaxVersion = 3
    Fds = {1, 2}
    Files = {"f", "g"}
    FileSize = 3
    IO_SLOTS = 1
    IO_WINDOW = 2
    Streams = {8, 16}
    MAX_STREAMS = 2
    Chunk = 2
    Total = 2
    Room = 1
    Classes = {"Game"}
    Methods = {"getSDFolder", "hasNetwork", "mPreferencesName"}
    Answer <- MCAnswer
    Field <- MCField
    MAX_NAMES = 2
    SCRATCH_SIZE = 64
    Lengths = {3, 6}
    Packs = {"hu", "xx"}
    PagesOf <- MCPages
    Communities = {"hu"}
    Rows = {1, 2, 3}
    Columns = {1, 2, 3, 4}
    Additions = {1, 2, 3, 4, 5}
    Pitch = 8
    Width = 7
    Tree <- MCTree
    Page = "page"
    Movers = {"list"}
    TopInsets = {0, 3, 6}
    BottomInsets = {0, 4}
    TOP_BAND = 12
    CLEARANCE = 1
    Rates = {30, 60, 72, 80, 120, 144}
    TARGET_FPS = 60
    Units = {0, 1}
    Textures = {1, 2}
    Buffers = {1}
    Programs = {1}
    Shapes = {"big", "small"}
    Half <- MCHalf
    META_SLOTS = 3
    UPLOAD_PBO_COUNT = 3
    Sizes = {1, 2}
    MaxQueue = 5
    MaxDraws = 2
    ReadsBack = FALSE
    Managers = {"m", "n"}
    WEEK_KEY_LIMIT = 5
    FirstWeek = 3
    Controls = {1, 2}
    ControlNames = {"iap", "events", "play", "top"}
    PolicyOf <- MCPolicies
    Anchored = {"top"}
    LookupSites = {"s", "t"}
    MAX_UI_OBJECTS = 1
    Functions = {"f", "g"}
    Hooked = {"g"}
    Sites = {"a", "b", "t"}
    IsThumb <- MCThumb
    MaxDepth = 3
    MaxLevels = 5
    Constructors = 2
    Outputs = {"a", "b"}
INVARIANTS PagesStayAdapted
CHECK_DEADLOCK FALSE
