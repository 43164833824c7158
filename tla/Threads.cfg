SPECIFICATION MCSpec
CONSTANTS
    o1 = o1
    o2 = o2
    o3 = o3
    NoObj = NoObj
    Objects <- MCObjects
    Capacity = 3
    MaxTid = 5
    NumKeys = 2
    Passes = 2
    Onces = {o1, o2, o3}
    MaxOnce = 3
    Nesting = 2
INVARIANTS EndsAreSettled OnceProtocol FreshKeysAreNull
PROPERTIES ImplementsThreadLife DestructorsRun
SYMMETRY OnceSymmetry
CHECK_DEADLOCK FALSE
