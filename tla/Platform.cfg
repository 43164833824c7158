SPECIFICATION PlatformSpec
CONSTANTS
    f = f
    g = g
    NoCallback = NoCallback
    RingBytes = 4
    QueueSlots = 2
    Sizes = {1, 3}
    Wants = {2}
    MaxBuffers = 3
    Callbacks = {f, g}
    Outcomes = {"ok", "no_instance", "init_fails", "start_fails"}
    MediaResets = TRUE
INVARIANTS NoStaleCallback
PROPERTIES PlaysTheQueue OpenedOutputsConsume
    ResetsAreReported RequestsReachTheSystem CancelEndsTheBuild
CHECK_DEADLOCK FALSE
