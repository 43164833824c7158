SPECIFICATION Spec
CONSTANTS
    NoCallback = NoCallback
    RingBytes = 4
    QueueSlots = 2
    Sizes = {2}
    Wants = {1}
    MaxBuffers = 3
    Callbacks = {f}
    Outcomes = {"ok", "start_fails"}
    MediaResets = TRUE
INVARIANTS CallbacksFollowPlayback
