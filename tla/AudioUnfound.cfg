SPECIFICATION FairSpec
CONSTANTS
    NoCallback = NoCallback
    RingBytes = 2
    QueueSlots = 2
    Sizes = {1}
    Wants = {1}
    MaxBuffers = 2
    Callbacks = {f}
    Outcomes = {"ok", "no_instance"}
    MediaResets = FALSE
PROPERTIES BuffersAreConsumed
