SPECIFICATION FairSpec
CONSTANTS
    MaxPending = 2
    Kinds = {"inactive", "resume", "stay", "route", "foreground"}
PROPERTIES RequestsAreServed
CHECK_DEADLOCK FALSE
