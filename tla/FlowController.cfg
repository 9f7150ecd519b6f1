\* Two senders of one stream whose acks come in any order and may fail.
SPECIFICATION FairSpec
CONSTANTS
    p1 = p1
    p2 = p2
    Senders <- TwoSenders
    Sizes <- SmallLarge
    Windows <- Varying
    MaxWindow = 6
    MaxSends = 5
CHECK_DEADLOCK FALSE
INVARIANTS
    StreamBounded
    WaitNotEarly
PROPERTIES
    SendsResolve
    HealthyWaitEnds
