\* runOnce() called by three threads, with initializers that may throw.
SPECIFICATION FairSpec
CONSTANTS
    t1 = t1
    t2 = t2
    t3 = t3
    Threads <- Three
INVARIANTS
    ExactlyOnce
PROPERTIES
    ReturnsInitialized
    WaiterReleased
