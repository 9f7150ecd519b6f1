\* Two threads that lock, read, wait and change the guarded data for ever,
\* under the fairness of running threads.
SPECIFICATION FairSpec
CONSTANTS
    t1 = t1
    t2 = t2
    Threads <- Two
INVARIANTS
    MutualExclusion
    ReturnsReady
    NoReadyWaiterLeft
    NoLostWakeup
PROPERTIES
    HandoverArrives
    ReadersAdmitted
    FreeLockTaken
