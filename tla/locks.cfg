SPECIFICATION Spec
INVARIANTS
    
    NoLostUpdate
    ElementsInOrder
PROPERTIES
    ImplementsMutex
    StarvationFree
    DeadlockFree
    NoLostWakeup
    AllFinish
    NoTornRead
    ImplementsQueue
    AllDelivered
    ReadersFinish
\* main joins the threads and returns once every thread is done.
CHECK_DEADLOCK FALSE
