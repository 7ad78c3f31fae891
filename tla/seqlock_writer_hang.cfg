SPECIFICATION Spec
CONSTANTS
    Writers <- MC_Writers
    Readers <- MC_Readers
    NUM_ITERATIONS <- MC_Iterations
    ONE_INCREMENT <- MC_Increment
    HalfBase <- MC_HalfBase
    Seq0Garbage <- MC_Garbage
PROPERTIES
    WritersFinish
\* main returns once every thread is joined.
CHECK_DEADLOCK FALSE
