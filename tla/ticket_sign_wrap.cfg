SPECIFICATION Spec
CONSTANTS
    Threads <- MC_Threads
    NUM_ITERATIONS <- MC_Iterations
    Width <- MC_Width
    StartTicket <- MC_NearSignBit
PROPERTY
    StarvationFree
CHECK_DEADLOCK FALSE
