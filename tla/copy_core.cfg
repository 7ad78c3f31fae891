SPECIFICATION MCSpec
CONSTANTS
    Progs = {"sync", "pool", "uring", "libaio", "posix"}
    Sizes = {0, 1, 2, 3, 4, 5, 6, 7, 8}
    READ_BLOCK_SIZE = 2
    QUEUE_SIZE = 3
    NUM_THREADS = 2
INVARIANTS
    TypeOK
    ExactCopy
    NothingInFlightAtClose
PROPERTIES
    Terminates
\* every program returns or exits.
CHECK_DEADLOCK FALSE
