SPECIFICATION MCSpec
CONSTANTS
    Progs = {"libaio", "posix"}
    Sizes = {1, 2, 3}
    READ_BLOCK_SIZE = 2
    QUEUE_SIZE = 2
    NUM_THREADS = 2
INVARIANT
    CopyCorrect
\* every program returns or exits.
CHECK_DEADLOCK FALSE
