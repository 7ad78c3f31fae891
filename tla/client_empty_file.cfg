\* The server shares an empty file; nothing goes wrong on the network.
SPECIFICATION Spec
CONSTANTS
    FileSizes = {0}
    BLOCK = 2
    HDR = 2
    SizeWidth = 3
    FdLimit = 3
    Faults = {}
    MaxFaults = 0
PROPERTIES ClientSucceeds
CHECK_DEADLOCK FALSE
