\* The client against a server whose file has 1 to 3 bytes, in blocks of
\* two behind a two-byte header; up to two refused, cut or reset
\* connections; a 3-bit size_t; three descriptors left for the file.
SPECIFICATION Spec
CONSTANTS
    FileSizes = {1, 2, 3}
    BLOCK = 2
    HDR = 2
    SizeWidth = 3
    FdLimit = 3
    Faults = {"refuse", "cut", "reset"}
    MaxFaults = 2
INVARIANTS TypeOK RoundTrip
PROPERTIES ClientSucceeds
\* The client process exits.
CHECK_DEADLOCK FALSE
