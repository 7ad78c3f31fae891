SPECIFICATION Spec
CONSTANTS
    MaxConns <- MC_MaxConns
    MaxClients <- MC_MaxClients
    ListenFd <- MC_ListenFd
    Fds <- MC_Fds
    FileSize <- MC_FileSize
    BlockSize <- MC_BlockSize
    HeaderLen <- MC_HeaderLen
    SignalsMayArrive = TRUE
    PeersMayReset = TRUE
INVARIANT
    FailureStaysLocal
\* The process ends: main returns or calls exit().
CHECK_DEADLOCK FALSE
