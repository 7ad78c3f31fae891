SPECIFICATION MCSpec
CONSTANTS
    Progs = {"epoll", "thread", "seq"}
    MaxConns <- MC_MaxConns
    MaxClients <- MC_MaxClients
    ListenFd <- MC_ListenFd
    Fds <- MC_Fds
    FileSize <- MC_FileSize
    BlockSize <- MC_BlockSize
    HeaderLen <- MC_HeaderLen
    SignalsMayArrive = TRUE
    PeersMayReset = TRUE
INVARIANTS
    TypeOK
    TableMatchesKernel
    NoBookkeepingFailure
    ExitSuccessDelivered
    SocketOwned
PROPERTIES
    ImplementsService
    AdmittedFinish
    ExitsWhenDone
\* The process really ends: main() returns or calls exit().
CHECK_DEADLOCK FALSE
