--------------------------- MODULE MC_PollServer ---------------------------
(* Model values for PollServer: two slots, three clients, a file of three *)
(* bytes sent in blocks of two behind a two-byte header.                  *)
EXTENDS PollServer

MC_MaxConns   == 2
MC_MaxClients == 3
MC_ListenFd   == 3
MC_FileSize   == 3
MC_BlockSize  == 2
MC_HeaderLen  == 2

\* Enough descriptors for every slot.
MC_Fds        == {4, 5}
\* One descriptor short: accept() runs out.
MC_FdsShort   == {4}

=============================================================================
