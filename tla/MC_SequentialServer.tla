------------------------ MODULE MC_SequentialServer ------------------------
(* Two clients served, a third request, a file of one full and one short  *)
(* block, a 2-byte header that can be cut.                                *)
EXTENDS SequentialServer

MC_MaxConns == 2
MC_MaxClients == 3
MC_ListenFd == 3
MC_FileSize == 3
MC_BlockSize == 2
MC_HeaderLen == 2
MC_Fds == {4, 5}

=============================================================================
