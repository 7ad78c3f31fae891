--------------------------- MODULE MC_TicketLock ---------------------------
(* Three threads of two iterations each, with the real 16-bit counters.   *)
EXTENDS TicketLock

MC_Threads == {"t1", "t2", "t3"}
MC_Iterations == 2
MC_Width == 16
\* TicketLock_init.
MC_Fresh == 0
\* The lock after 32766 acquisitions: two tickets before the sign bit.
MC_NearSignBit == 32766

=============================================================================
