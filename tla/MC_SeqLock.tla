----------------------------- MODULE MC_SeqLock -----------------------------
(* Two writers of two sections each (NUM_WRITERS of seqlock.c) and one   *)
(* reader.  An increment of 1 in base 2 carries into high on every       *)
(* second section.  The uninitialised seq0 is taken to hold 0, the       *)
(* counter's initial value, so the first CAS of each writer can succeed. *)
EXTENDS SeqLock

MC_Writers == {"w1", "w2"}
MC_Readers == {"r1"}
MC_Iterations == 2
MC_Increment == 1
MC_HalfBase == 2
MC_Garbage == {0}

=============================================================================
