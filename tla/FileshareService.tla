-------------------------- MODULE FileshareService --------------------------
(***************************************************************************)
(* What a file-share server promises its clients (spec.md, sections 4.1-   *)
(* 4.4), independent of how it multiplexes them.  Clients are admitted     *)
(* into numbered slots, in order and at most one per slot; an admitted     *)
(* client receives a growing prefix of the one correct stream (size header *)
(* followed by the file) until its slot is done; once done, nothing more   *)
(* is sent on it.  The server ends with success only when no client is    *)
(* being served, and may fail at any time.                                *)
(***************************************************************************)
EXTENDS Integers, Sequences, SequencesExt

CONSTANTS
    Slots,     \* 0..max_conns-1
    Stream     \* the sequence of bytes every client must receive

VARIABLES
    status,    \* status[i] \in {"free", "active", "done"}
    received,  \* received[i]: what the client of slot i has got so far
    outcome    \* "running", "success" or "failure"

vars == <<status, received, outcome>>

Init ==
    /\ status = [i \in Slots |-> "free"]
    /\ received = [i \in Slots |-> <<>>]
    /\ outcome = "running"

\* The next free slot, the lowest one, takes a new client.
Admit(i) ==
    /\ outcome = "running"
    /\ status[i] = "free"
    /\ \A j \in Slots : j < i => status[j] # "free"
    /\ status' = [status EXCEPT ![i] = "active"]
    /\ UNCHANGED <<received, outcome>>

\* Slot i's client gets more of the stream, or its slot ends, or both.
Serve(i) ==
    /\ outcome = "running"
    /\ status[i] = "active"
    /\ \E k \in Len(received[i])..Len(Stream), s \in {"active", "done"} :
          /\ received' = [received EXCEPT ![i] = SubSeq(Stream, 1, k)]
          /\ status' = [status EXCEPT ![i] = s]
          /\ received' # received \/ status' # status
    /\ UNCHANGED outcome

\* Normal termination: no client is in the middle of its transfer.
Succeed ==
    /\ outcome = "running"
    /\ \A i \in Slots : status[i] # "active"
    /\ outcome' = "success"
    /\ UNCHANGED <<status, received>>

Fail ==
    /\ outcome = "running"
    /\ outcome' = "failure"
    /\ UNCHANGED <<status, received>>

Next == (\E i \in Slots : Admit(i) \/ Serve(i)) \/ Succeed \/ Fail

Spec == Init /\ [][Next]_vars

\* Every client holds a prefix of the correct stream.
Consistent == \A i \in Slots : IsPrefix(received[i], Stream)

=============================================================================
