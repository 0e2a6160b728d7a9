---------------------------- MODULE WriteService ----------------------------
(***************************************************************************)
(* What BasicSerialTransport promises to the callers of asyncWrite,        *)
(* whatever sessions, errors and reopenings there are underneath: packets  *)
(* it accepted reach the line in the order of acceptance, each at most     *)
(* once and some never; the write handler hears of each at most once and   *)
(* hears the truth; close() is the end of it.                              *)
(***************************************************************************)
EXTENDS Integers, Sequences

CONSTANTS Packets

VARIABLES
    accepted,   \* packets in the order asyncWrite returned Scheduled
    wire,       \* packets the port has sent
    heard,      \* heard[p]: results the write handler got for p
    closed      \* close() has run

vars == <<accepted, wire, heard, closed>>

At(s) == {s[i] : i \in 1 .. Len(s)}

Init ==
    /\ accepted = << >> /\ wire = << >>
    /\ heard = [p \in Packets |-> << >>]
    /\ closed = FALSE

Accept(p) ==
    /\ p \notin At(accepted)
    /\ accepted' = Append(accepted, p)
    /\ UNCHANGED <<wire, heard, closed>>

\* p was accepted after everything that has been sent.
InLine(p) ==
    \E i \in 1 .. Len(accepted) :
        /\ accepted[i] = p
        /\ \A j \in i .. Len(accepted) : accepted[j] \notin At(wire)

Send(p) ==
    /\ ~closed
    /\ InLine(p)
    /\ heard[p] = << >>
    /\ wire' = Append(wire, p)
    /\ UNCHANGED <<accepted, heard, closed>>

Report(p, result) ==
    /\ p \in At(accepted)
    /\ heard[p] = << >>
    /\ (result = "Written") = (p \in At(wire))
    /\ closed => result = "Cancelled"
    /\ heard' = [heard EXCEPT ![p] = <<result>>]
    /\ UNCHANGED <<accepted, wire, closed>>

Close ==
    /\ ~closed
    /\ closed' = TRUE
    /\ UNCHANGED <<accepted, wire, heard>>

Next ==
    \/ \E p \in Packets : \/ Accept(p)
                          \/ Send(p)
                          \/ \E r \in {"Written", "Failed", "Cancelled"} : Report(p, r)
    \/ Close

Spec == Init /\ [][Next]_vars
=============================================================================
