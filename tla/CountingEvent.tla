--------------------------- MODULE CountingEvent ---------------------------
(***************************************************************************)
(* What val/inc/val_shemaphore.h promises of an event_t: sending it to n   *)
(* CPUs makes n receptions possible, each reception is taken by one        *)
(* waiting CPU, first come first served, and none is lost or duplicated.   *)
(***************************************************************************)
EXTENDS Naturals

CONSTANTS Senders, Waiters, Incs

VARIABLES
    count,      \* receptions still to be taken
    sent,       \* the senders whose event is out
    received    \* the waiters that took one

Init == count = 0 /\ sent = {} /\ received = {}

Send(s, n) ==
    /\ s \notin sent
    /\ count' = count + n
    /\ sent' = sent \cup {s}
    /\ UNCHANGED received

Receive(w) ==
    /\ count > 0 /\ w \notin received
    /\ count' = count - 1
    /\ received' = received \cup {w}
    /\ UNCHANGED sent

Next == \/ \E s \in Senders, n \in Incs : Send(s, n)
        \/ \E w \in Waiters : Receive(w)

Spec == Init /\ [][Next]_<<count, sent, received>>
=============================================================================
