------------------------- MODULE LocalityOwnership -------------------------
(***************************************************************************)
(* What the TPM service promises about localities, seen through the only   *)
(* thing a client can read: the Granted bit of each locality's LOC_STS     *)
(* register.  At most one locality is granted at a time, and a grant moves *)
(* from one locality to another only through a state with no grant.        *)
(***************************************************************************)
CONSTANT Localities

VARIABLE granted    \* the localities whose Granted bit is set

Init == granted = {}

Acquire(l) == granted = {} /\ granted' = {l}

Relinquish(l) == granted = {l} /\ granted' = {}

Next == \E l \in Localities : Acquire(l) \/ Relinquish(l)

Spec == Init /\ [][Next]_granted
=============================================================================
