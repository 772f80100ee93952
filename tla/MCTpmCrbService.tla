-------------------------- MODULE MCTpmCrbService --------------------------
(* Two clients, two localities and a notification id that does not fit the *)
(* 64-bit bitmap.  Clients and localities are interchangeable.             *)
EXTENDS TpmCrbService, TLC

Symmetry == Permutations(Clients) \cup Permutations(Localities)
=============================================================================
