----------------------------- MODULE MCVm1Tests -----------------------------
(* Three tests in any order, so that each meets what the ones before left  *)
(* behind.                                                                 *)
EXTENDS Vm1Tests
=============================================================================
