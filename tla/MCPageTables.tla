---------------------------- MODULE MCPageTables ----------------------------
(* Three regions: one mapped over another that was mapped over a first.    *)
(* The pools are too small for every choice of regions, so that both run   *)
(* dry in some.                                                            *)
EXTENDS PageTables
=============================================================================
