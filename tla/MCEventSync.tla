---------------------------- MODULE MCEventSync ----------------------------
(* Two senders, of one reception or two, and two waiters: enough for       *)
(* senders racing senders, waiters racing for one reception, and a waiter  *)
(* that goes back to sleep.                                                *)
EXTENDS EventSync
=============================================================================
