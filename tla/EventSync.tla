----------------------------- MODULE EventSync -----------------------------
(***************************************************************************)
(* One event_t shared by several CPUs: val_send_event* and                 *)
(* val_wait_for_event of val/src/val_shemaphore.c on top of the AArch64    *)
(* spin lock of platform/common/src/pal_spinlock.S (bare-metal build).     *)
(*                                                                         *)
(* Every access to shared memory is a step of its own.  The event register *)
(* of a PE (sev, sevl, wfe) and its exclusive monitor (ldaxr, stxr) are    *)
(* part of the state: a store to the lock word opens the monitors that     *)
(* other PEs armed on it and sets their event registers.                   *)
(***************************************************************************)
EXTENDS Naturals

CONSTANTS
    Senders,    \* CPUs that call val_send_event*, once each
    Waiters,    \* CPUs that call val_wait_for_event, once each
    Incs        \* the receptions one send may allow: 1, a count, or all CPUs

ASSUME EventAssumption == Senders \cap Waiters = {} /\ Incs \subseteq Nat \ {0}

CPUs == Senders \cup Waiters

VARIABLES
    cnt,        \* event->cnt
    lock,       \* event->lock.lock
    inc,        \* the argument of each sender's send_event_common
    ev,         \* the event register of each PE
    mon,        \* the PE's exclusive monitor is armed on the lock word
    reg,        \* the value of cnt a PE loaded inside the critical section
    got,        \* event_received of each waiter
    pc          \* where each CPU is

vars == <<cnt, lock, inc, ev, mon, reg, got, pc>>

Labels == {"start", "check", "wfe", "l1", "l2", "stxr", "load", "store",
           "unlock", "sev", "done"}

InCS(p) == pc[p] \in {"load", "store", "unlock"}

TypeOK ==
    /\ cnt \in Nat
    /\ lock \in {0, 1}
    /\ inc \in [Senders -> Incs]
    /\ ev \in [CPUs -> BOOLEAN]
    /\ mon \in [CPUs -> BOOLEAN]
    /\ reg \in [CPUs -> Nat]
    /\ got \in [Waiters -> BOOLEAN]
    /\ pc \in [CPUs -> Labels]

\* val_init_event, before any of the CPUs uses the event.
Init ==
    /\ cnt = 0 /\ lock = 0
    /\ inc \in [Senders -> Incs]
    /\ ev = [p \in CPUs |-> FALSE]
    /\ mon = [p \in CPUs |-> FALSE]
    /\ reg = [p \in CPUs |-> 0]
    /\ got = [p \in Waiters |-> FALSE]
    /\ pc = [p \in CPUs |-> IF p \in Senders THEN "start" ELSE "check"]

Goto(p, label) == pc' = [pc EXCEPT ![p] = label]

-----------------------------------------------------------------------------
(* pal_spin_lock and pal_spin_unlock                                       *)

\* The call of pal_spin_lock: sevl lets the first wfe fall through.
SpinLock(p) ==
    /\ ev' = [ev EXCEPT ![p] = TRUE]
    /\ Goto(p, "l1")
    /\ UNCHANGED <<cnt, lock, inc, mon, reg, got>>

\* Both wfe instructions, of the lock and of the wait loop.
Wfe(p) ==
    /\ pc[p] \in {"wfe", "l1"} /\ ev[p]
    /\ ev' = [ev EXCEPT ![p] = FALSE]
    /\ Goto(p, IF pc[p] = "l1" THEN "l2" ELSE "check")
    /\ UNCHANGED <<cnt, lock, inc, mon, reg, got>>

\* The architecture lets a wfe end for other reasons, such as an interrupt.
WfeSpurious(p) ==
    /\ pc[p] \in {"wfe", "l1"}
    /\ Goto(p, IF pc[p] = "l1" THEN "l2" ELSE "check")
    /\ UNCHANGED <<cnt, lock, inc, ev, mon, reg, got>>

Ldaxr(p) ==
    /\ pc[p] = "l2"
    /\ mon' = [mon EXCEPT ![p] = TRUE]
    /\ Goto(p, IF lock # 0 THEN "l1" ELSE "stxr")
    /\ UNCHANGED <<cnt, lock, inc, ev, reg, got>>

\* A store of v to the lock word, seen by every monitor armed on it.
StoreLock(p, v) ==
    /\ lock' = v
    /\ mon' = [q \in CPUs |-> FALSE]
    /\ ev' = [q \in CPUs |-> ev[q] \/ (q # p /\ mon[q])]

\* Mutation: an ordinary store in place of the exclusive one.
StxrPlainStore(p) ==
    /\ pc[p] = "stxr"
    /\ StoreLock(p, 1) /\ Goto(p, "load")
    /\ UNCHANGED <<cnt, inc, reg, got>>

Stxr(p) ==
    /\ pc[p] = "stxr"
    /\ \/ mon[p] /\ StoreLock(p, 1) /\ Goto(p, "load")
       \/ ~mon[p] /\ Goto(p, "l2") /\ UNCHANGED <<lock, mon, ev>>
    /\ UNCHANGED <<cnt, inc, reg, got>>

SpinUnlock(p, next) ==
    /\ pc[p] = "unlock"
    /\ StoreLock(p, 0)
    /\ Goto(p, next)
    /\ UNCHANGED <<cnt, inc, reg, got>>

-----------------------------------------------------------------------------
(* send_event_common                                                       *)

SendStart(s) == pc[s] = "start" /\ SpinLock(s)

LoadCnt(p) ==
    /\ pc[p] = "load"
    /\ reg' = [reg EXCEPT ![p] = cnt]
    /\ Goto(p, "store")
    /\ UNCHANGED <<cnt, lock, inc, ev, mon, got>>

SendStore(s) ==
    /\ pc[s] = "store"
    /\ cnt' = reg[s] + inc[s]
    /\ Goto(s, "unlock")
    /\ UNCHANGED <<lock, inc, ev, mon, reg, got>>

SendUnlock(s) == SpinUnlock(s, "sev")

\* Mutation: no sev after the count is raised.
SevMissing(s) ==
    /\ pc[s] = "sev"
    /\ Goto(s, "done")
    /\ UNCHANGED <<cnt, lock, inc, ev, mon, reg, got>>

Sev(s) ==
    /\ pc[s] = "sev"
    /\ ev' = [p \in CPUs |-> TRUE]
    /\ Goto(s, "done")
    /\ UNCHANGED <<cnt, lock, inc, mon, reg, got>>

-----------------------------------------------------------------------------
(* val_wait_for_event                                                      *)

\* The unlocked test of cnt: sleep when it is 0, else take the lock.
WaitCheck(w) ==
    /\ pc[w] = "check"
    /\ \/ /\ cnt = 0 /\ Goto(w, "wfe")
          /\ UNCHANGED <<cnt, lock, inc, ev, mon, reg, got>>
       \/ cnt # 0 /\ SpinLock(w)

\* Mutation: the count is not tested again under the lock.
WaitStoreUnchecked(w) ==
    /\ pc[w] = "store"
    /\ cnt' = IF reg[w] = 0 THEN 0 ELSE reg[w] - 1
    /\ got' = [got EXCEPT ![w] = TRUE]
    /\ Goto(w, "unlock")
    /\ UNCHANGED <<lock, inc, ev, mon, reg>>

\* Mutation: as above, and the counter underflows.
WaitStoreUnderflows(w) ==
    /\ pc[w] = "store"
    /\ cnt' = reg[w] - 1
    /\ got' = [got EXCEPT ![w] = TRUE]
    /\ Goto(w, "unlock")
    /\ UNCHANGED <<lock, inc, ev, mon, reg>>

\* The test under the lock, and the decrement when no one stole the event.
WaitStore(w) ==
    /\ pc[w] = "store"
    /\ \/ /\ reg[w] # 0
          /\ cnt' = reg[w] - 1
          /\ got' = [got EXCEPT ![w] = TRUE]
       \/ reg[w] = 0 /\ UNCHANGED <<cnt, got>>
    /\ Goto(w, "unlock")
    /\ UNCHANGED <<lock, inc, ev, mon, reg>>

WaitUnlock(w) == SpinUnlock(w, IF got[w] THEN "done" ELSE "check")

-----------------------------------------------------------------------------
Lock(p) == Wfe(p) \/ Ldaxr(p) \/ Stxr(p) \/ LoadCnt(p)

SenderStep(s) == SendStart(s) \/ Lock(s) \/ SendStore(s) \/ SendUnlock(s) \/ Sev(s)

WaiterStep(w) == WaitCheck(w) \/ Lock(w) \/ WaitStore(w) \/ WaitUnlock(w)

Next ==
    \/ \E s \in Senders : SenderStep(s)
    \/ \E w \in Waiters : WaiterStep(w)
    \/ \E p \in CPUs : WfeSpurious(p)

Spec == Init /\ [][Next]_vars

\* A PE that can execute an instruction eventually does.  Nothing is assumed of
\* spurious wake-ups, nor of who wins the lock.
FairSpec ==
    /\ Spec
    /\ \A s \in Senders : WF_vars(SenderStep(s))
    /\ \A w \in Waiters : WF_vars(WaiterStep(w))

-----------------------------------------------------------------------------
(* The spin lock admits one CPU at a time to the count, whatever the       *)
(* interleaving of ldaxr, stxr and stlr of the others.                     *)
MutualExclusion == \A p, q \in CPUs : InCS(p) /\ InCS(q) => p = q

(* The event implements a counting event: although a send and a reception  *)
(* load and store cnt in separate steps, no increment is lost and no       *)
(* reception happens without one.                                          *)
Event == INSTANCE CountingEvent
    WITH count <- cnt,
         sent <- {s \in Senders : pc[s] \in {"unlock", "sev", "done"}},
         received <- {w \in Waiters : got[w]}
EventSpec == Event!Spec

(* No lost wake-up: in the end either every event was taken or every       *)
(* waiter has one.  A waiter that saw cnt = 0 just before the increment is *)
(* woken by the sev latched in its event register.                         *)
NoLostEvent == <>[](cnt = 0 \/ \A w \in Waiters : pc[w] = "done")
=============================================================================
