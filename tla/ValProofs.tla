----------------------------- MODULE ValProofs -----------------------------
(***************************************************************************)
(* Proofs about two parts of the validation layer that every endpoint      *)
(* links: the events with their spin lock (EventSync), for any number of   *)
(* senders and waiters; and the layout and lengths of the memory           *)
(* transaction descriptors (MemoryRegion), for every number of receivers   *)
(* and constituents and every size of the buffer.  The two parts do not    *)
(* depend on each other.                                                   *)
(***************************************************************************)
EXTENDS EventSync, MemoryRegion, TLAPS

(***************************************************************************)
(* The events and the spin lock.                                           *)
(***************************************************************************)
\* The lock word is 0 exactly when the critical section is empty.
LockWord == lock = 0 <=> \A p \in CPUs : ~InCS(p)

\* A monitor still armed at stxr witnesses that the lock word stayed 0.
ArmedMeansFree == \A p \in CPUs : pc[p] = "stxr" /\ mon[p] => lock = 0

\* The value loaded under the lock is current when it is stored back.
LoadedIsCurrent == \A p \in CPUs : pc[p] = "store" => reg[p] = cnt

\* A waiter takes at most one reception.
TakenOnce == \A w \in Waiters : got[w] => pc[w] \in {"unlock", "done"}

Inv == /\ TypeOK /\ MutualExclusion /\ LockWord
       /\ ArmedMeansFree /\ LoadedIsCurrent /\ TakenOnce

(* The states val_init_event leaves satisfy the invariant.                 *)
LEMMA InitInv == Init => Inv
<1> SUFFICES ASSUME Init PROVE Inv
  OBVIOUS
<1> USE DEF Init
<1>1. TypeOK
  BY EventAssumption DEF TypeOK, CPUs, Labels
<1>2. \A p \in CPUs : pc[p] \in {"start", "check"}
  OBVIOUS
<1>3. \A w \in Waiters : ~got[w]
  OBVIOUS
<1>4. QED
  BY <1>1, <1>2, <1>3 DEF Inv, MutualExclusion, LockWord, ArmedMeansFree, LoadedIsCurrent,
     TakenOnce, InCS

(* Steps outside the critical section that leave the lock word, cnt and    *)
(* got alone: the call of pal_spin_lock, both wfe, and the sleep of        *)
(* val_wait_for_event.                                                     *)
LEMMA OutsideKeepsInv ==
    ASSUME Inv, NEW p \in CPUs, NEW label \in Labels \ {"load", "store", "unlock", "stxr"},
           pc[p] \in {"start", "check", "wfe", "l1", "sev"}, Goto(p, label),
           ev' \in [CPUs -> BOOLEAN], UNCHANGED <<cnt, lock, inc, mon, reg, got>>
    PROVE  Inv'
<1> USE DEF Inv, TypeOK, Goto
<1>1. TypeOK'
  BY Zenon
<1>2. \A q \in CPUs : q # p => pc'[q] = pc[q]
  OBVIOUS
<1>3. pc'[p] = label
  OBVIOUS
<1>4. \A q \in CPUs : InCS(q)' <=> InCS(q)
  BY <1>2, <1>3 DEF InCS
<1>5. MutualExclusion' /\ LockWord'
  BY <1>4 DEF MutualExclusion, LockWord
<1>6. ArmedMeansFree' /\ LoadedIsCurrent'
  BY <1>2, <1>3 DEF ArmedMeansFree, LoadedIsCurrent
<1>7. TakenOnce'
  BY <1>2, <1>3, EventAssumption DEF TakenOnce, CPUs
<1>8. QED
  BY <1>1, <1>5, <1>6, <1>7

(* ldaxr arms the monitor and only proceeds to stxr when the lock is free. *)
LEMMA LdaxrKeepsInv == ASSUME Inv, NEW p \in CPUs, Ldaxr(p) PROVE Inv'
<1> USE DEF Inv, TypeOK, Goto, Ldaxr
<1>1. TypeOK'
  BY DEF Labels
<1>2. \A q \in CPUs : q # p => pc'[q] = pc[q] /\ mon'[q] = mon[q]
  OBVIOUS
<1>3. pc'[p] = IF lock # 0 THEN "l1" ELSE "stxr"
  OBVIOUS
<1>4. \A q \in CPUs : InCS(q)' <=> InCS(q)
  BY <1>2, <1>3 DEF InCS
<1>5. MutualExclusion' /\ LockWord'
  BY <1>4 DEF MutualExclusion, LockWord
<1>6. ArmedMeansFree' /\ LoadedIsCurrent'
  BY <1>2, <1>3 DEF ArmedMeansFree, LoadedIsCurrent
<1>7. TakenOnce'
  BY <1>2, <1>3 DEF TakenOnce, CPUs
<1>8. QED
  BY <1>1, <1>5, <1>6, <1>7

(* stxr enters the empty critical section, or fails and retries.           *)
LEMMA StxrKeepsInv == ASSUME Inv, NEW p \in CPUs, Stxr(p) PROVE Inv'
<1> USE DEF Inv, TypeOK, Goto, Stxr, StoreLock
<1>1. \A q \in CPUs : q # p => pc'[q] = pc[q]
  OBVIOUS
<1>2. CASE mon[p] /\ StoreLock(p, 1) /\ Goto(p, "load")
  <2>1. TypeOK'
    BY <1>2 DEF Labels
  <2>2. pc'[p] = "load"
    BY <1>2
  <2>3. \A q \in CPUs : ~InCS(q)
    BY <1>2 DEF ArmedMeansFree, LockWord
  <2>4. \A q \in CPUs : InCS(q)' <=> q = p
    BY <1>1, <2>2, <2>3 DEF InCS
  <2>5. MutualExclusion' /\ LockWord'
    BY <1>2, <2>4 DEF MutualExclusion, LockWord
  <2>6. ArmedMeansFree' /\ LoadedIsCurrent'
    BY <1>1, <1>2, <2>2 DEF ArmedMeansFree, LoadedIsCurrent
  <2>7. TakenOnce'
    BY <1>1, <2>2 DEF TakenOnce, CPUs
  <2>8. QED
    BY <2>1, <2>5, <2>6, <2>7
<1>3. CASE ~mon[p] /\ Goto(p, "l2") /\ UNCHANGED <<lock, mon, ev>>
  <2>1. TypeOK'
    BY <1>3 DEF Labels
  <2>2. pc'[p] = "l2"
    BY <1>3
  <2>3. \A q \in CPUs : InCS(q)' <=> InCS(q)
    BY <1>1, <2>2 DEF InCS
  <2>4. MutualExclusion' /\ LockWord'
    BY <1>3, <2>3 DEF MutualExclusion, LockWord
  <2>5. ArmedMeansFree' /\ LoadedIsCurrent'
    BY <1>1, <1>3, <2>2 DEF ArmedMeansFree, LoadedIsCurrent
  <2>6. TakenOnce'
    BY <1>1, <2>2 DEF TakenOnce, CPUs
  <2>7. QED
    BY <2>1, <2>4, <2>5, <2>6
<1>4. QED
  BY <1>2, <1>3

(* The steps that stay inside the critical section: load and store.        *)
LEMMA InsideKeepsInv ==
    ASSUME Inv, NEW p \in CPUs, NEW label \in {"store", "unlock"}, InCS(p), Goto(p, label),
           TypeOK', label = "store" => reg'[p] = cnt',
           \A q \in CPUs : q # p => reg'[q] = reg[q],
           \A w \in Waiters : got'[w] => got[w] \/ (w = p /\ label = "unlock"),
           p \in Waiters => ~got[p] \/ label = "unlock",
           UNCHANGED <<lock, ev, mon>>
    PROVE  Inv'
<1> USE DEF Inv, Goto
<1>1. \A q \in CPUs : q # p => pc'[q] = pc[q]
  BY DEF TypeOK
<1>2. pc'[p] = label
  BY DEF TypeOK
<1>3. \A q \in CPUs : InCS(q)' <=> InCS(q)
  BY <1>1, <1>2 DEF InCS
<1>4. MutualExclusion' /\ LockWord'
  BY <1>3 DEF MutualExclusion, LockWord
<1>5. ArmedMeansFree'
  BY <1>1, <1>2 DEF ArmedMeansFree
<1>6. LoadedIsCurrent'
  <2>1. \A q \in CPUs : q # p => pc'[q] # "store"
    BY <1>1 DEF MutualExclusion, InCS
  <2>2. QED
    BY <1>2, <2>1 DEF LoadedIsCurrent
<1>7. TakenOnce'
  BY <1>1, <1>2 DEF TakenOnce, CPUs
<1>8. QED
  BY <1>4, <1>5, <1>6, <1>7

(* The store-release of pal_spin_unlock empties the critical section.      *)
LEMMA UnlockKeepsInv ==
    ASSUME Inv, NEW p \in CPUs, NEW label \in {"sev", "done", "check"}, SpinUnlock(p, label),
           p \in Waiters => (got[p] => label = "done")
    PROVE  Inv'
<1> USE DEF Inv, TypeOK, Goto, SpinUnlock, StoreLock
<1>1. TypeOK'
  BY DEF Labels
<1>2. \A q \in CPUs : q # p => pc'[q] = pc[q]
  OBVIOUS
<1>3. pc'[p] = label
  OBVIOUS
<1>4. \A q \in CPUs : ~InCS(q)'
  BY <1>2, <1>3 DEF InCS, MutualExclusion
<1>5. MutualExclusion' /\ LockWord'
  BY <1>4 DEF MutualExclusion, LockWord
<1>6. ArmedMeansFree' /\ LoadedIsCurrent'
  BY <1>4 DEF ArmedMeansFree, LoadedIsCurrent, InCS
<1>7. TakenOnce'
  BY <1>2, <1>3 DEF TakenOnce, CPUs
<1>8. QED
  BY <1>1, <1>5, <1>6, <1>7

(* Every step of a CPU that sends, waits or sleeps keeps the invariant.    *)
LEMMA LockKeepsInv == ASSUME Inv, NEW p \in CPUs, Lock(p) \/ WfeSpurious(p) PROVE Inv'
<1>1. CASE Wfe(p) \/ WfeSpurious(p)
  <2> DEFINE label == IF pc[p] = "l1" THEN "l2" ELSE "check"
  <2>1. label \in Labels \ {"load", "store", "unlock", "stxr"}
    BY DEF Labels
  <2>2. /\ Goto(p, label) /\ pc[p] \in {"wfe", "l1"} /\ ev' \in [CPUs -> BOOLEAN]
        /\ UNCHANGED <<cnt, lock, inc, mon, reg, got>>
    BY <1>1, Zenon DEF Wfe, WfeSpurious, Inv, TypeOK
  <2> HIDE DEF label
  <2>3. QED
    BY <2>1, <2>2, OutsideKeepsInv
<1>2. CASE Ldaxr(p)
  BY <1>2, LdaxrKeepsInv
<1>3. CASE Stxr(p)
  BY <1>3, StxrKeepsInv
<1>4. CASE LoadCnt(p)
  <2>1. InCS(p) /\ Goto(p, "store") /\ reg'[p] = cnt'
    BY <1>4 DEF LoadCnt, InCS, Inv, TypeOK
  <2>2. TypeOK'
    BY <1>4 DEF LoadCnt, Goto, Inv, TypeOK, Labels
  <2>3. \A q \in CPUs : q # p => reg'[q] = reg[q]
    BY <1>4 DEF LoadCnt, Inv, TypeOK
  <2>4. p \in Waiters => ~got[p]
    BY <1>4 DEF LoadCnt, Inv, TakenOnce
  <2>5. UNCHANGED <<lock, ev, mon, got>>
    BY <1>4 DEF LoadCnt
  <2>6. QED
    BY <2>1, <2>2, <2>3, <2>4, <2>5, InsideKeepsInv
<1>5. QED
  BY <1>1, <1>2, <1>3, <1>4 DEF Lock

LEMMA SenderKeepsInv == ASSUME Inv, NEW s \in Senders, SenderStep(s) PROVE Inv'
<1> s \in CPUs /\ s \notin Waiters
  BY EventAssumption DEF CPUs
<1>1. CASE SendStart(s)
  <2>1. "l1" \in Labels \ {"load", "store", "unlock", "stxr"}
    BY DEF Labels
  <2>2. ev' \in [CPUs -> BOOLEAN] /\ UNCHANGED <<cnt, lock, inc, mon, reg, got>>
    BY <1>1 DEF SendStart, SpinLock, Inv, TypeOK
  <2>3. QED
    BY <1>1, <2>1, <2>2, OutsideKeepsInv DEF SendStart, SpinLock
<1>2. CASE Lock(s)
  BY <1>2, LockKeepsInv
<1>3. CASE SendStore(s)
  <2>1. inc[s] \in Nat /\ reg[s] \in Nat
    BY EventAssumption, Zenon DEF Inv, TypeOK
  <2>2. cnt' \in Nat
    BY <1>3, <2>1 DEF SendStore
  <2>3. pc' \in [CPUs -> Labels]
    BY <1>3 DEF SendStore, Goto, Inv, TypeOK, Labels
  <2>4. TypeOK'
    BY <1>3, <2>2, <2>3 DEF SendStore, Inv, TypeOK
  <2>5. InCS(s) /\ Goto(s, "unlock") /\ UNCHANGED <<lock, ev, mon, reg, got>>
    BY <1>3 DEF SendStore, InCS
  <2>6. QED
    BY <2>4, <2>5, InsideKeepsInv
<1>4. CASE SendUnlock(s)
  BY <1>4, UnlockKeepsInv DEF SendUnlock
<1>5. CASE Sev(s)
  <2>1. "done" \in Labels \ {"load", "store", "unlock", "stxr"}
    BY DEF Labels
  <2>2. ev' \in [CPUs -> BOOLEAN]
    BY <1>5 DEF Sev
  <2>3. QED
    BY <1>5, <2>1, <2>2, OutsideKeepsInv DEF Sev
<1>6. QED
  BY <1>1, <1>2, <1>3, <1>4, <1>5 DEF SenderStep

LEMMA WaiterKeepsInv == ASSUME Inv, NEW w \in Waiters, WaiterStep(w) PROVE Inv'
<1> w \in CPUs
  BY DEF CPUs
<1>1. CASE WaitCheck(w)
  <2> DEFINE label == IF cnt = 0 THEN "wfe" ELSE "l1"
  <2>1. label \in Labels \ {"load", "store", "unlock", "stxr"}
    BY DEF Labels
  <2>2. /\ Goto(w, label) /\ pc[w] = "check" /\ ev' \in [CPUs -> BOOLEAN]
        /\ UNCHANGED <<cnt, lock, inc, mon, reg, got>>
    BY <1>1, Zenon DEF WaitCheck, SpinLock, Inv, TypeOK
  <2> HIDE DEF label
  <2>3. QED
    BY <2>1, <2>2, OutsideKeepsInv
<1>2. CASE Lock(w)
  BY <1>2, LockKeepsInv
<1>3. CASE WaitStore(w)
  <2>1. TypeOK'
    <3>1. reg[w] \in Nat /\ cnt \in Nat /\ got \in [Waiters -> BOOLEAN]
      BY DEF Inv, TypeOK
    <3>2. cnt' \in Nat
      BY <1>3, <3>1 DEF WaitStore
    <3>3. [got EXCEPT ![w] = TRUE] \in [Waiters -> BOOLEAN]
      BY <3>1
    <3>4. got' \in [Waiters -> BOOLEAN]
      BY <1>3, <3>1, <3>3, Zenon DEF WaitStore
    <3>5. pc' \in [CPUs -> Labels]
      BY <1>3 DEF WaitStore, Goto, Inv, TypeOK, Labels
    <3>6. QED
      BY <1>3, <3>2, <3>4, <3>5 DEF WaitStore, Inv, TypeOK
  <2>2. \A v \in Waiters : got'[v] => got[v] \/ v = w
    BY <1>3 DEF WaitStore, Inv, TypeOK
  <2>3. InCS(w) /\ Goto(w, "unlock") /\ UNCHANGED <<lock, ev, mon, reg>>
    BY <1>3 DEF WaitStore, InCS
  <2>4. QED
    BY <2>1, <2>2, <2>3, InsideKeepsInv
<1>4. CASE WaitUnlock(w)
  <2>1. CASE got[w]
    BY <1>4, <2>1, UnlockKeepsInv DEF WaitUnlock
  <2>2. CASE ~got[w]
    BY <1>4, <2>2, UnlockKeepsInv DEF WaitUnlock
  <2>3. QED
    BY <2>1, <2>2
<1>5. QED
  BY <1>1, <1>2, <1>3, <1>4 DEF WaiterStep

LEMMA NextKeepsInv == Inv /\ [Next]_vars => Inv'
<1> SUFFICES ASSUME Inv, [Next]_vars PROVE Inv'
  OBVIOUS
<1>1. CASE UNCHANGED vars
  BY <1>1 DEF vars, Inv, TypeOK, MutualExclusion, LockWord, ArmedMeansFree,
     LoadedIsCurrent, TakenOnce, InCS
<1>2. CASE Next
  BY <1>2, SenderKeepsInv, WaiterKeepsInv, LockKeepsInv DEF Next
<1>3. QED
  BY <1>1, <1>2

(* The inductive invariant of the lock and the event.                      *)
THEOREM EventInvariant == Spec => []Inv
  BY InitInv, NextKeepsInv, PTL DEF Spec

(* Type correctness, for any set of senders and waiters.                   *)
THEOREM EventTypes == Spec => []TypeOK
<1>1. Inv => TypeOK
  BY DEF Inv
<1>2. QED
  BY <1>1, EventInvariant, PTL

(* pal_spin_lock gives the count to one CPU at a time, for any number of   *)
(* CPUs.                                                                   *)
THEOREM SpinLockExcludes == Spec => []MutualExclusion
<1>1. Inv => MutualExclusion
  BY DEF Inv
<1>2. QED
  BY <1>1, EventInvariant, PTL

-----------------------------------------------------------------------------
(* The refinement of CountingEvent.                                        *)

Sent == {s \in Senders : pc[s] \in {"unlock", "sev", "done"}}
Received == {w \in Waiters : got[w]}

(* A step that neither stores cnt nor leaves "unlock" or "sev" for another *)
(* label stutters.                                                         *)
LEMMA SilentStep ==
    ASSUME Inv, NEW p \in CPUs, NEW label, Goto(p, label), UNCHANGED <<cnt, got>>,
           p \in Senders => (pc[p] \in {"unlock", "sev", "done"} <=>
                             label \in {"unlock", "sev", "done"})
    PROVE  UNCHANGED <<cnt, Sent, Received>>
<1>1. \A s \in Senders : s \in CPUs
  BY DEF CPUs
<1>2. \A s \in Senders : pc'[s] \in {"unlock", "sev", "done"}
                          <=> pc[s] \in {"unlock", "sev", "done"}
  BY <1>1 DEF Goto, Inv, TypeOK
<1>3. Sent' = Sent
  BY <1>2 DEF Sent
<1>4. QED
  BY <1>3 DEF Received

(* Every step of the event is a send, a reception or invisible.            *)
LEMMA NextImplements == Inv /\ [Next]_vars => [Event!Next]_<<cnt, Sent, Received>>
<1> SUFFICES ASSUME Inv, [Next]_vars PROVE [Event!Next]_<<cnt, Sent, Received>>
  OBVIOUS
<1> DEFINE Silent == UNCHANGED <<cnt, Sent, Received>>
<1>1. CASE UNCHANGED vars
  BY <1>1 DEF vars, Sent, Received
<1>2. ASSUME NEW p \in CPUs, Lock(p) \/ WfeSpurious(p) PROVE Silent
  <2>1. PICK label \in {"l1", "l2", "check", "stxr", "load", "store"} : Goto(p, label)
    BY <1>2 DEF Lock, Wfe, WfeSpurious, Ldaxr, Stxr, LoadCnt
  <2>2. pc[p] \notin {"unlock", "sev", "done"} /\ UNCHANGED <<cnt, got>>
    BY <1>2 DEF Lock, Wfe, WfeSpurious, Ldaxr, Stxr, LoadCnt
  <2>3. QED
    BY <2>1, <2>2, SilentStep
<1>3. ASSUME NEW s \in Senders, SenderStep(s) PROVE Silent \/ Event!Next
  <2> s \in CPUs
    BY DEF CPUs
  <2>1. CASE SendStart(s)
    BY <2>1, SilentStep DEF SendStart, SpinLock
  <2>2. CASE Lock(s)
    BY <2>2, <1>2
  <2>3. CASE SendStore(s)
    <3>1. s \notin Sent /\ reg[s] = cnt /\ inc[s] \in Incs
      BY <2>3 DEF SendStore, Sent, Inv, LoadedIsCurrent, TypeOK
    <3>2. \A q \in Senders : q \in CPUs
      BY DEF CPUs
    <3>3. Sent' = Sent \cup {s}
      BY <2>3, <3>2 DEF SendStore, Goto, Sent, Inv, TypeOK
    <3>4. Received' = Received /\ cnt' = cnt + inc[s]
      BY <2>3, <3>1 DEF SendStore, Received
    <3>5. Event!Send(s, inc[s])
      BY <3>1, <3>3, <3>4 DEF Event!Send, Sent, Received
    <3>6. \E q \in Senders, n \in Incs : Event!Send(q, n)
      BY <3>1, <3>5 DEF Event!Send, Sent, Received
    <3>7. QED
      BY <3>6 DEF Event!Next
  <2>4. CASE SendUnlock(s)
    BY <2>4, SilentStep DEF SendUnlock, SpinUnlock
  <2>5. CASE Sev(s)
    BY <2>5, SilentStep DEF Sev
  <2>6. QED
    BY <1>3, <2>1, <2>2, <2>3, <2>4, <2>5 DEF SenderStep
<1>4. ASSUME NEW w \in Waiters, WaiterStep(w) PROVE Silent \/ Event!Next
  <2> w \in CPUs /\ w \notin Senders
    BY EventAssumption DEF CPUs
  <2>1. CASE WaitCheck(w)
    <3>1. UNCHANGED <<cnt, got>> /\ (Goto(w, "wfe") \/ Goto(w, "l1"))
      BY <2>1 DEF WaitCheck, SpinLock
    <3>2. QED
      BY <3>1, SilentStep
  <2>2. CASE Lock(w)
    BY <2>2, <1>2
  <2>3. CASE WaitStore(w) /\ reg[w] = 0
    BY <2>3, SilentStep DEF WaitStore
  <2>4. CASE WaitStore(w) /\ reg[w] # 0
    <3>1. reg[w] = cnt /\ cnt > 0 /\ w \notin Received
      BY <2>4 DEF WaitStore, Inv, TypeOK, LoadedIsCurrent, TakenOnce, Received
    <3>2. Received' = Received \cup {w}
      BY <2>4 DEF WaitStore, Received, Inv, TypeOK
    <3>3. \A s \in Senders : pc'[s] = pc[s]
      BY <2>4 DEF WaitStore, Goto, Inv, TypeOK, CPUs
    <3>4. Sent' = Sent
      BY <3>3 DEF Sent
    <3>5. cnt' = cnt - 1
      BY <2>4, <3>1 DEF WaitStore
    <3>6. Event!Receive(w)
      BY <3>1, <3>2, <3>4, <3>5 DEF Event!Receive, Sent, Received
    <3>7. QED
      BY <3>6 DEF Event!Next
  <2>5. CASE WaitUnlock(w)
    BY <2>5, SilentStep DEF WaitUnlock, SpinUnlock
  <2>6. QED
    BY <1>4, <2>1, <2>2, <2>3, <2>4, <2>5 DEF WaiterStep
<1>5. CASE Next
  BY <1>2, <1>3, <1>4, <1>5 DEF Next
<1>6. QED
  BY <1>1, <1>5

(* val_send_event* and val_wait_for_event implement the counting event     *)
(* their header promises: no reception is lost, none is invented.          *)
THEOREM EventImplements == Spec => EventSpec
<1>1. Init => Event!Init
  BY EventAssumption, Zenon DEF Init, Event!Init, CPUs
<1>2. Inv /\ [Next]_vars => [Event!Next]_<<cnt, Sent, Received>>
  BY NextImplements
<1>3. QED
  BY <1>1, <1>2, EventInvariant, PTL DEF Spec, EventSpec, Event!Spec, Sent, Received

-----------------------------------------------------------------------------
(***************************************************************************)
(* The memory transaction descriptors.                                     *)
(***************************************************************************)
\* The sizes of the structures, whatever the version.
LEMMA Sizes ==
    /\ RegionSize \in {32, 48}
    /\ AccessSize \in {16, 32}
    /\ CompositeSize = 16
    /\ ConstituentSize = 16
BY DEF RegionSize, AccessSize, CompositeSize, ConstituentSize

\* The constituents copied are at most all of them and at most those that fit,
\* and as many as fit when they are fewer.
LEMMA CopiedBounds ==
    ASSUME NEW count \in Nat, NEW max \in Nat, NEW offset \in Nat
    PROVE  /\ Copied(count, max, offset) \in 0 .. count
           /\ offset <= max => offset + Copied(count, max, offset) * 16 <= max
           /\ Copied(count, max, offset) < count
                 => max < offset + (Copied(count, max, offset) + 1) * 16
<1> DEFINE q == (max - offset) \div 16
<1>1. CASE offset <= max /\ q < count
  <2>1. max - offset \in Nat
    BY <1>1
  <2>2. q \in Nat /\ q * 16 <= max - offset /\ max - offset < (q + 1) * 16
    BY <2>1
  <2>3. Copied(count, max, offset) = q
    BY <1>1 DEF Copied, ConstituentSize
  <2> HIDE DEF q
  <2> QED BY <1>1, <2>1, <2>2, <2>3
<1>2. CASE ~(offset <= max /\ q < count)
  <2>1. Copied(count, max, offset) = count
    BY <1>2 DEF Copied, ConstituentSize
  <2>2. ASSUME offset <= max PROVE offset + count * 16 <= max
    <3>1. max - offset \in Nat
      BY <2>2
    <3>2. q \in Nat /\ q * 16 <= max - offset /\ count <= q
      BY <1>2, <2>2, <3>1
    <3> HIDE DEF q
    <3> QED BY <3>1, <3>2
  <2> QED BY <2>1, <2>2
<1> QED BY <1>1, <1>2

-----------------------------------------------------------------------------
\* What the callers fill in: one receiver, or a list of them.
Request(init) ==
    /\ init.multi \in BOOLEAN
    /\ init.receivers \in Seq(Nat) /\ Len(init.receivers) > 0
    /\ init.max \in Nat

ReceiverCount(init) == IF init.multi THEN Len(init.receivers) ELSE 1

\* The constituents begin behind the header, the receivers and the composite.
Offset(init) == RegionSize + ReceiverCount(init) * AccessSize + CompositeSize

LEMMA OffsetType ==
    ASSUME NEW init, Request(init)
    PROVE  /\ ReceiverCount(init) \in Nat \ {0}
           /\ Offset(init) \in Nat
           /\ RegionSize + ReceiverCount(init) * AccessSize \in Nat \ {0}
<1>1. ReceiverCount(init) \in Nat \ {0}
  BY DEF Request, ReceiverCount
<1>2. ReceiverCount(init) * AccessSize \in Nat
  BY <1>1, Sizes
<1> QED BY <1>1, <1>2, Sizes DEF Offset

LEMMA Listed ==
    ASSUME NEW init, Request(init), NEW handle
    PROVE  LET w == WithReceivers(Header(init, handle), init)
           IN  /\ w = [sender |-> init.sender, attributes |-> Attributes(init),
                       handle |-> handle, receivers |-> w.receivers]
               /\ w.receivers = [i \in 1 .. ReceiverCount(init) |->
                    Access(IF init.multi THEN init.receivers[i] ELSE init.receiver,
                           init, 0)]
               /\ Len(w.receivers) = ReceiverCount(init)
<1> DEFINE w == WithReceivers(Header(init, handle), init)
           rs == [i \in 1 .. ReceiverCount(init) |->
                    Access(IF init.multi THEN init.receivers[i] ELSE init.receiver,
                           init, 0)]
<1>1. ReceiverCount(init) \in Nat
  BY OffsetType
<1>2. CASE init.multi
  <2>1. w = [Header(init, handle) EXCEPT !.receivers =
               [i \in 1 .. Len(init.receivers) |-> Access(init.receivers[i], init, 0)]]
    BY <1>2 DEF WithReceivers
  <2>2. [i \in 1 .. Len(init.receivers) |-> Access(init.receivers[i], init, 0)] = rs
    BY <1>2 DEF ReceiverCount
  <2> HIDE DEF rs
  <2>3. w = [sender |-> init.sender, attributes |-> Attributes(init),
             handle |-> handle, receivers |-> rs]
    BY <2>1, <2>2, Zenon DEF Header
  <2> USE DEF rs
  <2> QED BY <1>1, <2>3
<1>3. CASE ~init.multi
  <2>1. w = Header(init, handle)
    BY <1>3 DEF WithReceivers
  <2>2. w.receivers = <<Access(init.receiver, init, 0)>>
    BY <2>1, <1>3 DEF Header
  <2>3. <<Access(init.receiver, init, 0)>> = rs
    BY <1>3 DEF ReceiverCount
  <2> QED BY <1>1, <2>1, <2>2, <2>3 DEF Header
<1>4. init.multi \in BOOLEAN
  BY DEF Request
<1> QED BY <1>2, <1>3, <1>4

\* Every receiver points to the same composite descriptor, right behind the
\* array of receivers.
LEMMA Placed ==
    ASSUME NEW init, Request(init)
    PROVE  LET r == WithOffsets(WithReceivers(Header(init, 0), init))
           IN  /\ Len(r.receivers) = ReceiverCount(init)
               /\ \A i \in 1 .. ReceiverCount(init) :
                     r.receivers[i].offset = RegionSize + ReceiverCount(init) * AccessSize
<1> DEFINE w == WithReceivers(Header(init, 0), init)
           r == WithOffsets(w)
           n == ReceiverCount(init)
<1>1. n \in Nat \ {0}
  BY OffsetType
<1>2. /\ w = [sender |-> init.sender, attributes |-> Attributes(init),
              handle |-> 0, receivers |-> w.receivers]
      /\ Len(w.receivers) = n
      /\ w.receivers = [i \in 1 .. n |->
           Access(IF init.multi THEN init.receivers[i] ELSE init.receiver, init, 0)]
  BY Listed
<1>3. CompositeOffset(w) = RegionSize + n * AccessSize
  BY <1>2 DEF CompositeOffset
<1> HIDE DEF w, n
<1>4. r.receivers = [i \in 1 .. n |->
                       [w.receivers[i] EXCEPT !.offset = CompositeOffset(w)]]
  BY <1>2 DEF WithOffsets
<1>5. Len(r.receivers) = n
  BY <1>1, <1>4
<1>6. ASSUME NEW i \in 1 .. n PROVE r.receivers[i].offset = CompositeOffset(w)
  <2>1. w.receivers[i] = Access(IF init.multi THEN init.receivers[i] ELSE init.receiver,
                                init, 0)
    BY <1>2
  <2>2. r.receivers[i] = [w.receivers[i] EXCEPT !.offset = CompositeOffset(w)]
    BY <1>4
  <2> QED BY <2>1, <2>2 DEF Access
<1> QED BY <1>3, <1>5, <1>6 DEF w, n

LEMMA Lengths ==
    ASSUME NEW init, Request(init), NEW S, NEW constituents \in Seq(S)
    PROVE  LET d == val_ffa_memory_region_init(init, constituents)
               n == Copied(Len(constituents), init.max, Offset(init))
           IN  /\ d.total = Offset(init) + Len(constituents) * 16
               /\ d.fragment = Offset(init) + n * 16
               /\ d.remaining = Len(constituents) - n
               /\ d.region = WithOffsets(WithReceivers(Header(init, 0), init))
<1> DEFINE r == WithOffsets(WithReceivers(Header(init, 0), init))
<1>1. r.receivers[1].offset = RegionSize + ReceiverCount(init) * AccessSize
  <2>1. \A i \in 1 .. ReceiverCount(init) :
            r.receivers[i].offset = RegionSize + ReceiverCount(init) * AccessSize
    BY Placed, Zenon
  <2>2. ReceiverCount(init) \in Nat \ {0}
    BY OffsetType, Zenon
  <2>3. 1 \in 1 .. ReceiverCount(init)
    BY <2>2
  <2> QED BY <2>1, <2>3, Zenon
<1> HIDE DEF r
<1>2. ffa_memory_region_get_composite(r) + CompositeSize = Offset(init)
  <2>1. ffa_memory_region_get_composite(r) = RegionSize + ReceiverCount(init) * AccessSize
    BY <1>1 DEF ffa_memory_region_get_composite
  <2> QED BY <2>1 DEF Offset
<1> QED BY <1>2 DEF val_ffa_memory_region_init, r, ConstituentSize

-----------------------------------------------------------------------------
\* val_ffa_memory_region_init: the composite descriptor lies right behind the
\* array of receivers, every receiver points to it, and the address each of
\* the three starts at is a multiple of 16, as the structures need, in every
\* version of the headers.
THEOREM DescriptorLayout ==
    ASSUME NEW init, Request(init), NEW S, NEW constituents \in Seq(S)
    PROVE  LET r == val_ffa_memory_region_init(init, constituents).region
           IN  /\ Len(r.receivers) = ReceiverCount(init)
               /\ \A i \in 1 .. ReceiverCount(init) :
                     r.receivers[i].offset = EP_MEM_ACCESS_DESC_ARR_OFFSET
                                                + ReceiverCount(init) * AccessSize
               /\ \E k \in Nat : EP_MEM_ACCESS_DESC_ARR_OFFSET
                                    + ReceiverCount(init) * AccessSize = 16 * k
<1>1. EP_MEM_ACCESS_DESC_ARR_OFFSET = RegionSize
  BY DEF EP_MEM_ACCESS_DESC_ARR_OFFSET, RegionSize
<1>2. \E k \in Nat : RegionSize + ReceiverCount(init) * AccessSize = 16 * k
  <2>1. ReceiverCount(init) \in Nat
    BY OffsetType
  <2>2. PICK h \in Nat : RegionSize = 16 * h
    <3>1. RegionSize = 16 * 2 \/ RegionSize = 16 * 3
      BY Sizes
    <3>2. CASE RegionSize = 16 * 2
      BY <3>2, 2 \in Nat
    <3>3. CASE RegionSize = 16 * 3
      BY <3>3, 3 \in Nat
    <3> QED BY <3>1, <3>2, <3>3
  <2>3. CASE AccessSize = 16
    <3> USE <2>1
    <3> WITNESS h + ReceiverCount(init) \in Nat
    <3> QED BY <2>2, <2>3
  <2>4. CASE AccessSize = 32
    <3> USE <2>1
    <3> WITNESS h + ReceiverCount(init) * 2 \in Nat
    <3> QED BY <2>2, <2>4
  <2> QED BY <2>3, <2>4, Sizes
<1> QED BY <1>1, <1>2, Placed, Lengths

\* val_ffa_memory_region_init: what is left of the total length after the
\* fragment is exactly the constituents reported as remaining; in particular a
\* caller that finds none remaining has built the whole descriptor, which is
\* when the tests call FFA_MEM_LEND with equal lengths.
THEOREM RemainingIsTheRest ==
    ASSUME NEW init, Request(init), NEW S, NEW constituents \in Seq(S)
    PROVE  LET d == val_ffa_memory_region_init(init, constituents)
           IN  /\ d.total - d.fragment = d.remaining * ConstituentSize
               /\ d.remaining \in 0 .. Len(constituents)
               /\ d.remaining = 0 <=> d.fragment = d.total
<1> DEFINE d == val_ffa_memory_region_init(init, constituents)
           n == Copied(Len(constituents), init.max, Offset(init))
<1>1. Len(constituents) \in Nat /\ Offset(init) \in Nat /\ init.max \in Nat
  BY OffsetType DEF Request
<1>2. n \in 0 .. Len(constituents)
  BY <1>1, CopiedBounds, Zenon
<1>3. /\ d.total = Offset(init) + Len(constituents) * 16
      /\ d.fragment = Offset(init) + n * 16
      /\ d.remaining = Len(constituents) - n
  BY Lengths
<1> HIDE DEF d, n
<1> QED BY <1>1, <1>2, <1>3, Sizes DEF d

\* val_ffa_memory_region_init: when the maximum size is at least that of the
\* header, the fragment stays within it, and if constituents remain one more
\* would not have fitted.
THEOREM FragmentFits ==
    ASSUME NEW init, Request(init), NEW S, NEW constituents \in Seq(S),
           Offset(init) <= init.max
    PROVE  LET d == val_ffa_memory_region_init(init, constituents)
           IN  /\ d.fragment <= init.max
               /\ d.remaining > 0 => init.max < d.fragment + ConstituentSize
<1> DEFINE d == val_ffa_memory_region_init(init, constituents)
           n == Copied(Len(constituents), init.max, Offset(init))
<1>1. Len(constituents) \in Nat /\ Offset(init) \in Nat /\ init.max \in Nat
  BY OffsetType DEF Request
<1>2. /\ n \in 0 .. Len(constituents)
      /\ Offset(init) + n * 16 <= init.max
      /\ n < Len(constituents) => init.max < Offset(init) + (n + 1) * 16
  BY <1>1, CopiedBounds, Zenon
<1>3. /\ d.fragment = Offset(init) + n * 16
      /\ d.remaining = Len(constituents) - n
  BY Lengths
<1> HIDE DEF d, n
<1> QED BY <1>1, <1>2, <1>3, Sizes DEF d

\* val_ffa_memory_region_init: the tests leave the maximum size zero.  Then the
\* bound on the constituents has no effect, all of them are copied, however
\* many there are and whatever the size of the buffer.
THEOREM UnsizedCopiesAll ==
    ASSUME NEW init, Request(init), init.max = 0,
           NEW S, NEW constituents \in Seq(S)
    PROVE  LET d == val_ffa_memory_region_init(init, constituents)
           IN  d.remaining = 0 /\ d.fragment = d.total
<1> DEFINE d == val_ffa_memory_region_init(init, constituents)
           n == Copied(Len(constituents), init.max, Offset(init))
<1>1. Len(constituents) \in Nat /\ Offset(init) \in Nat
  BY OffsetType
<1>2. Offset(init) > 0
  BY OffsetType, Sizes DEF Offset
<1>3. n = Len(constituents)
  BY <1>1, <1>2 DEF Copied
<1>4. /\ d.total = Offset(init) + Len(constituents) * 16
      /\ d.fragment = Offset(init) + n * 16
      /\ d.remaining = Len(constituents) - n
  BY Lengths
<1> HIDE DEF d, n
<1> QED BY <1>1, <1>3, <1>4 DEF d

-----------------------------------------------------------------------------
\* ATTR_FUNCTION_SET and ATTR_FUNCTION_GET: a field reads back what was written
\* to it, and writing it leaves the other fields of the byte alone.
THEOREM FieldsAreIndependent ==
    ASSUME NEW attr \in 0 .. 255, NEW value \in 0 .. 3,
           NEW low \in {0, 2, 4}, NEW other \in {0, 2, 4}
    PROVE  Field(SetField(attr, low, value), other) =
               IF other = low THEN value ELSE Field(attr, other)
<1>1. 2 ^ 0 = 1 /\ 2 ^ 2 = 4 /\ 2 ^ 4 = 16 /\ 2 ^ 6 = 64
  OBVIOUS
<1>2. PICK a \in 0 .. 3, b \in 0 .. 3, c \in 0 .. 3, e \in 0 .. 3 :
         attr = a + 4 * b + 16 * c + 64 * e
  <2> WITNESS attr % 4 \in 0 .. 3, (attr \div 4) % 4 \in 0 .. 3,
              (attr \div 16) % 4 \in 0 .. 3, attr \div 64 \in 0 .. 3
  <2> QED OBVIOUS
<1>3. value % 4 = value
  OBVIOUS
<1>4. ASSUME NEW p \in 0 .. 3, NEW q \in 0 .. 3, NEW r \in 0 .. 3, NEW t \in 0 .. 3
      PROVE  LET w == p + 4 * q + 16 * r + 64 * t
             IN  Field(w, 0) = p /\ Field(w, 2) = q /\ Field(w, 4) = r
  BY <1>1 DEF Field
<1>5. CASE low = 0
  <2>1. SetField(attr, low, value) = value + 4 * b + 16 * c + 64 * e
    BY <1>1, <1>2, <1>3, <1>4, <1>5 DEF SetField
  <2> QED BY <1>2, <1>4, <1>5, <2>1
<1>6. CASE low = 2
  <2>1. SetField(attr, low, value) = a + 4 * value + 16 * c + 64 * e
    BY <1>1, <1>2, <1>3, <1>4, <1>6 DEF SetField
  <2> QED BY <1>2, <1>4, <1>6, <2>1
<1>7. CASE low = 4
  <2>1. SetField(attr, low, value) = a + 4 * b + 16 * value + 64 * e
    BY <1>1, <1>2, <1>3, <1>4, <1>7 DEF SetField
  <2> QED BY <1>2, <1>4, <1>7, <2>1
<1> QED BY <1>5, <1>6, <1>7
=============================================================================
