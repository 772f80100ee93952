--------------------------- MODULE MultiPeProofs ---------------------------
(***************************************************************************)
(* Proofs about MultiPe, for any number of CPUs and any sequence of tests. *)
(***************************************************************************)
EXTENDS MultiPe, TLAPS

\* Inside a test function, and started but not past it.
InFunction == {"run", "select", "message", "finish", "stuck"}
Started == {"entry", "fetch"} \cup InFunction

\* The entry of a CPU in g_mp_state tells where the CPU is: in progress from
\* its first store to its last, and complete only with the result stored.
EntryFollowsCpu ==
    \A c \in Secondaries :
        /\ spc[c] \in {"fetch", "result", "complete"} \cup InFunction
             => state[c] = "INPROGRESS"
        /\ spc[c] = "complete" => result[c] = run[c]
        /\ spc[c] \in {"result", "complete", "poweroff"} => run[c].status # "invalid"
        /\ state[c] = "COMPLETE"
             => /\ spc[c] \in {"off", "entry", "poweroff"}
                /\ result[c] = run[c] /\ run[c].status # "invalid"

\* A CPU that has not returned from its test function is the one the boot CPU
\* waits for.
StartedIsAwaited ==
    \A c \in Secondaries :
        spc[c] \in Started => pc = "wait" /\ c = Cpu

\* An event is pending only for the CPU the boot CPU waits for, once it ran.
EventOfThisTest ==
    pc \in {"power", "wait"} =>
        \A k \in DOMAIN Plan[test] :
            /\ k > i \/ (k = i /\ pc = "power") => booted[Plan[test][k]] = 0
            /\ k = i /\ pc = "wait" /\ booted[Cpu] > 0
                 => run[Cpu].test = test /\ spc[Cpu] \notin Started

\* The test function has started on a CPU that has its test number.
RunsThisTest == \A c \in Secondaries : spc[c] \in InFunction => run[c].test = test

\* The CPUs the boot CPU has waited for ran the function of this test.
AwaitedRanThisTest ==
    pc \in {"power", "wait", "poll", "collect"} =>
        \A k \in DOMAIN Plan[test] :
            k < i \/ pc \in {"poll", "collect"} => run[Plan[test][k]].test = test

\* Unless a message was refused, SP1's context of a CPU is where the CPU's test
\* function expects it: in the server function between two messages, and in its
\* loop otherwise.
InStep ==
    \A c \in Secondaries :
        ~refused[c] =>
            /\ spc[c] = "message" => ec[c] = "server"
            /\ spc[c] = "finish" => ec[c] = "served"
            /\ spc[c] \notin {"message", "finish"} => ec[c] \in {"none", "loop"}
            /\ spc[c] # "stuck"

(* A CPU gets no answer from SP1's context of it only after the SPMC has   *)
(* refused one of that CPU's messages, in this test or an earlier one.     *)
StuckOnlyAfterRefusal == \A c \in Secondaries : spc[c] = "stuck" => refused[c]

Inv == /\ TypeOK /\ ResetNotOverwritten /\ EntryFollowsCpu /\ StartedIsAwaited
       /\ EventOfThisTest /\ RunsThisTest /\ AwaitedRanThisTest /\ InStep

(* The CPUs of a test's plan are secondary CPUs, so that the CPU the boot  *)
(* CPU deals with is one.                                                  *)
LEMMA PlanTypes ==
    /\ Len(Plan) \in Nat /\ DOMAIN Plan = 1 .. Len(Plan) /\ 1 \in DOMAIN Plan
    /\ \A t \in DOMAIN Plan :
          /\ Len(Plan[t]) \in Nat /\ DOMAIN Plan[t] = 1 .. Len(Plan[t])
          /\ 1 \in DOMAIN Plan[t]
          /\ \A k \in DOMAIN Plan[t] : Plan[t][k] \in Secondaries
          /\ \A j, k \in DOMAIN Plan[t] : Plan[t][j] = Plan[t][k] => j = k
<1>1. Plan \in Seq(Seq(Secondaries))
  BY PlanAssumption
<1>2. Len(Plan) \in Nat /\ DOMAIN Plan = 1 .. Len(Plan) /\ 1 \in DOMAIN Plan
  BY <1>1, PlanAssumption
<1>3. ASSUME NEW t \in DOMAIN Plan
      PROVE  /\ Len(Plan[t]) \in Nat /\ DOMAIN Plan[t] = 1 .. Len(Plan[t])
             /\ 1 \in DOMAIN Plan[t]
             /\ \A k \in DOMAIN Plan[t] : Plan[t][k] \in Secondaries
  <2>1. Plan[t] \in Seq(Secondaries) /\ Plan[t] # <<>>
    BY <1>1, PlanAssumption
  <2> QED
    BY <2>1
<1> QED
  BY <1>2, <1>3, PlanAssumption

(* Before the first test no CPU has started and nothing is stored.         *)
LEMMA InitInv == Init => Inv
<1> SUFFICES ASSUME Init PROVE Inv
  OBVIOUS
<1> USE DEF Init, val_ffa_secondary_ep_register_64, Started, InFunction
<1>0. 1 \in DOMAIN Plan => 1 \in DOMAIN Plan[1]
  BY PlanTypes
<1>1. TypeOK
  BY <1>0, PlanTypes DEF TypeOK, Results, Invalid
<1>2. ResetNotOverwritten /\ EntryFollowsCpu /\ StartedIsAwaited /\ RunsThisTest
  BY DEF ResetNotOverwritten, EntryFollowsCpu, StartedIsAwaited, RunsThisTest
<1>3. EventOfThisTest /\ AwaitedRanThisTest
  BY <1>1, PlanTypes DEF EventOfThisTest, AwaitedRanThisTest, TypeOK
<1>4. InStep
  BY DEF InStep
<1> QED
  BY <1>1, <1>2, <1>3, <1>4 DEF Inv

(* When a test returns, the next one starts with its first CPU and with    *)
(* its events initialised, or the regression is over.                      *)
LEMMA NextTestFacts ==
    ASSUME TypeOK, test \in DOMAIN Plan, NextTest
    PROVE  /\ test' \in 1 .. Len(Plan) + 1 /\ i' = 1
           /\ pc' \in {"power", "exit"}
           /\ pc' = "power" => test' \in DOMAIN Plan /\ i' \in DOMAIN Plan[test']
           /\ booted' \in [Secondaries -> Nat]
           /\ EventOfThisTest' /\ AwaitedRanThisTest'
<1>1. CASE test < Len(Plan)
  <2>1. /\ test' = test + 1 /\ i' = 1 /\ pc' = "power"
        /\ booted' = [c \in Secondaries |->
                        IF \E k \in DOMAIN Plan[test + 1] : Plan[test + 1][k] = c
                          THEN 0 ELSE booted[c]]
    BY <1>1 DEF NextTest
  <2>2. test + 1 \in DOMAIN Plan
    BY <1>1, PlanTypes
  <2>3. 1 \in DOMAIN Plan[test']
    BY <2>1, <2>2, PlanTypes
  <2>4. booted' \in [Secondaries -> Nat]
    BY <2>1 DEF TypeOK
  <2>5. \A k \in DOMAIN Plan[test'] : booted'[Plan[test'][k]] = 0
    BY <2>1, <2>2, PlanTypes
  <2>6. EventOfThisTest'
    BY <2>1, <2>5 DEF EventOfThisTest
  <2>7. \A k \in DOMAIN Plan[test'] : ~(k < i')
    BY <2>1, <2>2, PlanTypes
  <2>8. AwaitedRanThisTest'
    BY <2>1, <2>7 DEF AwaitedRanThisTest
  <2> QED
    BY <2>1, <2>2, <2>3, <2>4, <2>6, <2>8, PlanTypes
<1>2. CASE ~(test < Len(Plan))
  BY <1>2, PlanTypes DEF NextTest, TypeOK, EventOfThisTest, AwaitedRanThisTest
<1> QED
  BY <1>1, <1>2

(* The first store of a CPU, which marks its entry in progress.            *)
LEMMA EntryInv == ASSUME Inv, NEW c \in Secondaries, SecEntry(c) PROVE Inv'
<1> USE PlanTypes DEF Inv, Cpu, sp, Started, InFunction, SecEntry, primary, At
<1>1. TypeOK'
  BY DEF TypeOK, Results, Invalid
<1>2. ResetNotOverwritten'
  BY DEF TypeOK, ResetNotOverwritten, EntryFollowsCpu
<1>3. EntryFollowsCpu'
  BY DEF TypeOK, EntryFollowsCpu, ResetNotOverwritten, Results
<1>4. StartedIsAwaited'
  BY DEF TypeOK, StartedIsAwaited, EventOfThisTest
<1>5. EventOfThisTest'
  BY DEF TypeOK, EventOfThisTest, StartedIsAwaited, RunsThisTest
<1>6. RunsThisTest'
  BY DEF TypeOK, RunsThisTest, StartedIsAwaited
<1>7. AwaitedRanThisTest'
  BY DEF TypeOK, AwaitedRanThisTest, StartedIsAwaited, EventOfThisTest
<1>8. InStep'
  BY DEF TypeOK, InStep
<1> QED
  BY <1>1, <1>2, <1>3, <1>4, <1>5, <1>6, <1>7, <1>8

(* The CPU takes the number of the test the boot CPU waits in.             *)
LEMMA FetchInv == ASSUME Inv, NEW c \in Secondaries, SecFetch(c) PROVE Inv'
<1> USE PlanTypes DEF Inv, Cpu, sp, Started, InFunction, SecFetch, primary, At
<1>1. TypeOK'
  BY DEF TypeOK, Results, Invalid
<1>2. ResetNotOverwritten'
  BY DEF TypeOK, ResetNotOverwritten, EntryFollowsCpu
<1>3. EntryFollowsCpu'
  BY DEF TypeOK, EntryFollowsCpu, ResetNotOverwritten, Results
<1>4. StartedIsAwaited'
  BY DEF TypeOK, StartedIsAwaited, EventOfThisTest
<1>5. EventOfThisTest'
  BY DEF TypeOK, EventOfThisTest, StartedIsAwaited, RunsThisTest
<1>6. RunsThisTest'
  BY DEF TypeOK, RunsThisTest, StartedIsAwaited
<1>7. AwaitedRanThisTest'
  BY DEF TypeOK, AwaitedRanThisTest, StartedIsAwaited, EventOfThisTest
<1>8. InStep'
  BY DEF TypeOK, InStep
<1> QED
  BY <1>1, <1>2, <1>3, <1>4, <1>5, <1>6, <1>7, <1>8

(* The test function sends its event or fails before it does.              *)
LEMMA RunInv == ASSUME Inv, NEW c \in Secondaries, NEW signals \in BOOLEAN,
    NEW s \in {"pass", "fail"}, SecRun(c, signals, s) PROVE Inv'
<1> USE PlanTypes DEF Inv, Cpu, sp, Started, InFunction, SecRun, primary, At
<1>1. TypeOK'
  <2>1. run[c] \in Results
    BY DEF TypeOK
  <2>2. [run[c] EXCEPT !.status = s] \in Results
    BY <2>1 DEF Results
  <2>3. run' \in [Secondaries -> Results]
    BY <2>2 DEF TypeOK
  <2>4. booted' \in [Secondaries -> Nat]
    BY DEF TypeOK
  <2> QED
    BY <2>3, <2>4 DEF TypeOK
<1>2. ResetNotOverwritten'
  BY DEF TypeOK, ResetNotOverwritten, EntryFollowsCpu
<1>3. EntryFollowsCpu'
  BY DEF TypeOK, EntryFollowsCpu, ResetNotOverwritten, Results
<1>4. StartedIsAwaited'
  BY DEF TypeOK, StartedIsAwaited, EventOfThisTest
<1>5. EventOfThisTest'
  BY DEF TypeOK, EventOfThisTest, StartedIsAwaited, RunsThisTest
<1>6. RunsThisTest'
  BY DEF TypeOK, RunsThisTest, StartedIsAwaited
<1>7. AwaitedRanThisTest'
  BY DEF TypeOK, AwaitedRanThisTest, StartedIsAwaited, EventOfThisTest
<1>8. InStep'
  BY DEF TypeOK, InStep
<1> QED
  BY <1>1, <1>2, <1>3, <1>4, <1>5, <1>6, <1>7, <1>8

(* The server function is selected, or the request refused.                *)
LEMMA SelectInv == ASSUME Inv, NEW c \in Secondaries, SecSelect(c) PROVE Inv'
<1> USE PlanTypes DEF Inv, Cpu, sp, Started, InFunction, SecSelect, primary, At, Delivered, Refused,
       val_sec_cpu_wait_for_test_fn_req, mp_execution_contexts_sec_cpu_server
<1>1. TypeOK'
  BY DEF TypeOK, Results, Invalid
<1>2. ResetNotOverwritten'
  BY DEF TypeOK, ResetNotOverwritten, EntryFollowsCpu
<1>3. EntryFollowsCpu'
  BY DEF TypeOK, EntryFollowsCpu, ResetNotOverwritten, Results
<1>4. StartedIsAwaited'
  BY DEF TypeOK, StartedIsAwaited, EventOfThisTest
<1>5. EventOfThisTest'
  BY DEF TypeOK, EventOfThisTest, StartedIsAwaited, RunsThisTest
<1>6. RunsThisTest'
  BY DEF TypeOK, RunsThisTest, StartedIsAwaited
<1>7. AwaitedRanThisTest'
  BY DEF TypeOK, AwaitedRanThisTest, StartedIsAwaited, EventOfThisTest
<1>8. InStep'
  BY DEF TypeOK, InStep
<1> QED
  BY <1>1, <1>2, <1>3, <1>4, <1>5, <1>6, <1>7, <1>8

(* The message finds the server function, the loop or neither.             *)
LEMMA MessageInv == ASSUME Inv, NEW c \in Secondaries, SecMessage(c) PROVE Inv'
<1> USE PlanTypes DEF Inv, Cpu, sp, Started, InFunction, SecMessage, primary, At, Delivered, Refused,
       val_sec_cpu_wait_for_test_fn_req, mp_execution_contexts_sec_cpu_server
<1>1. TypeOK'
  <2>1. run[c] \in Results
    BY DEF TypeOK
  <2>2. [run[c] EXCEPT !.status = "fail"] \in Results
    BY <2>1 DEF Results
  <2>0. run' = run \/ run' = [run EXCEPT ![c].status = "fail"]
    OBVIOUS
  <2>3. run' \in [Secondaries -> Results]
    <3> HIDE DEF SecMessage
    <3>1. CASE run' = run
      BY <3>1 DEF TypeOK
    <3>2. CASE run' = [run EXCEPT ![c].status = "fail"]
      BY <2>2, <3>2 DEF TypeOK
    <3> QED
      BY <2>0, <3>1, <3>2
  <2>4. spc' \in [Secondaries -> {"off", "entry", "fetch", "run", "select", "message",
                                  "finish", "stuck", "result", "complete", "poweroff"}]
    BY DEF TypeOK
  <2>5. ec' \in [Secondaries -> {"none", "loop", "server", "served", "stopped"}]
    BY DEF TypeOK
  <2>6. refused' \in [Secondaries -> BOOLEAN]
    BY DEF TypeOK
  <2>7. booted' \in [Secondaries -> Nat]
    BY DEF TypeOK
  <2> QED
    BY <2>3, <2>4, <2>5, <2>6, <2>7 DEF TypeOK
<1>2. ResetNotOverwritten'
  BY DEF TypeOK, ResetNotOverwritten, EntryFollowsCpu
<1>3. EntryFollowsCpu'
  BY DEF TypeOK, EntryFollowsCpu, ResetNotOverwritten, Results
<1>4. StartedIsAwaited'
  BY DEF TypeOK, StartedIsAwaited, EventOfThisTest
<1>5. EventOfThisTest'
  BY DEF TypeOK, EventOfThisTest, StartedIsAwaited, RunsThisTest
<1>6. RunsThisTest'
  BY DEF TypeOK, RunsThisTest, StartedIsAwaited
<1>7. AwaitedRanThisTest'
  BY DEF TypeOK, AwaitedRanThisTest, StartedIsAwaited, EventOfThisTest
<1>8. InStep'
  <2>1. CASE ec[c] = "server" /\ At(c, "message", "finish") /\ Delivered(c, "REQ_64")
    BY <2>1 DEF TypeOK, InStep
  <2>2. CASE ec[c] = "loop" /\ At(c, "message", "stuck") /\ Delivered(c, "REQ_64")
    BY <2>2 DEF TypeOK, InStep
  <2>3. CASE At(c, "message", "result") /\ ec[c] = "served" /\ Delivered(c, "REQ_64")
    BY <2>3 DEF TypeOK, InStep
  <2>4. CASE At(c, "message", "result") /\ Refused(c)
    BY <2>4 DEF TypeOK, InStep
  <2> QED
    BY <2>1, <2>2, <2>3, <2>4
<1> QED
  BY <1>1, <1>2, <1>3, <1>4, <1>5, <1>6, <1>7, <1>8

(* The CPU sends its event whatever came of the last request.              *)
LEMMA FinishInv == ASSUME Inv, NEW c \in Secondaries, SecFinish(c) PROVE Inv'
<1> USE PlanTypes DEF Inv, Cpu, sp, Started, InFunction, SecFinish, primary, At, Delivered, Refused,
       val_sec_cpu_wait_for_test_fn_req, mp_execution_contexts_sec_cpu_server
<1>1. TypeOK'
  <2>1. run[c] \in Results
    BY DEF TypeOK
  <2>2. [run[c] EXCEPT !.status = "pass"] \in Results
    BY <2>1 DEF Results
  <2>3. run' \in [Secondaries -> Results]
    BY <2>2 DEF TypeOK
  <2>4. spc' \in [Secondaries -> {"off", "entry", "fetch", "run", "select", "message",
                                  "finish", "stuck", "result", "complete", "poweroff"}]
    BY DEF TypeOK
  <2>5. ec' \in [Secondaries -> {"none", "loop", "server", "served", "stopped"}]
    BY DEF TypeOK
  <2>6. refused' \in [Secondaries -> BOOLEAN]
    BY DEF TypeOK
  <2>7. booted' \in [Secondaries -> Nat]
    BY DEF TypeOK
  <2> QED
    BY <2>3, <2>4, <2>5, <2>6, <2>7 DEF TypeOK
<1>2. ResetNotOverwritten'
  BY DEF TypeOK, ResetNotOverwritten, EntryFollowsCpu
<1>3. EntryFollowsCpu'
  BY DEF TypeOK, EntryFollowsCpu, ResetNotOverwritten, Results
<1>4. StartedIsAwaited'
  BY DEF TypeOK, StartedIsAwaited, EventOfThisTest
<1>5. EventOfThisTest'
  BY DEF TypeOK, EventOfThisTest, StartedIsAwaited, RunsThisTest
<1>6. RunsThisTest'
  BY DEF TypeOK, RunsThisTest, StartedIsAwaited
<1>7. AwaitedRanThisTest'
  BY DEF TypeOK, AwaitedRanThisTest, StartedIsAwaited, EventOfThisTest
<1>8. InStep'
  BY DEF TypeOK, InStep
<1> QED
  BY <1>1, <1>2, <1>3, <1>4, <1>5, <1>6, <1>7, <1>8

(* The result is stored while the entry is in progress.                    *)
LEMMA ResultInv == ASSUME Inv, NEW c \in Secondaries, SecResult(c) PROVE Inv'
<1> USE PlanTypes DEF Inv, Cpu, sp, Started, InFunction, SecResult, primary, At
<1>1. TypeOK'
  BY DEF TypeOK, Results, Invalid
<1>2. ResetNotOverwritten'
  BY DEF TypeOK, ResetNotOverwritten, EntryFollowsCpu
<1>3. EntryFollowsCpu'
  BY DEF TypeOK, EntryFollowsCpu, ResetNotOverwritten, Results
<1>4. StartedIsAwaited'
  BY DEF TypeOK, StartedIsAwaited, EventOfThisTest
<1>5. EventOfThisTest'
  BY DEF TypeOK, EventOfThisTest, StartedIsAwaited, RunsThisTest
<1>6. RunsThisTest'
  BY DEF TypeOK, RunsThisTest, StartedIsAwaited
<1>7. AwaitedRanThisTest'
  BY DEF TypeOK, AwaitedRanThisTest, StartedIsAwaited, EventOfThisTest
<1>8. InStep'
  BY DEF TypeOK, InStep
<1> QED
  BY <1>1, <1>2, <1>3, <1>4, <1>5, <1>6, <1>7, <1>8

(* The entry is marked complete once the result is stored.                 *)
LEMMA CompleteInv == ASSUME Inv, NEW c \in Secondaries, SecComplete(c) PROVE Inv'
<1> USE PlanTypes DEF Inv, Cpu, sp, Started, InFunction, SecComplete, primary, At
<1>1. TypeOK'
  BY DEF TypeOK, Results, Invalid
<1>2. ResetNotOverwritten'
  BY DEF TypeOK, ResetNotOverwritten, EntryFollowsCpu
<1>3. EntryFollowsCpu'
  BY DEF TypeOK, EntryFollowsCpu, ResetNotOverwritten, Results
<1>4. StartedIsAwaited'
  BY DEF TypeOK, StartedIsAwaited, EventOfThisTest
<1>5. EventOfThisTest'
  BY DEF TypeOK, EventOfThisTest, StartedIsAwaited, RunsThisTest
<1>6. RunsThisTest'
  BY DEF TypeOK, RunsThisTest, StartedIsAwaited
<1>7. AwaitedRanThisTest'
  BY DEF TypeOK, AwaitedRanThisTest, StartedIsAwaited, EventOfThisTest
<1>8. InStep'
  BY DEF TypeOK, InStep
<1> QED
  BY <1>1, <1>2, <1>3, <1>4, <1>5, <1>6, <1>7, <1>8

(* Powering off stores nothing.                                            *)
LEMMA PowerOffInv == ASSUME Inv, NEW c \in Secondaries, SecPowerOff(c) PROVE Inv'
<1> USE PlanTypes DEF Inv, Cpu, sp, Started, InFunction, SecPowerOff, primary, At
<1>1. TypeOK'
  BY DEF TypeOK, Results, Invalid
<1>2. ResetNotOverwritten'
  BY DEF TypeOK, ResetNotOverwritten, EntryFollowsCpu
<1>3. EntryFollowsCpu'
  BY DEF TypeOK, EntryFollowsCpu, ResetNotOverwritten, Results
<1>4. StartedIsAwaited'
  BY DEF TypeOK, StartedIsAwaited, EventOfThisTest
<1>5. EventOfThisTest'
  BY DEF TypeOK, EventOfThisTest, StartedIsAwaited, RunsThisTest
<1>6. RunsThisTest'
  BY DEF TypeOK, RunsThisTest, StartedIsAwaited
<1>7. AwaitedRanThisTest'
  BY DEF TypeOK, AwaitedRanThisTest, StartedIsAwaited, EventOfThisTest
<1>8. InStep'
  BY DEF TypeOK, InStep
<1> QED
  BY <1>1, <1>2, <1>3, <1>4, <1>5, <1>6, <1>7, <1>8

(* The boot CPU starts one CPU and waits for it.                           *)
LEMMA PowerOnInv == ASSUME Inv, PowerOn PROVE Inv'
<1> USE PlanTypes DEF Inv, Cpu, sp, Started, InFunction, PowerOn, At
<1>1. TypeOK'
  BY DEF TypeOK, Results, Invalid
<1>2. ResetNotOverwritten'
  BY DEF TypeOK, ResetNotOverwritten, EntryFollowsCpu
<1>3. EntryFollowsCpu'
  BY DEF TypeOK, EntryFollowsCpu, ResetNotOverwritten, Results
<1>4. StartedIsAwaited'
  BY DEF TypeOK, StartedIsAwaited, EventOfThisTest
<1>5. EventOfThisTest'
  BY DEF TypeOK, EventOfThisTest, StartedIsAwaited, RunsThisTest
<1>6. RunsThisTest'
  BY DEF TypeOK, RunsThisTest, StartedIsAwaited
<1>7. AwaitedRanThisTest'
  BY DEF TypeOK, AwaitedRanThisTest, StartedIsAwaited, EventOfThisTest
<1>8. InStep'
  BY DEF TypeOK, InStep
<1> QED
  BY <1>1, <1>2, <1>3, <1>4, <1>5, <1>6, <1>7, <1>8

(* No CPU is before its event when the test returns.                       *)
LEMMA PowerOnFailsInv == ASSUME Inv, PowerOnFails PROVE Inv'
<1> USE PlanTypes DEF Inv, Cpu, sp, Started, InFunction, PowerOnFails
<1>0. test \in DOMAIN Plan
  BY DEF TypeOK
<1>1. TypeOK'
  <2>1. /\ test' \in 1 .. Len(Plan) + 1 /\ i' = 1 /\ pc' \in {"power", "exit"}
        /\ pc' = "power" => test' \in DOMAIN Plan /\ i' \in DOMAIN Plan[test']
        /\ booted' \in [Secondaries -> Nat]
    BY <1>0, NextTestFacts
  <2> QED
    BY <2>1 DEF TypeOK
<1>2. ResetNotOverwritten'
  BY DEF TypeOK, ResetNotOverwritten, EntryFollowsCpu
<1>3. EntryFollowsCpu'
  BY DEF TypeOK, EntryFollowsCpu, ResetNotOverwritten, Results
<1>4. StartedIsAwaited'
  BY <1>0, NextTestFacts DEF TypeOK, StartedIsAwaited, EventOfThisTest
<1>5. EventOfThisTest'
  BY <1>0, NextTestFacts
<1>6. RunsThisTest'
  BY DEF TypeOK, RunsThisTest, StartedIsAwaited
<1>7. AwaitedRanThisTest'
  BY <1>0, NextTestFacts
<1>8. InStep'
  BY DEF TypeOK, InStep
<1> QED
  BY <1>1, <1>2, <1>3, <1>4, <1>5, <1>6, <1>7, <1>8

(* The event the boot CPU takes is that of this test's function.           *)
LEMMA WaitInv == ASSUME Inv, WaitForEvent PROVE Inv'
<1> USE PlanTypes DEF Inv, Cpu, sp, Started, InFunction, WaitForEvent, Advance
<1>1. TypeOK'
  <2>1. test \in DOMAIN Plan /\ i \in DOMAIN Plan[test] /\ Cpu \in Secondaries
    BY DEF TypeOK
  <2>2. booted' \in [Secondaries -> Nat]
    BY <2>1 DEF TypeOK
  <2>3. /\ i' \in DOMAIN Plan[test] /\ i' \in Nat \ {0}
        /\ pc' \in {"power", "poll"}
    BY <2>1
  <2> QED
    BY <2>1, <2>2, <2>3 DEF TypeOK
<1>2. ResetNotOverwritten'
  BY DEF TypeOK, ResetNotOverwritten, EntryFollowsCpu
<1>3. EntryFollowsCpu'
  BY DEF TypeOK, EntryFollowsCpu, ResetNotOverwritten, Results
<1>4. StartedIsAwaited'
  BY DEF TypeOK, StartedIsAwaited, EventOfThisTest
<1>5. EventOfThisTest'
  BY DEF TypeOK, EventOfThisTest, StartedIsAwaited, RunsThisTest
<1>6. RunsThisTest'
  BY DEF TypeOK, RunsThisTest, StartedIsAwaited
<1>7. AwaitedRanThisTest'
  BY DEF TypeOK, AwaitedRanThisTest, StartedIsAwaited, EventOfThisTest
<1>8. InStep'
  BY DEF TypeOK, InStep
<1> QED
  BY <1>1, <1>2, <1>3, <1>4, <1>5, <1>6, <1>7, <1>8

(* Polling stores nothing.                                                 *)
LEMMA PollInv == ASSUME Inv, Poll PROVE Inv'
<1> USE PlanTypes DEF Inv, Cpu, sp, Started, InFunction, Poll
<1>1. TypeOK'
  BY DEF TypeOK, Results, Invalid
<1>2. ResetNotOverwritten'
  BY DEF TypeOK, ResetNotOverwritten, EntryFollowsCpu
<1>3. EntryFollowsCpu'
  BY DEF TypeOK, EntryFollowsCpu, ResetNotOverwritten, Results
<1>4. StartedIsAwaited'
  BY DEF TypeOK, StartedIsAwaited, EventOfThisTest
<1>5. EventOfThisTest'
  BY DEF TypeOK, EventOfThisTest, StartedIsAwaited, RunsThisTest
<1>6. RunsThisTest'
  BY DEF TypeOK, RunsThisTest, StartedIsAwaited
<1>7. AwaitedRanThisTest'
  BY DEF TypeOK, AwaitedRanThisTest, StartedIsAwaited, EventOfThisTest
<1>8. InStep'
  BY DEF TypeOK, InStep
<1> QED
  BY <1>1, <1>2, <1>3, <1>4, <1>5, <1>6, <1>7, <1>8

(* The entry that is reset is that of a CPU past its last store.           *)
LEMMA CollectInv == ASSUME Inv, Collect PROVE Inv'
<1> USE PlanTypes DEF Inv, Cpu, sp, Started, InFunction, Collect, NextTest
<1>1. TypeOK'
  <2>1. test \in DOMAIN Plan /\ i \in DOMAIN Plan[test] /\ Cpu \in Secondaries
    BY DEF TypeOK
  <2>2. /\ state' \in [Secondaries -> {"WAIT", "INPROGRESS", "COMPLETE"}]
        /\ result' \in [Secondaries -> Results]
    BY <2>1, Invalid \in Results DEF TypeOK, Results, Invalid
  <2>3. CASE result[Cpu].status = "pass" /\ i < Len(Plan[test])
    BY <2>1, <2>2, <2>3 DEF TypeOK
  <2>4. CASE NextTest
    <3>1. /\ test' \in 1 .. Len(Plan) + 1 /\ i' = 1 /\ pc' \in {"power", "exit"}
          /\ pc' = "power" => test' \in DOMAIN Plan /\ i' \in DOMAIN Plan[test']
          /\ booted' \in [Secondaries -> Nat]
      BY <2>1, <2>4, NextTestFacts
    <3> QED
      BY <2>2, <3>1 DEF TypeOK
  <2> QED
    BY <2>3, <2>4
<1>2. ResetNotOverwritten'
  BY DEF TypeOK, ResetNotOverwritten, EntryFollowsCpu
<1>3. EntryFollowsCpu'
  BY DEF TypeOK, EntryFollowsCpu, ResetNotOverwritten, Results
<1>4. StartedIsAwaited'
  BY DEF TypeOK, StartedIsAwaited, EventOfThisTest
<1>5. EventOfThisTest'
  <2>1. CASE result[Cpu].status = "pass" /\ i < Len(Plan[test])
    BY <2>1 DEF EventOfThisTest
  <2>2. CASE NextTest
    <3>1. test \in DOMAIN Plan
      BY DEF TypeOK
    <3> QED
      BY <2>2, <3>1, NextTestFacts
  <2> QED
    BY <2>1, <2>2
<1>6. RunsThisTest'
  BY DEF TypeOK, RunsThisTest, StartedIsAwaited
<1>7. AwaitedRanThisTest'
  BY DEF TypeOK, AwaitedRanThisTest, StartedIsAwaited, EventOfThisTest
<1>8. InStep'
  BY DEF TypeOK, InStep
<1> QED
  BY <1>1, <1>2, <1>3, <1>4, <1>5, <1>6, <1>7, <1>8

(* A panic stores nothing.                                                 *)
LEMMA PanicInv == ASSUME Inv, CollectPanics PROVE Inv'
<1> USE PlanTypes DEF Inv, Cpu, sp, Started, InFunction, CollectPanics
<1>1. TypeOK'
  BY DEF TypeOK, Results, Invalid
<1>2. ResetNotOverwritten'
  BY DEF TypeOK, ResetNotOverwritten, EntryFollowsCpu
<1>3. EntryFollowsCpu'
  BY DEF TypeOK, EntryFollowsCpu, ResetNotOverwritten, Results
<1>4. StartedIsAwaited'
  BY DEF TypeOK, StartedIsAwaited, EventOfThisTest
<1>5. EventOfThisTest'
  BY DEF TypeOK, EventOfThisTest, StartedIsAwaited, RunsThisTest
<1>6. RunsThisTest'
  BY DEF TypeOK, RunsThisTest, StartedIsAwaited
<1>7. AwaitedRanThisTest'
  BY DEF TypeOK, AwaitedRanThisTest, StartedIsAwaited, EventOfThisTest
<1>8. InStep'
  BY DEF TypeOK, InStep
<1> QED
  BY <1>1, <1>2, <1>3, <1>4, <1>5, <1>6, <1>7, <1>8

(* A test that does not collect leaves complete entries behind.            *)
LEMMA UncollectedInv == ASSUME Inv, ReturnUncollected PROVE Inv'
<1> USE PlanTypes DEF Inv, Cpu, sp, Started, InFunction, ReturnUncollected
<1>0. test \in DOMAIN Plan
  BY DEF TypeOK
<1>1. TypeOK'
  <2>1. /\ test' \in 1 .. Len(Plan) + 1 /\ i' = 1 /\ pc' \in {"power", "exit"}
        /\ pc' = "power" => test' \in DOMAIN Plan /\ i' \in DOMAIN Plan[test']
        /\ booted' \in [Secondaries -> Nat]
    BY <1>0, NextTestFacts
  <2> QED
    BY <2>1 DEF TypeOK
<1>2. ResetNotOverwritten'
  BY DEF TypeOK, ResetNotOverwritten, EntryFollowsCpu
<1>3. EntryFollowsCpu'
  BY DEF TypeOK, EntryFollowsCpu, ResetNotOverwritten, Results
<1>4. StartedIsAwaited'
  BY <1>0, NextTestFacts DEF TypeOK, StartedIsAwaited, EventOfThisTest
<1>5. EventOfThisTest'
  BY <1>0, NextTestFacts
<1>6. RunsThisTest'
  BY DEF TypeOK, RunsThisTest, StartedIsAwaited
<1>7. AwaitedRanThisTest'
  BY <1>0, NextTestFacts
<1>8. InStep'
  BY DEF TypeOK, InStep
<1> QED
  BY <1>1, <1>2, <1>3, <1>4, <1>5, <1>6, <1>7, <1>8

(* Nothing changes.                                                        *)
LEMMA StutterInv == ASSUME Inv, UNCHANGED vars PROVE Inv'
<1> USE PlanTypes DEF Inv, Cpu, sp, Started, InFunction, vars, primary
<1>1. TypeOK'
  BY DEF TypeOK, Results, Invalid
<1>2. ResetNotOverwritten'
  BY DEF TypeOK, ResetNotOverwritten, EntryFollowsCpu
<1>3. EntryFollowsCpu'
  BY DEF TypeOK, EntryFollowsCpu, ResetNotOverwritten, Results
<1>4. StartedIsAwaited'
  BY DEF TypeOK, StartedIsAwaited, EventOfThisTest
<1>5. EventOfThisTest'
  BY DEF TypeOK, EventOfThisTest, StartedIsAwaited, RunsThisTest
<1>6. RunsThisTest'
  BY DEF TypeOK, RunsThisTest, StartedIsAwaited
<1>7. AwaitedRanThisTest'
  BY DEF TypeOK, AwaitedRanThisTest, StartedIsAwaited, EventOfThisTest
<1>8. InStep'
  BY DEF TypeOK, InStep
<1> QED
  BY <1>1, <1>2, <1>3, <1>4, <1>5, <1>6, <1>7, <1>8

(* Every step of the boot CPU and of the secondary CPUs keeps Inv.         *)
LEMMA NextInv == Inv /\ [Next]_vars => Inv'
<1> SUFFICES ASSUME Inv, [Next]_vars PROVE Inv'
  OBVIOUS
<1>1. ASSUME NEW c \in Secondaries, SecStep(c) PROVE Inv'
  BY <1>1, EntryInv, FetchInv, RunInv, SelectInv, MessageInv, FinishInv,
     ResultInv, CompleteInv, PowerOffInv DEF SecStep
<1>2. CASE PrimaryStep
  BY <1>2, PowerOnInv, PowerOnFailsInv, WaitInv, PollInv, CollectInv, PanicInv,
     UncollectedInv DEF PrimaryStep
<1>3. CASE UNCHANGED vars
  BY <1>3, StutterInv
<1> QED
  BY <1>1, <1>2, <1>3 DEF Next

(* The inductive invariant holds in every reachable state.                 *)
THEOREM MultiPeInvariant == Spec => []Inv
BY InitInv, NextInv, PTL DEF Spec

(* The state of the multi-PE protocol keeps its type; in particular the    *)
(* boot CPU's loop index stays inside the plan of the running test.        *)
THEOREM MultiPeTypes == Spec => []TypeOK
<1>1. Inv => TypeOK
  BY DEF Inv
<1> QED
  BY <1>1, MultiPeInvariant, PTL

(* val_secondary_cpu_test_entry does not write an entry of g_mp_state that *)
(* val_get_multi_pe_test_status has reset, until the CPU is started again. *)
THEOREM EntriesStayReset == Spec => []ResetNotOverwritten
<1>1. Inv => ResetNotOverwritten
  BY DEF Inv
<1> QED
  BY <1>1, MultiPeInvariant, PTL

(* val_sec_cpu_wait_for_test_fn_req leaves its loop, and a CPU of the test *)
(* VM without an answer, only after the SPMC refused a message.            *)
THEOREM StuckAfterRefusal == Spec => []StuckOnlyAfterRefusal
<1>1. Inv => StuckOnlyAfterRefusal
  BY DEF Inv, InStep, StuckOnlyAfterRefusal
<1> QED
  BY <1>1, MultiPeInvariant, PTL

(* val_get_multi_pe_test_status returns what the CPU's function returned   *)
(* in this test, never a result an earlier test left behind.               *)
THEOREM ResultsAreCurrent == Spec => []CollectsOwnResult
<1>1. Inv => CollectsOwnResult
  BY PlanTypes DEF Inv, CollectsOwnResult, EntryFollowsCpu, AwaitedRanThisTest, TypeOK, Cpu
<1> QED
  BY <1>1, MultiPeInvariant, PTL
=============================================================================
