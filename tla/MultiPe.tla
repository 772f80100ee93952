------------------------------ MODULE MultiPe ------------------------------
(***************************************************************************)
(* Multi-PE tests (val/src/val_test_dispatch.c, g_mp_state).  The boot CPU *)
(* runs one test after the other; a multi-PE test, such as                 *)
(* mp_execution_contexts_client, powers its secondary CPUs on one by one,  *)
(* waits for an event of each and then asks val_get_multi_pe_test_status   *)
(* for each result.  A secondary CPU runs val_secondary_cpu_test_entry; in *)
(* SP1 the same entry serves direct messages, one execution context of the *)
(* partition for each CPU.                                                 *)
(*                                                                         *)
(* The events are counting events, which EventSync shows they are.         *)
(***************************************************************************)
EXTENDS Naturals, Sequences

CONSTANTS
    Secondaries,    \* CPUs other than the boot CPU
    Plan,           \* Plan[t]: the CPUs test t uses, in the order of its loop
    Messaging,      \* the tests whose CPUs talk to SP1, as mp_execution_contexts does
    Retries         \* the initial count of val_get_multi_pe_test_status

ASSUME PlanAssumption ==
    /\ Plan \in Seq(Seq(Secondaries)) /\ Plan # <<>>
    /\ \A t \in DOMAIN Plan : Plan[t] # <<>>
    /\ \A t \in DOMAIN Plan : \A j, k \in DOMAIN Plan[t] : Plan[t][j] = Plan[t][k] => j = k
    /\ Messaging \subseteq DOMAIN Plan
    /\ Retries \in Nat \ {0}

VARIABLES
    test,       \* g_mp_state.g_current_test_num
    state,      \* g_mp_state.g_other_pe_test_state
    result,     \* g_mp_state.g_other_pe_test_result
    booted,     \* the cnt of the event cpu_booted of each CPU
    i,          \* the loop index of the test on the boot CPU
    pc,         \* where the boot CPU is
    spc,        \* where each secondary CPU is
    run,        \* test number and status of the test function of each CPU
    ec,         \* where SP1's execution context of each CPU is
    refused     \* whether the SPMC has refused a message of each CPU

primary == <<test, i, pc>>
sp == <<ec, refused>>
vars == <<primary, state, result, booted, spc, run, sp>>

Invalid == [test |-> 0, status |-> "invalid"]
Results == [test : 0 .. Len(Plan) + 1, status : {"pass", "fail", "invalid"}]
Cpu == Plan[test][i]

TypeOK ==
    /\ test \in 1 .. Len(Plan) + 1
    /\ i \in Nat \ {0}
    /\ pc \in {"power", "wait", "poll", "collect", "exit", "panic"}
    /\ pc \in {"power", "wait", "poll", "collect"}
          => test \in DOMAIN Plan /\ i \in DOMAIN Plan[test]
    /\ state \in [Secondaries -> {"WAIT", "INPROGRESS", "COMPLETE"}]
    /\ result \in [Secondaries -> Results]
    /\ booted \in [Secondaries -> Nat]
    /\ spc \in [Secondaries -> {"off", "entry", "fetch", "run", "select", "message",
                                "finish", "stuck", "result", "complete", "poweroff"}]
    /\ run \in [Secondaries -> Results]
    /\ ec \in [Secondaries -> {"none", "loop", "server", "served", "stopped"}]
    /\ refused \in [Secondaries -> BOOLEAN]

\* SP1 registers the entry point of its other execution contexts and does not
\* look at the answer: without it they never run, and messages to them fail.
val_ffa_secondary_ep_register_64 ==
    \E e \in {"none", "loop"} : ec = [c \in Secondaries |-> e]

Init ==
    /\ test = 1 /\ i = 1 /\ pc = "power"
    /\ state = [c \in Secondaries |-> "WAIT"]
    /\ result = [c \in Secondaries |-> Invalid]
    /\ booted = [c \in Secondaries |-> 0]
    /\ spc = [c \in Secondaries |-> "off"]
    /\ run = [c \in Secondaries |-> Invalid]
    /\ val_ffa_secondary_ep_register_64
    /\ refused = [c \in Secondaries |-> FALSE]

-----------------------------------------------------------------------------
(* val_secondary_cpu_test_entry on CPU c                                   *)

At(c, from, to) == spc[c] = from /\ spc' = [spc EXCEPT ![c] = to]

\* Mutation: the CPU's state is not set to in progress.
EntrySilent(c) ==
    /\ At(c, "entry", "fetch")
    /\ UNCHANGED <<primary, state, result, booted, run, sp>>

SecEntry(c) ==
    /\ At(c, "entry", "fetch")
    /\ state' = [state EXCEPT ![c] = "INPROGRESS"]
    /\ UNCHANGED <<primary, result, booted, run, sp>>

SecFetch(c) ==
    /\ At(c, "fetch", IF test \in Messaging THEN "select" ELSE "run")
    /\ run' = [run EXCEPT ![c] = [test |-> test, status |-> "invalid"]]
    /\ UNCHANGED <<primary, state, result, booted, sp>>

\* A test function that sends no message to SP1's context of its CPU: its checks
\* may fail, and the error of a direct message returns before the event is sent.
SecRun(c, signals, status) ==
    /\ At(c, "run", "result")
    /\ signals \/ status = "fail"
    /\ booted' = IF signals THEN [booted EXCEPT ![c] = @ + 1] ELSE booted
    /\ run' = [run EXCEPT ![c].status = status]
    /\ UNCHANGED <<primary, state, result, sp>>

\* Mutation: the server function does not wait for the last request.
ServerReturnsEarly(e, fid) == "loop"

\* The server function after its first answer and after its second.
mp_execution_contexts_sec_cpu_server(e, fid) ==
    IF e = "server" /\ fid = "REQ_64" THEN "served" ELSE "loop"

\* Where SP1's context goes with a direct request.  Its loop runs the server
\* function for REQ_32 and returns, for good, on anything else; the server
\* function answers and expects REQ_64 and then REQ_32, and with another message
\* it ends and its loop answers with the status.
val_sec_cpu_wait_for_test_fn_req(e, fid) ==
    IF e = "loop" THEN IF fid = "REQ_32" THEN "server" ELSE "stopped"
                  ELSE mp_execution_contexts_sec_cpu_server(e, fid)

\* A message to SP1's context of CPU c that the SPMC passes on, or refuses.
Delivered(c, fid) ==
    /\ ec[c] \in {"loop", "server", "served"}
    /\ ec' = [ec EXCEPT ![c] = val_sec_cpu_wait_for_test_fn_req(@, fid)]
    /\ UNCHANGED refused

Refused(c) ==
    /\ refused' = [refused EXCEPT ![c] = TRUE]
    /\ UNCHANGED ec

\* The function of mp_execution_contexts selects the server function without
\* looking at the answer,
SecSelect(c) ==
    /\ At(c, "select", "message")
    /\ Delivered(c, "REQ_32") \/ Refused(c)
    /\ UNCHANGED <<primary, state, result, booted, run>>

\* sends a message, whose answer must be the server function's: an error returns
\* without the event, and there is no answer from a context that has stopped,
SecMessage(c) ==
    \/ /\ ec[c] = "server" /\ At(c, "message", "finish") /\ Delivered(c, "REQ_64")
       /\ UNCHANGED <<primary, state, result, booted, run>>
    \/ /\ ec[c] = "loop" /\ At(c, "message", "stuck") /\ Delivered(c, "REQ_64")
       /\ UNCHANGED <<primary, state, result, booted, run>>
    \/ /\ At(c, "message", "result")
       /\ (ec[c] = "served" /\ Delivered(c, "REQ_64")) \/ Refused(c)
       /\ run' = [run EXCEPT ![c].status = "fail"]
       /\ UNCHANGED <<primary, state, result, booted>>

\* and selects again, to return the server function's status; the word that holds
\* it is zero in an error, which passes.
SecFinish(c) ==
    /\ At(c, "finish", "result")
    /\ Delivered(c, "REQ_32") \/ Refused(c)
    /\ booted' = [booted EXCEPT ![c] = @ + 1]
    /\ run' = [run EXCEPT ![c].status = "pass"]
    /\ UNCHANGED <<primary, state, result>>

\* Mutation: the state is stored before the result.
ResultLast(c) ==
    /\ At(c, "result", "complete")
    /\ state' = [state EXCEPT ![c] = "COMPLETE"]
    /\ UNCHANGED <<primary, result, booted, run, sp>>

SecResult(c) ==
    /\ At(c, "result", "complete")
    /\ result' = [result EXCEPT ![c] = run[c]]
    /\ UNCHANGED <<primary, state, booted, run, sp>>

SecComplete(c) ==
    /\ At(c, "complete", "poweroff")
    /\ state' = [state EXCEPT ![c] = "COMPLETE"]
    /\ UNCHANGED <<primary, result, booted, run, sp>>

SecPowerOff(c) ==
    /\ At(c, "poweroff", "off")
    /\ UNCHANGED <<primary, state, result, booted, run, sp>>

SecStep(c) ==
    \/ SecEntry(c) \/ SecFetch(c)
    \/ \E signals \in BOOLEAN, status \in {"pass", "fail"} : SecRun(c, signals, status)
    \/ SecSelect(c) \/ SecMessage(c) \/ SecFinish(c)
    \/ SecResult(c) \/ SecComplete(c) \/ SecPowerOff(c)

-----------------------------------------------------------------------------
(* The client function of a multi-PE test on the boot CPU                  *)

\* The client function returns; the dispatcher publishes the next test number,
\* whose client function initialises the events it uses.
NextTest ==
    /\ test' = test + 1 /\ i' = 1
    /\ IF test < Len(Plan)
         THEN /\ pc' = "power"
              /\ booted' = [c \in Secondaries |->
                              IF \E k \in DOMAIN Plan[test + 1] : Plan[test + 1][k] = c
                                THEN 0 ELSE booted[c]]
         ELSE pc' = "exit" /\ UNCHANGED booted

\* Mutation: one iteration too many.
AdvancePastEnd(again, next) ==
    IF i <= Len(Plan[test])
      THEN pc' = again /\ i' = i + 1
      ELSE pc' = next /\ i' = 1

\* The loop goes on to the next CPU, or to the first one of the next loop.
Advance(again, next) ==
    IF i < Len(Plan[test])
      THEN pc' = again /\ i' = i + 1
      ELSE pc' = next /\ i' = 1

\* PSCI CPU_ON starts a CPU that is off.
PowerOn ==
    /\ pc = "power" /\ At(Cpu, "off", "entry")
    /\ pc' = "wait"
    /\ UNCHANGED <<test, i, state, result, booted, run, sp>>

\* It fails when the CPU is still on, and may fail otherwise: the test returns.
PowerOnFails ==
    /\ pc = "power"
    /\ NextTest
    /\ UNCHANGED <<state, result, spc, run, sp>>

WaitForEvent ==
    /\ pc = "wait" /\ booted[Cpu] > 0
    /\ booted' = [booted EXCEPT ![Cpu] = @ - 1]
    /\ Advance("power", "poll")
    /\ UNCHANGED <<test, state, result, spc, run, sp>>

\* The condition that ends the wait of val_get_multi_pe_test_status.
WaitEnds(c, count) == state[c] # "INPROGRESS" \/ count = Retries

\* The wait loop is entered with count = Retries, which ends it at once.
Poll ==
    /\ pc = "poll" /\ WaitEnds(Cpu, Retries)
    /\ pc' = "collect"
    /\ UNCHANGED <<test, i, state, result, booted, spc, run, sp>>

\* The CPU has completed: take its result and reset its entry of g_mp_state.  A
\* test returns the first status that is not a success.
Collect ==
    /\ pc = "collect" /\ state[Cpu] = "COMPLETE"
    /\ state' = [state EXCEPT ![Cpu] = "WAIT"]
    /\ result' = [result EXCEPT ![Cpu] = Invalid]
    /\ IF result[Cpu].status = "pass" /\ i < Len(Plan[test])
         THEN pc' = "poll" /\ i' = i + 1 /\ UNCHANGED <<test, booted>>
         ELSE NextTest
    /\ UNCHANGED <<spc, run, sp>>

CollectPanics ==
    /\ pc = "collect" /\ state[Cpu] # "COMPLETE"
    /\ pc' = "panic"
    /\ UNCHANGED <<test, i, state, result, booted, spc, run, sp>>

\* A test may return without asking for the status of its CPUs, as
\* vm_to_up_sp_preempt_client does.
ReturnUncollected ==
    /\ pc = "poll"
    /\ NextTest
    /\ UNCHANGED <<state, result, spc, run, sp>>

PrimaryStep ==
    \/ PowerOn \/ PowerOnFails \/ WaitForEvent
    \/ Poll \/ Collect \/ CollectPanics \/ ReturnUncollected

Next == PrimaryStep \/ \E c \in Secondaries : SecStep(c)

Spec == Init /\ [][Next]_vars

\* Every CPU that is on keeps executing.
FairSpec == /\ Spec /\ WF_vars(PrimaryStep)
            /\ \A c \in Secondaries : WF_vars(SecStep(c))

-----------------------------------------------------------------------------
(* When val_get_multi_pe_test_status finds a CPU complete, the result it   *)
(* takes is what that CPU's test function returned in this very test, also *)
(* when an earlier test returned without collecting the CPU's result.      *)
CollectsOwnResult ==
    pc = "collect" /\ state[Cpu] = "COMPLETE"
      => /\ result[Cpu] = run[Cpu]
         /\ run[Cpu].test = test /\ run[Cpu].status # "invalid"

(* An entry of g_mp_state that was reset after collection is not written   *)
(* by the CPU it belongs to until that CPU is powered on again.            *)
ResetNotOverwritten ==
    \A c \in Secondaries : state[c] = "WAIT" => spc[c] \in {"off", "entry", "poweroff"}

(* The regression goes on unless a status was not complete or the boot CPU *)
(* waits for the event of a CPU that will not send it: its test failed     *)
(* before, or its message, after one the SPMC had refused, found SP1's     *)
(* loop where it expected the server function.  The refusal may have been  *)
(* of an earlier test, which passed.                                       *)
OnlyFailuresBlock ==
    <>[](\/ pc \in {"exit", "panic"}
         \/ /\ pc = "wait"
            /\ \/ run[Cpu] = [test |-> test, status |-> "fail"]
               \/ spc[Cpu] = "stuck" /\ refused[Cpu])

(* "check and wait for all pe to reach test completion": the status        *)
(* function does not give up on a CPU that is still in progress.  The code *)
(* breaks this, as its wait ends at once.                                  *)
WaitsForCompletion ==
    [][pc = "collect" /\ pc' = "panic" => state[Cpu] # "INPROGRESS"]_vars
=============================================================================
