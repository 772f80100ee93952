----------------------------- MODULE TestSession ----------------------------
(***************************************************************************)
(* One session of the compliance suite on one PE, from boot to the end of  *)
(* the regression, to a reset or to a hang: after the exchange of endpoint *)
(* information, VM1's dispatcher (TestDispatch) runs tests whose client    *)
(* and server functions run in different endpoints and keep in step by     *)
(* direct messages alone.  No watchdog ends a hang, so a partition that    *)
(* panics leaves whoever called it waiting.                                *)
(*                                                                         *)
(* The test modelled is share_state_machine_3 (lend, retrieve, a refused   *)
(* share, relinquish, reclaim), with every FF-A call of it failing or      *)
(* not.  InterruptTest stands for the tests of v1.1/interrupts, which may  *)
(* leave an interrupt of the normal world enabled, and AccessTest for      *)
(* those that access memory they have lent.                                *)
(***************************************************************************)
EXTENDS EndpointInfo, TestDispatch

VARIABLES
    pairs,      \* the client and server pairs the test entry has left
    status,     \* status[e]: status of e's client or server function
    armed,      \* an interrupt of the normal world is left enabled
    failures,   \* history: some server function of this test returned an error
    cut         \* history: an exchange was cut short, by a server function that
                \* gave up or by an interrupt that is not resumed

entry == <<pairs, status, armed>>
history == <<failures, cut>>
vars == <<abi, pc, out, info, dispatchVars, entry, history>>

SP1 == 1
SP2 == 2
EntryPairs == <<<<Vm, SP1>>, <<SP1, SP2>>>>

Init ==
    /\ InfoInit /\ DispatchInit
    /\ pairs = <<>>
    /\ status = [e \in Endpoints |-> "ok"]
    /\ armed = FALSE
    /\ failures = FALSE
    /\ cut = FALSE

VmBoot == VmInfo /\ UNCHANGED <<dispatchVars, entry, history>>
SpBoot(s) == SpInfo(s) /\ UNCHANGED <<dispatchVars, entry, history>>

\* FFA_INTERRUPT: the direct request wrappers of a Linux or hypervisor build
\* resume the partition.
Resume ==
    /\ exec[Vm] = "running"
    /\ regs[Vm].fid = "INTERRUPT"
    /\ resumes
    /\ val_ffa_run(regs[Vm].arg)
    /\ UNCHANGED <<platform, buffers, pc, out, info, dispatchVars, entry, history>>

-----------------------------------------------------------------------------
(* val_test_dispatch and val_execute_test *)

SyncEnds(from, to) ==
    /\ At(Vm, "sync")
    /\ SyncDone
    /\ Boot(from, to)
    /\ Goto(Vm, "dispatch")
    /\ UNCHANGED <<abi, out, info, entry, history>>

\* The test of this module needs FFA_MEM_SHARE.
TestPassedOver ==
    /\ At(Vm, "dispatch")
    /\ ~val_is_ffa_feature_supported(Vm)
    /\ PassOver
    /\ UNCHANGED <<abi, pc, out, info, entry, history>>

NextTest ==
    /\ At(Vm, "dispatch")
    /\ BeginTest
    /\ Goto(Vm, "entry")
    /\ failures' = FALSE
    /\ UNCHANGED <<abi, out, info, entry, cut>>

TestEntry ==
    /\ At(Vm, "entry")
    /\ val_is_ffa_feature_supported(Vm)
    /\ pairs' = EntryPairs
    /\ Goto(Vm, "pair")
    /\ UNCHANGED <<abi, out, info, dispatchVars, status, armed, history>>

\* ffa_features at VM1, which leaves its answers in the cache.
FeaturesTest ==
    /\ At(Vm, "entry")
    /\ val_ffa_mark_supported_fid(Vm, ffa_features # "ERROR")
    /\ val_set_status("pass")
    /\ Goto(Vm, "pair")
    /\ UNCHANGED <<build, lends, messages, buffers, out, info, entry, history>>

InterruptTest(v, enabled) ==
    /\ At(Vm, "entry")
    /\ enabled => v = "fail"
    /\ val_set_status(v)
    /\ armed' = (armed \/ enabled)
    /\ Goto(Vm, "pair")
    /\ UNCHANGED <<abi, out, info, pairs, status, history>>

\* A test that accesses memory it has lent.  Its own buffers, lend and reclaim
\* are not told apart: a call of them that fails is the verdict it returns.
AccessTest ==
    /\ At(Vm, "entry")
    /\ val_set_reboot_flag
    /\ Goto(Vm, "access")
    /\ UNCHANGED <<abi, out, info, entry, history>>

AccessAborts ==
    /\ At(Vm, "access")
    /\ val_reset_reboot_flag
    /\ Goto(Vm, "aborted")
    /\ UNCHANGED <<abi, out, info, entry, history>>

AccessReturns(v) ==
    /\ At(Vm, "aborted")
    /\ val_set_status(v)
    /\ Goto(Vm, "pair")
    /\ UNCHANGED <<abi, out, info, entry, history>>

\* The platform resets instead: the next session starts from the beginning.
AccessResets ==
    /\ At(Vm, "access")
    /\ Reset
    /\ exec' = [e \in Endpoints |-> "stopped"]
    /\ pc' = [e \in Endpoints |-> "reset"]
    /\ UNCHANGED <<platform, caller, regs, buffers, out, info, entry, history>>

Client == Head(pairs)[1]
Server == Head(pairs)[2]

val_check_ep_compile_status(c, s) == table[Vm][c].valid /\ table[Vm][s].valid

\* validate_test_config, for the options of Builds: with a TPM only VM1 and the
\* partition of the TPM make a pair.
PairValid ==
    /\ ~build.tpm
    /\ build.single => {Client, Server} \subseteq {Vm, SP1}
    /\ Client \in Sps => build.requests
    /\ val_check_ep_compile_status(Client, Server)

\* The test entry goes on with its next pair unless this one failed.
PairEnds(s) ==
    /\ val_set_status(CASE s = "ok" -> "pass" [] s = "skip" -> "skip" [] OTHER -> "fail")
    /\ pairs' = IF s \in {"ok", "skip"} THEN Tail(pairs) ELSE <<>>
    /\ Goto(Vm, "pair")

ExecuteSkip ==
    /\ At(Vm, "pair")
    /\ pairs # <<>>
    /\ ~PairValid
    /\ PairEnds("skip")
    /\ UNCHANGED <<abi, out, info, status, armed, history>>

\* The client function of the test starts at its look at the feature cache.
val_execute_client_test_fn(e) == Goto(e, "features")

ExecuteHere ==
    /\ At(Vm, "pair")
    /\ pairs # <<>>
    /\ PairValid
    /\ Client = Vm
    /\ val_execute_client_test_fn(Vm)
    /\ UNCHANGED <<abi, out, info, dispatchVars, entry, history>>

ExecuteThere ==
    /\ At(Vm, "pair")
    /\ pairs # <<>>
    /\ PairValid
    /\ Client # Vm
    /\ Call(Vm, Client, "REQ_32", [svc |-> "CLIENT_TEST"], "executed")
    /\ UNCHANGED <<platform, buffers, out, info, dispatchVars, entry, history>>

Executed ==
    /\ Returned(Vm, "executed")
    /\ PairEnds(IF regs[Vm].fid = "RESP_32" THEN regs[Vm].arg ELSE "error")
    /\ UNCHANGED <<abi, out, info, status, armed, history>>

\* The entry of the test returns to the loop.
TestDone ==
    /\ At(Vm, "pair")
    /\ pairs = <<>>
    /\ TestEnds
    /\ Goto(Vm, "dispatch")
    /\ UNCHANGED <<abi, out, info, entry, history>>

\* The report is printed, and val_main ends in an endless loop.
RegressionDone ==
    /\ At(Vm, "dispatch")
    /\ LoopEnds
    /\ Terminate(Vm)
    /\ Goto(Vm, "standby")
    /\ UNCHANGED <<platform, buffers, out, info, entry, history>>

-----------------------------------------------------------------------------
(* share_state_machine_3_client, at VM1 or at SP1 *)

ServerOf(c) == IF c = Vm THEN SP1 ELSE SP2
ServerTest == [svc |-> "SERVER_TEST"]
Handle == "HANDLE"      \* that of the last FFA_MEM_LEND

Cuts(b) == cut' = (cut \/ b) /\ UNCHANGED failures
Status(e, ok) == status' = [status EXCEPT ![e] = IF ok THEN @ ELSE "error"]

\* VM1 takes the status for the verdict, a partition sends it to VM1.
ClientReturn(c, s) ==
    IF c = Vm THEN PairEnds(s) /\ UNCHANGED out
              ELSE Respond(c, "RESP_32", s, "loop") /\ UNCHANGED <<pairs, dispatchVars>>

ClientFeatures(c) ==
    /\ At(c, "features")
    /\ IF val_is_ffa_feature_supported(c)
       THEN Goto(c, "c_map") /\ UNCHANGED <<out, pairs, dispatchVars>>
       ELSE ClientReturn(c, "skip")
    /\ UNCHANGED <<abi, info, status, armed, history>>

\* Buffers first, then the pages to lend; without pages the buffers go.
ClientMap(c, ok, pages) ==
    /\ At(c, "c_map")
    /\ val_rxtx_map_64(c, ok)
    /\ Status(c, ok /\ pages)
    /\ Goto(c, IF ~ok THEN "c_final" ELSE IF pages THEN "c_select" ELSE "c_unmap")
    /\ UNCHANGED <<platform, messages, mem, out, info, dispatchVars, pairs, armed, history>>

\* val_select_server_fn_direct; its result counts at the last call only.
Select(c, where, next) ==
    /\ At(c, where)
    /\ Call(c, ServerOf(c), "REQ_32", ServerTest, next)
    /\ UNCHANGED <<platform, buffers, out, info, dispatchVars, entry, history>>

\* mem_region_init as the client fills it in; its maximum size stays zero.
LendInit(c) ==
    [sender |-> val_get_endpoint_id(c, c), receiver |-> val_get_endpoint_id(c, ServerOf(c)),
     multi |-> FALSE, receivers |-> <<>>,
     data |-> 2, instruction |-> 0, type |-> 0, cacheability |-> 0,
     shareability |-> 0, max |-> 0]
OnePage == <<[pages |-> 1]>>

ClientLend(c, ok) ==
    /\ Returned(c, "c_lend")
    /\ ffa_mem_lend(c, val_ffa_memory_region_init(LendInit(c), OnePage), ok)
    /\ Status(c, ok)
    /\ Goto(c, IF ok THEN "c_share" ELSE "c_unmap")
    /\ UNCHANGED <<platform, messages, rxtx, out, info, dispatchVars, pairs, armed, history>>

val_ffa_mem_handle_share(c) ==
    /\ At(c, "c_share")
    /\ Call(c, ServerOf(c), "REQ_64", [svc |-> Handle], "c_shared")
    /\ UNCHANGED <<platform, buffers, out, info, dispatchVars, entry, history>>

\* Whether the handle was sent is all that is looked at.
ClientShared(c) ==
    /\ Returned(c, "c_shared")
    /\ LET ok == regs[c].fid # "ERROR"
       IN  /\ Status(c, ok)
           /\ Goto(c, IF ok THEN "c_try" ELSE "c_unmap")
    /\ UNCHANGED <<abi, out, info, dispatchVars, pairs, armed, history>>

\* Sharing lent memory must be refused.
ClientTryShare(c, accepted) ==
    /\ At(c, "c_try")
    /\ ffa_mem_share(c, val_ffa_memory_region_init([LendInit(c) EXCEPT !.type = 2],
                                                   OnePage), accepted)
    /\ Status(c, ~accepted)
    /\ Goto(c, IF accepted THEN "c_unmap" ELSE "c_select2")
    /\ UNCHANGED <<platform, messages, rxtx, out, info, dispatchVars, pairs, armed, history>>

ClientReclaim(c, ok) ==
    /\ Returned(c, "c_reclaim")
    /\ ffa_mem_reclaim(c, ok)
    /\ Status(c, ok)
    /\ Goto(c, "c_unmap")
    /\ UNCHANGED <<platform, messages, rxtx, out, info, dispatchVars, pairs, armed, history>>

\* Mutation: the client returns without the last message to its server.
UnmapIsLast(c, ok) ==
    /\ At(c, "c_unmap")
    /\ val_rxtx_unmap(c, ok)
    /\ Status(c, ok)
    /\ Goto(c, "c_ret")
    /\ UNCHANGED <<platform, messages, mem, out, info, dispatchVars, pairs, armed, history>>

ClientUnmap(c, ok) ==
    /\ At(c, "c_unmap")
    /\ val_rxtx_unmap(c, ok)
    /\ Status(c, ok)
    /\ Goto(c, "c_final")
    /\ UNCHANGED <<platform, messages, mem, out, info, dispatchVars, pairs, armed, history>>

\* Mutation: the server's status is not looked at.
EndsWithOwnStatus(c) ==
    /\ Returned(c, "c_ret")
    /\ ClientReturn(c, status[c])
    /\ status' = [status EXCEPT ![c] = "ok"]
    /\ UNCHANGED <<abi, info, armed, history>>

\* arg3 is zero where no status was sent: FFA_ERROR, FFA_INTERRUPT.
ClientEnds(c) ==
    /\ Returned(c, "c_ret")
    /\ ClientReturn(c, IF status[c] = "ok" /\ regs[c].fid \in {"RESP_32", "RESP_64"}
                       THEN regs[c].arg ELSE status[c])
    /\ status' = [status EXCEPT ![c] = "ok"]
    /\ UNCHANGED <<abi, info, armed, history>>
-----------------------------------------------------------------------------
(* val_wait_for_test_fn_req: the service loop of a partition *)

Requested(s, svc) == At(s, "loop") /\ regs[s] = Registers("REQ_32", [svc |-> svc])

ServeClient(s) ==
    /\ Requested(s, "CLIENT_TEST")
    /\ val_execute_client_test_fn(s)
    /\ UNCHANGED <<abi, out, info, dispatchVars, entry, history>>

\* Mutation: the loop waits on, and does not answer.
LoopIgnores(s) ==
    /\ At(s, "loop")
    /\ regs[s].fid # "REQ_32"
    /\ ffa_msg_wait(s)
    /\ UNCHANGED <<platform, buffers, pc, out, info, dispatchVars, entry, history>>

\* "Invalid fid received": the loop returns and val_run_test_suite panics.
LoopLeft(s) ==
    /\ At(s, "loop")
    /\ regs[s].fid # "REQ_32"
    /\ Terminate(s)
    /\ Goto(s, "panic")
    /\ UNCHANGED <<platform, buffers, out, info, dispatchVars, entry, history>>

-----------------------------------------------------------------------------
(* share_state_machine_3_server.  Every way out frees the buffers, answers *)
(* with a DIRECT_RESP_64 and takes the next message as the end.            *)

ServerGivesUp(s) == Respond(s, "RESP_64", "ok", "s_last")

\* The server function runs on the message that asked for it.
val_execute_server_test_fn(s) == Requested(s, "SERVER_TEST")

\* Buffers and pages; then it waits for the handle.
ServerMap(s, ok, pages, unmapped) ==
    /\ val_execute_server_test_fn(s)
    /\ IF ok /\ ~pages /\ unmapped THEN rxtx[s] = "unmapped" /\ UNCHANGED rxtx
                                   ELSE val_rxtx_map_64(s, ok)
    /\ Status(s, ok /\ pages)
    /\ Cuts(~(ok /\ pages))
    /\ IF ok /\ pages THEN Respond(s, "RESP_32", "ok", "s_handle")
                      ELSE ServerGivesUp(s)
    /\ UNCHANGED <<platform, messages, mem, info, dispatchVars, pairs, armed>>

\* The ids come from the message that started the server function.
RetrieveInit(s) ==
    [sender |-> caller[s], receiver |-> s, multi |-> FALSE, receivers |-> <<>>,
     data |-> 2, instruction |-> IF PLATFORM_FFA_V = 10 THEN 0 ELSE 1,
     type |-> 2, cacheability |-> 3, shareability |-> 3, max |-> 0]

ServerRetrieve(s, ok, unmapped) ==
    /\ At(s, "s_handle")
    /\ regs[s].fid = "REQ_64"
    /\ ffa_mem_retrieve(s, val_ffa_memory_retrieve_request_init(RetrieveInit(s), Handle),
                        ok)
    /\ Status(s, ok)
    /\ Cuts(~ok)
    /\ IF ok THEN Respond(s, "RESP_32", "ok", "s_relinquish") /\ Fill(s)
             ELSE ServerGivesUp(s) /\ val_rxtx_unmap(s, unmapped)
    /\ UNCHANGED <<platform, messages, info, dispatchVars, pairs, armed>>

\* A message of another kind than the one waited for.
ServerRefuses(s, unmapped) ==
    /\ \/ At(s, "s_handle") /\ regs[s].fid # "REQ_64"
       \/ At(s, "s_relinquish") /\ regs[s].fid # "REQ_32"
    /\ val_rxtx_unmap(s, unmapped)
    /\ Status(s, FALSE)
    /\ Cuts(TRUE)
    /\ ServerGivesUp(s)
    /\ UNCHANGED <<platform, messages, mem, info, dispatchVars, pairs, armed>>

ServerRelinquish(s, ok, released, unmapped) ==
    /\ At(s, "s_relinquish")
    /\ regs[s].fid = "REQ_32"
    /\ ffa_mem_relinquish(s, ffa_mem_relinquish_init(Handle, s), ok)
    /\ ReleaseAndUnmap(s, released, unmapped)
    /\ Status(s, ok /\ released /\ unmapped)
    /\ ServerGivesUp(s)
    /\ UNCHANGED <<platform, messages, info, dispatchVars, pairs, armed, history>>

\* The status goes out as the loop's answer to whatever message this is.
ServerEnds(s) ==
    /\ At(s, "s_last")
    /\ Respond(s, "RESP_32", status[s], "loop")
    /\ failures' = (failures \/ status[s] # "ok")
    /\ status' = [status EXCEPT ![s] = "ok"]
    /\ UNCHANGED <<abi, info, dispatchVars, pairs, armed, cut>>

-----------------------------------------------------------------------------
\* Timer ticks of the scheduler, or the interrupt a test left enabled, which
\* comes once.  VM1 then goes on, and the partition waits for FFA_RUN.
Interrupt(s) ==
    /\ exec[s] = "running"
    /\ resumes \/ armed
    /\ Preempt(s)
    /\ armed' = (armed /\ resumes)
    /\ Cuts(~resumes)
    /\ UNCHANGED <<platform, buffers, pc, out, info, dispatchVars, pairs, status>>

-----------------------------------------------------------------------------

Client3(c) ==
    \/ ClientFeatures(c)
    \/ \E ok, pages \in BOOLEAN : ClientMap(c, ok, pages)
    \/ Select(c, "c_select", "c_lend")
    \/ \E ok \in BOOLEAN : ClientLend(c, ok)
    \/ val_ffa_mem_handle_share(c)
    \/ ClientShared(c)
    \/ \E accepted \in BOOLEAN : ClientTryShare(c, accepted)
    \/ Select(c, "c_select2", "c_reclaim")
    \/ \E ok \in BOOLEAN : ClientReclaim(c, ok) \/ ClientUnmap(c, ok)
    \/ Select(c, "c_final", "c_ret")
    \/ ClientEnds(c)

Server3(s) ==
    \/ \E ok, pages, unmapped \in BOOLEAN : ServerMap(s, ok, pages, unmapped)
    \/ \E ok, unmapped \in BOOLEAN : ServerRetrieve(s, ok, unmapped)
    \/ \E unmapped \in BOOLEAN : ServerRefuses(s, unmapped)
    \/ \E ok, released, unmapped \in BOOLEAN :
           ServerRelinquish(s, ok, released, unmapped)
    \/ ServerEnds(s)

VmStep ==
    \/ VmBoot \/ Resume
    \/ \E r \in Ranges : SyncEnds(r[1], r[2])
    \/ TestPassedOver \/ NextTest \/ TestEntry \/ FeaturesTest
    \/ \E v \in {"pass", "fail"}, enabled \in BOOLEAN : InterruptTest(v, enabled)
    \/ AccessTest \/ AccessAborts
    \/ \E v \in {"pass", "fail"} : AccessReturns(v)
    \/ AccessResets
    \/ ExecuteSkip \/ ExecuteHere \/ ExecuteThere \/ Executed \/ TestDone
    \/ RegressionDone
    \/ Client3(Vm)

SpStep(s) ==
    \/ SpBoot(s)
    \/ ServeClient(s) \/ LoopLeft(s)
    \/ Client3(s) \/ Server3(s)

Next == VmStep \/ \E s \in Sps : SpStep(s) \/ Interrupt(s)

\* The PE executes, and interrupts leave a partition the time to get on.
Fairness == WF_vars(VmStep) /\ \A s \in Sps : SF_vars(SpStep(s))

Spec == Init /\ [][Next]_vars /\ Fairness
-----------------------------------------------------------------------------
(* Properties *)

\* The state has its type, and at most one endpoint has the PE.
TypeOK ==
    /\ InfoTypeOK /\ DispatchTypeOK
    /\ status \in [Endpoints -> {"ok", "error"}]
    /\ {armed, failures, cut} \subseteq BOOLEAN
    /\ \A a, b \in Endpoints : exec[a] = "running" /\ exec[b] = "running" => a = b

\* val_send_sync_ep_info: a partition VM1 is done with is there, and holds the
\* very table of VM1, whatever interrupts came between the two halves of an
\* entry.
TablesAgree ==
    \A s \in Sps :
        s < cursor.i /\ table[Vm][s].valid =>
            exec[s] # "absent" /\ table[s] = table[Vm]

\* val_execute_test: the test that VM1 is about to report.
Reported == At(Vm, "pair") /\ pairs = <<>>

\* While no test has failed and no exchange was cut short, a test leaves every
\* partition waiting in its service loop with no buffer mapped and the lent
\* memory back with its owner, whichever FF-A calls failed.
CleanUnlessFailed ==
    Reported /\ verdict # "fail" /\ nvm.count["fail"] = 0 /\ ~cut =>
        /\ mem = Owned
        /\ \A s \in Sps : exec[s] # "absent" =>
               exec[s] = "waiting" /\ pc[s] = "loop" /\ rxtx[s] = "unmapped"

\* A test whose server function returned an error does not pass, after any
\* tests that failed, as long as no exchange was cut short.
FailureReported == Reported /\ verdict = "pass" /\ ~cut => ~failures

\* VM1 gets to the end of the regression or to a panic, or the platform resets,
\* unless a partition panicked or could not boot: a test that fails at any
\* point, or an interrupt that is not resumed, leaves VM1 waiting for nobody
\* else.
Ends == <>(exec[Vm] = "stopped" \/ \E s \in Sps : pc[s] \in {"panic", "standby"})

\* "A Watchdog timer must be assigned to SP1 to help system recovery from any
\* fatal error conditions": VM1 runs again, or the platform resets, after a
\* partition has panicked.
Recovers == \A s \in Sps : pc[s] = "panic" ~> exec[Vm] \in {"running", "stopped"}
=============================================================================
