------------------------------- MODULE FfaAbi -------------------------------
(***************************************************************************)
(* The FF-A calls of val_ffa_abi.c that the test framework makes, with the *)
(* part of the SPMC's state they act on.  Every wrapper fills registers,   *)
(* issues one SMC and hands back the registers it finds; what the SPMC     *)
(* does is external and taken from how the framework uses it.              *)
(*                                                                         *)
(* Endpoints run on one PE.  A direct request hands the PE to its receiver *)
(* and blocks the sender until the response, an interrupt or an error.     *)
(***************************************************************************)
EXTENDS MemoryRegion

CONSTANTS
    NumSps,     \* VAL_S_EP_COUNT; logical ids 1..NumSps are the partitions
    Builds,     \* the combinations of build options looked at
    None

ASSUME NumSpsAssumption == NumSps \in Nat \ {0}

\* TARGET_LINUX or PLATFORM_NS_HYPERVISOR_PRESENT: the wrappers resume a
\* preempted partition.  PLATFORM_SP_SEND_DIRECT_REQ: a partition may send
\* requests.  PLATFORM_SPMC_EL and PLATFORM_SP_EL both 1: only one partition.
\* ENABLE_TPM_CRB: partitions go by their UUIDs.
ASSUME BuildsAssumption ==
    Builds \subseteq [resumes : BOOLEAN, requests : BOOLEAN, single : BOOLEAN,
               tpm : BOOLEAN]

VARIABLES
    build,      \* options the suite and its partitions are built with
    lends,      \* the SPMC implements FFA_MEM_LEND and FFA_MEM_SHARE
    features,   \* features[e]: ffa_fid_state of FFA_MEM_LEND and FFA_MEM_SHARE
    exec,       \* exec[e]: what the SPMC lets endpoint e do
    caller,     \* caller[e]: the endpoint whose request e works on
    regs,       \* regs[e]: the registers e's last call returned with
    rxtx,       \* rxtx[e]: e's RX/TX buffers, as the SPMC sees them
    mem         \* the memory region of the last FFA_MEM_LEND

platform == <<build, lends, features>>
messages == <<exec, caller, regs>>
buffers == <<rxtx, mem>>
abi == <<platform, messages, buffers>>

Sps == 1 .. NumSps
Vm == NumSps + 1
Endpoints == Sps \cup {Vm}

Fids == {"REQ_32", "REQ_64", "RESP_32", "RESP_64", "ERROR", "INTERRUPT", "NONE"}
Registers(fid, arg) == [fid |-> fid, arg |-> arg]
NoRegisters == Registers("NONE", None)

resumes == build.resumes

\* FFA_ID_GET: endpoints go by the ids the SPMC or the hypervisor gave them.
val_get_curr_endpoint_id(e) == e

\* The memory of a test, in the hands of its owner.
Owned == [state |-> "owned", owner |-> None, borrowers |-> {}]

AbiInit ==
    /\ build \in Builds
    /\ lends \in BOOLEAN
    /\ features = [e \in Endpoints |-> "unknown"]
    /\ exec \in {f \in [Endpoints -> {"absent", "booting"}] :
                  /\ f[Vm] = "booting"
                  /\ build.single => \A s \in Sps \ {1} : f[s] = "absent"}
    /\ caller = [e \in Endpoints |-> None]
    /\ regs = [e \in Endpoints |-> NoRegisters]
    /\ rxtx = [e \in Endpoints |-> "unmapped"]
    /\ mem = Owned

-----------------------------------------------------------------------------
(* Direct messages *)

ffa_msg_wait(e) ==
    /\ exec' = [exec EXCEPT ![e] = "waiting"]
    /\ UNCHANGED <<caller, regs>>

\* The SPMC takes a request that names its sender and a receiver that waits.
ffa_msg_send_direct_req(a, from, b, fid, arg) ==
    IF from = a /\ b \in Endpoints /\ exec[b] = "waiting"
    THEN /\ exec' = [exec EXCEPT ![a] = "blocked", ![b] = "running"]
         /\ caller' = [caller EXCEPT ![b] = a]
         /\ regs' = [regs EXCEPT ![b] = Registers(fid, arg)]
    ELSE /\ regs' = [regs EXCEPT ![a] = Registers("ERROR", None)]
         /\ UNCHANGED <<exec, caller>>

\* It takes a response that goes to the sender of the request.
ffa_msg_send_direct_resp(b, to, fid, arg) ==
    IF to = caller[b]
    THEN /\ exec' = [exec EXCEPT ![b] = "waiting", ![to] = "running"]
         /\ caller' = [caller EXCEPT ![b] = None]
         /\ regs' = [regs EXCEPT ![to] = Registers(fid, arg), ![b] = NoRegisters]
    ELSE /\ regs' = [regs EXCEPT ![b] = Registers("ERROR", None)]
         /\ UNCHANGED <<exec, caller>>

\* An interrupt of the normal world takes the PE from partition b.
Preempt(b) ==
    /\ exec' = [exec EXCEPT ![b] = "preempted", ![Vm] = "running"]
    /\ regs' = [regs EXCEPT ![Vm] = Registers("INTERRUPT", b)]
    /\ UNCHANGED caller

\* Mutation: the caller goes on without waiting for the partition.
RunReturnsAtOnce(b) ==
    /\ exec' = [exec EXCEPT ![b] = "running"]
    /\ UNCHANGED <<caller, regs>>

\* FFA_RUN of the partition that FFA_INTERRUPT named.
val_ffa_run(b) ==
    /\ exec' = [exec EXCEPT ![Vm] = "blocked", ![b] = "running"]
    /\ UNCHANGED <<caller, regs>>

\* VAL_PANIC and the end of val_main: pal_terminate_simulation, a loop.
Terminate(e) ==
    /\ exec' = [exec EXCEPT ![e] = "stopped"]
    /\ UNCHANGED <<caller, regs>>

-----------------------------------------------------------------------------
(* FFA_FEATURES and its cache *)

Answers == {"SUCCESS", "ERROR"}

ffa_features == IF lends THEN "SUCCESS" ELSE "ERROR"

val_is_ffa_feature_supported(e) ==
    \/ features[e] = "supported"
    \/ features[e] = "unknown" /\ ffa_features # "ERROR"

val_ffa_mark_supported_fid(e, supported) ==
    features' = [features EXCEPT ![e] = IF supported THEN "supported" ELSE "unsupported"]

-----------------------------------------------------------------------------
(* RX/TX buffers.  The SPMC may refuse any call; fid is its answer. *)

ffa_rxtx_map(e, fid) ==
    /\ fid = "SUCCESS" => rxtx[e] = "unmapped"
    /\ rxtx' = [rxtx EXCEPT ![e] = IF fid = "SUCCESS" THEN "free" ELSE @]

val_rxtx_map_64(e, ok) ==
    \E fid \in Answers : ok = (fid # "ERROR") /\ ffa_rxtx_map(e, fid)

ffa_rxtx_unmap(e, fid) ==
    /\ fid = "SUCCESS" => rxtx[e] # "unmapped"
    /\ rxtx' = [rxtx EXCEPT ![e] = IF fid = "SUCCESS" THEN "unmapped" ELSE @]

val_rxtx_unmap(e, ok) ==
    \E fid \in Answers : ok = (fid # "ERROR") /\ ffa_rxtx_unmap(e, fid)

\* Descriptors of the SPMC come in the RX buffer, full until it is released.
Fill(e) == rxtx' = [rxtx EXCEPT ![e] = "full"]

ffa_partition_info_get(e, ok) ==
    IF ok THEN rxtx[e] = "free" /\ Fill(e) ELSE UNCHANGED rxtx

\* The state of e's buffers after FFA_RX_RELEASE was answered with fid.
ffa_rx_release(e, fid) == IF fid = "SUCCESS" THEN "free" ELSE rxtx[e]

\* FFA_RX_RELEASE, then FFA_RXTX_UNMAP whatever came of it.
ReleaseAndUnmap(e, released, unmapped) ==
    /\ released => rxtx[e] = "full"
    /\ unmapped => rxtx[e] # "unmapped"
    /\ rxtx' = [rxtx EXCEPT ![e] =
                    IF unmapped THEN "unmapped"
                    ELSE ffa_rx_release(e, IF released THEN "SUCCESS" ELSE "ERROR")]

-----------------------------------------------------------------------------
(* Memory management *)

Receivers(region) ==
    {region.receivers[i].receiver : i \in 1 .. Len(region.receivers)}

\* The descriptor in the TX buffer names the caller and arrives in one piece.
Complete(e, d) == rxtx[e] # "unmapped" /\ d.region.sender = e /\ d.fragment = d.total

Transaction(e, d) ==
    [state |-> "lent", owner |-> e, borrowers |-> Receivers(d.region)]

ffa_mem_lend(e, d, ok) ==
    /\ ok => Complete(e, d)
    /\ mem' = IF ok THEN Transaction(e, d) ELSE mem

\* FFA_MEM_SHARE of the region that is lent.
ffa_mem_share(e, d, ok) ==
    /\ ok => Complete(e, d)
    /\ mem' = IF ok /\ mem.state = "owned" THEN Transaction(e, d) ELSE mem

\* The answer to a retrieve request is a descriptor in the RX buffer.
ffa_mem_retrieve(e, request, ok) ==
    /\ ok => /\ mem.state = "lent"
             /\ mem.owner = request.region.sender
             /\ e \in mem.borrowers \cap Receivers(request.region)
             /\ rxtx[e] = "free"
    /\ mem' = IF ok THEN [mem EXCEPT !.state = "retrieved"] ELSE mem

ffa_mem_relinquish(e, request, ok) ==
    /\ ok => /\ mem.state = "retrieved"
             /\ e \in mem.borrowers
             /\ request.endpoints = <<e>>
    /\ mem' = IF ok THEN [mem EXCEPT !.state = "lent"] ELSE mem

ffa_mem_reclaim(e, ok) ==
    /\ ok => mem.state = "lent" /\ mem.owner = e
    /\ mem' = IF ok THEN Owned ELSE mem

AbiTypeOK ==
    /\ build \in Builds
    /\ features \in [Endpoints -> {"unknown", "supported", "unsupported"}]
    /\ exec \in [Endpoints -> {"absent", "booting", "waiting", "running",
                               "blocked", "preempted", "stopped"}]
    /\ caller \in [Endpoints -> Endpoints \cup {None}]
    /\ \A e \in Endpoints : regs[e].fid \in Fids
    /\ rxtx \in [Endpoints -> {"unmapped", "free", "full"}]
    /\ mem.state \in {"owned", "lent", "retrieved"}
    /\ mem.owner \in Endpoints \cup {None}
    /\ mem.borrowers \subseteq Endpoints
=============================================================================
