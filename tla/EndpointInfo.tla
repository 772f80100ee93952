---------------------------- MODULE EndpointInfo ----------------------------
(***************************************************************************)
(* Boot of the endpoints, and the endpoint_info_table each of them holds:  *)
(* VM1 finds out which partitions are deployed and sends its table to each *)
(* of them, an entry at a time and half an entry per direct message        *)
(* (val_main.c, val_framework.c, val_endpoint_info.c).                     *)
(***************************************************************************)
EXTENDS FfaAbi

VARIABLES
    pc,         \* pc[e]: where endpoint e is
    out,        \* out[s]: the response partition s is about to send
    table,      \* table[e]: endpoint_info_table of endpoint e
    half,       \* half[s]: entry index and first half of val_sync_ep_info_service
    cursor      \* VM1's i, j of val_send_sync_ep_info and the first send's fid

info == <<table, half, cursor>>

\* The first four words of an entry hold is_valid and id, the last four uuid.
FirstHalf(entry) == [valid |-> entry.valid, id |-> entry.id]
SecondHalf(entry) == [uuid |-> entry.uuid]
Entry(first, uuid) == [valid |-> first.valid, id |-> first.id, uuid |-> uuid]

\* The table of the build; a UUID is the number of its endpoint, and 0 is nil.
\* A hypervisor may give VM1 another id than this one, and the SPMC a partition
\* that goes by its UUID.
BuiltTable ==
    [i \in Endpoints |-> [valid |-> i = Vm, id |-> IF IF i = Vm THEN resumes ELSE build.tpm
                                                  THEN 0 ELSE i,
                          uuid |-> i]]

val_get_endpoint_id(e, logical) == table[e][logical].id

\* The first entry with the id of e itself, or else one past the end.
LogicalId(e, entries) ==
    LET mine == {i \in Endpoints : entries[i].id = val_get_curr_endpoint_id(e)}
    IN  IF mine = {} THEN Vm + 1 ELSE CHOOSE i \in mine : \A j \in mine : i <= j
val_get_curr_endpoint_logical_id(e) == LogicalId(e, table[e])

\* val_run_test_suite: VM1 dispatches the tests, any other endpoint serves them.
Role(logical) == IF logical = Vm THEN "discover" ELSE "loop"

InfoInit ==
    /\ AbiInit
    /\ pc = [e \in Endpoints |-> "main"]
    /\ out = [s \in Sps |-> None]
    /\ table = [e \in Endpoints |-> BuiltTable]
    /\ half = [s \in Sps |-> None]
    /\ cursor = [i |-> 1, j |-> 1, first |-> "NONE"]

At(e, where) == exec[e] = "running" /\ pc[e] = where
\* The registers of VM1's call are final: FFA_INTERRUPT was resumed.
Returned(e, where) ==
    /\ At(e, where)
    /\ ~(resumes /\ regs[e].fid = "INTERRUPT")
Goto(e, where) == pc' = [pc EXCEPT ![e] = where]

\* Endpoint a sends a request and looks at the result at "where".
Call(a, b, fid, arg, where) ==
    /\ ffa_msg_send_direct_req(a, val_get_endpoint_id(a, a), val_get_endpoint_id(a, b),
                               fid, arg)
    /\ Goto(a, where)

\* Partition s is done with a request: the response, and where it waits next.
Respond(s, fid, arg, where) ==
    /\ out' = [out EXCEPT ![s] = [fid |-> fid, arg |-> arg, where |-> where]]
    /\ Goto(s, "reply")

\* The sender of the request is answered, by the id in the request or, where a
\* test function asks for the next message, by the id that s's own table has.
Reply(s) ==
    /\ At(s, "reply")
    /\ ffa_msg_send_direct_resp(s, IF out[s].where \in {"s_handle", "s_relinquish"}
                                   THEN val_get_endpoint_id(s, caller[s]) ELSE caller[s],
                                out[s].fid, out[s].arg)
    /\ Goto(s, out[s].where)
    /\ out' = [out EXCEPT ![s] = None]
    /\ UNCHANGED <<platform, buffers, info>>

-----------------------------------------------------------------------------
(* Boot *)

\* A partition sets up its MMU or, at EL0, asks for its id; then it waits for its
\* first message.  It stops when this fails.
SpMain(s, ready) ==
    /\ exec[s] = "booting"
    /\ IF ready THEN /\ ffa_msg_wait(s)
                     /\ Goto(s, Role(val_get_curr_endpoint_logical_id(s)))
                ELSE Terminate(s) /\ Goto(s, "standby")
    /\ UNCHANGED <<platform, buffers, out, info>>

\* VM1 is booted after the partitions.  Under a hypervisor it takes its id
\* from FFA_ID_GET.
VmMain(version, mmu) ==
    /\ exec[Vm] = "booting"
    /\ \A s \in Sps : exec[s] \in {"absent", "waiting"}
    /\ table' = IF version /\ resumes
                THEN [table EXCEPT ![Vm][Vm].id = val_get_curr_endpoint_id(Vm)] ELSE table
    /\ IF version /\ mmu
       THEN exec' = [exec EXCEPT ![Vm] = "running"] /\ Goto(Vm, Role(LogicalId(Vm, table'[Vm])))
       ELSE /\ exec' = [exec EXCEPT ![Vm] = "stopped"]
            /\ Goto(Vm, IF version THEN "standby" ELSE "panic")
    /\ UNCHANGED <<platform, caller, regs, buffers, out, half, cursor>>

-----------------------------------------------------------------------------
(* val_ep_info_relayer_sync: which partitions are there *)

RelayerMap(ok) ==
    /\ At(Vm, "discover")
    /\ val_rxtx_map_64(Vm, ok)
    /\ Goto(Vm, IF ok THEN "descriptors" ELSE "sync")
    /\ UNCHANGED <<platform, messages, mem, out, info>>

\* The descriptors of the deployed partitions, in the latest layout: one of
\* FF-A v1.0 (8 bytes) ends before the UUID, which stays zero.
val_ffa_partition_descriptor_info_parser(desc_size) ==
    {[id |-> val_get_curr_endpoint_id(s), uuid |-> IF desc_size = 8 THEN 0 ELSE s] :
        s \in {t \in Sps : exec[t] # "absent"}}

val_uuid_is_nil(uuid) == uuid = 0
val_uuid_matches(a, b) == a = b

\* ENABLE_TPM_CRB: the partition goes by its UUID and not by its id.
IsDescribed(entry, desc) ==
    IF build.tpm
    THEN ~val_uuid_is_nil(entry.uuid) /\ val_uuid_matches(entry.uuid, desc.uuid)
    ELSE entry.id = desc.id

\* No two descriptors have the same id or UUID; the UUID brings the id along.
MatchEntry(entry, descs) ==
    LET found == {d \in descs : IsDescribed(entry, d)}
    IN  [entry EXCEPT !.valid = found # {},
                      !.id = IF found = {} THEN @ ELSE (CHOOSE d \in found : TRUE).id]

\* Descriptors of a size other than 8, 24 and 48 are left alone.
RelayerDescriptors(ok, desc_size) ==
    /\ At(Vm, "descriptors")
    /\ ffa_partition_info_get(Vm, ok)
    /\ table' = IF ok /\ desc_size \in {8, 24, 48}
                THEN [table EXCEPT ![Vm] = [i \in Endpoints |->
                         IF i \in Sps
                         THEN MatchEntry(@[i], val_ffa_partition_descriptor_info_parser(desc_size))
                         ELSE @[i]]]
                ELSE table
    /\ Goto(Vm, "release")
    /\ UNCHANGED <<platform, messages, mem, out, half, cursor>>

\* Failures here are logged only.
RelayerRelease(released, unmapped) ==
    /\ At(Vm, "release")
    /\ ReleaseAndUnmap(Vm, released, unmapped)
    /\ Goto(Vm, "sync")
    /\ UNCHANGED <<platform, messages, mem, out, info>>

-----------------------------------------------------------------------------
(* val_send_sync_ep_info and val_sync_ep_info_service: VM1's table goes out *)

SyncDone == cursor.i > NumSps

SyncSkip ==
    /\ At(Vm, "sync")
    /\ ~SyncDone
    /\ ~table[Vm][cursor.i].valid
    /\ cursor' = [cursor EXCEPT !.i = @ + 1]
    /\ UNCHANGED <<abi, pc, out, table, half>>

SyncFirst ==
    /\ At(Vm, "sync")
    /\ ~SyncDone
    /\ table[Vm][cursor.i].valid
    /\ Call(Vm, cursor.i, "REQ_32",
            [svc |-> "EP_INFO_SYNC", index |-> cursor.j,
             words |-> FirstHalf(table[Vm][cursor.j])], "second")
    /\ UNCHANGED <<platform, buffers, out, info>>

SyncSecond ==
    /\ Returned(Vm, "second")
    /\ cursor' = [cursor EXCEPT !.first = regs[Vm].fid]
    /\ Call(Vm, cursor.i, "REQ_32",
            [svc |-> "EP_INFO_SYNC", index |-> cursor.j,
             words |-> SecondHalf(table[Vm][cursor.j])], "sent")
    /\ UNCHANGED <<platform, buffers, out, table, half>>

\* Mutation: the loop over the entries stops before VM1's own.
SyncAdvanceShort ==
    cursor' = IF cursor.j < NumSps THEN [cursor EXCEPT !.j = @ + 1]
                                   ELSE [cursor EXCEPT !.i = @ + 1, !.j = 1]

SyncAdvance ==
    cursor' = IF cursor.j < Vm THEN [cursor EXCEPT !.j = @ + 1]
                               ELSE [cursor EXCEPT !.i = @ + 1, !.j = 1]

SyncCheck ==
    /\ Returned(Vm, "sent")
    /\ IF "ERROR" \in {cursor.first, regs[Vm].fid}
       THEN Terminate(Vm) /\ Goto(Vm, "panic") /\ UNCHANGED cursor
       ELSE SyncAdvance /\ Goto(Vm, "sync") /\ UNCHANGED messages
    /\ UNCHANGED <<platform, buffers, out, table, half>>

\* The service answers the first half and takes the next message, whatever
\* it is, for the second.
SyncServiceFirst(s) ==
    /\ At(s, "loop")
    /\ regs[s].fid = "REQ_32"
    /\ regs[s].arg.svc = "EP_INFO_SYNC"
    /\ half' = [half EXCEPT ![s] = regs[s].arg]
    /\ Respond(s, "RESP_32", "ok", "sync")
    /\ UNCHANGED <<platform, messages, buffers, table, cursor>>

SyncServiceSecond(s) ==
    /\ At(s, "sync")
    /\ table' = [table EXCEPT ![s][half[s].index] =
                     Entry(half[s].words,
                           IF regs[s].arg.svc = "EP_INFO_SYNC"
                           THEN regs[s].arg.words.uuid ELSE 0)]
    /\ half' = [half EXCEPT ![s] = None]
    /\ Respond(s, "RESP_32", "ok", "loop")
    /\ UNCHANGED <<platform, messages, buffers, cursor>>

VmInfo ==
    \/ \E version, mmu \in BOOLEAN : VmMain(version, mmu)
    \/ \E ok \in BOOLEAN : RelayerMap(ok)
    \/ \E ok \in BOOLEAN, desc_size \in {0, 8, 24} : RelayerDescriptors(ok, desc_size)
    \/ \E released, unmapped \in BOOLEAN : RelayerRelease(released, unmapped)
    \/ SyncSkip \/ SyncFirst \/ SyncSecond \/ SyncCheck

SpInfo(s) ==
    \/ \E ready \in BOOLEAN : SpMain(s, ready)
    \/ SyncServiceFirst(s) \/ SyncServiceSecond(s) \/ Reply(s)

EntryType ==
    [valid : BOOLEAN, id : 0 .. Vm, uuid : 0 .. Vm]

InfoTypeOK ==
    /\ AbiTypeOK
    /\ table \in [Endpoints -> [Endpoints -> EntryType]]
    /\ cursor \in [i : 1 .. NumSps + 1, j : Endpoints, first : Fids]
=============================================================================
