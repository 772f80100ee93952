---------------------------- MODULE MemoryRegion ----------------------------
(***************************************************************************)
(* The memory transaction descriptors of val_ffa_helpers.c and .h: what    *)
(* val_ffa_memory_region_init and val_ffa_memory_retrieve_request_init     *)
(* write to a TX buffer for FFA_MEM_LEND, FFA_MEM_SHARE, FFA_MEM_DONATE    *)
(* and FFA_MEM_RETRIEVE_REQ, with its lengths in bytes.  Tags, flags and   *)
(* implementation defined words are copied and left out.                   *)
(***************************************************************************)
EXTENDS Naturals, Sequences

CONSTANT PLATFORM_FFA_V     \* 10, 11 or 12: FF-A v1.0, v1.1, v1.2

ASSUME VersionAssumption == PLATFORM_FFA_V \in 10 .. 12

\* sizeof of the structures.
RegionSize == IF PLATFORM_FFA_V = 10 THEN 32 ELSE 48
AccessSize == IF PLATFORM_FFA_V = 12 THEN 32 ELSE 16
CompositeSize == 16
ConstituentSize == 16

\* receivers_offset; before v1.1 the array's place is fixed.
EP_MEM_ACCESS_DESC_ARR_OFFSET == IF PLATFORM_FFA_V = 10 THEN 32 ELSE 48

-----------------------------------------------------------------------------
\* ATTR_FUNCTION_GET and ATTR_FUNCTION_SET: two bits of a byte, from bit low.
Field(attr, low) == (attr \div 2 ^ low) % 4
SetField(attr, low, value) ==
    attr - Field(attr, low) * 2 ^ low + (value % 4) * 2 ^ low

Permissions(init) == SetField(SetField(0, 0, init.data), 2, init.instruction)
Attributes(init) ==
    SetField(SetField(SetField(0, 4, init.type), 2, init.cacheability),
             0, init.shareability)

Access(receiver, init, offset) ==
    [receiver |-> receiver, permissions |-> Permissions(init), offset |-> offset]

\* ffa_memory_region_init_header, ffa_memory_region_retrieve_init_header: the
\* receiver of a region for one; those of a region for several come later.
Header(init, handle) ==
    [sender |-> init.sender, attributes |-> Attributes(init), handle |-> handle,
     receivers |-> IF init.multi THEN <<>> ELSE <<Access(init.receiver, init, 0)>>]

WithReceivers(header, init) ==
    IF init.multi
    THEN [header EXCEPT !.receivers =
             [i \in 1 .. Len(init.receivers) |-> Access(init.receivers[i], init, 0)]]
    ELSE header

CompositeOffset(region) == RegionSize + Len(region.receivers) * AccessSize

WithOffsets(region) ==
    [region EXCEPT !.receivers =
        [i \in 1 .. Len(region.receivers) |->
            [region.receivers[i] EXCEPT !.offset = CompositeOffset(region)]]]

\* ffa_memory_region_get_composite: offset 0 is none.
ffa_memory_region_get_composite(region) == region.receivers[1].offset

-----------------------------------------------------------------------------
\* The constituents copied: those that fit behind the header.  The difference
\* is unsigned: a maximum below the header's size, and so the zero that the
\* tests leave in memory_region_max_size, wraps to more than any count.
Copied(count, max, offset) ==
    IF offset <= max /\ (max - offset) \div ConstituentSize < count
    THEN (max - offset) \div ConstituentSize
    ELSE count

PageCount(constituents) ==
    LET sum[i \in 0 .. Len(constituents)] ==
            IF i = 0 THEN 0 ELSE sum[i - 1] + constituents[i].pages
    IN  sum[Len(constituents)]

val_ffa_memory_region_init(init, constituents) ==
    LET region == WithOffsets(WithReceivers(Header(init, 0), init))
        offset == ffa_memory_region_get_composite(region) + CompositeSize
        copied == Copied(Len(constituents), init.max, offset)
    IN  [region |-> region,
         pages |-> PageCount(constituents),
         constituents |-> SubSeq(constituents, 1, copied),
         total |-> offset + Len(constituents) * ConstituentSize,
         fragment |-> offset + copied * ConstituentSize,
         remaining |-> Len(constituents) - copied]

\* The composite offset 0 lets the SPMC choose the addresses.  The receivers of
\* a region for several are not compiled in for v1.0, which sends none.
val_ffa_memory_retrieve_request_init(init, handle) ==
    LET header == Header(init, handle)
        region == IF PLATFORM_FFA_V >= 11 THEN WithReceivers(header, init) ELSE header
    IN  [region |-> region, size |-> CompositeOffset(region)]

\* ffa_mem_relinquish_init
ffa_mem_relinquish_init(handle, sender) == [handle |-> handle, endpoints |-> <<sender>>]
=============================================================================
