----------------------------- MODULE PageTables -----------------------------
(***************************************************************************)
(* The stage-1 translation tables of an endpoint (val_memory.c): built for *)
(* the image and the devices before the MMU is enabled, and extended by    *)
(* tests that map memory they retrieved.  fill_translation_table is the    *)
(* recursion it is in the code, with its calls on a stack; every iteration *)
(* of its loop is a step.                                                  *)
(*                                                                         *)
(* Addresses count half pages, so that a region's last address is not its  *)
(* last page.  Tables have 2^Bits entries and the root 2, which leaves the *)
(* number of levels of each granule as it is.                              *)
(***************************************************************************)
EXTENDS Naturals, Sequences

CONSTANTS
    Bits,           \* bits_per_level
    NumL2, NumL3,   \* tables in the pools tt_l2_base_*, tt_l3_base_*
    Lengths,        \* lengths of the regions, in pages
    Shifts,         \* physical minus virtual address, in pages
    BootRegions,    \* regions mapped before the MMU is enabled
    MaxRegions,     \* bound on the regions mapped
    None, Any

VARIABLES
    root,           \* level of tt_l0_base, from the granule: 4K 0, 16K 1, 64K 2
    tables,         \* tables[t][i]: descriptor i of table t
    used,           \* used[l]: tables of level l's pool taken
    frames,         \* the calls of fill_translation_table, innermost first
    phase,          \* where val_main is
    asked,          \* history: what was asked for each page
    now,            \* history: the pages of the region being mapped
    count           \* history: regions mapped

vars == <<root, tables, used, frames, phase, asked, now, count>>

PageSize == 2
Tables == {<<0, 1>>, <<1, 1>>} \cup ({2} \X (1 .. NumL2)) \cup ({3} \X (1 .. NumL3))
Root == <<0, 1>>

NoDesc == [kind |-> "none"]

BlockSize(level) == PageSize * 2 ^ (Bits * (3 - level))
Nbits(level) == IF level = root THEN 1 ELSE Bits
Index(level, address) == (address \div BlockSize(level)) % 2 ^ Nbits(level)

NumPages == 2 ^ (1 + Bits * (3 - root))     \* 2^PGT_IAS, and 2^PAGT_OAS
Pages == 0 .. NumPages - 1

\* The platform's addresses are below 2^39: with four levels, all of them are
\* under the first descriptor of the root.
Limit == IF root = 0 THEN NumPages \div 2 ELSE NumPages

\* What the hardware finds: the descriptor a walk ends with, then the address.
Walk(address) ==
    LET w[level \in 0 .. 3] ==
            IF level <= root THEN tables[Root][Index(root, address)]
            ELSE IF w[level - 1].kind = "table"
            THEN tables[w[level - 1].to][Index(level, address)]
            ELSE w[level - 1]
    IN  w[3]

Translate(page) ==
    LET d == Walk(page * PageSize)
    IN  IF d.kind # "leaf" THEN None
        ELSE d.output + ((page * PageSize) % BlockSize(d.level))

Init ==
    /\ root = 0
    /\ tables = [t \in Tables |-> [i \in 0 .. 2 ^ Bits - 1 |-> NoDesc]]
    /\ used = [l \in {2, 3} |-> 0]
    /\ frames = <<>>
    /\ phase = "boot"
    /\ asked = [p \in {} |-> None]
    /\ now = {}
    /\ count = 0

-----------------------------------------------------------------------------
(* val_setup_mmu and val_mem_map_pgt *)

\* val_assign_tg0_to_endpoint: the first granule supported of 4K, 64K and 16K.
AssignTg0(supported) ==
    IF "4K" \in supported THEN 0 ELSE IF "64K" \in supported THEN 2 ELSE 1

val_setup_mmu(supported) ==
    /\ phase = "boot"
    /\ phase' = IF supported = {} THEN "standby" ELSE "mapping"
    /\ root' = IF supported = {} THEN root ELSE AssignTg0(supported)
    /\ asked' = [p \in Pages' |-> None]
    /\ UNCHANGED <<tables, used, frames, now, count>>

\* A partition at EL0 has no tables of its own.
SkipMmu ==
    /\ phase = "boot"
    /\ phase' = "el0"
    /\ UNCHANGED <<root, tables, used, frames, asked, now, count>>

MmuEnabled ==
    /\ phase = "mapping"
    /\ frames = <<>>
    /\ count = BootRegions
    /\ phase' = "enabled"
    /\ UNCHANGED <<root, tables, used, frames, asked, now, count>>

\* An error at boot ends in standby, one of val_mem_map_pgt is the caller's.
Failed == phase' = IF phase = "mapping" THEN "standby" ELSE phase

\* The regions of the image and its devices, one after the other.
val_map_endpoint_region == phase = "mapping" /\ count < BootRegions

\* A test maps a region; the tables are the ones the hardware walks.
val_mem_map_pgt == phase = "enabled" /\ count < MaxRegions

MayMap == frames = <<>> /\ (val_map_endpoint_region \/ val_mem_map_pgt)

\* A section of the image ends before it starts, or the platform has no list
\* of devices.
NoRegions ==
    /\ frames = <<>>
    /\ val_map_endpoint_region
    /\ phase' = "standby"
    /\ UNCHANGED <<root, tables, used, frames, asked, now, count>>

\* val_pgt_create refuses misaligned and too large addresses.
PgtRefuses(aligned, va, pa) ==
    /\ MayMap
    /\ ~aligned \/ pa >= NumPages
    /\ count' = count + 1
    /\ Failed
    /\ UNCHANGED <<root, tables, used, frames, asked, now>>

\* The virtual address is cut to the input size.
val_pgt_create(va, pa, length) ==
    LET first == va % NumPages
        input == first * PageSize
    IN  /\ MayMap
        /\ pa < NumPages
        /\ first + length <= Limit
        /\ frames' = <<[table |-> Root, level |-> root, input |-> input,
                        top |-> input + length * PageSize - 1,
                        output |-> pa * PageSize]>>
        /\ now' = first .. first + length - 1
        /\ asked' = [p \in Pages |-> IF p \in now' THEN (pa + p - first) * PageSize
                                                   ELSE asked[p]]
        /\ count' = count + 1
        /\ UNCHANGED <<root, tables, used, phase>>

-----------------------------------------------------------------------------
(* fill_translation_table *)

Frame == Head(frames)
Slot == Index(Frame.level, Frame.input)
Desc == tables[Frame.table][Slot]
SetDesc(d) == tables' = [tables EXCEPT ![Frame.table][Slot] = d]

BlockTop == (Frame.input \div BlockSize(Frame.level) + 1) * BlockSize(Frame.level) - 1
ChunkTop == IF Frame.top < BlockTop THEN Frame.top ELSE BlockTop
Advanced ==
    LET size == ChunkTop - Frame.input + 1
    IN  [Frame EXCEPT !.input = @ + size, !.output = @ + size]

Filling == frames # <<>> /\ Frame.input < Frame.top
AtPage == Frame.level = 3
Align(address, size) == (address \div size) * size

FillPage ==
    /\ Filling
    /\ AtPage
    /\ SetDesc([kind |-> "leaf", level |-> 3, output |-> Align(Frame.output, PageSize)])
    /\ frames' = <<Advanced>> \o Tail(frames)
    /\ UNCHANGED <<root, used, phase, asked, now, count>>

\* Mutation: the alignment of the output address is not looked at.
EligibleByInput ==
    LET size == BlockSize(Frame.level)
    IN  Frame.input % size = 0 /\ Frame.top >= Frame.input + size - 1

BlockEligible ==
    LET size == BlockSize(Frame.level)
    IN  /\ Frame.input % size = 0
        /\ Frame.output % size = 0
        /\ Frame.top >= Frame.input + size - 1

FillBlock ==
    /\ Filling
    /\ ~AtPage
    /\ BlockEligible
    /\ SetDesc([kind |-> "leaf", level |-> Frame.level,
                output |-> Align(Frame.output, BlockSize(Frame.level))])
    /\ frames' = <<Advanced>> \o Tail(frames)
    /\ UNCHANGED <<root, used, phase, asked, now, count>>

\* The next level's table: the one already there, or a new one where there is
\* nothing or a block.
NeedsTable == Desc.kind # "table"
Exhausted ==
    \/ Frame.level = 1 /\ used[2] = NumL2
    \/ Frame.level = 2 /\ used[3] = NumL3
tt_l1_base == <<1, 1>>
tt_l2_base == <<2, used[2] + 1>>
tt_l3_base == <<3, used[3] + 1>>
NewTable == CASE Frame.level = 0 -> tt_l1_base
              [] Frame.level = 1 -> tt_l2_base
              [] Frame.level = 2 -> tt_l3_base

\* The rest of a block that makes way for a table is no longer mapped.
BlockPages ==
    {p \in Pages : (p * PageSize) \div BlockSize(Frame.level)
                       = Frame.input \div BlockSize(Frame.level)}

FillTable ==
    /\ Filling
    /\ ~AtPage
    /\ ~BlockEligible
    /\ NeedsTable => ~Exhausted
    /\ LET next == IF NeedsTable THEN NewTable ELSE Desc.to
       IN  /\ SetDesc([kind |-> "table", to |-> next])
           /\ frames' = <<[table |-> next, level |-> Frame.level + 1,
                           input |-> Frame.input, top |-> ChunkTop,
                           output |-> Frame.output],
                          Advanced>> \o Tail(frames)
    /\ used' = IF NeedsTable /\ Frame.level > 0
               THEN [used EXCEPT ![Frame.level + 1] = @ + 1] ELSE used
    /\ asked' = IF Desc.kind = "leaf"
                THEN [p \in Pages |-> IF p \in BlockPages \ now THEN None ELSE asked[p]]
                ELSE asked
    /\ UNCHANGED <<root, phase, now, count>>

FillReturns ==
    /\ frames # <<>>
    /\ ~Filling
    /\ frames' = Tail(frames)
    /\ UNCHANGED <<root, tables, used, phase, asked, now, count>>

\* Out of tables: every call returns the error, with the region mapped in part.
FillFails ==
    /\ Filling
    /\ ~AtPage
    /\ ~BlockEligible
    /\ NeedsTable
    /\ Exhausted
    /\ frames' = <<>>
    /\ asked' = [p \in Pages |-> IF p \in now THEN Any ELSE asked[p]]
    /\ Failed
    /\ UNCHANGED <<root, tables, used, now, count>>

-----------------------------------------------------------------------------

Next ==
    \/ \E supported \in SUBSET {"4K", "16K", "64K"} : val_setup_mmu(supported)
    \/ SkipMmu \/ NoRegions \/ MmuEnabled
    \/ \E va \in 0 .. NumPages, shift \in Shifts :
           \/ \E aligned \in BOOLEAN : PgtRefuses(aligned, va, va + shift)
           \/ \E length \in Lengths : val_pgt_create(va, va + shift, length)
    \/ FillPage \/ FillBlock \/ FillTable \/ FillReturns \/ FillFails

Spec == Init /\ [][Next]_vars

-----------------------------------------------------------------------------

\* fill_translation_table: whatever regions were mapped in whatever order, by
\* pages or by blocks, a walk of the tables finds for each page the address the
\* last region with this page asked for, and nothing for a page no region has.
\* Left out are the pages of a region that ran out of tables, and what remains
\* of a block that a later region replaced by a table is unmapped.
MapsAsAsked ==
    frames = <<>> /\ phase \in {"mapping", "enabled"} =>
        \A p \in Pages : asked[p] # Any => Translate(p) = asked[p]
=============================================================================
