---------------------------- MODULE TpmPlatform ----------------------------
(***************************************************************************)
(* The TPM behind the service: pal_tpm.c, which brings the TPM reference   *)
(* code up with the first command, and the platform layer the reference    *)
(* code runs on (pal_tpm_tcg_platform.c).  The reference code is external: *)
(* manufacturing clears and writes the NV memory through the platform      *)
(* layer and may stop at any write, startup and commands may fail, and a   *)
(* fatal error or missing entropy ends in _plat__Fail, which never returns. *)
(***************************************************************************)
EXTENDS Naturals, Sequences

CONSTANT NV_MEMORY_SIZE

VARIABLES
    initialized,        \* g_pal_tpm_initialized
    nvReady,            \* g_tpm_nv_ready
    nv,                 \* g_tpm_nv and g_tpm_nv_needs_manufacture
    started,            \* TPM2_Startup(CLEAR) succeeded since _TPM_Init
    failureMode         \* g_tpm_in_failure_mode

tpmVars == <<initialized, nvReady, nv, started, failureMode>>

NvOffsets == 0 .. NV_MEMORY_SIZE - 1
NvType == [byte : [NvOffsets -> {"zero", "ones", "data"}], needsManufacture : BOOLEAN]

TpmTypeOK ==
    /\ initialized \in BOOLEAN /\ nvReady \in BOOLEAN /\ started \in BOOLEAN
    /\ nv \in NvType
    /\ failureMode \in BOOLEAN

TpmInit ==
    /\ initialized = FALSE /\ nvReady = FALSE
    /\ nv = [byte |-> [a \in NvOffsets |-> "zero"], needsManufacture |-> TRUE]
    /\ started = FALSE /\ failureMode = FALSE

-----------------------------------------------------------------------------
(* NV memory.  Data is a sequence; the offset and the size are unsigned.   *)

pal_tpm_nv_range_valid(offset, size) ==
    \/ size = 0
    \/ offset < NV_MEMORY_SIZE /\ size <= NV_MEMORY_SIZE - offset

_plat__NvMemoryRead(n, offset, size) == [k \in 1 .. size |-> n.byte[offset + k - 1]]

_plat__NvGetChangedStatus(n, offset, data) ==
    _plat__NvMemoryRead(n, offset, Len(data)) # data

\* The memory with "data" from "offset" on; nothing to do for size 0.
Updated(n, offset, size, data, needed) ==
    IF size = 0 \/ ~pal_tpm_nv_range_valid(offset, size) THEN n
    ELSE [byte |-> [a \in NvOffsets |-> IF offset <= a /\ a < offset + size
                                        THEN data[a - offset + 1] ELSE n.byte[a]],
          needsManufacture |-> needed]

_plat__NvMemoryWrite(n, offset, data) == Updated(n, offset, Len(data), data, FALSE)

_plat__NvMemoryClear(n, offset, size) ==
    Updated(n, offset, size, [k \in 1 .. size |-> "ones"], TRUE)

\* memmove: the source is read as it was.
_plat__NvMemoryMove(n, source, dest, size) ==
    IF pal_tpm_nv_range_valid(source, size)
    THEN Updated(n, dest, size, _plat__NvMemoryRead(n, source, size), FALSE)
    ELSE n

-----------------------------------------------------------------------------
(* What the platform layer tells the reference code about its PCRs         *)

IMPLEMENTATION_PCR == 24
HCRTM_PCR == 0

\* The resetLocality column of g_tpm_pcr_init_attributes, a set of bits.
resetLocality ==
    [n \in 0 .. IMPLEMENTATION_PCR - 1 |->
        CASE n \in 17 .. 19 -> 16 [] n \in 20 .. 22 -> 20 [] n \in {16, 23} -> 15
          [] OTHER -> 0]

_platPcr__GetPcrInitializationAttributes(n) ==
    resetLocality[IF n >= IMPLEMENTATION_PCR THEN 0 ELSE n]

_platPcr_IsPcrBankDefaultActive(alg) == alg \in {"SHA256", "SHA384"}

\* The value of PCR n after startup at a locality, or no value.
_platPcr__GetInitialValueForPcr(n, digest, locality, buffer) ==
    IF n >= IMPLEMENTATION_PCR \/ digest = 0 \/ buffer < digest THEN <<>>
    ELSE LET bits == _platPcr__GetPcrInitializationAttributes(n)
             default == IF (bits \div 16) % 2 = 1 THEN 255 ELSE 0
         IN  [k \in 1 .. digest |-> IF n = HCRTM_PCR /\ k = digest THEN locality
                                                                  ELSE default]

-----------------------------------------------------------------------------
_plat__NVEnable == nvReady' = TRUE

\* What manufacturing stores, and what it leaves when it stops after "size"
\* bytes: it clears all of the NV memory first.
Image == [k \in 1 .. NV_MEMORY_SIZE |-> "data"]
NvWrites(size) ==
    nv' = _plat__NvMemoryWrite(_plat__NvMemoryClear(nv, 0, NV_MEMORY_SIZE), 0,
                               SubSeq(Image, 1, size))

\* TPM_Manufacture(1), when the NV memory asks for it.  The first write already
\* takes the memory for manufactured.
Manufacture(ok) ==
    \/ ~nv.needsManufacture /\ ok /\ UNCHANGED nv
    \/ /\ nv.needsManufacture
       /\ IF ok THEN NvWrites(NV_MEMORY_SIZE)
                ELSE \E size \in 0 .. NV_MEMORY_SIZE - 1 : NvWrites(size)

\* TPM2_Startup(CLEAR), and whether its response is the good one.
pal_tpm_startup(ok) == started' = ok

\* Mutation: initialised before the outcome of startup is known.
InitBeforeStartup(ok) ==
    /\ ~initialized
    /\ _plat__NVEnable
    /\ \/ Manufacture(TRUE) /\ pal_tpm_startup(ok) /\ initialized' = TRUE
       \/ ~ok /\ Manufacture(FALSE) /\ started' = FALSE /\ UNCHANGED initialized

\* NV memory, _TPM_Init, which undoes an earlier startup, manufacture, startup.
\* A failure leaves the flag clear, so that the next command tries again.
pal_tpm_init(ok) ==
    /\ ~initialized
    /\ _plat__NVEnable
    /\ \/ Manufacture(TRUE) /\ pal_tpm_startup(ok) /\ initialized' = ok
       \/ ~ok /\ Manufacture(FALSE) /\ started' = FALSE /\ UNCHANGED initialized

\* pal_tpm_execute_command; ok says whether a response came back.
pal_tpm_execute_command(ok) ==
    /\ ~failureMode
    /\ \/ initialized /\ UNCHANGED <<initialized, nvReady, nv, started>>
       \/ pal_tpm_init(ok)
       \/ ~ok /\ pal_tpm_init(TRUE)
    /\ UNCHANGED failureMode

\* _plat__Fail on the way: the failure is recorded and the TPM loops for ever.
Fail ==
    /\ ~failureMode
    /\ failureMode' = TRUE
    /\ UNCHANGED <<initialized, nvReady, nv, started>>

\* The TPM by itself: commands of any outcome, one after the other.
TpmNext == Fail \/ \E ok \in BOOLEAN : pal_tpm_execute_command(ok)
TpmSpec == TpmInit /\ [][TpmNext]_tpmVars

(* The TPM executes commands only when its NV memory is there and marked   *)
(* manufactured, and TPM2_Startup has succeeded (pal_tpm_init, also when   *)
(* an earlier attempt failed part of the way).                             *)
ReadyWhenInitialized == initialized => nvReady /\ ~nv.needsManufacture /\ started
=============================================================================
