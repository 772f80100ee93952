# Specifications of the FF-A Architecture Compliance Suite

The suite runs tests of a firmware's FF-A interface from several endpoints: a
dispatcher VM that walks through the test list, secure partitions that serve
it, secondary CPUs for multi-PE tests, and a TPM partition with a TPM service. These modules specify
the parts of the suite that keep state over several steps or are used by
several actors. `PROJECT.json` maps each definition to the lines it models.

## Parts of the system

| Part | Code | Modules |
|---|---|---|
| TPM service | `val_tpm_crb_service.c` | `TpmCrbService`, abstract `LocalityOwnership`, `TpmProofs` |
| TPM client library and its tests | `val_tpm_crb_common_abi.c`, `test/tpm` | `Vm1Tests`, `Vm1TestsProofs`, `Vm1ResidueProofs` |
| TPM platform layer | `pal_tpm_*.c` | `TpmPlatform`, `TpmProofs` |
| Interrupts | `pal_irq.c`, `driver/src/gic` | `Gic`, `IrqDispatch` |
| Events, spin lock | `val_shemaphore.c`, `pal_spinlock.S` | `EventSync`, abstract `CountingEvent`, `ValProofs` |
| Multi-PE tests | `val_test_dispatch.c` (`g_mp_state`) | `MultiPe`, `MultiPeProofs` |
| Dispatcher | `val_test_dispatch.c`, `val_framework.c` | `TestDispatch`, `TestDispatchProofs` |
| FF-A calls, feature cache | `val_ffa_abi.c`, `val_ffa_helpers.c` | `FfaAbi` |
| Memory transaction descriptors | `val_ffa_helpers.c`, `.h` | `MemoryRegion`, `ValProofs` |
| Boot and endpoint information | `val_main.c`, `val_framework.c`, `val_endpoint_info.c` | `EndpointInfo` |
| Tests of two endpoints, and a whole session | `val_main.c`, `val_test_dispatch.c`, `share_state_machine_3` | `TestSession` |
| Translation tables | `val_memory.c` | `PageTables` |
| Heap | `val_malloc.c` | `HeapAllocator`, `HeapListProofs`, `HeapAllocatorProofs` |

How they are composed: `Vm1Tests` instantiates `TpmCrbService`, `TpmPlatform` and
`IrqDispatch` (which extends `Gic`) and runs them together. `TestSession` extends
`TestDispatch` and `EndpointInfo`, which extends `FfaAbi`, which extends
`MemoryRegion`: the calls, the boot that makes them, the dispatcher and its tests
are one specification.
`MultiPe` takes the events as counting events, which is what `EventSync` is shown
to implement.

## Modules

**TpmCrbService.** One direct request is one action, since the partition has
one execution context and handles a request to completion. The variables are
the service's static variables and the CRB registers of each locality; `reply`
records the answer, the locality a command ran for and the notification bit
set. Between requests clients write the control registers and the buffer. A
buffer is a command, a response, or content with an unusable size. The refusal
of a notification by the SPMC and a failing TPM are nondeterministic.

**TpmPlatform.** NV memory as bytes and the manufacture flag, `pal_tpm_init` with
its steps and a failure of each, command execution, the failure mode that never
ends, and the initial values of the PCRs. The first write to the NV memory already
clears the flag, so a manufacture that failed half way is taken for complete by
the next attempt, as in the code. The reference TPM is external.

**Gic, IrqDispatch.** An operator per driver function, over the registers the code
writes; signalling and priorities are the hardware's. A disabled interrupt may
still be taken for a while (`late`), which is how the dispatcher meets a spurious
one. There is one PE, since only the boot CPU registers interrupts; it is at core
position 0, whose entry of `mpidr_list` is the one the code marks as unset. Its
redistributor frame may not be found, which the code logs and goes on.

**Vm1Tests.** Three notification tests and `vm_to_sp_preempt`, one after the other
in any order; `pc` is the step of the running test and every early return and
`goto cleanup` is a transition. The SPMC is external: it may refuse to create or
bind, refuses to unbind or destroy only while a notification is pending, and
raises the SRI arbitrarily late. A non-secure interrupt may preempt the TPM
partition before it looks at a request; the bare-metal build does not resume it.
`own` is a history of what happened to the test's own notification.

**EventSync.** Each access to shared memory is a step, and so is each `wfe`,
`ldaxr`, `stxr` and `stlr`; event registers and exclusive monitors are state.
Memory is sequentially consistent: the barriers and cache maintenance of the
code are taken to do their work.

**MultiPe.** The boot CPU's test function and `val_secondary_cpu_test_entry`,
interleaved at their stores to `g_mp_state`. `Plan` says which CPUs each test
uses. SP1 has an execution context for each CPU, and a test's messages move it
between its service loop and the server function; a refused last message leaves
it in the latter, and the next messaging test on that CPU hangs. Secondary CPUs
take no interrupts. `run` is a history of what each test function returned.

**TestDispatch.** The regression loop with its words in memory, its counters and
its report. `val_framework.c` defines `SKIP_NVM_PROGRAMMING` and
`SKIP_WD_PROGRAMMING` (lines 12 to 14), so recovery is disabled in every build: the
non-volatile memory is an array in `.bss`, zero after each reset, no watchdog is
armed, and VM1 never asks SP1 for either. The module specifies the program as it is
built: every boot starts at the first test, and a reset comes only from the platform.
The code that takes up a test after a reset is dormant and not modelled. `counted` is
a history of what came of each test. `is_reboot_run`, `val_report_status`,
`val_update_regression_report` and `val_sort_indices` belong to `val_common`, which
is not part of the repository, and are modelled from their use.

**MemoryRegion.** Operators for the descriptors, with lengths in bytes.

**FfaAbi.** Each wrapper is an operator over the registers it returns, with the
SPMC's state behind it: who runs, who is blocked on whom, RX/TX buffers, the
memory region lent. The SPMC may refuse any call and checks the ids of sender
and receiver. `build` holds the build options that change control.

**EndpointInfo.** Partitions boot first. VM1 matches the partitions the SPMC
reports to its table, by id or, in a TPM build, by UUID (v1.0 descriptors have
none, so such a build finds nothing there), and sends the table to each of them in
halves. A hypervisor gives VM1 another id than the one built in.

**TestSession.** From boot to the end of the regression, to a reset or to a hang.
The dispatcher runs tests whose client and server are in two endpoints and keep in
step by messages alone; every FF-A call may fail. Beside `share_state_machine_3`
there are the feature test, a test that may leave an interrupt enabled, and one that
announces a reset and provokes it; the buffers and memory of the last are not
modelled, only its flag and verdict. `cut` is a history: a server function gave up
in the middle of an exchange, or an interrupt was not resumed. `failures` records
that a server function of the running test returned an error.

**PageTables.** `fill_translation_table` with its recursion on a stack, a step per
iteration. Tables have `2^Bits` entries. `asked` is a history of what each page
was asked to map to.

**HeapAllocator.** The block list in units of 8 bytes, the magic words in
memory, and what the clients hold; `val_calloc` is `val_malloc` and a clear.
Clients write all of what they are given. Unlike the code, `Next` stops after a
null dereference.

## Runs

| Run | Result | What it shows |
|---|---|---|
| `tpm_service` | holds | grants agree with the active locality; at most one saved request, kept until its client finishes it; refusals change nothing; responses are delivered whole; the service implements `LocalityOwnership` |
| `tpm_grant` | violated | a deferred command runs although its locality was given up before FINISH_NOTIFIED |
| `vm1_tests` | holds | a test that passes has seen its own notification through; what a test leaves behind is reported; handler table and GIC stay in step; the TPM takes commands only when initialised; VM1 halts only where the GIC driver does not know the CPU; every test returns |
| `event` | holds | mutual exclusion, implementation of `CountingEvent`, no lost wake-up |
| `multi_pe` | holds | no stale result is collected, no reset entry overwritten; only a panic, a failed test or a context that a refused message left behind blocks the boot CPU |
| `multi_pe_wait` | violated | the wait of `val_get_multi_pe_test_status` ends at once, and a CPU still in progress leads to a panic |
| `session` | holds | partitions that serve agree with VM1's table; counters and report are right; no test of the range is left out or taken twice; until a test fails, partitions and memory are left as they were found; a server's error reaches the verdict; VM1 waits for ever only for a partition that stopped |
| `recovery` | violated | after failed tests a partition panics at a message it does not know, and VM1 waits for it for ever |
| `mmu` | holds | a walk of the tables finds for each page what the last region asked for |
| `heap` | holds | no overlap, each pointer has its block, magic words match the list, free neighbours are joined, bounded loss |
| `heap_aligned` | violated | with sizes that are no multiple of the header, an aligned pointer may have no header before it |
| `heap_realloc` | violated | shrinking the last block dereferences a null pointer |

Each violated property states what a comment or a document of the repository
says; `PROJECT.json` quotes it under findings.

What `session` has to excuse is worth knowing. A call that fails in a server leaves
it at its last response, and the client one message ahead. The next message to that
partition is swallowed, and the one after it may reach the service loop as an invalid
id: the partition panics, and the caller is left waiting. `porting_guide.md` counts on
a watchdog here (line 50) and on test data kept over its reset (line 51); the run
`recovery` shows that the build has neither. In the same cases the client can also
miss the server's failure, so `CleanUnlessFailed` and `FailureReported` suppose that
no exchange was cut short (`cut`); they cover every failure in a client, up to the
point where a server takes a message it does not wait for, and failures in the last
step of a server.

**Bounds.** Two clients and two localities give every conflict over a locality
and over the registration. `vm1_tests` runs three tests (`MaxTests`), so that a test
can meet what two failed ones left, with two bytes of NV memory, enough for a
manufacture that fails after its first write. Two senders and two waiters, with
increments 1 and 2, let waiters compete for one event and an event serve two. Three
multi-PE tests on two CPUs use a CPU in consecutive tests and skip it in one.
`session` and `recovery` have two partitions and a list of two tests (`NumSps`,
`LastTest`) in four builds, each option on and off; every range of the list is run,
and either test may be passed over. `mmu` maps one region before the MMU is enabled
and two after it, of one or four pages, with a physical address equal to the
virtual one, off by a page or by a block; the pools are small enough to run out
(the code has 12 and 24 tables). Its regions lie below 2^39, where the code has a
first-level table, have whole pages and end inside the address space. The heap is 48
units with up to four allocations (`MaxLive`), enough for a block between two free
ones and for a full heap. `heap` uses multiples of the header size, as the page-sized
requests of the tests are; other sizes are what `heap_aligned` is about, so `heap`
does not speak for them. One request of the suite is of that kind: the endpoint table
(`val_framework.c:505`), 48 bytes for each endpoint, which is no multiple of the
header for an odd number of them. It is allocated once and kept, so after it neither
`heap` nor the proofs speak for VM1's heap with such a number. No request has an
aligned size of 0 (`HeapAssumption`): `val_aligned_alloc` would hand out the address
of the next block. Likewise `heap` explores no state after a null dereference.

**Fairness.** `EventSync` and `MultiPe`: a CPU that can execute does (weak
fairness per CPU; none for spurious wake-ups or for who wins the lock).
`Vm1Tests`: the CPU runs its exceptions, and its main flow when none is left;
nothing is assumed of the SRI, the watchdog or the SPMC.
`TestSession`: VM1 executes (weak), and interrupts leave a partition time to get on
(strong, per partition: each interruption disables its next step). Nothing is assumed
to end a hang.

Runs with `CHECK_DEADLOCK FALSE` are those whose system may stop: after the last
region or test, after a panic, a fault or a failed assertion, or with every CPU
waiting for an event nobody sends.

## Proofs

For every number of clients, localities and ids, `TpmProofs` proves of the service
type correctness, `GrantedIffActive`, `DeferredIffOutstanding`,
`DeferredUntilFinished`, `RefusedChangesNothing`, `ResponseHandshake` and the refinement of `LocalityOwnership`. The inductive
invariant adds to the types and these two invariants that a registration has an
id exactly when it has a client, without which the bit set is not known to be a
number.

For every number of CPUs, `ValProofs` proves of the event type correctness, mutual
exclusion and the refinement of `CountingEvent`. Mutual exclusion is not
inductive: the invariant adds that the lock word is 1 exactly while a CPU is
inside (`LockWord`), that a monitor armed before a `stxr` means the lock is free
(`ArmedMeansFree`), that the count loaded inside is still current
(`LoadedIsCurrent`), and that a waiter takes one event (`TakenOnce`).

For every number of CPUs and every sequence of tests, `MultiPeProofs` proves type
correctness, `ResetNotOverwritten` and `CollectsOwnResult`. That a collected
result belongs to the running test rests on the boot CPU starting one CPU at a
time: a CPU that has not sent its event is the one awaited (`StartedIsAwaited`),
so an event taken is one of this test (`EventOfThisTest`) and every CPU polled ran
its function (`AwaitedRanThisTest`); `EntryFollowsCpu` ties each entry to where its
CPU is. `StuckAfterRefusal` adds that SP1's context of a CPU is out of step with
the CPU's test only after a refused message (`InStep`). It assumes that a test
names each of its CPUs once, as a loop over the CPU index does, and that there is
a test.

`TestDispatchProofs` first proves that a session, with any number of partitions and
any failure of theirs, takes only the steps of the dispatcher (`SessionDispatches`).
Then, for every list of tests and every range of it, it proves of a session
`CountsMatch`, `NoGaps`, `TakenOnce` and that the dispatcher's variables keep their
type. The invariant keeps the loop index inside the range (`InRange`), says that
exactly the tests behind it are dealt with (`Behind`), and that memory and report hold
the numbers (`Held`). Counters are cardinalities of sets of tests, so each test adds
one element.

For any number of tests, `Vm1TestsProofs` proves that no handler is registered over
another or unregistered twice, so that VM1 halts only in the GIC driver and only where
the CPU's side of the GIC was not found (`HaltsOnlyUnprobed`), and that an interrupt
stays active only after a failure (`StuckOnlyAfterFailure`). The invariant says that a
handler is in the table exactly while its test holds it (`HandlersHeld`), at which
steps that is (`NotHeld`), that an enabled interrupt has its handler unless a test
gave up (`EnabledHandled`), and that this was reported (`ErrorsReported`). It also proves that the composition
implements the TPM by itself (`DrivesTheTpm`) and the TPM service by itself
(`DrivesTheService`): the tests, the interrupts and the SPMC act on either only as
`TpmPlatform` and `TpmCrbService` allow, so their theorems hold in the composition.
It assumes that the two interrupt ids and the spurious one differ, and that `None` and
`Null` are none of the values they stand beside.

`Vm1ResidueProofs` proves from that, also for any number of tests, that the TPM is
ready whenever it counts as initialised (`InitializedTpm`), type correctness of the
whole composition, `NoFalsePass` and `ResidueReported`. The last two share an
invariant: as long as no test has reported an error, the notification context is
true of the SPMC and of the service (`ContextTrue`), the SRI is enabled at no step
where it could preempt the TPM partition (`NotEnabled`), a skip is an early return
and no error of the cleanup is dropped (`ErrorsCount`). So each thing a test set up
is taken down by the cleanup that its context calls for, or the test reports an
error.

For every size of the heap and of the requests, `HeapAllocatorProofs` proves type
correctness, `NoOverlap`, `PointersHaveBlocks`, `MagicMatchesList` and `Coalesced`.
The invariant (`State`, `HeapInv`) says that the list is in address order without
overlap and inside the buffer, that no two neighbours are free, that each block in
use belongs to one client under the pointer behind its header, and that the valid
magic words are those of the list. `HeapListProofs` shows what `val_split` and
`val_coalesce` do to such a list: each replaces neighbouring blocks by others, and
because only the block just freed can have free neighbours, `val_coalesce` joins at
most three. The theorems suppose `PageSized`: where aligned memory is asked for,
sizes and alignments are multiples of the header. Without it they are false, which
the run `heap_aligned` shows; the passing run satisfies it.

`TpmProofs`, for every size of the NV memory: ranges accepted lie inside it,
what was written reads back, a move copies also when the ranges overlap, the TPM is
ready when initialised; and the initial values of the PCRs. `ValProofs`,
for every request and version: the composite descriptor starts behind the receivers
at a multiple of 16, the constituents left are what the lengths differ by, a
fragment fits its buffer, a buffer without a size takes everything, and setting a
field of permissions or attributes leaves the others alone. No test sets a buffer
size; with size 0 the unsigned room wraps to more than any count, which is why
everything is taken.

Assumptions are the named `ASSUME`s of the modules, and `PageSized` for the heap.
Only model-checked: liveness (`NoLostEvent`, `OnlyFailuresBlock`, `TestsReturn`,
`Ends`), which is out of the prover's reach; `BoundedLoss`, a sum over
the list, and all of `PageTables`, a recursion over table levels, whose proofs need
an induction the provers cannot do; and of `TestSession` what is said of messages and
tables.

## Not modelled

- Recovery by watchdog and non-volatile memory: SP1's services for them, the SP805 and
  NVM drivers behind these, and the resumption of a test after a reset. They are
  compiled or linked but not reached, as described under `TestDispatch`. The watchdog
  as an interrupt source of a test is part of `Vm1Tests`.
- Tests other than those named: most are straight-line sequences of calls and
  comparisons against one endpoint, with no state after they return. FFA_MEM_DONATE,
  FFA_MEM_PERM, FFA_YIELD and FFA_MSG_SEND2 appear only in them. Pairs with VM2 take
  the same path as those modelled and are left out of `TestSession`.
- SGIs, suspend and resume of the GIC: no code calls them. UART, console, timers and
  the SMMU test engine: register accesses without a protocol of their own. The
  virtual timer functions program the physical timer, for instance, which is visible
  by reading.
- Assembler other than the spin lock and the SMC conduit, system register accessors
  and the hypervisor headers.
- Entropy, clock, vendor and provisioning data of the TPM, and the shim that forwards
  to it: constants and forwarders.
- The Linux build: a kernel module and a user program that forward the same calls.
