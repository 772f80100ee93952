--------------------------------- MODULE Gic ---------------------------------
(***************************************************************************)
(* The GIC driver (platform/driver/src/gic) and the interrupt controller   *)
(* behind it, as the boot CPU of VM1 uses them.  The operators stand for   *)
(* the driver's functions; each writes the register it is about.           *)
(***************************************************************************)
EXTENDS Naturals

CONSTANTS
    IntIds,         \* interrupt ids in use: SGIs, PPIs and SPIs
    Spis,           \* those that are SPIs
    Spurious        \* GIC_SPURIOUS_INTERRUPT

VARIABLES
    gicv3,          \* gicv3_detected
    distif,         \* the distributor forwards interrupts
    cpuif,          \* the CPU interface lets them through
    probed,         \* the driver knows the CPU: rdist_pcpu_base, gic_cpu_id
    routed,         \* the SPIs routed to the CPU
    priority,       \* the priority registers, 0 is the highest
    enabled,        \* the enable bits
    latched,        \* pending edge-triggered interrupts
    line,           \* level-triggered interrupts whose line is asserted
    active,         \* acknowledged and not yet ended
    late            \* the CPU still sees an interrupt that was just disabled

setup == <<gicv3, distif, cpuif, probed>>
registers == <<routed, priority, enabled>>
gic == <<setup, registers, latched, line, active, late>>

GicTypeOK ==
    /\ gicv3 \in BOOLEAN /\ distif \in BOOLEAN /\ cpuif \in BOOLEAN
    /\ probed \in BOOLEAN /\ late \in BOOLEAN
    /\ routed \subseteq Spis /\ priority \in [IntIds -> Nat]
    /\ enabled \subseteq IntIds /\ latched \subseteq IntIds
    /\ line \subseteq IntIds /\ active \subseteq IntIds

GicInit ==
    /\ gicv3 = FALSE /\ distif = FALSE /\ cpuif = FALSE
    /\ probed = FALSE /\ late = FALSE
    /\ routed = {} /\ priority = [i \in IntIds |-> 0]
    /\ enabled = {} /\ latched = {} /\ line = {} /\ active = {}

\* What the CPU is signalled: only a higher priority than that of every active
\* interrupt.
Signalled ==
    {i \in enabled \cap (latched \cup line) :
        /\ distif /\ cpuif
        /\ i \in Spis => i \in routed
        /\ \A a \in active : priority[i] < priority[a]}

-----------------------------------------------------------------------------
\* The redistributor frame of the CPU is looked up by its affinity.  When no
\* frame has it this is logged, and rdist_pcpu_base and mpidr_list stay unset.
gicv3_probe_redistif_addr(found) == probed' = found

gicv3_enable_cpuif == cpuif' = TRUE

\* Every priority passes, and group 1 is enabled.
gicv3_setup_cpuif == gicv3_enable_cpuif

gicv3_setup_distif == distif' = TRUE

\* The GICv2 counterparts, which arm_gic_init does not reach.
gicv2_enable_cpuif == cpuif' = TRUE
gicv2_setup_cpuif == gicv2_enable_cpuif
gicv2_probe_gic_cpu_id == probed' = TRUE
gicv2_setup_distif == distif' = TRUE

arm_gic_setup_global == IF gicv3' THEN gicv3_setup_distif ELSE gicv2_setup_distif

arm_gic_setup_local(found) ==
    IF gicv3' THEN gicv3_probe_redistif_addr(found) /\ gicv3_setup_cpuif
              ELSE gicv2_probe_gic_cpu_id /\ gicv2_setup_cpuif

\* The base addresses, which no operation changes again.
gicv2_init == UNCHANGED <<distif, cpuif, probed>>

\* The CPU has the system registers of a GICv3, and firmware enabled them.
is_gicv3_mode(sysregs, sre) == sysregs /\ sre

\* A GICv3 is set up, of a GICv2 only the addresses are stored.
arm_gic_init(sysregs, sre, found) ==
    /\ gicv3' = is_gicv3_mode(sysregs, sre)
    /\ IF gicv3' THEN arm_gic_setup_global /\ arm_gic_setup_local(found) ELSE gicv2_init
    /\ UNCHANGED <<registers, latched, line, active, late>>

-----------------------------------------------------------------------------
\* Routing an SPI asserts that the CPU is known: by its affinity in mpidr_list on
\* a GICv3, by its interface id (core_pos_to_gic_id) on a GICv2.
TargetKnown == probed

\* On a GICv3 the registers of an SGI or a PPI are in the redistributor frame
\* of the CPU, and its address is asserted; the others are in the distributor.
FrameKnown(i) == i \in Spis \/ ~gicv3 \/ probed

gicd_write_irouter(i) == routed' = routed \cup {i}
gicd_set_itargetsr(i) == routed' = routed \cup {i}
gicv3_set_intr_route(i) == TargetKnown /\ gicd_write_irouter(i)
gicv2_set_itargetsr(i) == TargetKnown /\ gicd_set_itargetsr(i)
arm_gic_set_intr_target(i) ==
    IF gicv3 THEN gicv3_set_intr_route(i) ELSE gicv2_set_itargetsr(i)

gicd_set_ipriorityr(i, prio) == priority' = [priority EXCEPT ![i] = prio]
gicv3_set_ipriorityr(i, prio) ==
    FrameKnown(i) /\ priority' = [priority EXCEPT ![i] = prio]
gicv2_gicd_set_ipriorityr(i, prio) == gicd_set_ipriorityr(i, prio)
arm_gic_set_intr_priority(i, prio) ==
    IF gicv3 THEN gicv3_set_ipriorityr(i, prio) ELSE gicv2_gicd_set_ipriorityr(i, prio)

gicd_set_isenabler(i) == enabled' = enabled \cup {i}
gicr_set_isenabler0(i) == enabled' = enabled \cup {i}
gicv3_set_isenabler(i) ==
    IF i \in Spis THEN gicd_set_isenabler(i) ELSE FrameKnown(i) /\ gicr_set_isenabler0(i)
gicv2_gicd_set_isenabler(i) == gicd_set_isenabler(i)
arm_gic_intr_enable(i) ==
    IF gicv3 THEN gicv3_set_isenabler(i) ELSE gicv2_gicd_set_isenabler(i)

\* A clear is not waited for: an interrupt that was already signalled may
\* still interrupt the CPU.
StillSeen(i) == late' = (late \/ i \in Signalled)
gicd_set_icenabler(i) == enabled' = enabled \ {i} /\ StillSeen(i)
gicr_set_icenabler0(i) == enabled' = enabled \ {i} /\ StillSeen(i)
gicv3_set_icenabler(i) ==
    IF i \in Spis THEN gicd_set_icenabler(i) ELSE FrameKnown(i) /\ gicr_set_icenabler0(i)
gicv2_gicd_set_icenabler(i) == gicd_set_icenabler(i)
arm_gic_intr_disable(i) ==
    IF gicv3 THEN gicv3_set_icenabler(i) ELSE gicv2_gicd_set_icenabler(i)

\* A signalled interrupt becomes active.  A GICv2, whose CPU interface stays
\* off, signals none.
arm_gic_intr_ack(i) ==
    /\ latched' = latched \ {i}
    /\ active' = active \cup {i}

arm_gic_end_of_intr(i) == active' = active \ {i}
=============================================================================
