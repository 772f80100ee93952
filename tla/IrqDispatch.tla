---------------------------- MODULE IrqDispatch ----------------------------
(***************************************************************************)
(* Interrupts of the boot CPU of VM1: the handler table and the dispatcher *)
(* of pal_irq.c on top of the GIC driver, and the IRQ exception.  Only the *)
(* boot CPU ever registers or enables an interrupt, so the model has one   *)
(* CPU; its main flow and its exception interleave.                        *)
(***************************************************************************)
EXTENDS Gic

CONSTANTS
    Handlers,       \* the handler functions
    Null            \* no handler

VARIABLES
    handler,        \* the descriptor tables
    masked,         \* PSTATE.I of the main flow
    frame,          \* the exception: how far it is and the interrupt it acknowledged
    halted          \* an assertion failed

irqVars == <<gic, handler, masked, frame, halted>>

NoFrame == [at |-> "none", irq |-> Spurious]
NoHandlers == [i \in IntIds \cup {Spurious} |-> Null]

IrqTypeOK ==
    /\ GicTypeOK
    /\ handler \in [IntIds \cup {Spurious} -> Handlers \cup {Null}]
    /\ masked \in BOOLEAN /\ halted \in BOOLEAN
    /\ frame \in [at : {"none", "taken", "acknowledged", "handled"},
                  irq : IntIds \cup {Spurious}]

IrqInit ==
    /\ GicInit
    /\ handler = NoHandlers
    /\ masked = TRUE /\ frame = NoFrame /\ halted = FALSE

-----------------------------------------------------------------------------
\* The main flow runs.
InMain == frame.at = "none" /\ ~halted

pal_irq_setup(sysregs, sre, found) ==
    /\ InMain
    /\ arm_gic_init(sysregs, sre, found)
    /\ handler' = NoHandlers
    /\ UNCHANGED <<masked, frame, halted>>

\* The descriptor of an interrupt: of the CPU for an SGI or a PPI, shared for an
\* SPI, or the one of the spurious interrupt.
get_irq_handler(i) == handler[i]

\* Mutation: every interrupt is routed as if it were an SPI.
EnableRoutesAll(i, prio) ==
    /\ InMain
    /\ arm_gic_set_intr_target(i)
    /\ arm_gic_set_intr_priority(i, prio)
    /\ arm_gic_intr_enable(i)
    /\ masked' = FALSE
    /\ UNCHANGED <<setup, latched, line, active, late, handler, frame, halted>>

\* An assertion of the GIC driver fails.
GicHalts(irqOff) ==
    /\ halted' = TRUE /\ masked' = irqOff
    /\ UNCHANGED <<gic, handler, frame>>

\* The driver asserts that the GIC's side of the CPU is known: the target of an
\* SPI, which a GICv2 was never asked for, or the frame of an SGI or a PPI.
pal_irq_enable(i, prio) ==
    /\ InMain
    /\ IF (i \in Spis => TargetKnown) /\ FrameKnown(i)
       THEN /\ IF i \in Spis THEN arm_gic_set_intr_target(i) ELSE UNCHANGED routed
            /\ arm_gic_set_intr_priority(i, prio)
            /\ arm_gic_intr_enable(i)
            /\ masked' = FALSE
            /\ UNCHANGED <<setup, latched, line, active, late, handler, frame, halted>>
       ELSE GicHalts(TRUE)

pal_irq_disable(i) ==
    /\ InMain
    /\ IF FrameKnown(i)
       THEN /\ arm_gic_intr_disable(i)
            /\ UNCHANGED <<setup, routed, priority, latched, line, active, handler,
                           masked, frame, halted>>
       ELSE GicHalts(masked)

\* The handler is replaced when the current one is as expected; the assertion
\* before the test halts when it is not.
pal_irq_update_handler(i, h, expectHandler) ==
    /\ InMain
    /\ \/ /\ expectHandler <=> get_irq_handler(i) # Null
          /\ handler' = [handler EXCEPT ![i] = h]
          /\ UNCHANGED halted
       \/ /\ ~(expectHandler <=> get_irq_handler(i) # Null)
          /\ halted' = TRUE
          /\ UNCHANGED handler
    /\ UNCHANGED <<gic, masked, frame>>

pal_irq_register_handler(i, h) == pal_irq_update_handler(i, h, FALSE)
pal_irq_unregister_handler(i) == pal_irq_update_handler(i, Null, TRUE)

-----------------------------------------------------------------------------
(***************************************************************************)
(* The interrupt side.                                                     *)
(***************************************************************************)
\* An edge arrives at the distributor.
Pulse(i) ==
    /\ latched' = latched \cup {i}
    /\ UNCHANGED <<setup, registers, line, active, late, handler, masked, frame, halted>>

\* A device drives its line.
DriveLine(i, up) ==
    /\ line' = IF up THEN line \cup {i} ELSE line \ {i}
    /\ UNCHANGED <<setup, registers, latched, active, late, handler, masked, frame, halted>>

\* The CPU takes the IRQ exception, which masks interrupts.
TakeIrq ==
    /\ InMain /\ ~masked
    /\ Signalled # {} \/ late
    /\ late' = FALSE
    /\ frame' = [at |-> "taken", irq |-> Spurious]
    /\ UNCHANGED <<setup, registers, latched, line, active, handler, masked, halted>>

\* The disabled interrupt is withdrawn before the CPU reacts to it.
Withdraw ==
    /\ late
    /\ late' = FALSE
    /\ UNCHANGED <<setup, registers, latched, line, active, handler, masked, frame, halted>>

\* A signalled interrupt is acknowledged; with none signalled the id is spurious.
Acknowledge ==
    /\ frame.at = "taken"
    /\ \/ \E i \in Signalled :
            /\ frame' = [at |-> "acknowledged", irq |-> i]
            /\ arm_gic_intr_ack(i)
       \/ /\ Signalled = {}
          /\ frame' = [at |-> "acknowledged", irq |-> Spurious]
          /\ UNCHANGED <<latched, active>>
    /\ UNCHANGED <<setup, registers, line, late, handler, masked, halted>>

\* The registered handler runs; lowered are the lines of the devices it stops.
CallHandler(lowered) ==
    /\ frame.at = "acknowledged" /\ get_irq_handler(frame.irq) # Null
    /\ frame' = [frame EXCEPT !.at = "handled"]
    /\ line' = line \ lowered
    /\ UNCHANGED <<setup, registers, latched, active, late, handler, masked, halted>>

\* Without a handler the dispatcher returns an error, before the end of interrupt.
Unhandled ==
    /\ frame.at = "acknowledged" /\ get_irq_handler(frame.irq) = Null
    /\ frame' = NoFrame
    /\ UNCHANGED <<gic, handler, masked, halted>>

\* Mutation: the dispatcher returns without the end of interrupt.
ReturnWithoutEnd ==
    /\ frame.at = "handled"
    /\ frame' = NoFrame
    /\ UNCHANGED <<gic, handler, masked, halted>>

EndOfInterrupt ==
    /\ frame.at = "handled"
    /\ arm_gic_end_of_intr(frame.irq)
    /\ frame' = NoFrame
    /\ UNCHANGED <<setup, registers, latched, line, late, handler, masked, halted>>
=============================================================================
