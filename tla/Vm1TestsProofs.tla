--------------------------- MODULE Vm1TestsProofs ---------------------------
(***************************************************************************)
(* The interrupts of VM1 over any number of tests, whatever the service,   *)
(* the SPMC and the devices do: the handler table and the GIC are as the   *)
(* next registration expects them; and the TPM as the tests drive it.      *)
(***************************************************************************)
EXTENDS Vm1Tests, TLAPS

\* The steps of vm_to_sp_preempt with its handler registered.
WdHeld == {"wdEnable", "wdStart", "wdRequest", "wdDisable", "wdRun", "wdFree"}

\* The steps before anything has gone wrong.
Running == {"feature", "request", "grant", "setup", "create", "bind", "register", "prepare",
            "data", "ctrlStart", "start", "complete", "pending", "finish", "unregister",
            "wdRegister", "wdEnable", "wdStart", "wdRequest", "wdDisable", "wdRun"}

\* A test has reported an error or is going to.
Bad == failed \/ status = "error"

IntIds == {Sri, NsWd}

Context == [created : BOOLEAN, bound : BOOLEAN, registered : BOOLEAN,
            sriRegistered : BOOLEAN, sriEnabled : BOOLEAN]

Types ==
    /\ pc \in Steps /\ kind \in Kinds
    /\ ctx \in Context
    /\ handler \in [IntIds \cup {Spurious} -> {"sri", "watchdog", Null}]
    /\ enabled \subseteq IntIds /\ inService \subseteq IntIds
    /\ frame \in [at : {"none", "taken", "acknowledged", "handled"},
                  irq : IntIds \cup {Spurious}]

\* A handler is in the table exactly while its test holds it.
HandlersHeld ==
    /\ handler[Sri] # Null <=> ctx.sriRegistered
    /\ handler[NsWd] # Null <=> pc \in WdHeld
    /\ handler[Spurious] = Null

\* Where the SRI's handler is not held: before its registration and after
\* cleanup; and where it is.
NotHeld ==
    /\ pc \in {"boot", "idle", "feature", "setup", "clearStart", "report", "wdRegister"}
                  \cup WdHeld => ~ctx.sriRegistered
    /\ pc \in {"request", "grant"} /\ kind = "command" => ~ctx.sriRegistered
    /\ phase = "post" => ~ctx.sriRegistered
    /\ pc \in {"deregister", "destroy"} => ~ctx.sriEnabled
    /\ ctx.sriEnabled => ctx.sriRegistered
    /\ pc \in {"create", "bind", "register", "prepare"} /\ kind # "unregistered"
          => ctx.sriRegistered

\* An enabled interrupt has its handler, but for a watchdog left enabled, and
\* the enable bit of the SRI is in a frame the driver found.
EnabledHandled ==
    /\ Sri \in enabled => ctx.sriEnabled /\ (probed \/ ~gicv3)
    /\ NsWd \in enabled => Bad \/ pc \in {"wdStart", "wdRequest", "wdDisable"}

\* The status is good until a step fails, and an error is reported; each test
\* keeps to its own steps.
ErrorsReported ==
    /\ pc \in Running => phase = "run"
    /\ pc \in Running \cup {"boot"} => status = "ok"
    /\ pc = "idle" /\ status = "error" => failed
    /\ pc \in Steps \ ({"boot", "idle", "report", "wdRegister"} \cup WdHeld)
          => kind # "watchdog"
    /\ pc \in {"setup", "prepare", "data", "ctrlStart", "start", "complete", "finish"}
          => kind # "unregistered"

\* Only the interrupt being handled is active, unless something went wrong.
ActiveHandled ==
    /\ frame.at \in {"none", "taken"} /\ inService # {} => Bad
    /\ frame.at \in {"acknowledged", "handled"} /\ inService \ {frame.irq} # {} => Bad
    /\ frame.at = "acknowledged" /\ frame.irq # Spurious /\ handler[frame.irq] = Null => Bad

Inv ==
    /\ Types /\ HandlersHeld /\ NotHeld /\ EnabledHandled /\ ErrorsReported
    /\ ActiveHandled /\ HaltsOnlyUnprobed

-----------------------------------------------------------------------------
\* The arithmetic of the proofs: the number of tests stays within its bound, and
\* the constants of the service are numbers.
LEMMA Numbers ==
    /\ 0 \in 0 .. MaxTests
    /\ \A n \in 0 .. MaxTests : n < MaxTests => n + 1 \in 0 .. MaxTests
    /\ {1} \subseteq Nat /\ 64 \in Nat \ {0} /\ 2 \in Nat \ {0}
BY Vm1Assumption

\* VM1 starts with no handler and no interrupt.
LEMMA InitInv == Init => Inv
BY Vm1Assumption DEF Init, Inv, Types, HandlersHeld, NotHeld, EnabledHandled, ErrorsReported,
   ActiveHandled, HaltsOnlyUnprobed, WdHeld, Running, IntIds, Steps, Kinds, NoContext, Context,
   Irq!IrqInit, Irq!GicInit, Irq!NoHandlers, Irq!NoFrame

\* A step of a TPM test that leaves the interrupts and what the context knows
\* of them alone.
Quiet ==
    /\ UNCHANGED <<irq, kind, failed>>
    /\ ctx' \in Context
    /\ ctx'.sriRegistered = ctx.sriRegistered /\ ctx'.sriEnabled = ctx.sriEnabled
    /\ pc \notin WdHeld /\ pc' \in Steps \ WdHeld
    /\ status = "error" => status' = "error"
    /\ ~halted

\* Such a step can only disturb what relates the context to the step.
LEMMA QuietStep == ASSUME Inv, Quiet, NotHeld', ErrorsReported' PROVE Inv'
BY DEF Inv, Quiet, Types, HandlersHeld, EnabledHandled, ActiveHandled, HaltsOnlyUnprobed, Bad,
       WdHeld, IntIds, irq

\* pal_irq_enable either halts, on a CPU that was not probed, or sets the enable
\* bit.
LEMMA EnableFacts ==
    ASSUME NEW i, NEW prio, Irq!pal_irq_enable(i, prio)
    PROVE  /\ UNCHANGED <<gicv3, probed, latched, line, inService, handler, frame>>
           /\ ~halted /\ frame.at = "none"
           /\ \/ ~probed /\ UNCHANGED enabled
              \/ /\ enabled' = enabled \cup {i} /\ ~halted'
                 /\ i = NsWd \/ probed \/ ~gicv3
BY Zenon DEF Irq!pal_irq_enable, Irq!GicHalts, Irq!TargetKnown, Irq!FrameKnown, Irq!InMain,
   Irq!arm_gic_intr_enable, Irq!gicv3_set_isenabler, Irq!gicv2_gicd_set_isenabler,
   Irq!gicd_set_isenabler, Irq!gicr_set_isenabler0, Irq!gic, Irq!setup, Irq!registers

\* pal_irq_disable clears the enable bit, or halts where it cannot be set.
LEMMA DisableFacts ==
    ASSUME NEW i, Irq!pal_irq_disable(i), i \in enabled => i = NsWd \/ probed \/ ~gicv3
    PROVE  /\ UNCHANGED <<gicv3, probed, latched, line, inService, handler, frame>>
           /\ ~halted /\ frame.at = "none"
           /\ enabled' = enabled \ {i}
           /\ halted' => ~probed
<1>1. CASE Irq!FrameKnown(i)
  BY <1>1, Zenon DEF Irq!pal_irq_disable, Irq!InMain, Irq!arm_gic_intr_disable,
     Irq!gicv3_set_icenabler, Irq!gicv2_gicd_set_icenabler, Irq!gicd_set_icenabler,
     Irq!gicr_set_icenabler0, Irq!setup
<1>2. CASE ~Irq!FrameKnown(i)
  <2>1. Irq!InMain /\ Irq!GicHalts(masked)
    BY <1>2, Zenon DEF Irq!pal_irq_disable
  <2>2. i \notin enabled /\ ~probed
    BY <1>2, Zenon DEF Irq!FrameKnown
  <2>3. enabled = enabled \ {i}
    BY <2>2
  <2> QED
    BY <2>1, <2>2, <2>3, Zenon DEF Irq!GicHalts, Irq!InMain, Irq!gic, Irq!setup, Irq!registers
<1> QED
  BY <1>1, <1>2, Zenon

\* The steps that talk to the service and the SPMC.
LEMMA TalkInv ==
    ASSUME Inv,
           \/ FeatureSupported \/ RequestAccess \/ Grant \/ CreateBitmap \/ Bind \/ Register
           \/ WriteCommand \/ StartCommand \/ CheckPending \/ FinishNotified \/ Unregister
           \/ Relinquish \/ Release \/ RequestFails \/ CleanupRegistration \/ ClearStart
    PROVE  Inv'
<1> USE DEF At, Send, Goto, EarlyExit, LateExit, Expect, Steps, WdHeld, Running, Irq!InMain
<1>1. CASE FeatureSupported
  <2>1. Quiet
    BY <1>1 DEF Quiet, FeatureSupported, Inv, Types, ErrorsReported, Context, Kinds, history
  <2>2. NotHeld'
    BY <1>1, <2>1 DEF Quiet, FeatureSupported, Inv, Types, NotHeld, ErrorsReported, Context,
       Kinds
  <2>3. ErrorsReported'
    BY <1>1, <2>1 DEF Quiet, FeatureSupported, Inv, Types, ErrorsReported, Kinds
  <2> QED
    BY <2>1, <2>2, <2>3, QuietStep, Zenon
<1>2. CASE RequestAccess
  <2>1. Quiet
    BY <1>2 DEF Quiet, RequestAccess, Inv, Types, ErrorsReported, Context, Kinds, history
  <2>2. NotHeld'
    BY <1>2, <2>1, Zenon DEF Quiet, RequestAccess, Inv, Types, NotHeld, ErrorsReported,
       Context, Kinds
  <2>3. ErrorsReported'
    BY <1>2, <2>1, Zenon DEF Quiet, RequestAccess, Inv, Types, ErrorsReported, Kinds
  <2> QED
    BY <2>1, <2>2, <2>3, QuietStep, Zenon
<1>3. CASE Grant
  <2>1. pc = "grant" /\ phase = "run" /\ status = "ok" /\ kind \in Kinds \ {"watchdog"}
        /\ ~halted /\ UNCHANGED <<irq, kind, ctx, failed>>
    BY <1>3, Zenon DEF Grant, Inv, Types, ErrorsReported, Kinds, history
  <2>2. \/ pc' = "cleanup" /\ phase' = "run" /\ status' = "error"
        \/ pc' = "relinquish" /\ phase' = "early" /\ status' = "error"
        \/ pc' = "setup" /\ kind = "command" /\ phase' = "run" /\ status' = "ok"
        \/ pc' = "complete" /\ kind = "locality" /\ phase' = "run" /\ status' = "ok"
        \/ pc' = "pending" /\ phase' = "run" /\ status' = "ok"
    <3>1. CASE kind = "command"
      BY <1>3, <2>1, <3>1, Zenon DEF Grant
    <3>2. CASE kind = "locality"
      BY <1>3, <2>1, <3>2, Zenon DEF Grant
    <3>3. CASE kind = "unregistered"
      BY <1>3, <2>1, <3>3, Zenon DEF Grant
    <3> QED
      BY <2>1, <3>1, <3>2, <3>3, Zenon DEF Kinds
  <2>3. Quiet
    BY <2>1, <2>2, Zenon DEF Quiet, Inv, Types
  <2>4. NotHeld' /\ ErrorsReported'
    BY <2>1, <2>2, Zenon DEF Inv, Types, NotHeld, ErrorsReported, Context
  <2> QED
    BY <2>3, <2>4, QuietStep, Zenon
<1>4. CASE CreateBitmap
  <2>1. Quiet
    BY <1>4, Zenon DEF Quiet, CreateBitmap, Inv, Types, ErrorsReported, Context, Kinds, history
  <2>2. NotHeld'
    BY <1>4, <2>1 DEF Quiet, CreateBitmap, Inv, Types, NotHeld, ErrorsReported, Context, Kinds
  <2>3. ErrorsReported'
    BY <1>4, <2>1 DEF Quiet, CreateBitmap, Inv, Types, ErrorsReported, Kinds
  <2> QED
    BY <2>1, <2>2, <2>3, QuietStep, Zenon
<1>5. CASE Bind
  <2>1. Quiet
    BY <1>5, Zenon DEF Quiet, Bind, Inv, Types, ErrorsReported, Context, Kinds, history
  <2>2. NotHeld'
    BY <1>5, <2>1 DEF Quiet, Bind, Inv, Types, NotHeld, ErrorsReported, Context, Kinds
  <2>3. ErrorsReported'
    BY <1>5, <2>1 DEF Quiet, Bind, Inv, Types, ErrorsReported, Kinds
  <2> QED
    BY <2>1, <2>2, <2>3, QuietStep, Zenon
<1>6. CASE Register
  <2>1. Quiet
    BY <1>6, Zenon DEF Quiet, Register, Inv, Types, ErrorsReported, Context, Kinds, history
  <2>2. NotHeld'
    BY <1>6, <2>1 DEF Quiet, Register, Inv, Types, NotHeld, ErrorsReported, Context, Kinds
  <2>3. ErrorsReported'
    BY <1>6, <2>1 DEF Quiet, Register, Inv, Types, ErrorsReported, Kinds
  <2> QED
    BY <2>1, <2>2, <2>3, QuietStep, Zenon
<1>7. CASE WriteCommand
  <2>1. Quiet
    BY <1>7, Zenon DEF Quiet, WriteCommand, Inv, Types, ErrorsReported, Context, Kinds, history
  <2>2. NotHeld'
    BY <1>7, <2>1, Zenon DEF Quiet, WriteCommand, Inv, Types, NotHeld, ErrorsReported,
       Context, Kinds
  <2>3. ErrorsReported'
    BY <1>7, <2>1, Zenon DEF Quiet, WriteCommand, Inv, Types, ErrorsReported, Kinds
  <2> QED
    BY <2>1, <2>2, <2>3, QuietStep, Zenon
<1>8. CASE StartCommand
  <2>1. pc = "start" /\ phase = "run" /\ status = "ok" /\ ~halted
        /\ UNCHANGED <<irq, kind, ctx, failed>>
    BY <1>8, Zenon DEF StartCommand, Inv, ErrorsReported, history
  <2>2. \/ pc' = "complete" /\ phase' = "run" /\ status' = "ok"
        \/ pc' = "cleanup" /\ phase' = "run" /\ status' = "error"
    BY <1>8, <2>1, Zenon DEF StartCommand
  <2>3. Quiet
    BY <2>1, <2>2, Zenon DEF Quiet, Inv, Types
  <2>4. NotHeld' /\ ErrorsReported'
    BY <2>1, <2>2, Zenon DEF Inv, Types, NotHeld, ErrorsReported, Context
  <2> QED
    BY <2>3, <2>4, QuietStep, Zenon
<1>9. CASE CheckPending
  <2>1. Quiet
    BY <1>9, SMT, ZenonT(30) DEF Quiet, CheckPending, Inv, Types, ErrorsReported, Context,
       Kinds, history
  <2>2. NotHeld'
    BY <1>9, <2>1 DEF Quiet, CheckPending, Inv, Types, NotHeld, ErrorsReported, Context, Kinds
  <2>3. ErrorsReported'
    BY <1>9, <2>1, SMT, ZenonT(30) DEF Quiet, CheckPending, Inv, Types, ErrorsReported, Kinds
  <2> QED
    BY <2>1, <2>2, <2>3, QuietStep, Zenon
<1>10. CASE FinishNotified
  <2>1. Quiet
    BY <1>10, ZenonT(30) DEF Quiet, FinishNotified, Inv, Types, ErrorsReported, Context,
       Kinds, history
  <2>2. NotHeld'
    BY <1>10, <2>1, SMT, ZenonT(30) DEF Quiet, FinishNotified, Inv, Types, NotHeld,
       ErrorsReported, Context, Kinds
  <2>3. ErrorsReported'
    BY <1>10, <2>1 DEF Quiet, FinishNotified, Inv, Types, ErrorsReported, Kinds
  <2> QED
    BY <2>1, <2>2, <2>3, QuietStep, Zenon
<1>11. CASE Unregister
  <2>1. Quiet
    BY <1>11, ZenonT(30) DEF Quiet, Unregister, Inv, Types, ErrorsReported, Context, Kinds,
       history
  <2>2. NotHeld'
    BY <1>11, <2>1 DEF Quiet, Unregister, Inv, Types, NotHeld, ErrorsReported, Context, Kinds
  <2>3. ErrorsReported'
    BY <1>11, <2>1 DEF Quiet, Unregister, Inv, Types, ErrorsReported, Kinds
  <2> QED
    BY <2>1, <2>2, <2>3, QuietStep, Zenon
<1>12. CASE Relinquish
  <2>1. Quiet
    BY <1>12, Zenon DEF Quiet, Relinquish, Inv, Types, ErrorsReported, Context, Kinds, history
  <2>2. NotHeld'
    BY <1>12, <2>1, Zenon DEF Quiet, Relinquish, Inv, Types, NotHeld, ErrorsReported,
       Context, Kinds
  <2>3. ErrorsReported'
    BY <1>12, <2>1, Zenon DEF Quiet, Relinquish, Inv, Types, ErrorsReported, Kinds
  <2> QED
    BY <2>1, <2>2, <2>3, QuietStep, Zenon
<1>13. CASE Release
  <2>1. Quiet
    BY <1>13, Zenon DEF Quiet, Release, Inv, Types, ErrorsReported, Context, Kinds, history
  <2>2. NotHeld'
    BY <1>13, <2>1 DEF Quiet, Release, Inv, Types, NotHeld, ErrorsReported, Context, Kinds
  <2>3. ErrorsReported'
    BY <1>13, <2>1, ZenonT(30) DEF Quiet, Release, Inv, Types, ErrorsReported, Kinds
  <2> QED
    BY <2>1, <2>2, <2>3, QuietStep, Zenon
<1>14. CASE RequestFails
  <2>1. Quiet
    BY <1>14, SMT, ZenonT(30) DEF Quiet, RequestFails, Inv, Types, ErrorsReported, Context,
       Kinds, history
  <2>2. NotHeld'
    BY <1>14, <2>1, SMT, ZenonT(30) DEF Quiet, RequestFails, Inv, Types, NotHeld,
       ErrorsReported, Context, Kinds
  <2>3. ErrorsReported'
    BY <1>14, <2>1 DEF Quiet, RequestFails, Inv, Types, ErrorsReported, Kinds
  <2> QED
    BY <2>1, <2>2, <2>3, QuietStep, Zenon
<1>15. CASE CleanupRegistration
  <2>1. Quiet
    BY <1>15, Zenon DEF Quiet, CleanupRegistration, Inv, Types, ErrorsReported, Context,
       Kinds, history
  <2>2. NotHeld'
    BY <1>15, <2>1 DEF Quiet, CleanupRegistration, Inv, Types, NotHeld, ErrorsReported,
       Context, Kinds
  <2>3. ErrorsReported'
    BY <1>15, <2>1, Zenon DEF Quiet, CleanupRegistration, Inv, Types, ErrorsReported, Kinds
  <2> QED
    BY <2>1, <2>2, <2>3, QuietStep, Zenon
<1>16. CASE ClearStart
  <2>1. Quiet
    BY <1>16, Zenon DEF Quiet, ClearStart, Inv, Types, ErrorsReported, Context, Kinds, history
  <2>2. NotHeld'
    BY <1>16, <2>1, Zenon DEF Quiet, ClearStart, Inv, Types, NotHeld, ErrorsReported,
       Context, Kinds
  <2>3. ErrorsReported'
    BY <1>16, <2>1, Zenon DEF Quiet, ClearStart, Inv, Types, ErrorsReported, Kinds
  <2> QED
    BY <2>1, <2>2, <2>3, QuietStep, Zenon
<1> QED
  BY <1>1, <1>2, <1>3, <1>4, <1>5, <1>6, <1>7, <1>8, <1>9, <1>10,
     <1>11, <1>12, <1>13, <1>14, <1>15, <1>16, ZenonT(30)

\* A step of the main flow leaves the exception alone.
LEMMA MainStep ==
    ASSUME Inv, frame.at = "none", UNCHANGED <<inService, frame>>, Bad => Bad',
           Types', HandlersHeld', NotHeld', EnabledHandled', ErrorsReported', HaltsOnlyUnprobed'
    PROVE  Inv'
<1>1. ActiveHandled'
  BY Zenon DEF Inv, ActiveHandled
<1> QED
  BY <1>1, Zenon DEF Inv

\* The steps that register, enable, disable and unregister an interrupt, and
\* those between two tests.
LEMMA InterruptInv ==
    ASSUME Inv,
           \/ \E sysregs, sre, found \in BOOLEAN : Boot(sysregs, sre, found)
           \/ \E k \in Kinds : Begin(k)
           \/ SetupInterrupt \/ PrepareInterrupt \/ CompleteInterrupt
           \/ CleanupInterrupt \/ CleanupNotification \/ Report
    PROVE  Inv'
<1> USE Vm1Assumption DEF Inv
<1>1. CASE \E sysregs, sre, found \in BOOLEAN : Boot(sysregs, sre, found)
  <2>1. /\ pc = "boot" /\ pc' = "idle" /\ ~halted /\ ~halted'
        /\ handler' = [i \in {Sri, NsWd} \cup {Spurious} |-> Null]
        /\ frame.at = "none" /\ UNCHANGED <<inService, frame>>
        /\ UNCHANGED <<enabled, kind, phase, ctx, status, failed>>
    BY <1>1 DEF Boot, Irq!pal_irq_setup, Irq!arm_gic_init, Irq!registers,
       Irq!NoHandlers, history, At, Goto, Irq!InMain
  <2>2. Types'
    BY <2>1 DEF Types, IntIds, Context, Steps, Kinds
  <2>3. HandlersHeld' /\ HaltsOnlyUnprobed'
    BY <2>1, Zenon DEF Types, HandlersHeld, NotHeld, HaltsOnlyUnprobed, AfterGic,
       WdHeld, IntIds, Context
  <2>4. NotHeld'
    BY <2>1, Zenon DEF Types, NotHeld, ErrorsReported, WdHeld, Running, Context, Kinds
  <2>5. EnabledHandled' /\ ErrorsReported'
    BY <2>1, Zenon DEF Types, EnabledHandled, NotHeld, ErrorsReported, WdHeld, Running, Bad,
       IntIds, Context, Steps, Kinds
  <2>6. Bad => Bad'
    BY <2>1, Zenon DEF Bad, ErrorsReported
  <2> QED
    BY <2>1, <2>2, <2>3, <2>4, <2>5, <2>6, MainStep, Zenon
<1>2. CASE \E k \in Kinds : Begin(k)
  <2>1. /\ pc = "idle" /\ pc' \in {"wdRegister", "feature"}
        /\ kind' \in Kinds /\ (pc' = "feature" => kind' # "watchdog")
        /\ phase' = "run" /\ ctx' = NoContext /\ status' = "ok"
        /\ frame.at = "none" /\ ~halted
        /\ UNCHANGED <<inService, frame, gicv3, probed, enabled, handler, halted, failed>>
    BY <1>2, Zenon DEF Begin, irq, history, At, Goto, Irq!InMain
  <2>2. Types'
    BY <2>1, Zenon DEF Types, IntIds, Context, Steps, Kinds, NoContext
  <2>3. HandlersHeld' /\ HaltsOnlyUnprobed'
    BY <2>1, Zenon DEF Types, HandlersHeld, NotHeld, HaltsOnlyUnprobed, AfterGic, WdHeld, IntIds,
       Context, NoContext
  <2>4. NotHeld'
    BY <2>1, Zenon DEF Types, NotHeld, ErrorsReported, WdHeld, Running, Context, Kinds,
       NoContext
  <2>5. EnabledHandled' /\ ErrorsReported'
    BY <2>1 DEF Types, EnabledHandled, NotHeld, ErrorsReported, WdHeld, Running, Bad, IntIds,
                Context, Steps, Kinds, NoContext
  <2>6. Bad => Bad'
    BY <2>1, Zenon DEF Bad, ErrorsReported
  <2> QED
    BY <2>1, <2>2, <2>3, <2>4, <2>5, <2>6, MainStep, Zenon
<1>3. CASE SetupInterrupt
  <2>1. /\ pc = "setup" /\ phase = "run" /\ status = "ok" /\ UNCHANGED <<kind, failed>>
        /\ \/ /\ pc' \in {"relinquish", "cleanup"} /\ phase' = "early" /\ status' = "skip"
              /\ UNCHANGED <<ctx, handler>>
           \/ /\ pc' = "create" /\ UNCHANGED <<phase, status>>
              /\ ctx' = [ctx EXCEPT !.sriRegistered = TRUE]
              /\ handler' = [handler EXCEPT ![Sri] = "sri"]
        /\ frame.at = "none" /\ ~halted
        /\ UNCHANGED <<inService, frame, gicv3, probed, enabled, halted>>
    BY <1>3, Zenon DEF SetupInterrupt, EarlyExit, HandlersHeld, NotHeld, ErrorsReported,
       Types, Running, IntIds, Context, irq, history, Irq!gic, Irq!setup, Irq!registers,
       Irq!pal_irq_register_handler, Irq!pal_irq_update_handler, Irq!get_irq_handler, At,
       Goto, Irq!InMain
  <2>2. Types'
    <3>1. handler' \in [IntIds \cup {Spurious} -> {"sri", "watchdog", Null}]
      BY <2>1, Zenon DEF Types
    <3>2. [ctx EXCEPT !.sriRegistered = TRUE] \in Context
      BY Zenon DEF Types, Context
    <3>3. ctx' \in Context
      BY <2>1, <3>2, Zenon DEF Types
    <3>4. pc' \in Steps
      BY <2>1, Zenon DEF Steps
    <3> QED
      BY <2>1, <3>1, <3>3, <3>4, Zenon DEF Types
  <2>3. HandlersHeld' /\ HaltsOnlyUnprobed'
    BY <2>1 DEF Types, HandlersHeld, NotHeld, HaltsOnlyUnprobed, AfterGic,
       WdHeld, IntIds, Context
  <2>4. NotHeld'
    BY <2>1, Zenon DEF Types, NotHeld, ErrorsReported, WdHeld, Running, Context, Kinds
  <2>5. EnabledHandled' /\ ErrorsReported'
    BY <2>1, Zenon DEF Types, EnabledHandled, NotHeld, ErrorsReported, WdHeld, Running, Bad,
       IntIds, Context, Steps, Kinds
  <2>6. Bad => Bad'
    BY <2>1, Zenon DEF Bad, ErrorsReported
  <2> QED
    BY <2>1, <2>2, <2>3, <2>4, <2>5, <2>6, MainStep, Zenon
<1>4. CASE PrepareInterrupt
  <2>1. /\ pc = "prepare" /\ kind \in {"command", "locality"}
        /\ pc' \in {"data", "request"} /\ (pc' = "data" <=> kind = "command")
        /\ UNCHANGED <<kind, phase, status, failed>>
        /\ ctx' = [ctx EXCEPT !.sriEnabled = TRUE]
        /\ enabled' \subseteq enabled \cup {Sri}
        /\ Sri \in enabled' => Sri \in enabled \/ probed \/ ~gicv3
        /\ frame.at = "none" /\ ~halted /\ (halted' => ~probed)
        /\ UNCHANGED <<inService, frame, gicv3, probed, handler>>
    BY <1>4, EnableFacts, Zenon DEF PrepareInterrupt, Types, ErrorsReported, Steps, Kinds,
       WdHeld, history, At, Goto, Irq!InMain
  <2>2. Types'
    BY <2>1, Zenon DEF Types, IntIds, Context, Steps, Kinds
  <2>3. HandlersHeld' /\ HaltsOnlyUnprobed'
    BY <2>1, Zenon DEF Types, HandlersHeld, NotHeld, HaltsOnlyUnprobed, AfterGic,
       WdHeld, IntIds, Context
  <2>4. NotHeld'
    BY <2>1, Zenon DEF Types, NotHeld, ErrorsReported, WdHeld, Running, Context, Kinds
  <2>5. EnabledHandled' /\ ErrorsReported'
    BY <2>1, Zenon DEF Types, EnabledHandled, NotHeld, ErrorsReported, WdHeld, Running, Bad,
       IntIds, Context, Steps, Kinds
  <2>6. Bad => Bad'
    BY <2>1, Zenon DEF Bad, ErrorsReported
  <2> QED
    BY <2>1, <2>2, <2>3, <2>4, <2>5, <2>6, MainStep, Zenon
<1>5. CASE CompleteInterrupt
  <2>1. /\ pc = "complete" /\ phase = "run" /\ kind \notin {"watchdog", "unregistered"}
        /\ status = "ok" /\ UNCHANGED <<kind, phase, failed>>
        /\ \/ pc' = "pending" /\ status' = "ok"
           \/ pc' = "cleanup" /\ status' = "error"
        /\ ctx' = [ctx EXCEPT !.sriEnabled = FALSE]
        /\ enabled' = enabled \ {Sri}
        /\ frame.at = "none" /\ ~halted /\ (halted' => ~probed)
        /\ UNCHANGED <<inService, frame, gicv3, probed, handler>>
    BY <1>5, DisableFacts, Zenon DEF CompleteInterrupt, LateExit, ErrorsReported, EnabledHandled,
       Running, Steps, WdHeld, history, At, Goto
  <2>2. Types'
    BY <2>1, Zenon DEF Types, IntIds, Context, Steps, Kinds
  <2>3. HandlersHeld' /\ HaltsOnlyUnprobed'
    BY <2>1, Zenon DEF Types, HandlersHeld, NotHeld, HaltsOnlyUnprobed, AfterGic,
       WdHeld, IntIds, Context
  <2>4. NotHeld'
    BY <2>1, Zenon DEF Types, NotHeld, ErrorsReported, WdHeld, Running, Context, Kinds
  <2>5. EnabledHandled' /\ ErrorsReported'
    BY <2>1, Zenon DEF Types, EnabledHandled, NotHeld, ErrorsReported, WdHeld, Running, Bad,
       IntIds, Context, Steps, Kinds
  <2>6. Bad => Bad'
    BY <2>1, Zenon DEF Bad, ErrorsReported
  <2> QED
    BY <2>1, <2>2, <2>3, <2>4, <2>5, <2>6, MainStep, Zenon
<1>6. CASE CleanupInterrupt
  <2>1. /\ pc = "cleanup" /\ pc' = "deregister" /\ UNCHANGED <<kind, phase, status, failed>>
        /\ ctx' = [ctx EXCEPT !.sriEnabled = FALSE]
        /\ enabled' \subseteq enabled /\ Sri \notin enabled'
        /\ frame.at = "none" /\ ~halted /\ (halted' => ~probed)
        /\ UNCHANGED <<inService, frame, gicv3, probed, handler>>
    BY <1>6, DisableFacts, Zenon DEF CleanupInterrupt, EnabledHandled, irq, history, At,
       Goto, Irq!InMain
  <2>2. Types'
    BY <2>1, Zenon DEF Types, IntIds, Context, Steps, Kinds
  <2>3. HandlersHeld' /\ HaltsOnlyUnprobed'
    BY <2>1, Zenon DEF Types, HandlersHeld, NotHeld, HaltsOnlyUnprobed, AfterGic,
       WdHeld, IntIds, Context
  <2>4. NotHeld'
    BY <2>1, Zenon DEF Types, NotHeld, ErrorsReported, WdHeld, Running, Context, Kinds
  <2>5. EnabledHandled' /\ ErrorsReported'
    BY <2>1, Zenon DEF Types, EnabledHandled, NotHeld, ErrorsReported, WdHeld, Running, Bad,
       IntIds, Context, Steps, Kinds
  <2>6. Bad => Bad'
    BY <2>1, Zenon DEF Bad, ErrorsReported
  <2> QED
    BY <2>1, <2>2, <2>3, <2>4, <2>5, <2>6, MainStep, Zenon
<1>7. CASE CleanupNotification
  <2>1. /\ pc = "destroy" /\ UNCHANGED <<kind, status, failed>>
        /\ pc' \in {"report", "clearStart", "relinquish"}
        /\ ctx' \in Context /\ ~ctx'.sriRegistered /\ ~ctx'.sriEnabled
        /\ handler' \in [IntIds \cup {Spurious} -> {"sri", "watchdog", Null}]
        /\ handler'[Sri] = Null /\ UNCHANGED <<handler[NsWd], handler[Spurious]>>
        /\ frame.at = "none" /\ ~halted
        /\ UNCHANGED <<inService, frame, gicv3, probed, enabled, halted>>
    <3>1. /\ pc = "destroy" /\ UNCHANGED <<kind, status, failed>>
          /\ pc' \in {"report", "clearStart", "relinquish"} /\ frame.at = "none" /\ ~halted
      BY <1>7, Zenon DEF CleanupNotification, AfterCleanup, history, At, Irq!InMain
    <3>2. ctx' \in Context /\ ~ctx'.sriRegistered /\ ~ctx'.sriEnabled
      BY <1>7, <3>1, Zenon DEF CleanupNotification, Types, NotHeld, Context
    <3>3. CASE ctx.sriRegistered
      <4>1. /\ handler' = [handler EXCEPT ![Sri] = Null]
            /\ UNCHANGED <<inService, frame, gicv3, probed, enabled, halted>>
        BY <1>7, <3>3, Zenon DEF CleanupNotification, HandlersHeld, Irq!gic, Irq!setup,
           Irq!registers, Irq!pal_irq_unregister_handler, Irq!pal_irq_update_handler,
           Irq!get_irq_handler
      <4> QED
        BY <3>1, <3>2, <4>1, Zenon DEF Types, IntIds
    <3>4. CASE ~ctx.sriRegistered
      <4>1. UNCHANGED <<inService, frame, gicv3, probed, enabled, handler, halted>>
        BY <1>7, <3>4, Zenon DEF CleanupNotification, irq
      <4> QED
        BY <3>1, <3>2, <3>4, <4>1, Zenon DEF Types, HandlersHeld
    <3> QED
      BY <3>3, <3>4, Zenon
  <2>2. Types'
    BY <2>1, Zenon DEF Types, IntIds, Context, Steps, Kinds
  <2>3. HandlersHeld' /\ HaltsOnlyUnprobed'
    BY <2>1, Zenon DEF Types, HandlersHeld, NotHeld, HaltsOnlyUnprobed, AfterGic,
       WdHeld, IntIds, Context
  <2>4. NotHeld'
    BY <2>1, Zenon DEF Types, NotHeld, ErrorsReported, WdHeld, Running, Context, Kinds
  <2>5. EnabledHandled' /\ ErrorsReported'
    BY <2>1, Zenon DEF Types, EnabledHandled, NotHeld, ErrorsReported, WdHeld, Running, Bad,
       IntIds, Context, Steps, Kinds
  <2>6. Bad => Bad'
    BY <2>1, Zenon DEF Bad, ErrorsReported
  <2> QED
    BY <2>1, <2>2, <2>3, <2>4, <2>5, <2>6, MainStep, Zenon
<1>8. CASE Report
  <2>1. /\ pc = "report" /\ pc' = "idle" /\ UNCHANGED <<kind, phase, ctx, status>>
        /\ failed => failed'
        /\ status = "error" => failed'
        /\ frame.at = "none" /\ ~halted
        /\ UNCHANGED <<inService, frame, gicv3, probed, enabled, handler, halted>>
    BY <1>8, Zenon DEF Report, irq, script, At, Goto, Irq!InMain
  <2>2. Types'
    BY <2>1 DEF Types, IntIds, Context, Steps, Kinds
  <2>3. HandlersHeld' /\ HaltsOnlyUnprobed'
    BY <2>1, Zenon DEF Types, HandlersHeld, NotHeld, HaltsOnlyUnprobed, AfterGic,
       WdHeld, IntIds, Context
  <2>4. NotHeld'
    BY <2>1, Zenon DEF Types, NotHeld, ErrorsReported, WdHeld, Running, Context, Kinds
  <2>5. EnabledHandled' /\ ErrorsReported'
    BY <2>1, Zenon DEF Types, EnabledHandled, NotHeld, ErrorsReported, WdHeld, Running, Bad,
       IntIds, Context, Steps, Kinds
  <2>6. Bad => Bad'
    BY <2>1, Zenon DEF Bad, ErrorsReported
  <2> QED
    BY <2>1, <2>2, <2>3, <2>4, <2>5, <2>6, MainStep, Zenon
<1> QED
  BY <1>1, <1>2, <1>3, <1>4, <1>5, <1>6, <1>7, <1>8, Zenon

\* The steps of vm_to_sp_preempt.
LEMMA WatchdogInv == ASSUME Inv, WatchdogTest PROVE Inv'
<1> USE Vm1Assumption DEF Inv
<1>1. CASE WdRegister
  <2>1. /\ pc = "wdRegister" /\ pc' = "wdEnable" /\ UNCHANGED <<kind, phase, ctx, failed, status>>
        /\ handler' = [handler EXCEPT ![NsWd] = "watchdog"]
        /\ frame.at = "none" /\ ~halted
        /\ UNCHANGED <<inService, frame, gicv3, probed, enabled, halted>>
    BY <1>1, Zenon DEF WdRegister, HandlersHeld, WdHeld, history, Irq!gic, Irq!setup,
       Irq!registers, Irq!pal_irq_register_handler, Irq!pal_irq_update_handler,
       Irq!get_irq_handler, At, Goto, Irq!InMain
  <2>2. Types'
    BY <2>1 DEF Types, IntIds, Context, Steps, Kinds
  <2>3. HandlersHeld' /\ HaltsOnlyUnprobed'
    BY <2>1, Zenon DEF Types, HandlersHeld, NotHeld, HaltsOnlyUnprobed, AfterGic,
       WdHeld, IntIds, Context
  <2>4. NotHeld'
    BY <2>1, Zenon DEF Types, NotHeld, ErrorsReported, WdHeld, Running, Context, Kinds
  <2>5. EnabledHandled' /\ ErrorsReported'
    BY <2>1, Zenon DEF Types, EnabledHandled, NotHeld, ErrorsReported, WdHeld, Running, Bad,
       IntIds, Context, Steps, Kinds
  <2>6. Bad => Bad'
    BY <2>1, Zenon DEF Bad, ErrorsReported
  <2> QED
    BY <2>1, <2>2, <2>3, <2>4, <2>5, <2>6, MainStep, Zenon
<1>2. CASE WdEnable
  <2>1. /\ pc = "wdEnable" /\ pc' = "wdStart" /\ UNCHANGED <<kind, phase, ctx, failed, status>>
        /\ enabled' \subseteq enabled \cup {NsWd} /\ (halted' => ~probed)
        /\ frame.at = "none" /\ ~halted
        /\ UNCHANGED <<inService, frame, gicv3, probed, handler>>
    BY <1>2, EnableFacts, Zenon DEF WdEnable, history, At, Goto, Irq!InMain
  <2>2. Types'
    BY <2>1, ZenonT(30) DEF Types, IntIds, Context, Steps, Kinds
  <2>3. HandlersHeld' /\ HaltsOnlyUnprobed'
    BY <2>1 DEF Types, HandlersHeld, NotHeld, HaltsOnlyUnprobed, AfterGic,
       WdHeld, IntIds, Context
  <2>4. NotHeld'
    BY <2>1, Zenon DEF Types, NotHeld, ErrorsReported, WdHeld, Running, Context, Kinds
  <2>5. EnabledHandled' /\ ErrorsReported'
    BY <2>1, Zenon DEF Types, EnabledHandled, NotHeld, ErrorsReported, WdHeld, Running, Bad,
       IntIds, Context, Steps, Kinds
  <2>6. Bad => Bad'
    BY <2>1, Zenon DEF Bad, ErrorsReported
  <2> QED
    BY <2>1, <2>2, <2>3, <2>4, <2>5, <2>6, MainStep, Zenon
<1>3. CASE WdStart
  <2>1. /\ pc = "wdStart" /\ pc' = "wdRequest" /\ UNCHANGED <<kind, phase, ctx, failed, status>>
        /\ frame.at = "none" /\ ~halted
        /\ UNCHANGED <<inService, frame, gicv3, probed, enabled, handler, halted>>
    BY <1>3, Zenon DEF WdStart, Irq!DriveLine, Irq!setup, Irq!registers, history, At, Goto,
       Irq!InMain
  <2>2. Types'
    BY <2>1 DEF Types, IntIds, Context, Steps, Kinds
  <2>3. HandlersHeld' /\ HaltsOnlyUnprobed'
    BY <2>1, Zenon DEF Types, HandlersHeld, NotHeld, HaltsOnlyUnprobed, AfterGic,
       WdHeld, IntIds, Context
  <2>4. NotHeld'
    BY <2>1, Zenon DEF Types, NotHeld, ErrorsReported, WdHeld, Running, Context, Kinds
  <2>5. EnabledHandled' /\ ErrorsReported'
    BY <2>1, Zenon DEF Types, EnabledHandled, NotHeld, ErrorsReported, WdHeld, Running, Bad,
       IntIds, Context, Steps, Kinds
  <2>6. Bad => Bad'
    BY <2>1, Zenon DEF Bad, ErrorsReported
  <2> QED
    BY <2>1, <2>2, <2>3, <2>4, <2>5, <2>6, MainStep, Zenon
<1>4. CASE WdRequest
  <2>1. /\ pc = "wdRequest" /\ UNCHANGED <<kind, phase, ctx, failed>>
        /\ \/ pc' = "wdDisable" /\ status' = status
           \/ pc' = "wdFree" /\ status' = "error"
        /\ frame.at = "none" /\ ~halted
        /\ UNCHANGED <<inService, frame, gicv3, probed, enabled, handler, halted>>
    BY <1>4, Zenon DEF WdRequest, irq, history, At, Goto, Irq!InMain
  <2>2. Types'
    BY <2>1 DEF Types, IntIds, Context, Steps, Kinds
  <2>3. HandlersHeld' /\ HaltsOnlyUnprobed'
    BY <2>1, Zenon DEF Types, HandlersHeld, NotHeld, HaltsOnlyUnprobed, AfterGic,
       WdHeld, IntIds, Context
  <2>4. NotHeld'
    BY <2>1, Zenon DEF Types, NotHeld, ErrorsReported, WdHeld, Running, Context, Kinds
  <2>5. EnabledHandled' /\ ErrorsReported'
    BY <2>1, Zenon DEF Types, EnabledHandled, NotHeld, ErrorsReported, WdHeld, Running, Bad,
       IntIds, Context, Steps, Kinds
  <2>6. Bad => Bad'
    BY <2>1, Zenon DEF Bad, ErrorsReported
  <2> QED
    BY <2>1, <2>2, <2>3, <2>4, <2>5, <2>6, MainStep, Zenon
<1>5. CASE WdDisable
  <2>1. /\ pc = "wdDisable" /\ pc' = "wdRun" /\ UNCHANGED <<kind, phase, ctx, failed, status>>
        /\ enabled' = enabled \ {NsWd}
        /\ frame.at = "none" /\ ~halted /\ (halted' => ~probed)
        /\ UNCHANGED <<inService, frame, gicv3, probed, handler>>
    BY <1>5, DisableFacts, Zenon DEF WdDisable, history, At, Goto, Irq!InMain
  <2>2. Types'
    BY <2>1 DEF Types, IntIds, Context, Steps, Kinds
  <2>3. HandlersHeld' /\ HaltsOnlyUnprobed'
    BY <2>1, Zenon DEF Types, HandlersHeld, NotHeld, HaltsOnlyUnprobed, AfterGic,
       WdHeld, IntIds, Context
  <2>4. NotHeld'
    BY <2>1, Zenon DEF Types, NotHeld, ErrorsReported, WdHeld, Running, Context, Kinds
  <2>5. EnabledHandled' /\ ErrorsReported'
    BY <2>1, Zenon DEF Types, EnabledHandled, NotHeld, ErrorsReported, WdHeld, Running, Bad,
       IntIds, Context, Steps, Kinds
  <2>6. Bad => Bad'
    BY <2>1, Zenon DEF Bad, ErrorsReported
  <2> QED
    BY <2>1, <2>2, <2>3, <2>4, <2>5, <2>6, MainStep, Zenon
<1>6. CASE WdRun
  <2>1. /\ pc = "wdRun" /\ pc' = "wdFree" /\ UNCHANGED <<kind, phase, ctx, failed>>
        /\ status = "ok" /\ status' \in {"ok", "error"}
        /\ frame.at = "none" /\ ~halted
        /\ UNCHANGED <<inService, frame, gicv3, probed, enabled, handler, halted>>
    BY <1>6, Zenon DEF WdRun, ErrorsReported, Running, irq, history, At, Goto, Irq!InMain
  <2>2. Types'
    BY <2>1 DEF Types, IntIds, Context, Steps, Kinds
  <2>3. HandlersHeld' /\ HaltsOnlyUnprobed'
    BY <2>1, Zenon DEF Types, HandlersHeld, NotHeld, HaltsOnlyUnprobed, AfterGic,
       WdHeld, IntIds, Context
  <2>4. NotHeld'
    BY <2>1, Zenon DEF Types, NotHeld, ErrorsReported, WdHeld, Running, Context, Kinds
  <2>5. EnabledHandled' /\ ErrorsReported'
    BY <2>1, Zenon DEF Types, EnabledHandled, NotHeld, ErrorsReported, WdHeld, Running, Bad,
       IntIds, Context, Steps, Kinds
  <2>6. Bad => Bad'
    BY <2>1, Zenon DEF Bad, ErrorsReported
  <2> QED
    BY <2>1, <2>2, <2>3, <2>4, <2>5, <2>6, MainStep, Zenon
<1>7. CASE WdFree
  <2>1. /\ pc = "wdFree" /\ pc' = "report" /\ UNCHANGED <<kind, phase, ctx, failed, status>>
        /\ handler' = [handler EXCEPT ![NsWd] = Null]
        /\ frame.at = "none" /\ ~halted
        /\ UNCHANGED <<inService, frame, gicv3, probed, enabled, halted>>
    BY <1>7, Zenon DEF WdFree, HandlersHeld, WdHeld, history, Irq!gic, Irq!setup,
       Irq!registers, Irq!pal_irq_unregister_handler, Irq!pal_irq_update_handler,
       Irq!get_irq_handler, At, Goto, Irq!InMain
  <2>2. Types'
    BY <2>1 DEF Types, IntIds, Context, Steps, Kinds
  <2>3. HandlersHeld' /\ HaltsOnlyUnprobed'
    BY <2>1, Zenon DEF Types, HandlersHeld, NotHeld, HaltsOnlyUnprobed, AfterGic,
       WdHeld, IntIds, Context
  <2>4. NotHeld'
    BY <2>1, Zenon DEF Types, NotHeld, ErrorsReported, WdHeld, Running, Context, Kinds
  <2>5. EnabledHandled' /\ ErrorsReported'
    BY <2>1, Zenon DEF Types, EnabledHandled, NotHeld, ErrorsReported, WdHeld, Running, Bad,
       IntIds, Context, Steps, Kinds
  <2>6. Bad => Bad'
    BY <2>1, Zenon DEF Bad, ErrorsReported
  <2> QED
    BY <2>1, <2>2, <2>3, <2>4, <2>5, <2>6, MainStep, Zenon
<1> QED
  BY <1>1, <1>2, <1>3, <1>4, <1>5, <1>6, <1>7, Zenon DEF WatchdogTest

\* Outside the main flow only the exception and the lines of the devices move.
Aside ==
    UNCHANGED <<pc, kind, phase, ctx, status, failed, gicv3, probed, enabled, handler, halted>>

LEMMA AsideStep ==
    ASSUME Inv, Aside, inService' \subseteq IntIds,
           frame' \in [at : {"none", "taken", "acknowledged", "handled"},
                       irq : IntIds \cup {Spurious}],
           ActiveHandled'
    PROVE  Inv'
<1>1. Types' /\ HandlersHeld'
  BY Zenon DEF Inv, Aside, Types, HandlersHeld
<1>2. NotHeld' /\ ErrorsReported'
  BY Zenon DEF Inv, Aside, NotHeld, ErrorsReported
<1>3. EnabledHandled' /\ HaltsOnlyUnprobed'
  BY Zenon DEF Inv, Aside, EnabledHandled, HaltsOnlyUnprobed, Bad
<1> QED
  BY <1>1, <1>2, <1>3, Zenon DEF Inv

LEMMA StillStep == ASSUME Inv, Aside, UNCHANGED <<inService, frame>> PROVE Inv'
<1>1. ActiveHandled'
  BY Zenon DEF Inv, Aside, ActiveHandled, Bad
<1> QED
  BY <1>1, AsideStep, Zenon DEF Inv, Types

\* The exception, the devices and the secure world.
LEMMA ExceptionInv == ASSUME Inv, Exceptions PROVE Inv'
<1> USE Vm1Assumption
<1>1. Types /\ HandlersHeld /\ NotHeld /\ EnabledHandled /\ ActiveHandled
  BY Zenon DEF Inv
<1>2. CASE TakeException /\ Irq!TakeIrq
  <2>1. Aside /\ frame.at = "none" /\ UNCHANGED inService
        /\ frame' = [at |-> "taken", irq |-> Spurious]
    BY <1>2, Zenon DEF Aside, TakeException, Irq!TakeIrq, Irq!InMain, Irq!setup,
       Irq!registers, script, history
  <2>2. ActiveHandled'
    BY <1>1, <2>1, Zenon DEF Aside, ActiveHandled, Bad
  <2> QED
    BY <1>1, <2>1, <2>2, AsideStep, Zenon DEF Types
<1>3. CASE TakeException /\ Irq!Withdraw
  <2>1. Aside /\ UNCHANGED <<inService, frame>>
    BY <1>3, Zenon DEF Aside, TakeException, Irq!Withdraw, Irq!setup, Irq!registers, script,
       history
  <2> QED
    BY <2>1, StillStep, Zenon
<1>4. CASE TakeException /\ Irq!Acknowledge
  <2>1. Aside /\ frame.at = "taken"
    BY <1>4, Zenon DEF Aside, TakeException, Irq!Acknowledge, Irq!setup, Irq!registers,
       script, history
  <2>2. CASE UNCHANGED inService /\ frame' = [at |-> "acknowledged", irq |-> Spurious]
    <3>1. ActiveHandled'
      BY <1>1, <2>1, <2>2, Zenon DEF Aside, ActiveHandled, Bad
    <3> QED
      BY <1>1, <2>1, <2>2, <3>1, AsideStep, Zenon DEF Types
  <2>3. CASE \E i \in enabled : /\ frame' = [at |-> "acknowledged", irq |-> i]
                                /\ inService' = inService \cup {i}
    <3>1. PICK i \in enabled : /\ frame' = [at |-> "acknowledged", irq |-> i]
                              /\ inService' = inService \cup {i}
      BY <2>3, Zenon
    <3>2. i \in IntIds /\ (handler[i] # Null \/ Bad)
      BY <1>1, Zenon DEF Types, HandlersHeld, NotHeld, EnabledHandled, IntIds, WdHeld
    <3>3. ActiveHandled'
      BY <1>1, <2>1, <3>1, <3>2, Zenon DEF Aside, ActiveHandled, Bad
    <3> QED
      BY <1>1, <2>1, <3>1, <3>2, <3>3, AsideStep, Zenon DEF Types
  <2> QED
    BY <1>4, <2>2, <2>3, Zenon DEF Irq!Acknowledge, Irq!arm_gic_intr_ack, Irq!Signalled
<1>5. CASE TakeException /\ Irq!Unhandled
  <2>1. /\ Aside /\ frame.at = "acknowledged" /\ handler[frame.irq] = Null
        /\ UNCHANGED inService /\ frame' = [at |-> "none", irq |-> Spurious]
    BY <1>5, Zenon DEF Aside, TakeException, Irq!Unhandled, Irq!get_irq_handler,
       Irq!NoFrame, Irq!gic, Irq!setup, Irq!registers, script, history
  <2>2. inService # {} => Bad
    BY <1>1, <2>1 DEF Types, ActiveHandled, IntIds
  <2>3. ActiveHandled'
    BY <2>1, <2>2, Zenon DEF Aside, ActiveHandled, Bad
  <2> QED
    BY <1>1, <2>1, <2>3, AsideStep, Zenon DEF Types
<1>6. CASE TakeException /\ Irq!EndOfInterrupt
  <2>1. /\ Aside /\ frame.at = "handled" /\ inService' = inService \ {frame.irq}
        /\ frame' = [at |-> "none", irq |-> Spurious]
    BY <1>6, Zenon DEF Aside, TakeException, Irq!EndOfInterrupt, Irq!arm_gic_end_of_intr,
       Irq!NoFrame, Irq!setup, Irq!registers, script, history
  <2>2. ActiveHandled'
    BY <1>1, <2>1, Zenon DEF Aside, ActiveHandled, Bad
  <2> QED
    BY <1>1, <2>1, <2>2, AsideStep, Zenon DEF Types
<1>7. CASE SriHandler \/ WdHandler
  <2>1. /\ Aside /\ frame.at = "acknowledged" /\ UNCHANGED inService
        /\ frame' = [frame EXCEPT !.at = "handled"]
    BY <1>7, Zenon DEF Aside, SriHandler, WdHandler, Irq!CallHandler, Irq!setup,
       Irq!registers, script, history
  <2>2. frame' \in [at : {"none", "taken", "acknowledged", "handled"},
                    irq : IntIds \cup {Spurious}]
        /\ frame'.at = "handled" /\ frame'.irq = frame.irq
    BY <1>1, <2>1, Zenon DEF Types
  <2>3. ActiveHandled'
    BY <1>1, <2>1, <2>2, Zenon DEF Aside, ActiveHandled, Bad
  <2> QED
    BY <1>1, <2>1, <2>2, <2>3, AsideStep, Zenon DEF Types
<1> QED
  BY <1>2, <1>3, <1>4, <1>5, <1>6, <1>7, Zenon DEF Exceptions, TakeException

\* Every step keeps the invariant.
LEMMA StepInv == ASSUME Inv, [Next]_vars PROVE Inv'
<1>1. CASE RaiseSri \/ WdExpires \/ TpmFails \/ UNCHANGED vars
  <2>1. Aside /\ UNCHANGED <<inService, frame>>
    BY <1>1, Zenon DEF Aside, RaiseSri, WdExpires, TpmFails, Irq!Pulse, Irq!DriveLine,
       Irq!setup, Irq!registers, vars, irq, script, history
  <2> QED
    BY <2>1, StillStep, Zenon
<1> QED
  BY <1>1, TalkInv, InterruptInv, WatchdogInv, ExceptionInv, Zenon DEF Next, TpmTest

-----------------------------------------------------------------------------
(* The assertions of pal_irq_update_handler never stop VM1, over any       *)
(* number of tests that fail anywhere: a handler is registered only where  *)
(* there is none, and unregistered only where there is one.  What stops    *)
(* it is an assertion of the GICv3 driver, at one of the steps that set up *)
(* or clear an interrupt, when the probe found no redistributor frame.     *)
THEOREM HandlersNeverHalt == Spec => []HaltsOnlyUnprobed
<1>1. Inv /\ [Next]_vars => Inv'
  BY StepInv, Zenon
<1>2. Inv => HaltsOnlyUnprobed
  BY Zenon DEF Inv
<1> QED
  BY InitInv, <1>1, <1>2, PTL DEF Spec

(* arm_gic_end_of_intr is skipped, and an interrupt left active outside    *)
(* its exception, only once a test has failed, over any number of tests.   *)
THEOREM EndedUnlessFailed == Spec => []StuckOnlyAfterFailure
<1>1. Inv /\ [Next]_vars => Inv'
  BY StepInv, Zenon
<1>2. Inv => StuckOnlyAfterFailure
  BY Zenon DEF Inv, ActiveHandled, StuckOnlyAfterFailure, Bad
<1> QED
  BY InitInv, <1>1, <1>2, PTL DEF Spec

\* A step reaches the TPM only as a command or as its own fatal error.
LEMMA TpmStep == [Next]_vars => [Tpm!TpmNext]_(Tpm!tpmVars)
<1> SUFFICES ASSUME [Next]_vars, ~UNCHANGED tpm PROVE Tpm!TpmNext
  BY Zenon DEF tpm, Tpm!tpmVars
<1>1. CASE StartCommand \/ FinishNotified
  <2>1. Tpm!pal_tpm_execute_command(reply'.ran # None)
    BY <1>1, Zenon DEF StartCommand, FinishNotified
  <2>2. (reply'.ran # None) \in BOOLEAN
    BY Zenon
  <2> QED
    BY <2>1, <2>2, Zenon DEF Tpm!TpmNext
<1>2. CASE TpmFails
  BY <1>2, Zenon DEF TpmFails, Tpm!TpmNext
<1>3. ~TpmTest \/ StartCommand \/ FinishNotified
  BY Zenon DEF TpmTest, FeatureSupported, RequestAccess, Grant, SetupInterrupt,
     CreateBitmap, Bind, Register, PrepareInterrupt, WriteCommand, CompleteInterrupt,
     CheckPending, Unregister, Relinquish, Release, RequestFails, CleanupInterrupt,
     CleanupRegistration, CleanupNotification, ClearStart, Report
<1>4. ~WatchdogTest
  BY Zenon DEF WatchdogTest, WdRegister, WdEnable, WdStart, WdRequest, WdDisable, WdRun, WdFree
<1>5. ~Exceptions /\ ~RaiseSri /\ ~WdExpires
  BY Zenon DEF Exceptions, TakeException, SriHandler, WdHandler, RaiseSri, WdExpires
<1>6. /\ ~\E sysregs, sre, found \in BOOLEAN : Boot(sysregs, sre, found)
      /\ ~\E k \in Kinds : Begin(k)
  BY Zenon DEF Boot, Begin
<1> QED
  BY <1>1, <1>2, <1>3, <1>4, <1>5, <1>6, Zenon DEF Next, vars

(* The service drives the TPM as TpmPlatform describes it by itself: what  *)
(* a test, an interrupt or the SPMC does reaches the TPM only as a command *)
(* (pal_tpm_execute_command) or as its own fatal error.                    *)
THEOREM DrivesTheTpm == Spec => Tpm!TpmSpec
<1>1. Init => Tpm!TpmInit
  BY Zenon DEF Init
<1> QED
  BY <1>1, TpmStep, PTL DEF Spec, Tpm!TpmSpec


-----------------------------------------------------------------------------
(* The test's own notification.                                            *)

\* What VM1 observes of the notification that a test brought about.
Own == {"set", "raised", "sri", "get", "finish"}

\* An SRI is owed, pending or being handled.
SriTaken == frame.at = "acknowledged" /\ frame.irq = Sri
SriSent == sriDue \/ Sri \in latched \/ SriTaken

\* The test has the SRI enabled and has not looked for it yet.
Awaiting ==
    \/ pc \in {"data", "ctrlStart", "start", "complete"}
    \/ pc \in {"request", "grant"} /\ kind = "locality"

\* What the test's own notification leads to is looked at.
Seen == pc \in {"pending", "finish"} /\ kind # "unregistered"

\* Each handler is that of its interrupt, and only the watchdog drives a line.
Sources ==
    /\ handler[Sri] \in {Null, "sri"} /\ handler[NsWd] \in {Null, "watchdog"}
    /\ line \subseteq {NsWd}

\* There is at most one SRI, and only for a notification that is outstanding:
\* it is seen before the notification is finished, or never finished.
SriOnce ==
    /\ SriSent => outstanding
    /\ sriDue => Sri \notin latched /\ ~SriTaken
    /\ Sri \in latched => ~SriTaken
    /\ pc = "prepare" => ~outstanding
    /\ Awaiting /\ sriSeen => outstanding /\ ~SriSent
    /\ Seen => ~SriSent

\* From its registration on, a test that goes on has seen its own notification.
OwnTrue ==
    /\ own \subseteq Own
    /\ "raised" \in own => "set" \in own
    /\ "sri" \in own => "raised" \in own
    /\ Awaiting => /\ outstanding => "set" \in own
                   /\ SriSent /\ ~sriDue => "raised" \in own
                   /\ sriSeen => "sri" \in own
    /\ Seen => "sri" \in own
    /\ pc = "finish" => "get" \in own
    /\ /\ status = "ok" /\ kind \in {"command", "locality"}
       /\ pc \in {"unregister", "cleanup", "deregister", "destroy", "clearStart",
                  "relinquish", "release", "report"}
       => own = Own

\* An early return is no success, and the steps of vm_to_sp_preempt are its own.
Scripted ==
    /\ phase = "early" => status # "ok"
    /\ pc \in {"wdRegister"} \cup WdHeld => kind = "watchdog"

Watched == Sources /\ SriOnce /\ OwnTrue /\ Scripted

\* What the tests rely on of the invariant of the service.
Service ==
    /\ client \in {Vm1, None} /\ outstanding \in BOOLEAN
    /\ outstanding => client = Vm1
    /\ locCtrl \in [{Loc} -> SUBSET {"requestAccess", "relinquish"}]
    /\ locSts \in [{Loc} -> BOOLEAN]
    /\ ctrlStart \in [{Loc} -> BOOLEAN]
    /\ locSts[Loc] <=> active = Loc
    /\ active \in {Loc, None}

\* REGISTER_FOR_NOTIFICATION: accepted from VM1, or refused and without effect.
LEMMA RegisterFacts ==
    ASSUME Service, Svc!RegisterNotification(Vm1, 1)
    PROVE  /\ UNCHANGED <<active, locCtrl, locSts, ctrlStart>>
           /\ \/ /\ reply'.status = "OK" /\ client = None /\ ~outstanding
                 /\ client' = Vm1 /\ ~outstanding'
              \/ reply'.status # "OK" /\ UNCHANGED <<client, outstanding>>
<1>1. CASE \E e \in {"INVARG", "NOTSUP", "ALREADY"} : Svc!Answer(Vm1, e)
  BY <1>1 DEF Svc!Answer, Svc!Reply, Svc!crb, Svc!notification
<1>2. CASE /\ client = None /\ client' = Vm1 /\ outstanding' = FALSE
           /\ reply' = Svc!Reply(Vm1, "OK") /\ UNCHANGED <<active, Svc!crb>>
  BY <1>2, Vm1Assumption, ZenonT(30) DEF Service, Svc!Reply, Svc!crb
<1> QED
  BY <1>1, <1>2, Zenon DEF Svc!RegisterNotification

\* UNREGISTER_FROM_NOTIFICATION: accepted only with nothing outstanding.
LEMMA UnregisterFacts ==
    ASSUME Svc!UnregisterNotification(Vm1)
    PROVE  /\ UNCHANGED <<active, locCtrl, locSts, ctrlStart>>
           /\ \/ /\ reply'.status = "OK" /\ client = Vm1 /\ ~outstanding
                 /\ client' = None /\ ~outstanding'
              \/ reply'.status # "OK" /\ UNCHANGED <<client, outstanding>>
<1>1. CASE \E e \in {"NOTSUP", "DENIED"} : Svc!Answer(Vm1, e)
  BY <1>1 DEF Svc!Answer, Svc!Reply, Svc!crb, Svc!notification
<1>2. CASE /\ Svc!Deferrable(Vm1) /\ Svc!ClearNotificationRegistration
           /\ reply' = Svc!Reply(Vm1, "OK") /\ UNCHANGED <<active, Svc!crb>>
  BY <1>2, Zenon DEF Svc!ClearNotificationRegistration, Svc!Deferrable, Svc!Reply, Svc!crb
<1> QED
  BY <1>1, <1>2, ZenonT(30) DEF Svc!UnregisterNotification

\* START of a locality request: deferred with a notification, or carried out at
\* once.
LEMMA StartFacts ==
    ASSUME StartLocality
    PROVE  /\ reply'.status = "OK" /\ UNCHANGED <<client, ctrlStart>>
           /\ \/ /\ client = Vm1 /\ ~outstanding /\ outstanding' /\ NotificationSet
                 /\ UNCHANGED <<active, locSts>>
              \/ /\ UNCHANGED outstanding /\ NoSet
                 /\ Svc!ApplyLocalityRequest(Loc, locCtrl[Loc])
<1>1. CASE Svc!StartLocalityDeferred(Vm1, Loc) /\ NotificationSet
  BY <1>1, Zenon DEF Svc!StartLocalityDeferred, Svc!SignalNotification, Svc!Reply
<1>2. CASE Svc!StartLocalityFallback(Vm1, Loc) /\ NoSet
  BY <1>2, Zenon DEF Svc!StartLocalityFallback, Svc!Reply
<1>3. CASE Svc!StartLocalityNow(Vm1, Loc) /\ NoSet
  BY <1>3, Zenon DEF Svc!StartLocalityNow, Svc!Reply, Svc!notification
<1> QED
  BY <1>1, <1>2, <1>3 DEF StartLocality

\* The steps of a TPM test between which the notification is not set.
LEMMA WatchedTalk ==
    ASSUME Inv, Service, Watched,
           \/ FeatureSupported \/ RequestAccess \/ CreateBitmap \/ Bind \/ Register
           \/ WriteCommand \/ CheckPending \/ Unregister \/ Relinquish \/ RequestFails
           \/ CleanupRegistration \/ ClearStart \/ Report
    PROVE  Watched'
<1>1. /\ pc \in Steps /\ kind \in Kinds
      /\ pc \in Running => phase = "run" /\ status = "ok"
      /\ pc \in Steps \ ({"boot", "idle", "report", "wdRegister"} \cup WdHeld)
            => kind # "watchdog"
  BY Zenon DEF Inv, Types, ErrorsReported
<1>2. CASE FeatureSupported
  <2>1. Sources'
    BY <1>2, ZenonT(30) DEF FeatureSupported, irq, Watched, Sources
  <2>2. SriOnce'
    BY <1>1, <1>2, ZenonT(30) DEF FeatureSupported, At, Goto, Send, EarlyExit,
       Svc!GetFeatureInfo, Svc!Answer, Svc!Reply, Svc!crb, Svc!notification, spmc, irq,
       Running, Steps, WdHeld, Kinds, Service, Watched, SriOnce, SriSent, SriTaken,
       Awaiting, Seen
  <2>3. OwnTrue'
    BY <1>1, <1>2 DEF FeatureSupported, At, Goto, Send, EarlyExit, Svc!GetFeatureInfo,
       Svc!Answer, Svc!Reply, Svc!crb, Svc!notification, spmc, irq, Running, Steps, WdHeld,
       Kinds, Service, Watched, SriOnce, SriSent, SriTaken, OwnTrue, Own, Awaiting, Seen,
       Scripted
  <2>4. Scripted'
    BY <1>1, <1>2 DEF FeatureSupported, At, Goto, Send, EarlyExit, Running, Steps, WdHeld,
       Kinds, Watched, Scripted
  <2> QED
    BY <2>1, <2>2, <2>3, <2>4, ZenonT(30) DEF Watched
<1>3. CASE RequestAccess
  <2>1. Sources'
    BY <1>3, ZenonT(30) DEF RequestAccess, irq, Watched, Sources
  <2>2. SriOnce'
    BY <1>1, <1>3, ZenonT(30) DEF RequestAccess, At, Goto, Svc!WriteLocCtrl,
       Svc!notification, spmc, irq, Running, Steps, WdHeld, Kinds, Service, Watched,
       SriOnce, SriSent, SriTaken, Awaiting, Seen
  <2>3. OwnTrue'
    BY <1>1, <1>3, ZenonT(30) DEF RequestAccess, At, Goto, Svc!WriteLocCtrl,
       Svc!notification, spmc, irq, Running, Steps, WdHeld, Kinds, Service, Watched,
       SriOnce, SriSent, SriTaken, OwnTrue, Own, Awaiting, Seen, Scripted
  <2>4. Scripted'
    BY <1>1, <1>3, ZenonT(30) DEF RequestAccess, At, Goto, Running, Steps, WdHeld, Kinds,
       Watched, Scripted
  <2> QED
    BY <2>1, <2>2, <2>3, <2>4, Zenon DEF Watched
<1>4. CASE CreateBitmap
  <2>1. Sources'
    BY <1>4, ZenonT(30) DEF CreateBitmap, irq, Watched, Sources
  <2>2. SriOnce'
    BY <1>1, <1>4, ZenonT(30) DEF CreateBitmap, At, Goto, EarlyExit, svc, spmc, irq,
       Running, Steps, WdHeld, Kinds, Service, Watched, SriOnce, SriSent, SriTaken,
       Awaiting, Seen
  <2>3. OwnTrue'
    BY <1>1, <1>4 DEF CreateBitmap, At, Goto, EarlyExit, svc, spmc, irq, Running, Steps,
       WdHeld, Kinds, Service, Watched, SriOnce, SriSent, SriTaken, OwnTrue, Own, Awaiting,
       Seen, Scripted
  <2>4. Scripted'
    BY <1>1, <1>4, ZenonT(30) DEF CreateBitmap, At, Goto, EarlyExit, svc, Running, Steps,
       WdHeld, Kinds, Watched, Scripted
  <2> QED
    BY <2>1, <2>2, <2>3, <2>4, Zenon DEF Watched
<1>5. CASE Bind
  <2>1. Sources'
    BY <1>5, ZenonT(30) DEF Bind, irq, Watched, Sources
  <2>2. SriOnce'
    BY <1>1, <1>5, ZenonT(30) DEF Bind, At, Goto, EarlyExit, svc, spmc, irq, Running, Steps,
       WdHeld, Kinds, Service, Watched, SriOnce, SriSent, SriTaken, Awaiting, Seen
  <2>3. OwnTrue'
    BY <1>1, <1>5, ZenonT(30) DEF Bind, At, Goto, EarlyExit, svc, spmc, irq, Running, Steps,
       WdHeld, Kinds, Service, Watched, SriOnce, SriSent, SriTaken, OwnTrue, Own, Awaiting,
       Seen, Scripted
  <2>4. Scripted'
    BY <1>1, <1>5, ZenonT(30) DEF Bind, At, Goto, EarlyExit, svc, Running, Steps, WdHeld,
       Kinds, Watched, Scripted
  <2> QED
    BY <2>1, <2>2, <2>3, <2>4, Zenon DEF Watched
<1>6. CASE Register
  <2>1. Sources'
    BY <1>6, Zenon DEF Register, irq, Watched, Sources
  <2>2. SriOnce'
    BY <1>1, <1>6, RegisterFacts, ZenonT(30) DEF Register, At, Goto, Send, Expect, LateExit,
       spmc, irq, Running, Steps, WdHeld, Kinds, Service, Watched, SriOnce, SriSent,
       SriTaken, Awaiting, Seen
  <2>3. OwnTrue'
    BY <1>1, <1>6, RegisterFacts, ZenonT(30) DEF Register, At, Goto, Send, Expect, LateExit,
       spmc, irq, Running, Steps, WdHeld, Kinds, Service, Watched, SriOnce, SriSent,
       SriTaken, OwnTrue, Own, Awaiting, Seen, Scripted
  <2>4. Scripted'
    BY <1>1, <1>6, ZenonT(30) DEF Register, At, Goto, Send, Expect, LateExit, Running,
       Steps, WdHeld, Kinds, Watched, Scripted
  <2> QED
    BY <2>1, <2>2, <2>3, <2>4, Zenon DEF Watched
<1>7. CASE WriteCommand
  <2>1. /\ (pc = "data" /\ pc' = "ctrlStart") \/ (pc = "ctrlStart" /\ pc' = "start")
        /\ UNCHANGED <<irq, spmc, kind, phase, status, sriSeen, own, outstanding>>
    BY <1>7, Zenon DEF WriteCommand, At, Goto, Svc!WriteDataBuffer, Svc!WriteCtrlStart,
       Svc!notification
  <2>2. (Awaiting /\ Awaiting') /\ (~Seen /\ ~Seen')
    BY <2>1, ZenonT(30) DEF Awaiting, Seen
  <2>3. UNCHANGED <<frame, latched, line, handler, sriDue>>
    BY <2>1 DEF irq, spmc
  <2>4. Sources'
    BY <2>3, Zenon DEF Watched, Sources
  <2>5. SriOnce'
    BY <2>1, <2>2, <2>3, ZenonT(30) DEF Watched, SriOnce, SriSent, SriTaken
  <2>6. OwnTrue'
    BY <2>1, <2>2, <2>3, ZenonT(30) DEF Watched, OwnTrue, SriSent, SriTaken
  <2>7. Scripted'
    BY <2>1, ZenonT(30) DEF Watched, Scripted, WdHeld
  <2> QED
    BY <2>4, <2>5, <2>6, <2>7, Zenon DEF Watched
<1>8. CASE CheckPending
  <2>1. Sources'
    BY <1>8, ZenonT(30) DEF CheckPending, irq, Watched, Sources
  <2>2. SriOnce'
    BY <1>1, <1>8, ZenonT(30) DEF CheckPending, At, Goto, LateExit, svc,
       ffa_notification_get, spmc, irq, Running, Steps, WdHeld, Kinds, Service, Watched,
       SriOnce, SriSent, SriTaken, Awaiting, Seen
  <2>3. OwnTrue'
    BY <1>1, <1>8, Zenon DEF CheckPending, At, Goto, LateExit, svc, ffa_notification_get,
       spmc, irq, Running, Steps, WdHeld, Kinds, Service, Watched, SriOnce, SriSent,
       SriTaken, OwnTrue, Own, Awaiting, Seen, Scripted
  <2>4. Scripted'
    BY <1>1, <1>8, ZenonT(30) DEF CheckPending, At, Goto, LateExit, svc,
       ffa_notification_get, Running, Steps, WdHeld, Kinds, Watched, Scripted
  <2> QED
    BY <2>1, <2>2, <2>3, <2>4, Zenon DEF Watched
<1>9. CASE Unregister
  <2>1. Sources'
    BY <1>9, Zenon DEF Unregister, irq, Watched, Sources
  <2>2. SriOnce'
    BY <1>1, <1>9, UnregisterFacts, ZenonT(30) DEF Unregister, At, Goto, Send, Expect,
       LateExit, spmc, irq, Running, Steps, WdHeld, Kinds, Service, Watched, SriOnce,
       SriSent, SriTaken, Awaiting, Seen
  <2>3. OwnTrue'
    BY <1>1, <1>9, UnregisterFacts, ZenonT(30) DEF Unregister, At, Goto, Send, Expect,
       LateExit, spmc, irq, Running, Steps, WdHeld, Kinds, Service, Watched, SriOnce,
       SriSent, SriTaken, OwnTrue, Own, Awaiting, Seen, Scripted
  <2>4. Scripted'
    BY <1>1, <1>9, ZenonT(30) DEF Unregister, At, Goto, Send, Expect, LateExit, Running,
       Steps, WdHeld, Kinds, Watched, Scripted
  <2> QED
    BY <2>1, <2>2, <2>3, <2>4, Zenon DEF Watched
<1>10. CASE Relinquish
  <2>1. Sources'
    BY <1>10, Zenon DEF Relinquish, irq, Watched, Sources
  <2>2. SriOnce'
    BY <1>1, <1>10, ZenonT(30) DEF Relinquish, At, Goto, Svc!WriteLocCtrl, Svc!notification,
       spmc, irq, Running, Steps, WdHeld, Kinds, Service, Watched, SriOnce, SriSent,
       SriTaken, Awaiting, Seen
  <2>3. OwnTrue'
    BY <1>1, <1>10, ZenonT(30) DEF Relinquish, At, Goto, Svc!WriteLocCtrl, Svc!notification,
       spmc, irq, Running, Steps, WdHeld, Kinds, Service, Watched, SriOnce, SriSent,
       SriTaken, OwnTrue, Own, Awaiting, Seen, Scripted
  <2>4. Scripted'
    BY <1>1, <1>10, ZenonT(30) DEF Relinquish, At, Goto, Running, Steps, WdHeld, Kinds,
       Watched, Scripted
  <2> QED
    BY <2>1, <2>2, <2>3, <2>4, Zenon DEF Watched
<1>11. CASE RequestFails
  <2>1. Sources'
    BY <1>11, ZenonT(30) DEF RequestFails, irq, Watched, Sources
  <2>2. SriOnce'
    BY <1>1, <1>11, ZenonT(30) DEF RequestFails, At, Goto, EarlyExit, LateExit, svc, spmc,
       irq, Running, Steps, WdHeld, Kinds, Service, Watched, SriOnce, SriSent, SriTaken,
       Awaiting, Seen
  <2>3. OwnTrue'
    BY <1>1, <1>11, SMT, ZenonT(30) DEF RequestFails, At, Goto, EarlyExit, LateExit, svc,
       spmc, irq, Running, Steps, WdHeld, Kinds, Service, Watched, SriOnce, SriSent,
       SriTaken, OwnTrue, Own, Awaiting, Seen, Scripted
  <2>4. Scripted'
    BY <1>1, <1>11, ZenonT(30) DEF RequestFails, At, Goto, EarlyExit, LateExit, svc,
       Running, Steps, WdHeld, Kinds, Watched, Scripted
  <2> QED
    BY <2>1, <2>2, <2>3, <2>4, Zenon DEF Watched
<1>12. CASE CleanupRegistration
  <2>1. Sources'
    BY <1>12, ZenonT(30) DEF CleanupRegistration, irq, Watched, Sources
  <2>2. SriOnce'
    BY <1>1, <1>12, UnregisterFacts, ZenonT(30) DEF CleanupRegistration, At, Goto, svc,
       spmc, irq, Running, Steps, WdHeld, Kinds, Service, Watched, SriOnce, SriSent,
       SriTaken, Awaiting, Seen
  <2>3. OwnTrue'
    BY <1>1, <1>12, UnregisterFacts, ZenonT(30) DEF CleanupRegistration, At, Goto, svc,
       spmc, irq, Running, Steps, WdHeld, Kinds, Service, Watched, SriOnce, SriSent,
       SriTaken, OwnTrue, Own, Awaiting, Seen, Scripted
  <2>4. Scripted'
    BY <1>1, <1>12, ZenonT(30) DEF CleanupRegistration, At, Goto, svc, Running, Steps,
       WdHeld, Kinds, Watched, Scripted
  <2> QED
    BY <2>1, <2>2, <2>3, <2>4, Zenon DEF Watched
<1>13. CASE ClearStart
  <2>1. Sources'
    BY <1>13, ZenonT(30) DEF ClearStart, irq, Watched, Sources
  <2>2. SriOnce'
    BY <1>1, <1>13, ZenonT(30) DEF ClearStart, At, Goto, Svc!WriteCtrlStart,
       Svc!notification, svc, spmc, irq, Running, Steps, WdHeld, Kinds, Service, Watched,
       SriOnce, SriSent, SriTaken, Awaiting, Seen
  <2>3. OwnTrue'
    BY <1>1, <1>13 DEF ClearStart, At, Goto, Svc!WriteCtrlStart, Svc!notification, svc, spmc,
       irq, Running, Steps, WdHeld, Kinds, Service, Watched, SriOnce, SriSent, SriTaken,
       OwnTrue, Own, Awaiting, Seen, Scripted
  <2>4. Scripted'
    BY <1>1, <1>13, ZenonT(30) DEF ClearStart, At, Goto, svc, Running, Steps, WdHeld, Kinds,
       Watched, Scripted
  <2> QED
    BY <2>1, <2>2, <2>3, <2>4, Zenon DEF Watched
<1>14. CASE Report
  <2>1. Sources'
    BY <1>14, Zenon DEF Report, irq, Watched, Sources
  <2>2. SriOnce'
    BY <1>1, <1>14, ZenonT(30) DEF Report, At, Goto, svc, script, spmc, irq, Running, Steps,
       WdHeld, Kinds, Service, Watched, SriOnce, SriSent, SriTaken, Awaiting, Seen
  <2>3. OwnTrue'
    BY <1>1, <1>14, ZenonT(30) DEF Report, At, Goto, svc, script, spmc, irq, Running, Steps,
       WdHeld, Kinds, Service, Watched, SriOnce, SriSent, SriTaken, OwnTrue, Own, Awaiting,
       Seen, Scripted
  <2>4. Scripted'
    BY <1>1, <1>14, ZenonT(30) DEF Report, At, Goto, svc, script, Running, Steps, WdHeld,
       Kinds, Watched, Scripted
  <2> QED
    BY <2>1, <2>2, <2>3, <2>4, Zenon DEF Watched
<1> QED
  BY <1>2, <1>3, <1>4, <1>5, <1>6, <1>7, <1>8, <1>9, <1>10, <1>11, <1>12, <1>13, <1>14,
     ZenonT(30)

\* START of a command: deferred with a notification, or carried out at once.
LEMMA CommandFacts ==
    ASSUME StartCommand
    PROVE  /\ UNCHANGED <<client, active, locSts>>
           /\ \/ client = Vm1 /\ ~outstanding /\ outstanding' /\ NotificationSet
              \/ UNCHANGED outstanding /\ NoSet
<1>1. CASE Svc!StartCommandDeferred(Vm1, Loc) /\ NotificationSet
  BY <1>1, Zenon DEF Svc!StartCommandDeferred, Svc!SignalNotification, Svc!crb
<1>2. CASE Svc!StartCommandFallback(Vm1, Loc) /\ NoSet
  BY <1>2, Zenon DEF Svc!StartCommandFallback
<1>3. CASE Svc!StartCommandNow(Vm1, Loc) /\ NoSet
  BY <1>3, Zenon DEF Svc!StartCommandNow, Svc!notification
<1>4. CASE Svc!StartCommandIdle(Vm1, Loc) /\ NoSet
  BY <1>4, Zenon DEF Svc!StartCommandIdle, Svc!Answer, Svc!crb, Svc!notification
<1> QED
  BY <1>1, <1>2, <1>3, <1>4 DEF StartCommand

\* The steps in which the service may set or finish the notification.
LEMMA WatchedNotify ==
    ASSUME Inv, Service, Watched, Grant \/ StartCommand \/ FinishNotified \/ Release
    PROVE  Watched'
<1>1. /\ pc \in Running => phase = "run" /\ status = "ok"
      /\ kind \in Kinds
      /\ pc \in {"grant", "start", "finish", "release"} => kind # "watchdog"
      /\ pc \in {"start", "finish"} => kind # "unregistered"
  BY DEF Inv, Types, ErrorsReported, Steps, WdHeld
<1>2. CASE Grant
  <2>1. /\ pc = "grant" /\ phase = "run" /\ status = "ok" /\ kind # "watchdog"
        /\ UNCHANGED <<irq, kind, sriSeen>>
    BY <1>1, <1>2, ZenonT(30) DEF Grant, Send, At, Running
  <2>2. \/ pc' \in {"cleanup", "relinquish"} /\ status' = "error"
        \/ pc' = "setup" /\ phase' = "run" /\ status' = "ok"
        \/ pc' = "complete" /\ kind = "locality" /\ phase' = "run" /\ status' = "ok"
        \/ pc' = "pending" /\ kind = "unregistered" /\ phase' = "run" /\ status' = "ok"
    <3>1. CASE kind = "command"
      BY <1>2, <2>1, <3>1, ZenonT(30) DEF Grant, Goto, EarlyExit
    <3>2. CASE kind = "locality"
      BY <1>2, <2>1, <3>2, ZenonT(30) DEF Grant, Goto, Expect, LateExit
    <3>3. CASE kind = "unregistered"
      BY <1>2, <2>1, <3>3 DEF Grant, Goto, LateExit
    <3> QED
      BY <1>1, <2>1, <3>1, <3>2, <3>3, ZenonT(30) DEF Kinds
  <2>3. \/ /\ ~outstanding /\ outstanding' /\ sriDue' /\ own' = own \cup {"set"}
        \/ UNCHANGED <<outstanding, sriDue, own>>
    BY <1>2, <2>1, StartFacts, Zenon DEF Grant, NotificationSet, NoSet, spmc
  <2>4. SriOnce'
    <3>1. CASE UNCHANGED <<outstanding, sriDue, own>>
      BY <2>1, <2>2, <3>1, ZenonT(30) DEF irq, Watched, SriOnce, SriSent, SriTaken,
         Awaiting, Seen
    <3>2. CASE ~outstanding /\ outstanding' /\ sriDue'
      BY <2>1, <2>2, <3>2, ZenonT(30) DEF irq, Watched, SriOnce, SriSent, SriTaken,
         Awaiting, Seen
    <3> QED
      BY <2>3, <3>1, <3>2, ZenonT(30)
  <2>5. OwnTrue'
    <3>1. CASE UNCHANGED <<outstanding, sriDue, own>>
      BY <2>1, <2>2, <3>1, ZenonT(30) DEF irq, Watched, SriOnce, SriSent, SriTaken, OwnTrue,
         Own, Awaiting, Seen
    <3>2. CASE ~outstanding /\ outstanding' /\ sriDue' /\ own' = own \cup {"set"}
      BY <2>1, <2>2, <3>2, ZenonT(30) DEF irq, Watched, SriOnce, SriSent, SriTaken, OwnTrue,
         Own, Awaiting, Seen
    <3> QED
      BY <2>3, <3>1, <3>2, ZenonT(30)
  <2> QED
    BY <2>1, <2>2, <2>4, <2>5, Zenon DEF irq, Watched, Sources, Scripted, WdHeld
<1>3. CASE StartCommand
  <2>1. /\ pc = "start" /\ phase = "run" /\ status = "ok"
        /\ UNCHANGED <<irq, kind, sriSeen>>
        /\ \/ pc' = "complete" /\ phase' = "run" /\ status' = "ok"
           \/ pc' = "cleanup" /\ phase' = "run" /\ status' = "error"
    BY <1>1, <1>3 DEF StartCommand, Send, At, Goto, LateExit, Running
  <2>2. \/ /\ ~outstanding /\ outstanding' /\ sriDue' /\ own' = own \cup {"set"}
        \/ UNCHANGED <<outstanding, sriDue, own>>
    BY <1>3, <2>1, CommandFacts, Zenon DEF NotificationSet, NoSet, spmc
  <2>3. SriOnce'
    <3>1. CASE UNCHANGED <<outstanding, sriDue, own>>
      BY <2>1, <3>1, ZenonT(30) DEF irq, Watched, SriOnce, SriSent, SriTaken, Awaiting, Seen
    <3>2. CASE ~outstanding /\ outstanding' /\ sriDue'
      BY <2>1, <3>2, ZenonT(30) DEF irq, Watched, SriOnce, SriSent, SriTaken, Awaiting, Seen
    <3> QED
      BY <2>2, <3>1, <3>2, Zenon
  <2>4. OwnTrue'
    <3>1. CASE UNCHANGED <<outstanding, sriDue, own>>
      BY <2>1, <3>1, ZenonT(30) DEF irq, Watched, SriOnce, SriSent, SriTaken, OwnTrue, Own,
         Awaiting, Seen
    <3>2. CASE ~outstanding /\ outstanding' /\ sriDue' /\ own' = own \cup {"set"}
      BY <2>1, <3>2, ZenonT(30) DEF irq, Watched, SriOnce, SriSent, SriTaken, OwnTrue, Own,
         Awaiting, Seen
    <3> QED
      BY <2>2, <3>1, <3>2, Zenon
  <2> QED
    BY <2>1, <2>3, <2>4, ZenonT(30) DEF irq, Watched, Sources, Scripted, WdHeld
<1>4. CASE FinishNotified
  <2>1. /\ pc = "finish" /\ phase = "run" /\ status = "ok" /\ kind \in {"command", "locality"}
        /\ UNCHANGED <<irq, kind, sriSeen, sriDue>>
    BY <1>1, <1>4, ZenonT(30) DEF FinishNotified, Send, At, Running, Kinds, spmc
  <2>2. \/ /\ pc' = "unregister" /\ phase' = "run" /\ status' = "ok"
           /\ own' = own \cup {"finish"}
        \/ /\ pc' = "cleanup" /\ phase' = "run" /\ status' = "error"
           /\ own' \in {own, own \cup {"finish"}}
    BY <1>4, <2>1, ZenonT(30) DEF FinishNotified, Goto, LateExit
  <2>3. SriOnce'
    BY <2>1, <2>2 DEF irq, Watched, SriOnce, SriSent, SriTaken, Awaiting, Seen
  <2>4. OwnTrue'
    BY <2>1, <2>2, Zenon DEF Watched, OwnTrue, Own, Awaiting, Seen
  <2> QED
    BY <2>1, <2>2, <2>3, <2>4, ZenonT(30) DEF irq, Watched, Sources, Scripted, WdHeld
<1>5. CASE Release
  <2>1. /\ pc = "release" /\ pc' \in {"report", "cleanup"}
        /\ status' \in {status, "error"}
        /\ UNCHANGED <<irq, kind, phase, sriSeen>>
    BY <1>5 DEF Release, Send, At
  <2>2. \/ ~outstanding /\ outstanding' /\ sriDue' /\ own' \in {own, own \cup {"set"}}
        \/ UNCHANGED <<outstanding, sriDue, own>>
    BY <1>5, <2>1, StartFacts, Zenon DEF Release, NotificationSet, NoSet, spmc
  <2>3. SriOnce'
    <3>1. CASE UNCHANGED <<outstanding, sriDue, own>>
      BY <2>1, <3>1, ZenonT(30) DEF irq, Watched, SriOnce, SriSent, SriTaken, Awaiting, Seen
    <3>2. CASE ~outstanding /\ outstanding' /\ sriDue'
      BY <2>1, <3>2 DEF irq, Watched, SriOnce, SriSent, SriTaken, Awaiting, Seen
    <3> QED
      BY <2>2, <3>1, <3>2, ZenonT(30)
  <2>4. OwnTrue'
    BY <2>1, <2>2, Zenon DEF Watched, OwnTrue, Own, Awaiting, Seen
  <2> QED
    BY <2>1, <2>3, <2>4, ZenonT(30) DEF irq, Watched, Sources, Scripted, WdHeld
<1> QED
  BY <1>2, <1>3, <1>4, <1>5, ZenonT(30)

\* The steps that register, enable, disable and unregister the SRI, and those
\* between two tests.
LEMMA WatchedInterrupt ==
    ASSUME Inv, Watched,
           \/ \E sysregs, sre, found \in BOOLEAN : Boot(sysregs, sre, found)
           \/ \E k \in Kinds : Begin(k)
           \/ SetupInterrupt \/ PrepareInterrupt \/ CompleteInterrupt
           \/ CleanupInterrupt \/ CleanupNotification
    PROVE  Watched'
<1>1. CASE \E sysregs, sre, found \in BOOLEAN : Boot(sysregs, sre, found)
  <2>1. /\ pc = "boot" /\ pc' = "idle"
        /\ UNCHANGED <<outstanding, sriDue, latched, line, frame, phase, kind, status, own>>
        /\ handler' = [i \in {Sri, NsWd} \cup {Spurious} |-> Null]
    BY <1>1 DEF Boot, At, Goto, Irq!pal_irq_setup, Irq!arm_gic_init, Irq!NoHandlers, svc, spmc
  <2>2. Sources' /\ Scripted'
    BY <2>1, ZenonT(30) DEF Watched, Sources, Scripted, WdHeld
  <2>3. SriOnce' /\ OwnTrue'
    BY <2>1, ZenonT(30) DEF Watched, SriOnce, SriSent, SriTaken, OwnTrue, Own, Awaiting, Seen
  <2> QED
    BY <2>2, <2>3, ZenonT(30) DEF Watched
<1>2. CASE \E k \in Kinds : Begin(k)
  <2>1. /\ pc = "idle" /\ pc' \in {"feature", "wdRegister"}
        /\ pc' = "wdRegister" => kind' = "watchdog"
        /\ phase' = "run" /\ own' = {} /\ UNCHANGED <<irq, sriDue>>
    BY <1>2 DEF Begin, At, spmc
  <2>2. UNCHANGED outstanding
    BY <1>2, Zenon DEF Begin, svc, Svc!WriteLocCtrl, Svc!notification
  <2>3. Sources' /\ Scripted'
    BY <2>1, Zenon DEF irq, Watched, Sources, Scripted, WdHeld
  <2>4. SriOnce' /\ OwnTrue'
    BY <2>1, <2>2, ZenonT(30) DEF irq, Watched, SriOnce, SriSent, SriTaken, OwnTrue, Own,
       Awaiting, Seen
  <2> QED
    BY <2>3, <2>4, Zenon DEF Watched
<1>3. CASE SetupInterrupt
  <2>1. /\ pc = "setup" /\ UNCHANGED <<outstanding, sriDue, kind, own>>
        /\ \/ /\ pc' \in {"relinquish", "cleanup"} /\ phase' = "early" /\ status' = "skip"
              /\ UNCHANGED irq
           \/ /\ pc' = "create" /\ UNCHANGED <<phase, status, latched, line, frame>>
              /\ handler' \in {handler, [handler EXCEPT ![Sri] = "sri"]}
    BY <1>3, ZenonT(30) DEF SetupInterrupt, At, Goto, EarlyExit, Irq!pal_irq_register_handler,
       Irq!pal_irq_update_handler, Irq!gic, svc, spmc
  <2>2. Sources' /\ Scripted'
    BY <2>1, Vm1Assumption, ZenonT(30) DEF irq, Inv, Types, IntIds, Watched, Sources,
       Scripted, WdHeld
  <2>3. SriOnce' /\ OwnTrue'
    BY <2>1, Zenon DEF irq, Watched, SriOnce, SriSent, SriTaken, OwnTrue, Own, Awaiting, Seen
  <2> QED
    BY <2>2, <2>3, Zenon DEF Watched
<1>4. CASE PrepareInterrupt
  <2>1. /\ pc = "prepare" /\ pc' \in {"data", "request"} /\ ~sriSeen'
        /\ UNCHANGED <<outstanding, sriDue, kind, phase, status, own, latched, line, frame,
                       handler>>
    BY <1>4, EnableFacts DEF PrepareInterrupt, At, Goto, svc, spmc
  <2>2. Sources' /\ Scripted'
    BY <2>1, ZenonT(30) DEF Watched, Sources, Scripted, WdHeld
  <2>3. SriOnce' /\ OwnTrue'
    BY <2>1, ZenonT(30) DEF Watched, SriOnce, SriSent, SriTaken, OwnTrue, Own, Awaiting, Seen
  <2> QED
    BY <2>2, <2>3, Zenon DEF Watched
<1>5. CASE CompleteInterrupt
  <2>1. /\ pc = "complete"
        /\ UNCHANGED <<outstanding, sriDue, kind, phase, sriSeen, own, latched, line, frame,
                       handler>>
        /\ \/ pc' = "pending" /\ sriSeen /\ UNCHANGED status
           \/ pc' = "cleanup" /\ status' = "error"
    BY <1>5, DisableFacts, ZenonT(30) DEF CompleteInterrupt, At, Goto, LateExit, svc, spmc, Inv,
       EnabledHandled
  <2>2. Sources' /\ Scripted'
    BY <2>1, ZenonT(30) DEF Watched, Sources, Scripted, WdHeld
  <2>3. SriOnce' /\ OwnTrue'
    BY <2>1, ZenonT(30) DEF Watched, SriOnce, SriSent, SriTaken, OwnTrue, Own, Awaiting, Seen
  <2> QED
    BY <2>2, <2>3, Zenon DEF Watched
<1>6. CASE CleanupInterrupt
  <2>1. /\ pc = "cleanup" /\ pc' = "deregister"
        /\ UNCHANGED <<outstanding, sriDue, kind, phase, status, own, latched, line, frame,
                       handler>>
    BY <1>6, DisableFacts, ZenonT(30) DEF CleanupInterrupt, At, Goto, svc, spmc, irq, Inv,
       EnabledHandled
  <2>2. Sources' /\ Scripted'
    BY <2>1, ZenonT(30) DEF Watched, Sources, Scripted, WdHeld
  <2>3. SriOnce' /\ OwnTrue'
    BY <2>1, ZenonT(30) DEF Watched, SriOnce, SriSent, SriTaken, OwnTrue, Own, Awaiting, Seen
  <2> QED
    BY <2>2, <2>3, Zenon DEF Watched
<1>7. CASE CleanupNotification
  <2>1. /\ pc = "destroy" /\ pc' \in {"report", "clearStart", "relinquish"}
        /\ UNCHANGED <<outstanding, sriDue, kind, status, own>>
        /\ phase' = "early" => phase = "early"
    BY <1>7, ZenonT(30) DEF CleanupNotification, AfterCleanup, At, svc
  <2>2. /\ UNCHANGED <<latched, line, frame>>
        /\ handler' \in {handler, [handler EXCEPT ![Sri] = Null]}
    BY <1>7, SMT, Zenon DEF CleanupNotification, Irq!pal_irq_unregister_handler,
       Irq!pal_irq_update_handler, Irq!gic, irq
  <2>3. Sources' /\ Scripted'
    BY <2>1, <2>2, Vm1Assumption, ZenonT(30) DEF Inv, Types, IntIds, Watched, Sources,
       Scripted, WdHeld
  <2>4. SriOnce' /\ OwnTrue'
    BY <2>1, <2>2, ZenonT(30) DEF Watched, SriOnce, SriSent, SriTaken, OwnTrue, Own,
       Awaiting, Seen
  <2> QED
    BY <2>3, <2>4, Zenon DEF Watched
<1> QED
  BY <1>1, <1>2, <1>3, <1>4, <1>5, <1>6, <1>7, ZenonT(30)

\* The steps of vm_to_sp_preempt.
LEMMA WatchedWatchdog == ASSUME Inv, Watched, WatchdogTest PROVE Watched'
<1>1. /\ pc \in {"wdRegister"} \cup WdHeld /\ pc' \in {"report"} \cup WdHeld
      /\ UNCHANGED <<outstanding, sriDue, kind, phase, own>>
      /\ status' = "error" \/ UNCHANGED status \/ phase = "run"
      /\ UNCHANGED <<latched, frame>> /\ line' \subseteq line
      /\ \/ UNCHANGED handler
         \/ \E h \in {"watchdog", Null} : handler' = [handler EXCEPT ![NsWd] = h]
  <2>1. CASE WdRegister \/ WdFree
    BY <2>1, ZenonT(30) DEF WdRegister, WdFree, At, Goto, WdHeld, svc, spmc,
       Irq!pal_irq_register_handler, Irq!pal_irq_unregister_handler,
       Irq!pal_irq_update_handler, Irq!gic
  <2>2. CASE WdEnable \/ WdDisable
    BY <2>2, EnableFacts, DisableFacts, Zenon DEF WdEnable, WdDisable, At, Goto, WdHeld,
       svc, spmc
  <2>3. CASE WdStart
    BY <2>3, ZenonT(30) DEF WdStart, Irq!DriveLine, At, Goto, WdHeld, svc, spmc
  <2>4. CASE WdRequest \/ WdRun
    BY <2>4, Zenon DEF WdRequest, WdRun, At, Goto, WdHeld, svc, spmc, irq, Inv,
       ErrorsReported, Running
  <2> QED
    BY <2>1, <2>2, <2>3, <2>4, ZenonT(30) DEF WatchdogTest
<1>2. Sources' /\ Scripted'
  <2>1. Sources'
    BY <1>1, Vm1Assumption, ZenonT(30) DEF Inv, Types, IntIds, Watched, Sources
  <2> QED
    BY <1>1, <2>1, ZenonT(30) DEF Watched, Scripted, WdHeld
<1>3. SriOnce' /\ OwnTrue'
  BY <1>1, Zenon DEF Watched, Scripted, SriOnce, SriSent, SriTaken, OwnTrue, Own, Awaiting,
     Seen, WdHeld
<1> QED
  BY <1>2, <1>3, ZenonT(30) DEF Watched

\* Outside the main flow the scripts and the service do not move.
LEMMA WatchedAside ==
    ASSUME Inv, Watched, UNCHANGED <<pc, kind, phase, status, handler, outstanding>>,
           line' \subseteq line \cup {NsWd}, SriOnce', OwnTrue'
    PROVE  Watched'
BY Zenon DEF Watched, Sources, Scripted

\* The exception: the SRI is handled once, by the handler that records it.
LEMMA WatchedException == ASSUME Inv, Watched, Exceptions PROVE Watched'
<1>1. Types /\ HandlersHeld /\ Sources /\ SriOnce /\ OwnTrue
  BY Zenon DEF Inv, Watched
<1>2. /\ UNCHANGED <<pc, kind, phase, status, handler, outstanding, sriDue>>
      /\ line' \subseteq line
  <2>1. UNCHANGED <<pc, kind, phase, status, outstanding, sriDue>>
    BY Zenon DEF Exceptions, TakeException, SriHandler, WdHandler, svc, spmc, script
  <2>2. UNCHANGED handler /\ line' \subseteq line
    BY Zenon DEF Exceptions, TakeException, SriHandler, WdHandler, Irq!TakeIrq, Irq!Withdraw,
       Irq!Acknowledge, Irq!Unhandled, Irq!EndOfInterrupt, Irq!CallHandler, Irq!gic
  <2> QED
    BY <2>1, <2>2
<1>3. CASE TakeException /\ (Irq!TakeIrq \/ Irq!Withdraw)
  <2>1. UNCHANGED <<own, sriSeen, latched>> /\ (SriTaken' <=> SriTaken)
    <3>1. UNCHANGED <<own, sriSeen>>
      BY <1>3, ZenonT(30) DEF TakeException, script
    <3>2. CASE Irq!TakeIrq
      BY <3>1, <3>2 DEF Irq!TakeIrq, Irq!InMain, SriTaken
    <3>3. CASE Irq!Withdraw
      BY <3>1, <3>3, ZenonT(30) DEF Irq!Withdraw, Irq!InMain, SriTaken
    <3> QED
      BY <1>3, <3>2, <3>3, ZenonT(30)
  <2>2. SriOnce' /\ OwnTrue'
    BY <1>1, <1>2, <2>1, ZenonT(30) DEF SriOnce, SriSent, OwnTrue, Awaiting, Seen
  <2> QED
    BY <1>2, <2>2, WatchedAside, ZenonT(30)
<1>4. CASE TakeException /\ Irq!Acknowledge
  <2>1. UNCHANGED <<own, sriSeen>> /\ frame.at = "taken"
    BY <1>4 DEF TakeException, Irq!Acknowledge, script
  <2>2. CASE UNCHANGED latched /\ frame' = [at |-> "acknowledged", irq |-> Spurious]
    <3>1. SriOnce' /\ OwnTrue'
      BY <1>1, <1>2, <2>1, <2>2, Vm1Assumption, ZenonT(30) DEF SriOnce, SriSent, SriTaken,
         OwnTrue, Awaiting, Seen
    <3> QED
      BY <1>2, <3>1, WatchedAside, ZenonT(30)
  <2>3. CASE \E i \in latched \cup line : /\ frame' = [at |-> "acknowledged", irq |-> i]
                                          /\ latched' = latched \ {i}
    <3>1. PICK i \in latched \cup line : /\ frame' = [at |-> "acknowledged", irq |-> i]
                                        /\ latched' = latched \ {i}
      BY <2>3, SMT, Zenon
    <3>2. SriSent' <=> SriSent
      BY <1>1, <1>2, <2>1, <3>1, Vm1Assumption, Zenon DEF Sources, SriSent, SriTaken
    <3>3. SriOnce' /\ OwnTrue'
      <4>1. SriOnce'
        BY <1>1, <1>2, <2>1, <3>1, <3>2, Vm1Assumption, Zenon DEF Sources, SriOnce, SriSent,
           SriTaken, Awaiting, Seen
      <4>2. OwnTrue'
        BY <1>1, <1>2, <2>1, <3>2, ZenonT(30) DEF OwnTrue, Awaiting, Seen
      <4> QED
        BY <4>1, <4>2, ZenonT(30)
    <3> QED
      BY <1>2, <3>3, WatchedAside
  <2> QED
    BY <1>4, <2>2, <2>3, ZenonT(30) DEF Irq!Acknowledge, Irq!arm_gic_intr_ack, Irq!Signalled
<1>5. CASE TakeException /\ (Irq!Unhandled \/ Irq!EndOfInterrupt)
  <2>1. UNCHANGED <<own, sriSeen, latched>> /\ ~SriTaken'
    <3>1. UNCHANGED <<own, sriSeen>>
      BY <1>5, ZenonT(30) DEF TakeException, script
    <3>2. CASE Irq!Unhandled
      BY <3>1, <3>2, ZenonT(30) DEF Irq!Unhandled, Irq!NoFrame, Irq!gic, SriTaken
    <3>3. CASE Irq!EndOfInterrupt
      BY <3>1, <3>3, SMT, Zenon DEF Irq!EndOfInterrupt, Irq!NoFrame, Irq!gic, SriTaken
    <3> QED
      BY <1>5, <3>2, <3>3
  <2>2. SriOnce' /\ OwnTrue'
    BY <1>1, <1>2, <2>1, Zenon DEF SriOnce, SriSent, OwnTrue, Awaiting, Seen
  <2> QED
    BY <1>2, <2>2, WatchedAside, Zenon
<1>6. CASE SriHandler
  <2>1. /\ frame.at = "acknowledged" /\ handler[frame.irq] = "sri"
        /\ frame' = [frame EXCEPT !.at = "handled"] /\ UNCHANGED latched
        /\ sriSeen' = TRUE
        /\ own' = IF "raised" \in own THEN own \cup {"sri"} ELSE own
    BY <1>6 DEF SriHandler, Irq!CallHandler
  <2>2. SriTaken /\ ~SriTaken'
    BY <1>1, <2>1, Vm1Assumption DEF Types, IntIds, HandlersHeld, Sources, SriTaken
  <2>3. SriSent /\ ~SriSent'
    BY <1>1, <1>2, <2>1, <2>2 DEF SriOnce, SriSent
  <2>4. SriOnce'
    BY <1>1, <1>2, <2>1, <2>2, <2>3, ZenonT(30) DEF SriOnce, SriSent, Awaiting, Seen
  <2>5. OwnTrue'
    BY <1>1, <1>2, <2>1, <2>2, <2>3, ZenonT(30) DEF SriOnce, SriSent, OwnTrue, Own,
       Awaiting, Seen
  <2> QED
    BY <1>2, <2>4, <2>5, WatchedAside, Zenon
<1>7. CASE WdHandler
  <2>1. UNCHANGED <<own, sriSeen, latched>> /\ frame' = [frame EXCEPT !.at = "handled"]
    BY <1>7 DEF WdHandler, Irq!CallHandler, script
  <2>2. ~SriTaken'
    BY <1>1, <2>1 DEF Types, SriTaken
  <2>3. SriOnce' /\ OwnTrue'
    BY <1>1, <1>2, <2>1, <2>2, ZenonT(30) DEF SriOnce, SriSent, OwnTrue, Awaiting, Seen
  <2> QED
    BY <1>2, <2>3, WatchedAside, Zenon
<1> QED
  BY <1>3, <1>4, <1>5, <1>6, <1>7, ZenonT(30) DEF Exceptions, TakeException

\* Every step keeps what is known of the SRI and of the test's own notification.
LEMMA StepWatched == ASSUME Inv, Service, Watched, [Next]_vars PROVE Watched'
<1>1. CASE RaiseSri
  <2>1. /\ UNCHANGED <<pc, kind, phase, status, handler, outstanding, frame, line, sriSeen>>
        /\ sriDue /\ ~sriDue' /\ latched' = latched \cup {Sri}
        /\ own' = IF "set" \in own THEN own \cup {"raised"} ELSE own
    BY <1>1, Zenon DEF RaiseSri, Irq!Pulse, svc
  <2>2. SriOnce'
    BY <2>1, Zenon DEF Watched, SriOnce, SriSent, SriTaken, Awaiting, Seen
  <2>3. OwnTrue'
    BY <2>1, Zenon DEF Watched, SriOnce, SriSent, SriTaken, OwnTrue, Own, Awaiting, Seen
  <2> QED
    BY <2>1, <2>2, <2>3, WatchedAside
<1>2. CASE WdExpires \/ TpmFails \/ UNCHANGED vars
  <2>1. /\ UNCHANGED <<pc, kind, phase, status, handler, outstanding, frame, sriSeen, sriDue,
                       latched, own>>
        /\ line' \subseteq line \cup {NsWd}
    BY <1>2, ZenonT(30) DEF WdExpires, TpmFails, vars, Irq!DriveLine, svc, irq, spmc, script
  <2>2. SriOnce' /\ OwnTrue'
    BY <2>1, ZenonT(30) DEF Watched, SriOnce, SriSent, SriTaken, OwnTrue, Own, Awaiting, Seen
  <2> QED
    BY <2>1, <2>2, WatchedAside, ZenonT(30)
<1> QED
  BY <1>1, <1>2, WatchedTalk, WatchedNotify, WatchedInterrupt, WatchedWatchdog,
     WatchedException, ZenonT(30) DEF Next, TpmTest

\* Nothing is pending and nothing is reported before the first test.
LEMMA InitWatched == Init => Watched /\ NoFalsePass
<1> SUFFICES ASSUME Init PROVE Watched /\ NoFalsePass
  BY Zenon
<1>1. /\ pc = "boot" /\ phase = "run" /\ ~sriSeen /\ own = {} /\ ~sriDue
      /\ last = [kind |-> "command", status |-> "none", own |-> {}]
  BY Zenon DEF Init
<1>2. /\ line = {} /\ latched = {} /\ frame = Irq!NoFrame
      /\ handler \in [{Sri, NsWd} \cup {Spurious} -> {Null}]
  BY Zenon DEF Init, Irq!IrqInit, Irq!GicInit, Irq!NoHandlers
<1>3. ~Awaiting /\ ~Seen
  BY <1>1 DEF Awaiting, Seen
<1>4. Sources
  BY <1>2 DEF Sources
<1>5. ~SriTaken /\ ~SriSent
  BY <1>1, <1>2, ZenonT(30) DEF SriSent, SriTaken, Irq!NoFrame
<1>6. SriOnce
  BY <1>1, <1>2, <1>3, <1>5, ZenonT(30) DEF SriOnce
<1>7. OwnTrue
  BY <1>1, <1>3, ZenonT(30) DEF OwnTrue
<1>8. Scripted /\ NoFalsePass
  BY <1>1 DEF Scripted, WdHeld, NoFalsePass
<1> QED
  BY <1>4, <1>6, <1>7, <1>8, Zenon DEF Watched

\* A report of success is that of a test whose own notification went through.
LEMMA ReportTrue == ASSUME Watched, NoFalsePass, [Next]_vars PROVE NoFalsePass'
<1>1. CASE Report
  <2>1. /\ pc = "report"
        /\ last' = [kind |-> kind, own |-> own,
                    status |-> IF status = "ok" /\ phase # "early" /\ cleanupError
                               THEN "error" ELSE status]
    BY <1>1, ZenonT(30) DEF Report, At
  <2> QED
    BY <2>1, ZenonT(30) DEF Watched, OwnTrue, Own, NoFalsePass
<1>2. CASE ~Report
  <2>1. UNCHANGED last
    BY <1>2, Zenon DEF Next, vars, TpmTest, WatchdogTest, Exceptions, history, Boot, Begin,
       FeatureSupported, RequestAccess, Grant, SetupInterrupt, CreateBitmap, Bind,
       Register, PrepareInterrupt, WriteCommand, StartCommand, CompleteInterrupt,
       CheckPending, FinishNotified, Unregister, Relinquish, Release, RequestFails,
       CleanupInterrupt, CleanupRegistration, CleanupNotification, ClearStart,
       WdRegister, WdEnable, WdStart, WdRequest, WdDisable, WdRun, WdFree,
       TakeException, SriHandler, WdHandler, RaiseSri, WdExpires, TpmFails
  <2> QED
    BY <2>1, ZenonT(30) DEF NoFalsePass
<1> QED
  BY <1>1, <1>2, Zenon

\* Every step of the tests is a step of the service or leaves it alone.
LEMMA ServiceStep == [Next]_vars => [Svc!Next]_(Svc!vars)
<1> SUFFICES ASSUME [Next]_vars, ~UNCHANGED svc PROVE Svc!Next
  BY Zenon DEF svc, Svc!vars, Svc!crb, Svc!notification
<1>1. ASSUME Svc!HandleRequest(Vm1) PROVE Svc!Next
  BY <1>1, ZenonT(30) DEF Svc!Next
<1>2. CASE \E k \in Kinds : Begin(k)
  BY <1>2, ZenonT(30) DEF Begin, Svc!Next, Svc!ClientWrites, Svc!CtrlBits
<1>3. CASE RequestAccess \/ Relinquish
  BY <1>3, SMT, Zenon DEF RequestAccess, Relinquish, Svc!Next, Svc!ClientWrites, Svc!CtrlBits
<1>4. CASE WriteCommand \/ ClearStart
  BY <1>4, Zenon DEF WriteCommand, ClearStart, GetCapability, Svc!Next, Svc!ClientWrites
<1>5. CASE FeatureSupported
  BY <1>1, <1>5, Zenon DEF FeatureSupported, Svc!HandleRequest
<1>6. CASE Grant \/ Release
  BY <1>1, <1>6, Zenon DEF Grant, Release, StartLocality, Svc!HandleRequest, Svc!HandleStart
<1>7. CASE StartCommand
  BY <1>1, <1>7 DEF StartCommand, Svc!HandleRequest, Svc!HandleStart
<1>8. CASE Register
  BY <1>1, <1>8, ZenonT(30) DEF Register, Svc!HandleRequest
<1>9. CASE FinishNotified \/ Unregister \/ CleanupRegistration
  BY <1>1, <1>9 DEF FinishNotified, Unregister, CleanupRegistration, Svc!HandleRequest, svc
<1>10. /\ ~\E sysregs, sre, found \in BOOLEAN : Boot(sysregs, sre, found)
       /\ ~SetupInterrupt /\ ~CreateBitmap /\ ~Bind /\ ~PrepareInterrupt /\ ~CompleteInterrupt
       /\ ~CheckPending /\ ~RequestFails /\ ~CleanupInterrupt /\ ~CleanupNotification /\ ~Report
  BY Zenon DEF Boot, SetupInterrupt, CreateBitmap, Bind, PrepareInterrupt, CompleteInterrupt,
     CheckPending, RequestFails, CleanupInterrupt, CleanupNotification, Report
<1>11. ~WatchdogTest /\ ~Exceptions /\ ~RaiseSri /\ ~WdExpires /\ ~TpmFails
  BY Zenon DEF WatchdogTest, WdRegister, WdEnable, WdStart, WdRequest, WdDisable, WdRun,
     WdFree, Exceptions, TakeException, SriHandler, WdHandler, RaiseSri, WdExpires, TpmFails
<1> QED
  BY <1>2, <1>3, <1>4, <1>5, <1>6, <1>7, <1>8, <1>9, <1>10, <1>11, ZenonT(30) DEF Next,
     TpmTest, vars

(* The tests drive the service as TpmCrbService describes it by itself:    *)
(* VM1, its interrupts and the SPMC reach the registers of the CRB and the *)
(* notification state only as a client of pal_tpm_crb_service may, so that *)
(* every theorem about the service by itself is one about this system.     *)
THEOREM DrivesTheService == Spec => Svc!Spec
<1>1. Init => Svc!Init
  BY Zenon DEF Init
<1> QED
  BY <1>1, ServiceStep, PTL DEF Spec, Svc!Spec

=============================================================================
