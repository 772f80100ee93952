------------------------------ MODULE Vm1Tests ------------------------------
(***************************************************************************)
(* VM1 runs tests one after the other against the TPM service: the client  *)
(* library val_tpm_crb_common_abi.c, driven in the order of the tests      *)
(* notification_start_command, notification_start_locality,                *)
(* notification_after_unregister and vm_to_sp_preempt.  Composed are the   *)
(* TPM service (TpmCrbService), the TPM behind it (TpmPlatform), VM1's     *)
(* interrupts (IrqDispatch), the non-secure watchdog, and the SPMC's       *)
(* notifications, which are external: the SPMC may refuse to create or     *)
(* bind, refuses to unbind or destroy while a notification is pending, and *)
(* raises the schedule receiver interrupt (SRI) some time after it was     *)
(* set.  A test that fails half way leaves state behind for the next one.  *)
(***************************************************************************)
EXTENDS Naturals

CONSTANTS
    Vm1, Loc, None,     \* the client, TPM_TEST_LOCALITY, and no value
    Sri, NsWd,          \* the interrupt ids of the SRI and the NS watchdog
    Spurious, Null,     \* see IrqDispatch
    MaxTests            \* bound on the tests run

ASSUME Vm1Assumption ==
    /\ Sri # NsWd /\ Spurious \notin {Sri, NsWd}
    /\ Null \notin {"sri", "watchdog"}
    /\ None \notin {Vm1, Loc, 1}
    /\ None \notin [loc : {Loc}, ctrl : SUBSET {"requestAccess", "relinquish"}]
    /\ None \notin [loc : {Loc}, data : {"command", "response", "unsized"}]
    /\ MaxTests \in Nat

VARIABLES supported, active, locCtrl, locSts, ctrlStart, dataBuffer, client,
          notifId, outstanding, pendLoc, pendCmd, reply
VARIABLES gicv3, distif, cpuif, probed, routed, priority, enabled, latched, line,
          inService, late, handler, masked, frame, halted
VARIABLES initialized, nvReady, nv, started, failureMode
VARIABLES
    bitmap, bound,      \* the SPMC: VM1 has a bitmap, its bit is bound to the TPM SP
    pending,            \* the notification is pending
    sriDue,             \* the SPMC owes VM1 an SRI
    spBusy,             \* the TPM SP was preempted and never resumed
    wdog,               \* the NS watchdog counts
    pc,                 \* the step of the running test
    kind,               \* the running test
    phase,              \* "run", "early" return, or "post" cleanup
    ctx,                \* val_tpm_notification_context_t
    status,             \* the test's status
    cleanupError,       \* cleanup_status is an error
    sriSeen,            \* g_tpm_sri_seen
    own,                \* what happened to this test's own notification
    tests,              \* number of tests finished
    failed,             \* some test has reported an error
    last                \* the report of the last test

Svc == INSTANCE TpmCrbService WITH Clients <- {Vm1}, Localities <- {Loc},
                                   NotifIds <- {1}, BitmapWidth <- 64
Irq == INSTANCE IrqDispatch WITH IntIds <- {Sri, NsWd}, Spis <- {NsWd},
                                 Handlers <- {"sri", "watchdog"}, active <- inService
Tpm == INSTANCE TpmPlatform WITH NV_MEMORY_SIZE <- 2

svc == <<supported, active, locCtrl, locSts, ctrlStart, dataBuffer, client,
         notifId, outstanding, pendLoc, pendCmd, reply>>
irq == <<gicv3, distif, cpuif, probed, routed, priority, enabled, latched, line,
         inService, late, handler, masked, frame, halted>>
tpm == <<initialized, nvReady, nv, started, failureMode>>
spmc == <<bitmap, bound, pending, sriDue, spBusy>>
script == <<kind, phase, ctx, status, cleanupError, sriSeen, own>>
history == <<tests, failed, last>>
vars == <<svc, irq, tpm, spmc, wdog, pc, script, history>>

Kinds == {"command", "locality", "unregistered", "watchdog"}
NoContext == [created |-> FALSE, bound |-> FALSE, registered |-> FALSE,
              sriRegistered |-> FALSE, sriEnabled |-> FALSE]
Steps == {"boot", "idle", "feature", "request", "grant", "setup", "create", "bind",
          "register", "prepare", "data", "ctrlStart", "start", "complete", "pending",
          "finish", "unregister", "relinquish", "release", "cleanup", "deregister",
          "destroy", "clearStart", "report", "wdRegister", "wdEnable", "wdStart",
          "wdRequest", "wdDisable", "wdRun", "wdFree"}

TypeOK ==
    /\ Svc!TypeOK /\ Irq!IrqTypeOK /\ Tpm!TpmTypeOK
    /\ bitmap \in BOOLEAN /\ bound \in BOOLEAN /\ pending \in BOOLEAN
    /\ sriDue \in BOOLEAN /\ spBusy \in BOOLEAN /\ wdog \in BOOLEAN
    /\ pc \in Steps /\ kind \in Kinds /\ phase \in {"run", "early", "post"}
    /\ ctx \in [created : BOOLEAN, bound : BOOLEAN, registered : BOOLEAN,
               sriRegistered : BOOLEAN, sriEnabled : BOOLEAN]
    /\ status \in {"ok", "skip", "error"}
    /\ cleanupError \in BOOLEAN /\ sriSeen \in BOOLEAN
    /\ own \subseteq {"set", "raised", "sri", "get", "finish"}
    /\ tests \in 0 .. MaxTests /\ failed \in BOOLEAN
    /\ last \in [kind : Kinds, status : {"none", "ok", "skip", "error"},
                 own : SUBSET {"set", "raised", "sri", "get", "finish"}]

Init ==
    /\ Svc!Init /\ Irq!IrqInit /\ Tpm!TpmInit
    /\ bitmap = FALSE /\ bound = FALSE /\ pending = FALSE /\ sriDue = FALSE
    /\ spBusy = FALSE /\ wdog = FALSE
    /\ pc = "boot" /\ kind = "command" /\ phase = "run"
    /\ ctx = NoContext /\ status = "ok" /\ cleanupError = FALSE
    /\ sriSeen = FALSE /\ own = {}
    /\ tests = 0 /\ failed = FALSE
    /\ last = [kind |-> "command", status |-> "none", own |-> {}]

-----------------------------------------------------------------------------
\* VM1's main flow is at step p.
At(p) == pc = p /\ Irq!InMain /\ ~failureMode

\* It is at step p, a direct request the TPM SP can take.
Send(p) == At(p) /\ ~spBusy

\* The test goes on with step p.
Goto(p) == pc' = p /\ UNCHANGED <<phase, status>>

\* The test returns before the label cleanup; rel says whether it relinquishes first.
EarlyExit(s, rel) ==
    /\ status' = s /\ phase' = "early"
    /\ pc' = IF rel THEN "relinquish" ELSE "cleanup"

\* goto cleanup
LateExit ==
    /\ status' = "error" /\ pc' = "cleanup"
    /\ UNCHANGED phase

\* val_tpm_send_and_expect(..., CRB_OK)
Expect(next) == IF reply'.status = "OK" THEN Goto(next) ELSE LateExit

\* val_irq_setup at boot, with the GIC the system has.
Boot(sysregs, sre, found) ==
    /\ At("boot")
    /\ Irq!pal_irq_setup(sysregs, sre, found)
    /\ Goto("idle")
    /\ UNCHANGED <<svc, tpm, spmc, wdog, kind, ctx, cleanupError, sriSeen, own, history>>

\* val_tpm_notification_init; two of the tests clear LOC_CTRL first.
Begin(k) ==
    /\ At("idle") /\ tests < MaxTests
    /\ kind' = k /\ phase' = "run" /\ ctx' = NoContext
    /\ status' = "ok" /\ cleanupError' = FALSE /\ own' = {}
    /\ pc' = IF k = "watchdog" THEN "wdRegister" ELSE "feature"
    /\ IF k \in {"locality", "unregistered"} THEN Svc!WriteLocCtrl(Loc, {})
                                             ELSE UNCHANGED svc
    /\ UNCHANGED <<irq, tpm, spmc, wdog, sriSeen, history>>

\* val_tpm_notification_feature_supported
FeatureSupported ==
    /\ Send("feature")
    /\ Svc!GetFeatureInfo(Vm1, TRUE)
    /\ IF reply'.status # "OK" THEN EarlyExit("skip", FALSE)
       ELSE Goto(CASE kind = "command" -> "request"
                   [] kind = "locality" -> "setup"
                   [] kind = "unregistered" -> "create")
    /\ UNCHANGED <<irq, tpm, spmc, wdog, kind, ctx, cleanupError, sriSeen, own, history>>

-----------------------------------------------------------------------------
\* The SPMC's part of VM1's notification calls: what it takes for them to succeed.
ffa_notification_bitmap_create == ~bitmap
ffa_notification_bind == bitmap /\ ~bound
ffa_notification_unbind == bound /\ ~pending
ffa_notification_bitmap_destroy == bitmap /\ ~pending

\* FFA_NOTIFICATION_GET hands out what is pending and clears it.
ffa_notification_get == pending' = FALSE

\* FFA_NOTIFICATION_SET of the TPM SP, accepted: the SRI is due, delayed until
\* the SP has returned.
NotificationSet ==
    /\ bitmap /\ bound
    /\ pending' = TRUE /\ sriDue' = TRUE
    /\ own' = IF phase = "run" THEN own \cup {"set"} ELSE own
    /\ UNCHANGED <<bitmap, bound, spBusy>>

\* A step of the service in which it sets no notification.
NoSet == UNCHANGED <<spmc, own>>

\* START(LOCALITY_REQUEST)
StartLocality ==
    \/ Svc!StartLocalityDeferred(Vm1, Loc) /\ NotificationSet
    \/ Svc!StartLocalityFallback(Vm1, Loc) /\ ~(bitmap /\ bound) /\ NoSet
    \/ Svc!StartLocalityNow(Vm1, Loc) /\ NoSet

RequestAccess ==
    /\ At("request")
    /\ Svc!WriteLocCtrl(Loc, {"requestAccess"})
    /\ Goto("grant")
    /\ UNCHANGED <<irq, tpm, spmc, wdog, kind, ctx, cleanupError, sriSeen, own, history>>

Grant ==
    /\ Send("grant")
    /\ StartLocality
    /\ CASE kind = "command" -> IF locSts'[Loc] THEN Goto("setup") ELSE EarlyExit("error", TRUE)
         [] kind = "locality" -> Expect("complete")
         [] kind = "unregistered" -> IF locSts'[Loc] THEN Goto("pending") ELSE LateExit
    /\ UNCHANGED <<irq, tpm, wdog, kind, ctx, cleanupError, sriSeen, history>>

\* val_tpm_notification_setup_interrupt; FFA_FEATURES may not know the SRI.
SetupInterrupt ==
    /\ At("setup")
    /\ \/ /\ EarlyExit("skip", kind = "command")
          /\ UNCHANGED <<irq, ctx, sriSeen>>
       \/ /\ Irq!pal_irq_register_handler(Sri, "sri")
          /\ ctx' = [ctx EXCEPT !.sriRegistered = TRUE]
          /\ sriSeen' = FALSE
          /\ Goto("create")
    /\ UNCHANGED <<svc, tpm, spmc, wdog, kind, cleanupError, own, history>>

\* Mutation: the context does not remember the bitmap.
CreateForgets ==
    /\ At("create")
    /\ \/ /\ ffa_notification_bitmap_create
          /\ bitmap' = TRUE
          /\ Goto("bind")
       \/ /\ \E s \in {"skip", "error"} : EarlyExit(s, kind = "command")
          /\ UNCHANGED bitmap
    /\ UNCHANGED <<svc, irq, tpm, bound, pending, sriDue, spBusy, wdog, kind, ctx, cleanupError, sriSeen, own, history>>

\* val_tpm_notification_create_bitmap
CreateBitmap ==
    /\ At("create")
    /\ \/ /\ ffa_notification_bitmap_create
          /\ bitmap' = TRUE
          /\ ctx' = [ctx EXCEPT !.created = TRUE]
          /\ Goto("bind")
       \/ /\ \E s \in {"skip", "error"} : EarlyExit(s, kind = "command")
          /\ UNCHANGED <<bitmap, ctx>>
    /\ UNCHANGED <<svc, irq, tpm, bound, pending, sriDue, spBusy, wdog, kind, cleanupError, sriSeen, own, history>>

\* val_tpm_notification_bind
Bind ==
    /\ At("bind")
    /\ \/ /\ ffa_notification_bind
          /\ bound' = TRUE
          /\ ctx' = [ctx EXCEPT !.bound = TRUE]
          /\ Goto("register")
       \/ /\ \E s \in {"skip", "error"} : EarlyExit(s, kind = "command")
          /\ UNCHANGED <<bound, ctx>>
    /\ UNCHANGED <<svc, irq, tpm, bitmap, pending, sriDue, spBusy, wdog, kind, cleanupError, sriSeen, own, history>>

\* val_tpm_notification_register
Register ==
    /\ Send("register")
    /\ Svc!RegisterNotification(Vm1, 1)
    /\ ctx' = [ctx EXCEPT !.registered = (reply'.status = "OK")]
    /\ Expect(IF kind = "unregistered" THEN "unregister" ELSE "prepare")
    /\ UNCHANGED <<irq, tpm, spmc, wdog, kind, cleanupError, sriSeen, own, history>>

\* val_tpm_notification_prepare_interrupt
PrepareInterrupt ==
    /\ At("prepare")
    /\ sriSeen' = FALSE
    /\ Irq!pal_irq_enable(Sri, 10)
    /\ ctx' = [ctx EXCEPT !.sriEnabled = TRUE]
    /\ Goto(IF kind = "command" THEN "data" ELSE "request")
    /\ UNCHANGED <<svc, tpm, spmc, wdog, kind, cleanupError, own, history>>

\* val_tpm_prepare_get_capability
GetCapability == "command"

\* The command is copied to the data buffer and Start is written.
WriteCommand ==
    /\ \/ At("data") /\ Svc!WriteDataBuffer(Loc, GetCapability) /\ Goto("ctrlStart")
       \/ At("ctrlStart") /\ Svc!WriteCtrlStart(Loc, TRUE) /\ Goto("start")
    /\ UNCHANGED <<irq, tpm, spmc, wdog, kind, ctx, cleanupError, sriSeen, own, history>>

\* START(COMMAND); Start must still be set afterwards.
StartCommand ==
    /\ Send("start")
    /\ \/ /\ Svc!StartCommandDeferred(Vm1, Loc)
          /\ NotificationSet /\ UNCHANGED tpm
       \/ /\ \/ Svc!StartCommandFallback(Vm1, Loc) /\ ~(bitmap /\ bound)
             \/ Svc!StartCommandNow(Vm1, Loc)
          /\ Tpm!pal_tpm_execute_command(reply'.ran # None)
          /\ NoSet
       \/ /\ Svc!StartCommandIdle(Vm1, Loc)
          /\ NoSet /\ UNCHANGED tpm
    /\ IF reply'.status = "OK" /\ ctrlStart'[Loc] THEN Goto("complete") ELSE LateExit
    /\ UNCHANGED <<irq, wdog, kind, ctx, cleanupError, sriSeen, history>>

\* Mutation: the interrupt is not looked for.
CompleteUnseen ==
    /\ At("complete")
    /\ Irq!pal_irq_disable(Sri)
    /\ ctx' = [ctx EXCEPT !.sriEnabled = FALSE]
    /\ Goto("pending")
    /\ UNCHANGED <<svc, tpm, spmc, wdog, kind, cleanupError, sriSeen, own, history>>

\* Mutation: it waits for the interrupt.
CompleteWaits ==
    /\ At("complete") /\ sriSeen
    /\ Irq!pal_irq_disable(Sri)
    /\ ctx' = [ctx EXCEPT !.sriEnabled = FALSE]
    /\ Goto("pending")
    /\ UNCHANGED <<svc, tpm, spmc, wdog, kind, cleanupError, sriSeen, own, history>>

\* val_tpm_notification_complete_interrupt: it does not wait for the SRI.
CompleteInterrupt ==
    /\ At("complete")
    /\ Irq!pal_irq_disable(Sri)
    /\ ctx' = [ctx EXCEPT !.sriEnabled = FALSE]
    /\ IF sriSeen THEN Goto("pending") ELSE LateExit
    /\ UNCHANGED <<svc, tpm, spmc, wdog, kind, cleanupError, sriSeen, own, history>>

\* val_tpm_check_pending_notification: FFA_NOTIFICATION_GET takes the pending
\* notification; the test wants it present, or absent after unregistering.
CheckPending ==
    /\ At("pending")
    /\ IF kind = "unregistered" THEN IF pending THEN LateExit ELSE Goto("relinquish")
       ELSE IF pending /\ (kind = "locality" => ~locSts[Loc]) THEN Goto("finish") ELSE LateExit
    /\ ffa_notification_get
    /\ own' = IF pending /\ "set" \in own THEN own \cup {"get"} ELSE own
    /\ UNCHANGED <<svc, irq, tpm, bitmap, bound, sriDue, spBusy, wdog, kind, ctx, cleanupError, sriSeen, history>>

\* Whether the response in the data buffer can be read and has a good header.
ResponseValid == IF kind = "command" THEN BOOLEAN ELSE {TRUE}

\* val_tpm_finish_notified; for a command Start is then clear and the response
\* good, for a locality request the locality granted.
FinishNotified ==
    /\ Send("finish")
    /\ \/ (Svc!FinishRefused(Vm1) \/ Svc!FinishLocality(Vm1)) /\ UNCHANGED tpm
       \/ Svc!FinishCommand(Vm1) /\ Tpm!pal_tpm_execute_command(reply'.ran # None)
    /\ \E valid \in ResponseValid :
          IF /\ reply'.status = "OK" /\ valid
             /\ IF kind = "command" THEN ~ctrlStart'[Loc] ELSE locSts'[Loc]
          THEN Goto("unregister") ELSE LateExit
    /\ own' = IF reply'.status = "OK" THEN own \cup {"finish"} ELSE own
    /\ UNCHANGED <<irq, spmc, wdog, kind, ctx, cleanupError, sriSeen, history>>

\* val_tpm_notification_unregister
Unregister ==
    /\ Send("unregister")
    /\ Svc!UnregisterNotification(Vm1)
    /\ ctx' = [ctx EXCEPT !.registered = (reply'.status # "OK")]
    /\ Expect(CASE kind = "command" -> "cleanup"
                [] kind = "locality" -> "relinquish"
                [] kind = "unregistered" -> "request")
    /\ UNCHANGED <<irq, tpm, spmc, wdog, kind, cleanupError, sriSeen, own, history>>

\* val_tpm_relinquish_locality: on an early return, at the end of the test, or
\* after cleanup.
Relinquish ==
    /\ At("relinquish")
    /\ Svc!WriteLocCtrl(Loc, {"relinquish"})
    /\ Goto("release")
    /\ UNCHANGED <<irq, tpm, spmc, wdog, kind, ctx, cleanupError, sriSeen, own, history>>

Release ==
    /\ Send("release")
    /\ StartLocality
    /\ pc' = IF phase = "post" THEN "report" ELSE "cleanup"
    /\ status' = IF /\ phase # "early" /\ status = "ok" /\ locSts'[Loc]
                    /\ kind # "unregistered"
                 THEN "error" ELSE status
    /\ UNCHANGED <<irq, tpm, wdog, kind, phase, ctx, cleanupError, sriSeen, history>>

\* A non-secure interrupt preempts the TPM SP before it has looked at the request:
\* the bare-metal build does not resume it, so this and every later request fails.
RequestFails ==
    /\ pc \in {"feature", "grant", "register", "start", "finish", "unregister",
               "release", "deregister"}
    /\ pc = "deregister" => ctx.registered
    /\ At(pc)
    /\ spBusy \/ Irq!Signalled # {}
    /\ spBusy' = TRUE
    /\ CASE pc = "feature" \/ (pc = "grant" /\ kind = "command") -> EarlyExit("error", FALSE)
         [] pc = "deregister" -> Goto("destroy")
         [] pc = "release" ->
              /\ pc' = IF phase = "post" THEN "report" ELSE "cleanup"
              /\ status' = IF phase # "early" /\ status = "ok" THEN "error" ELSE status
              /\ UNCHANGED phase
         [] OTHER -> LateExit
    /\ cleanupError' = (cleanupError \/ pc = "deregister")
    /\ UNCHANGED <<svc, irq, tpm, bitmap, bound, pending, sriDue, wdog, kind, ctx, sriSeen, own, history>>

-----------------------------------------------------------------------------
(***************************************************************************)
(* val_tpm_notification_cleanup, in its three parts.                       *)
(***************************************************************************)
\* The SRI is disabled.
CleanupInterrupt ==
    /\ At("cleanup")
    /\ IF ctx.sriEnabled THEN Irq!pal_irq_disable(Sri) ELSE UNCHANGED irq
    /\ ctx' = [ctx EXCEPT !.sriEnabled = FALSE]
    /\ Goto("deregister")
    /\ UNCHANGED <<svc, tpm, spmc, wdog, kind, cleanupError, sriSeen, own, history>>

\* The service is asked to drop the registration.
CleanupRegistration ==
    /\ At("deregister")
    /\ \/ ~ctx.registered /\ UNCHANGED <<svc, ctx, cleanupError>>
       \/ /\ ctx.registered /\ ~spBusy
          /\ Svc!UnregisterNotification(Vm1)
          /\ ctx' = [ctx EXCEPT !.registered = (reply'.status # "OK")]
          /\ cleanupError' = (cleanupError \/ reply'.status # "OK")
    /\ Goto("destroy")
    /\ UNCHANGED <<irq, tpm, spmc, wdog, kind, sriSeen, own, history>>

\* Where the test goes after cleanup.
AfterCleanup ==
    /\ phase' = IF phase = "early" THEN "early" ELSE "post"
    /\ pc' = CASE phase = "early" -> "report"
               [] phase # "early" /\ kind = "command" -> "clearStart"
               [] phase # "early" /\ kind # "command" /\ locSts[Loc] -> "relinquish"
               [] OTHER -> "report"
    /\ UNCHANGED status

\* val_tpm_notification_unbind and val_tpm_notification_bitmap_destroy succeed,
\* unless the notification is pending.
Unbound == ctx.bound /\ ffa_notification_unbind
Destroyed == ctx.created /\ ffa_notification_bitmap_destroy

\* Mutation: the handler stays registered.
CleanupKeepsHandler ==
    /\ At("destroy")
    /\ bound' = (bound /\ ~Unbound /\ ~Destroyed)
    /\ bitmap' = (bitmap /\ ~Destroyed)
    /\ cleanupError' = (cleanupError \/ (ctx.bound /\ ~Unbound) \/ (ctx.created /\ ~Destroyed))
    /\ ctx' = [ctx EXCEPT !.bound = ctx.bound /\ ~Unbound, !.created = FALSE,
                          !.sriRegistered = FALSE]
    /\ AfterCleanup
    /\ UNCHANGED <<svc, irq, tpm, pending, sriDue, spBusy, wdog, kind, sriSeen, own, history>>

\* Unbind, destroy the bitmap, unregister the handler; the flags of the latter
\* two are cleared whether they succeed or not.
CleanupNotification ==
    /\ At("destroy")
    /\ bound' = (bound /\ ~Unbound /\ ~Destroyed)
    /\ bitmap' = (bitmap /\ ~Destroyed)
    /\ cleanupError' = (cleanupError \/ (ctx.bound /\ ~Unbound) \/ (ctx.created /\ ~Destroyed))
    /\ ctx' = [ctx EXCEPT !.bound = ctx.bound /\ ~Unbound, !.created = FALSE,
                          !.sriRegistered = FALSE]
    /\ IF ctx.sriRegistered THEN Irq!pal_irq_unregister_handler(Sri) ELSE UNCHANGED irq
    /\ AfterCleanup
    /\ UNCHANGED <<svc, tpm, pending, sriDue, spBusy, wdog, kind, sriSeen, own, history>>

\* The command test clears a Start bit that is still set.
ClearStart ==
    /\ At("clearStart")
    /\ IF ctrlStart[Loc] THEN Svc!WriteCtrlStart(Loc, FALSE) ELSE UNCHANGED svc
    /\ Goto("relinquish")
    /\ UNCHANGED <<irq, tpm, spmc, wdog, kind, ctx, cleanupError, sriSeen, own, history>>

\* The test returns: its status, or else an error of cleanup, which an early
\* return ignores.
Report ==
    /\ At("report")
    /\ LET s == IF status = "ok" /\ phase # "early" /\ cleanupError THEN "error" ELSE status
       IN  /\ last' = [kind |-> kind, status |-> s, own |-> own]
           /\ failed' = (failed \/ s = "error")
    /\ tests' = tests + 1
    /\ Goto("idle")
    /\ UNCHANGED <<svc, irq, tpm, spmc, wdog, script>>

-----------------------------------------------------------------------------
(***************************************************************************)
(* vm_to_sp_preempt: a direct request to a sleeping SP is expected to be   *)
(* preempted by the watchdog.                                              *)
(***************************************************************************)
WdRegister ==
    /\ At("wdRegister")
    /\ Irq!pal_irq_register_handler(NsWd, "watchdog")
    /\ Goto("wdEnable")
    /\ UNCHANGED <<svc, tpm, spmc, wdog, kind, ctx, cleanupError, sriSeen, own, history>>

WdEnable ==
    /\ At("wdEnable")
    /\ Irq!pal_irq_enable(NsWd, 0)
    /\ Goto("wdStart")
    /\ UNCHANGED <<svc, tpm, spmc, wdog, kind, ctx, cleanupError, sriSeen, own, history>>

\* val_ns_wdog_enable: the writes also refresh the watchdog.
WdStart ==
    /\ At("wdStart")
    /\ Irq!DriveLine(NsWd, FALSE)
    /\ wdog' = TRUE
    /\ Goto("wdRequest")
    /\ UNCHANGED <<svc, tpm, spmc, kind, ctx, cleanupError, sriSeen, own, history>>

\* The request comes back with FFA_INTERRUPT, or with anything else: the test fails.
WdRequest ==
    /\ At("wdRequest")
    /\ \/ Irq!Signalled # {} /\ Goto("wdDisable")
       \/ pc' = "wdFree" /\ status' = "error" /\ UNCHANGED phase
    /\ UNCHANGED <<svc, irq, tpm, spmc, wdog, kind, ctx, cleanupError, sriSeen, own, history>>

WdDisable ==
    /\ At("wdDisable")
    /\ Irq!pal_irq_disable(NsWd)
    /\ Goto("wdRun")
    /\ UNCHANGED <<svc, tpm, spmc, wdog, kind, ctx, cleanupError, sriSeen, own, history>>

\* FFA_RUN resumes the SP, which answers, or fails.
WdRun ==
    /\ At("wdRun")
    /\ pc' = "wdFree" /\ status' \in {"ok", "error"}
    /\ UNCHANGED <<svc, irq, tpm, spmc, wdog, kind, phase, ctx, cleanupError, sriSeen, own, history>>

WdFree ==
    /\ At("wdFree")
    /\ Irq!pal_irq_unregister_handler(NsWd)
    /\ Goto("report")
    /\ UNCHANGED <<svc, tpm, spmc, wdog, kind, ctx, cleanupError, sriSeen, own, history>>

-----------------------------------------------------------------------------
(***************************************************************************)
(* The exception, the devices and the secure world.                        *)
(***************************************************************************)
TakeException ==
    /\ Irq!TakeIrq \/ Irq!Withdraw \/ Irq!Acknowledge \/ Irq!Unhandled \/ Irq!EndOfInterrupt
    /\ UNCHANGED <<svc, tpm, spmc, wdog, pc, script, history>>

\* val_tpm_sri_irq_handler records the interrupt.
SriHandler ==
    /\ handler[frame.irq] = "sri"
    /\ Irq!CallHandler({})
    /\ sriSeen' = TRUE
    /\ own' = IF "raised" \in own THEN own \cup {"sri"} ELSE own
    /\ UNCHANGED <<svc, tpm, spmc, wdog, pc, kind, phase, ctx, status, cleanupError, history>>

\* wd_irq_handler stops the watchdog.
WdHandler ==
    /\ handler[frame.irq] = "watchdog"
    /\ Irq!CallHandler({NsWd})
    /\ wdog' = FALSE
    /\ UNCHANGED <<svc, tpm, spmc, pc, script, history>>

RaiseSri ==
    /\ sriDue /\ ~halted
    /\ Irq!Pulse(Sri)
    /\ sriDue' = FALSE
    /\ own' = IF "set" \in own THEN own \cup {"raised"} ELSE own
    /\ UNCHANGED <<svc, tpm, bitmap, bound, pending, spBusy, wdog, pc, kind, phase, ctx,
                   status, cleanupError, sriSeen, history>>

WdExpires ==
    /\ wdog /\ NsWd \notin line /\ ~halted
    /\ Irq!DriveLine(NsWd, TRUE)
    /\ UNCHANGED <<svc, tpm, spmc, wdog, pc, script, history>>

\* The TPM runs into _plat__Fail while the service executes a command.
TpmFails ==
    /\ \/ Send("finish") /\ outstanding /\ pendLoc = None
       \/ /\ Send("start") /\ Svc!Executable(Loc)
          /\ ~Svc!Deferrable(Vm1) \/ ~(bitmap /\ bound)
    /\ Tpm!Fail
    /\ UNCHANGED <<svc, irq, spmc, wdog, pc, script, history>>

Exceptions == TakeException \/ SriHandler \/ WdHandler

TpmTest ==
    \/ FeatureSupported \/ RequestAccess \/ Grant
    \/ SetupInterrupt \/ CreateBitmap \/ Bind \/ Register \/ PrepareInterrupt
    \/ WriteCommand \/ StartCommand \/ CompleteInterrupt \/ CheckPending
    \/ FinishNotified \/ Unregister \/ Relinquish \/ Release \/ RequestFails
    \/ CleanupInterrupt \/ CleanupRegistration \/ CleanupNotification
    \/ ClearStart \/ Report

WatchdogTest ==
    WdRegister \/ WdEnable \/ WdStart \/ WdRequest \/ WdDisable \/ WdRun \/ WdFree

Next ==
    \/ \E sysregs, sre, found \in BOOLEAN : Boot(sysregs, sre, found)
    \/ \E k \in Kinds : Begin(k)
    \/ TpmTest
    \/ WatchdogTest
    \/ Exceptions
    \/ RaiseSri
    \/ WdExpires
    \/ TpmFails

\* VM1's CPU runs: its exception, and its main flow when no exception is left.
Spec ==
    /\ Init /\ [][Next]_vars
    /\ WF_vars(Exceptions)
    /\ WF_vars(TpmTest \/ WatchdogTest)

-----------------------------------------------------------------------------
(* A test that reports success has seen its own notification through: its  *)
(* START was deferred and notified, the SRI raised for it was taken, the   *)
(* pending bit was read and FINISH_NOTIFIED answered - never a leftover of *)
(* an earlier test that failed half way                                    *)
(* (val_tpm_notification_complete_interrupt and its callers).              *)
NoFalsePass ==
    (last.status = "ok" /\ last.kind \in {"command", "locality"})
        => last.own = {"set", "raised", "sri", "get", "finish"}

(* Between tests nothing is left registered, bound, enabled, granted or    *)
(* preempted, unless some test has reported an error: the residue that     *)
(* val_tpm_notification_cleanup cannot remove never goes unnoticed.        *)
ResidueReported ==
    (pc = "idle" /\ ~failed)
        => /\ client = None /\ ~outstanding /\ ~bitmap /\ ~bound /\ ~spBusy
           /\ handler[Sri] = Null /\ Sri \notin enabled /\ ~locSts[Loc]

\* The steps that follow a call of pal_irq_enable or pal_irq_disable.
AfterGic == {"data", "request", "wdStart", "pending", "cleanup", "deregister", "wdRun"}

(* The handler table is always as registration and unregistration expect   *)
(* it, after any sequence of tests and failures: the assertion of          *)
(* pal_irq_update_handler never stops VM1.  What does is an access to the  *)
(* GIC of a CPU it does not know: a GICv2 is never asked for the interface *)
(* id, and a redistributor that is not found is only logged.               *)
HaltsOnlyUnprobed == halted => ~probed /\ pc \in AfterGic

(* Outside an exception an interrupt is left active, and with it all of    *)
(* lower priority blocked, only after a test has failed: the dispatcher,   *)
(* which skips the end of interrupt when it finds no handler, finds one as *)
(* long as the tests succeed.                                              *)
StuckOnlyAfterFailure ==
    (inService # {} /\ frame.at = "none") => (failed \/ status = "error")

(* The TPM executes commands only when its NV memory is there and marked   *)
(* manufactured, and TPM2_Startup has succeeded (pal_tpm_init, also when   *)
(* an earlier attempt failed part of the way).                             *)
InitializedTpm == Tpm!ReadyWhenInitialized

(* Every test ends: the client library waits for nothing, so a late SRI or *)
(* a refusal cannot block it.  A fatal error of the TPM and a failed       *)
(* assertion do.                                                           *)
TestsReturn == (pc \notin {"idle", "boot"}) ~> (pc = "idle" \/ halted \/ failureMode)

=============================================================================
