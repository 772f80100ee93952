-------------------------- MODULE Vm1ResidueProofs --------------------------
(***************************************************************************)
(* What the tests of VM1 leave behind, over any number of them, and the    *)
(* types of the composed system.                                           *)
(***************************************************************************)
EXTENDS Vm1TestsProofs

\* Nothing has failed so far, in this test or in an earlier one.
Fine == ~failed /\ status # "error" /\ ~cleanupError

\* A skip is an early return, and an error of cleanup is not ignored: an early
\* return that ignores it reports an error anyway.
ErrorsCount ==
    /\ status \in {"ok", "skip", "error"}
    /\ pc \in {"boot"} \cup Running => ~cleanupError
    /\ status = "skip" => phase = "early"
    /\ (pc = "idle" \/ phase = "early") /\ cleanupError => Bad
    /\ phase = "early" => pc \in {"relinquish", "release", "cleanup", "deregister", "destroy",
                                  "report", "idle"}

\* Where the SRI is not enabled, so that it cannot preempt the TPM SP.
NotEnabled ==
    /\ pc \in {"feature", "setup", "create", "bind", "register", "prepare"} => ~ctx.sriEnabled
    /\ pc \in {"request", "grant"} /\ kind = "command" => ~ctx.sriEnabled
    /\ kind = "unregistered" => ~ctx.sriEnabled
    /\ phase = "early" => ~ctx.sriEnabled

\* The steps from the registration with the service to its end.
Registered == {"prepare", "data", "ctrlStart", "start", "complete", "pending", "finish",
               "unregister"}

\* As long as nothing fails, val_tpm_notification_context_t is true of the SPMC
\* and of the service.
ContextTrue ==
    Fine =>
      /\ ~spBusy /\ (bitmap <=> ctx.created) /\ (bound <=> ctx.bound)
      /\ client # None <=> ctx.registered
      /\ ctx.registered => \/ pc \in Registered
                           \/ pc \in {"request", "grant"} /\ kind = "locality"
      /\ ctx.registered /\ kind = "unregistered" => pc = "unregister"
      /\ ctx.bound => ctx.created
      /\ pc \in {"boot", "idle", "feature", "setup", "create", "clearStart", "report",
                 "wdRegister"} \cup WdHeld => ~ctx.created
      /\ pc \in {"request", "grant"} /\ kind = "command" => ~ctx.created
      /\ phase = "post" => ~ctx.created
      /\ pending => pc \in {"complete", "pending"}

\* And the locality is granted only where the test still gives it up.
GrantedWhile ==
    /\ pc = "release" => locCtrl[Loc] = {"relinquish"}
    /\ Fine /\ locSts[Loc] =>
          \/ pc \in {"request", "grant", "register", "relinquish", "release"} \cup Registered
          \/ pc \in {"setup", "create", "bind"} /\ kind = "command"
          \/ /\ pc \in {"cleanup", "deregister", "destroy", "clearStart"}
             /\ kind = "command" /\ phase # "early"

Clean == ErrorsCount /\ NotEnabled /\ ContextTrue /\ GrantedWhile

\* The steps of a TPM test but for those below.
LEMMA CleanTalk ==
    ASSUME Inv, Service, Scripted, Clean,
           \/ FeatureSupported \/ RequestAccess \/ CreateBitmap \/ Bind \/ Register
           \/ WriteCommand \/ CheckPending \/ Unregister \/ Relinquish
           \/ CleanupRegistration \/ ClearStart \/ Report
           \/ SetupInterrupt \/ PrepareInterrupt \/ CompleteInterrupt \/ CleanupInterrupt
    PROVE  Clean'
<1>1. /\ kind \in Kinds /\ ctx \in Context
      /\ pc \in Running => phase = "run" /\ status = "ok"
      /\ pc \in Steps \ ({"boot", "idle", "report", "wdRegister"} \cup WdHeld)
            => kind # "watchdog"
      /\ pc \in {"setup", "prepare", "data", "ctrlStart", "start", "complete", "finish"}
            => kind # "unregistered"
  BY DEF Inv, Types, ErrorsReported
<1> USE DEF Clean, Running, Steps, WdHeld, Registered, Fine
<1>2. CASE FeatureSupported
  <2>1. /\ pc = "feature" /\ UNCHANGED <<spBusy, bitmap, bound, pending, client, locCtrl, locSts>>
        /\ UNCHANGED <<kind, ctx, cleanupError, failed>>
        /\ \/ pc' = "cleanup" /\ phase' = "early" /\ status' = "skip"
           \/ pc' = "request" /\ kind = "command" /\ UNCHANGED <<phase, status>>
           \/ pc' = "setup" /\ kind = "locality" /\ UNCHANGED <<phase, status>>
           \/ pc' = "create" /\ UNCHANGED <<phase, status>>
    BY <1>2, <1>1, ZenonT(30) DEF FeatureSupported, Send, At, Goto, EarlyExit,
       Svc!GetFeatureInfo, Svc!Answer, Svc!crb, Svc!notification, spmc, history, Kinds
  <2>2. ErrorsCount'
    BY <1>1, <2>1, ZenonT(30) DEF Scripted, ErrorsCount, Bad, ContextTrue
  <2>3. NotEnabled'
    BY <1>1, <2>1, ZenonT(30) DEF ErrorsCount, NotEnabled, Context
  <2>4. ContextTrue'
    BY <1>1, <2>1, Vm1Assumption, ZenonT(30) DEF ErrorsCount, ContextTrue, Context, Bad
  <2>5. GrantedWhile'
    BY <1>1, <2>1 DEF ErrorsCount, Service, GrantedWhile, Bad
  <2> QED
    BY <2>2, <2>3, <2>4, <2>5, ZenonT(30)
<1>3. CASE RequestAccess
  <2>1. /\ pc = "request" /\ pc' = "grant"
        /\ UNCHANGED <<spBusy, bitmap, bound, pending, client, locSts>>
        /\ UNCHANGED <<phase, status, kind, ctx, cleanupError, failed>>
    BY <1>3, ZenonT(30) DEF RequestAccess, At, Goto, Svc!WriteLocCtrl, Svc!notification,
       spmc, history
  <2>2. ErrorsCount'
    BY <1>1, <2>1, ZenonT(30) DEF Scripted, ErrorsCount, Bad, ContextTrue
  <2>3. NotEnabled'
    BY <1>1, <2>1 DEF ErrorsCount, NotEnabled, Context
  <2>4. ContextTrue'
    BY <1>1, <2>1, Vm1Assumption, ZenonT(30) DEF ErrorsCount, ContextTrue, Context, Bad
  <2>5. GrantedWhile'
    BY <1>1, <2>1, ZenonT(30) DEF ErrorsCount, Service, GrantedWhile, Bad
  <2> QED
    BY <2>2, <2>3, <2>4, <2>5, Zenon
<1>4. CASE CreateBitmap
  <2>1. /\ pc = "create" /\ UNCHANGED <<spBusy, bound, pending, client, locCtrl, locSts>>
        /\ UNCHANGED <<kind, cleanupError, failed>>
        /\ \/ /\ ~bitmap /\ bitmap' /\ pc' = "bind" /\ UNCHANGED <<phase, status>>
              /\ ctx' = [ctx EXCEPT !.created = TRUE]
           \/ /\ UNCHANGED <<bitmap, ctx>> /\ phase' = "early" /\ status' \in {"skip", "error"}
              /\ pc' = IF kind = "command" THEN "relinquish" ELSE "cleanup"
    BY <1>4 DEF CreateBitmap, At, Goto, EarlyExit, ffa_notification_bitmap_create, svc,
       history
  <2>2. ErrorsCount'
    BY <1>1, <2>1 DEF Scripted, ErrorsCount, Bad, ContextTrue
  <2>3. NotEnabled'
    BY <1>1, <2>1, ZenonT(30) DEF ErrorsCount, NotEnabled, Context
  <2>4. ContextTrue'
    BY <1>1, <2>1, Vm1Assumption DEF ErrorsCount, ContextTrue, Context, Bad
  <2>5. GrantedWhile'
    BY <1>1, <2>1, ZenonT(30) DEF ErrorsCount, Service, GrantedWhile, Bad
  <2> QED
    BY <2>2, <2>3, <2>4, <2>5, Zenon
<1>5. CASE Bind
  <2>1. /\ pc = "bind" /\ UNCHANGED <<spBusy, bitmap, pending, client, locCtrl, locSts>>
        /\ UNCHANGED <<kind, cleanupError, failed>>
        /\ \/ /\ bitmap /\ bound' /\ pc' = "register" /\ UNCHANGED <<phase, status>>
              /\ ctx' = [ctx EXCEPT !.bound = TRUE]
           \/ /\ UNCHANGED <<bound, ctx>> /\ phase' = "early" /\ status' \in {"skip", "error"}
              /\ pc' = IF kind = "command" THEN "relinquish" ELSE "cleanup"
    BY <1>5, ZenonT(30) DEF Bind, At, Goto, EarlyExit, ffa_notification_bind, svc, history
  <2>2. ErrorsCount'
    BY <1>1, <2>1 DEF Scripted, ErrorsCount, Bad, ContextTrue
  <2>3. NotEnabled'
    BY <1>1, <2>1, ZenonT(30) DEF ErrorsCount, NotEnabled, Context
  <2>4. ContextTrue'
    BY <1>1, <2>1, Vm1Assumption, ZenonT(30) DEF ErrorsCount, ContextTrue, Context, Bad
  <2>5. GrantedWhile'
    BY <1>1, <2>1, ZenonT(30) DEF ErrorsCount, Service, GrantedWhile, Bad
  <2> QED
    BY <2>2, <2>3, <2>4, <2>5, Zenon
<1>6. CASE Register
  <2>1. /\ pc = "register" /\ UNCHANGED <<spBusy, bitmap, bound, pending, locCtrl, locSts>>
        /\ UNCHANGED <<kind, phase, cleanupError, failed>>
        /\ \/ /\ client' = Vm1 /\ UNCHANGED status
              /\ pc' = IF kind = "unregistered" THEN "unregister" ELSE "prepare"
              /\ ctx' = [ctx EXCEPT !.registered = TRUE]
           \/ /\ pc' = "cleanup" /\ status' = "error" /\ UNCHANGED client
              /\ ctx' = [ctx EXCEPT !.registered = FALSE]
    BY <1>6, RegisterFacts, Zenon DEF Register, Send, At, Goto, Expect, LateExit, spmc, history
  <2>2. ErrorsCount'
    BY <1>1, <2>1, ZenonT(30) DEF Scripted, ErrorsCount, Bad, ContextTrue
  <2>3. NotEnabled'
    BY <1>1, <2>1, ZenonT(30) DEF ErrorsCount, NotEnabled, Context
  <2>4. ContextTrue'
    BY <1>1, <2>1, Vm1Assumption, ZenonT(30) DEF ErrorsCount, ContextTrue, Context, Bad
  <2>5. GrantedWhile'
    BY <1>1, <2>1, ZenonT(30) DEF ErrorsCount, Service, GrantedWhile, Bad
  <2> QED
    BY <2>2, <2>3, <2>4, <2>5, Zenon
<1>7. CASE WriteCommand
  <2>1. /\ pc \in {"data", "ctrlStart"} /\ pc' \in {"ctrlStart", "start"}
        /\ UNCHANGED <<spBusy, bitmap, bound, pending, client, locCtrl, locSts>>
        /\ UNCHANGED <<phase, status, kind, ctx, cleanupError, failed>>
    BY <1>7, ZenonT(30) DEF WriteCommand, At, Goto, Svc!WriteDataBuffer, Svc!WriteCtrlStart,
       Svc!notification, spmc, history
  <2>2. ErrorsCount'
    BY <1>1, <2>1 DEF Scripted, ErrorsCount, Bad, ContextTrue
  <2>3. NotEnabled'
    BY <1>1, <2>1, ZenonT(30) DEF ErrorsCount, NotEnabled, Context
  <2>4. ContextTrue'
    BY <1>1, <2>1, Vm1Assumption, ZenonT(30) DEF ErrorsCount, ContextTrue, Context, Bad
  <2>5. GrantedWhile'
    BY <1>1, <2>1, ZenonT(30) DEF ErrorsCount, Service, GrantedWhile, Bad
  <2> QED
    BY <2>2, <2>3, <2>4, <2>5, Zenon
<1>8. CASE CheckPending
  <2>1. /\ pc = "pending"
        /\ UNCHANGED <<spBusy, bitmap, bound, client, locCtrl, locSts>> /\ ~pending'
        /\ UNCHANGED <<phase, kind, ctx, cleanupError, failed>>
        /\ \/ pc' = "relinquish" /\ kind = "unregistered" /\ UNCHANGED status
           \/ pc' = "finish" /\ kind # "unregistered" /\ UNCHANGED status
           \/ pc' = "cleanup" /\ status' = "error"
    BY <1>8, ZenonT(30) DEF CheckPending, At, Goto, LateExit, ffa_notification_get, svc,
       history
  <2>2. ErrorsCount'
    BY <1>1, <2>1 DEF Scripted, ErrorsCount, Bad, ContextTrue
  <2>3. NotEnabled'
    BY <1>1, <2>1, ZenonT(30) DEF ErrorsCount, NotEnabled, Context
  <2>4. ContextTrue'
    BY <1>1, <2>1, Vm1Assumption, ZenonT(30) DEF ErrorsCount, ContextTrue, Context, Bad
  <2>5. GrantedWhile'
    BY <1>1, <2>1, ZenonT(30) DEF ErrorsCount, Service, GrantedWhile, Bad
  <2> QED
    BY <2>2, <2>3, <2>4, <2>5, Zenon
<1>9. CASE Unregister
  <2>1. /\ pc = "unregister" /\ UNCHANGED <<spBusy, bitmap, bound, pending, locCtrl, locSts>>
        /\ UNCHANGED <<kind, phase, cleanupError, failed>>
        /\ \/ /\ client' = None /\ UNCHANGED status
              /\ \/ pc' = "cleanup" /\ kind = "command"
                 \/ pc' = "relinquish" /\ kind = "locality"
                 \/ pc' = "request" /\ kind = "unregistered"
              /\ ctx' = [ctx EXCEPT !.registered = FALSE]
           \/ /\ pc' = "cleanup" /\ status' = "error" /\ UNCHANGED client
              /\ ctx' = [ctx EXCEPT !.registered = TRUE]
    BY <1>9, <1>1, UnregisterFacts, Zenon DEF Unregister, Send, At, Goto, Expect, LateExit,
       spmc, history, Kinds
  <2>2. ErrorsCount'
    BY <1>1, <2>1 DEF Scripted, ErrorsCount, Bad, ContextTrue
  <2>3. NotEnabled'
    BY <1>1, <2>1, ZenonT(30) DEF ErrorsCount, NotEnabled, Context
  <2>4. ContextTrue'
    BY <1>1, <2>1, Vm1Assumption, ZenonT(30) DEF ErrorsCount, ContextTrue, Context, Bad
  <2>5. GrantedWhile'
    BY <1>1, <2>1, ZenonT(30) DEF ErrorsCount, Service, GrantedWhile, Bad
  <2> QED
    BY <2>2, <2>3, <2>4, <2>5, Zenon
<1>10. CASE Relinquish
  <2>1. /\ pc = "relinquish" /\ pc' = "release"
        /\ UNCHANGED <<spBusy, bitmap, bound, pending, client, locSts>>
        /\ UNCHANGED <<phase, status, kind, ctx, cleanupError, failed>>
        /\ locCtrl' = [locCtrl EXCEPT ![Loc] = {"relinquish"}]
    BY <1>10, ZenonT(30) DEF Relinquish, At, Goto, Svc!WriteLocCtrl, Svc!notification, spmc,
       history
  <2>2. ErrorsCount'
    BY <1>1, <2>1 DEF Scripted, ErrorsCount, Bad, ContextTrue
  <2>3. NotEnabled'
    BY <1>1, <2>1, ZenonT(30) DEF ErrorsCount, NotEnabled, Context
  <2>4. ContextTrue'
    BY <1>1, <2>1, Vm1Assumption, ZenonT(30) DEF ErrorsCount, ContextTrue, Context, Bad
  <2>5. GrantedWhile'
    BY <1>1, <2>1, ZenonT(30) DEF ErrorsCount, Service, GrantedWhile, Bad
  <2> QED
    BY <2>2, <2>3, <2>4, <2>5, Zenon
<1>11. CASE CleanupRegistration
  <2>1. /\ pc = "deregister" /\ pc' = "destroy"
        /\ UNCHANGED <<spBusy, bitmap, bound, pending, locCtrl, locSts>>
        /\ UNCHANGED <<kind, phase, status, failed>>
        /\ \/ ~ctx.registered /\ UNCHANGED <<client, ctx, cleanupError>>
           \/ /\ ctx.registered /\ (cleanupError => cleanupError')
              /\ ctx' \in Context /\ ctx'.sriEnabled = ctx.sriEnabled
    BY <1>11, <1>1, UnregisterFacts, Zenon DEF CleanupRegistration, At, Goto, svc, spmc,
       history, Context
  <2>2. ErrorsCount'
    BY <1>1, <2>1 DEF Scripted, ErrorsCount, Bad, ContextTrue
  <2>3. NotEnabled'
    BY <1>1, <2>1, Zenon DEF ErrorsCount, NotEnabled, Context
  <2>4. ContextTrue'
    BY <1>1, <2>1, Vm1Assumption, ZenonT(30) DEF ErrorsCount, ContextTrue, Context, Bad
  <2>5. GrantedWhile'
    BY <1>1, <2>1, ZenonT(30) DEF ErrorsCount, Service, GrantedWhile, Bad
  <2> QED
    BY <2>2, <2>3, <2>4, <2>5, Zenon
<1>12. CASE ClearStart
  <2>1. /\ pc = "clearStart" /\ pc' = "relinquish"
        /\ UNCHANGED <<spBusy, bitmap, bound, pending, client, locCtrl, locSts>>
        /\ UNCHANGED <<phase, status, kind, ctx, cleanupError, failed>>
    BY <1>12, Zenon DEF ClearStart, At, Goto, Svc!WriteCtrlStart, Svc!notification, svc, spmc,
       history
  <2>2. ErrorsCount'
    BY <1>1, <2>1 DEF Scripted, ErrorsCount, Bad, ContextTrue
  <2>3. NotEnabled'
    BY <1>1, <2>1, ZenonT(30) DEF ErrorsCount, NotEnabled, Context
  <2>4. ContextTrue'
    BY <1>1, <2>1, Vm1Assumption DEF ErrorsCount, ContextTrue, Context, Bad
  <2>5. GrantedWhile'
    BY <1>1, <2>1, ZenonT(30) DEF ErrorsCount, Service, GrantedWhile, Bad
  <2> QED
    BY <2>2, <2>3, <2>4, <2>5, Zenon
<1>13. CASE Report
  <2>1. /\ pc = "report" /\ pc' = "idle"
        /\ UNCHANGED <<spBusy, bitmap, bound, pending, client, locCtrl, locSts>>
        /\ UNCHANGED <<phase, status, kind, ctx, cleanupError>>
        /\ failed' <=> \/ failed \/ status = "error"
                       \/ (status = "ok" /\ phase # "early" /\ cleanupError)
    BY <1>13, Zenon DEF Report, At, Goto, svc, spmc, script
  <2>2. ErrorsCount'
    BY <1>1, <2>1 DEF Scripted, ErrorsCount, Bad, ContextTrue
  <2>3. NotEnabled'
    BY <1>1, <2>1, ZenonT(30) DEF ErrorsCount, NotEnabled, Context
  <2>4. ContextTrue'
    BY <1>1, <2>1, Vm1Assumption, ZenonT(30) DEF ErrorsCount, ContextTrue, Context, Bad
  <2>5. GrantedWhile'
    BY <1>1, <2>1, ZenonT(30) DEF ErrorsCount, Service, GrantedWhile, Bad
  <2> QED
    BY <2>2, <2>3, <2>4, <2>5, Zenon
<1>14. CASE SetupInterrupt
  <2>1. /\ pc = "setup" /\ UNCHANGED <<spBusy, bitmap, bound, pending, client, locCtrl, locSts>>
        /\ UNCHANGED <<kind, cleanupError, failed>>
        /\ \/ /\ UNCHANGED ctx /\ phase' = "early" /\ status' = "skip"
              /\ pc' = IF kind = "command" THEN "relinquish" ELSE "cleanup"
           \/ /\ pc' = "create" /\ UNCHANGED <<phase, status>>
              /\ ctx' = [ctx EXCEPT !.sriRegistered = TRUE]
    BY <1>14 DEF SetupInterrupt, At, Goto, EarlyExit, svc, spmc, history
  <2>2. ErrorsCount'
    BY <1>1, <2>1, ZenonT(30) DEF Scripted, ErrorsCount, Bad, ContextTrue
  <2>3. NotEnabled'
    BY <1>1, <2>1, ZenonT(30) DEF ErrorsCount, NotEnabled, Context
  <2>4. ContextTrue'
    BY <1>1, <2>1, Vm1Assumption DEF ErrorsCount, ContextTrue, Context, Bad
  <2>5. GrantedWhile'
    BY <1>1, <2>1, ZenonT(30) DEF ErrorsCount, Service, GrantedWhile, Bad
  <2> QED
    BY <2>2, <2>3, <2>4, <2>5, Zenon
<1>15. CASE PrepareInterrupt
  <2>1. /\ pc = "prepare" /\ UNCHANGED <<spBusy, bitmap, bound, pending, client, locCtrl, locSts>>
        /\ UNCHANGED <<phase, status, kind, cleanupError, failed>>
        /\ ctx' = [ctx EXCEPT !.sriEnabled = TRUE]
        /\ \/ pc' = "data" /\ kind = "command"
           \/ pc' = "request" /\ kind = "locality"
    BY <1>15, <1>1 DEF PrepareInterrupt, At, Goto, svc, spmc, history, Kinds
  <2>2. ErrorsCount'
    BY <1>1, <2>1 DEF Scripted, ErrorsCount, Bad, ContextTrue
  <2>3. NotEnabled'
    BY <1>1, <2>1 DEF ErrorsCount, NotEnabled, Context
  <2>4. ContextTrue'
    BY <1>1, <2>1, Vm1Assumption DEF ErrorsCount, ContextTrue, Context, Bad
  <2>5. GrantedWhile'
    BY <1>1, <2>1, ZenonT(30) DEF ErrorsCount, Service, GrantedWhile, Bad
  <2> QED
    BY <2>2, <2>3, <2>4, <2>5, Zenon
<1>16. CASE CompleteInterrupt
  <2>1. /\ pc = "complete" /\ UNCHANGED <<spBusy, bitmap, bound, pending, client, locCtrl, locSts>>
        /\ UNCHANGED <<phase, kind, cleanupError, failed>>
        /\ ctx' = [ctx EXCEPT !.sriEnabled = FALSE]
        /\ \/ pc' = "pending" /\ UNCHANGED status
           \/ pc' = "cleanup" /\ status' = "error"
    BY <1>16, ZenonT(30) DEF CompleteInterrupt, At, Goto, LateExit, svc, spmc, history
  <2>2. ErrorsCount'
    BY <1>1, <2>1, ZenonT(30) DEF Scripted, ErrorsCount, Bad, ContextTrue
  <2>3. NotEnabled'
    BY <1>1, <2>1, ZenonT(30) DEF ErrorsCount, NotEnabled, Context
  <2>4. ContextTrue'
    BY <1>1, <2>1, Vm1Assumption DEF ErrorsCount, ContextTrue, Context, Bad
  <2>5. GrantedWhile'
    BY <1>1, <2>1, ZenonT(30) DEF ErrorsCount, Service, GrantedWhile, Bad
  <2> QED
    BY <2>2, <2>3, <2>4, <2>5, Zenon
<1>17. CASE CleanupInterrupt
  <2>1. /\ pc = "cleanup" /\ pc' = "deregister"
        /\ UNCHANGED <<spBusy, bitmap, bound, pending, client, locCtrl, locSts>>
        /\ UNCHANGED <<phase, status, kind, cleanupError, failed>>
        /\ ctx' = [ctx EXCEPT !.sriEnabled = FALSE]
    BY <1>17 DEF CleanupInterrupt, At, Goto, svc, spmc, history
  <2>2. ErrorsCount'
    BY <1>1, <2>1 DEF Scripted, ErrorsCount, Bad, ContextTrue
  <2>3. NotEnabled'
    BY <1>1, <2>1, ZenonT(30) DEF ErrorsCount, NotEnabled, Context
  <2>4. ContextTrue'
    BY <1>1, <2>1, Vm1Assumption, ZenonT(30) DEF ErrorsCount, ContextTrue, Context, Bad
  <2>5. GrantedWhile'
    BY <1>1, <2>1 DEF ErrorsCount, Service, GrantedWhile, Bad
  <2> QED
    BY <2>2, <2>3, <2>4, <2>5, Zenon
<1> QED
  BY <1>2, <1>3, <1>4, <1>5, <1>6, <1>7, <1>8, <1>9, <1>10, <1>11, <1>12, <1>13, <1>14, <1>15,
     <1>16, <1>17, ZenonT(30)

\* No interrupt is enabled where only an early return sends a request, so none
\* preempts the TPM SP there.
LEMMA NothingSignalled ==
    ASSUME Inv, Clean, Fine, phase = "early", pc = "release" PROVE Irq!Signalled = {}
<1>1. enabled = {}
  BY Zenon DEF Inv, Types, IntIds, EnabledHandled, Bad, Clean, NotEnabled, Fine
<1> QED
  BY <1>1, Zenon DEF Irq!Signalled

\* A request that fails is an error of the test.
LEMMA CleanFails == ASSUME Inv, Scripted, Clean, RequestFails PROVE Clean'
<1>1. /\ UNCHANGED <<bitmap, bound, pending, client, locCtrl, locSts, kind, ctx, failed>>
      /\ spBusy \/ Irq!Signalled # {}
      /\ cleanupError => cleanupError'
      /\ pc # "deregister" => (cleanupError' => cleanupError)
      /\ pc = "deregister" => ctx.registered
      /\ \/ /\ pc = "feature" \/ (pc = "grant" /\ kind = "command")
            /\ pc' = "cleanup" /\ phase' = "early" /\ status' = "error"
         \/ /\ pc = "deregister" /\ pc' = "destroy" /\ cleanupError' /\ UNCHANGED <<phase, status>>
         \/ /\ pc = "release" /\ pc' = (IF phase = "post" THEN "report" ELSE "cleanup")
            /\ status' = (IF phase # "early" /\ status = "ok" THEN "error" ELSE status)
            /\ UNCHANGED phase
         \/ /\ pc \in {"grant", "register", "start", "finish", "unregister"}
            /\ pc' = "cleanup" /\ status' = "error" /\ UNCHANGED phase
  BY Zenon DEF RequestFails, At, Goto, EarlyExit, LateExit, svc, history
<1>2. ~Fine'
  <2> SUFFICES ASSUME Fine' PROVE FALSE
    BY Zenon
  <2>1. Fine /\ pc = "release" /\ (phase = "early" \/ status # "ok")
    BY <1>1 DEF Fine
  <2>2. phase = "early"
    BY <2>1, ZenonT(30) DEF Clean, ErrorsCount, Fine
  <2>3. Irq!Signalled = {} /\ ~spBusy
    BY <2>1, <2>2, NothingSignalled, ZenonT(30) DEF Clean, ContextTrue
  <2> QED
    BY <1>1, <2>3
<1>3. pc \in Running => phase = "run" /\ status = "ok"
  BY Zenon DEF Inv, ErrorsReported
<1>4. ErrorsCount'
  BY <1>1, <1>2, <1>3 DEF Clean, ErrorsCount, ContextTrue, Fine, Bad, Running, Scripted,
     Registered
<1>5. NotEnabled'
  BY <1>1, Zenon DEF Clean, NotEnabled
<1>6. ContextTrue' /\ GrantedWhile'
  BY <1>1, <1>2 DEF ContextTrue, GrantedWhile
<1> QED
  BY <1>4, <1>5, <1>6 DEF Clean

\* The steps in which the service may set or finish the notification.
LEMMA CleanNotify ==
    ASSUME Inv, Service, Scripted, Clean, Grant \/ StartCommand \/ FinishNotified \/ Release
    PROVE  Clean'
<1>1. /\ pc \in Running => phase = "run" /\ status = "ok"
      /\ kind \in Kinds
      /\ pc \in {"grant", "start", "finish", "release"} => kind # "watchdog"
      /\ pc \in {"start", "finish"} => kind # "unregistered"
  BY DEF Inv, Types, ErrorsReported, Steps, WdHeld
<1> USE DEF Clean, Fine
<1>2. CASE Grant
  <2>1. /\ pc = "grant" /\ phase = "run" /\ status = "ok" /\ ~cleanupError
        /\ UNCHANGED <<spBusy, bitmap, bound, client, kind, ctx, cleanupError, failed>>
    BY <1>1, <1>2, StartFacts, Zenon DEF Grant, Send, At, Running, NotificationSet, NoSet,
       spmc, history, ErrorsCount
  <2>2. \/ pc' = "cleanup" /\ status' = "error" /\ phase' = "run"
        \/ pc' = "relinquish" /\ status' = "error" /\ phase' = "early" /\ kind = "command"
        \/ pc' = "setup" /\ phase' = "run" /\ status' = "ok" /\ kind = "command"
        \/ pc' = "complete" /\ phase' = "run" /\ status' = "ok" /\ kind = "locality"
        \/ pc' = "pending" /\ phase' = "run" /\ status' = "ok" /\ kind = "unregistered"
    <3>1. CASE kind = "command"
      BY <1>2, <2>1, <3>1, ZenonT(30) DEF Grant, Goto, EarlyExit
    <3>2. CASE kind = "locality"
      BY <1>2, <2>1, <3>2, ZenonT(30) DEF Grant, Goto, Expect, LateExit
    <3>3. CASE kind = "unregistered"
      BY <1>2, <2>1, <3>3, ZenonT(30) DEF Grant, Goto, LateExit
    <3> QED
      BY <1>1, <2>1, <3>1, <3>2, <3>3, ZenonT(30) DEF Kinds
  <2>3. pending' => pending \/ client = Vm1
    BY <1>2, StartFacts, Zenon DEF Grant, NoSet, spmc
  <2>4. ErrorsCount' /\ NotEnabled'
    BY <2>1, <2>2, ZenonT(30) DEF ErrorsCount, NotEnabled, Running
  <2>5. ContextTrue'
    BY <2>1, <2>2, <2>3, Vm1Assumption, ZenonT(30) DEF ContextTrue, Registered, WdHeld
  <2>6. GrantedWhile'
    BY <2>1, <2>2, ZenonT(30) DEF GrantedWhile, Registered
  <2> QED
    BY <2>4, <2>5, <2>6, Zenon
<1>3. CASE StartCommand
  <2>1. /\ pc = "start" /\ phase = "run" /\ status = "ok" /\ ~cleanupError
        /\ UNCHANGED <<spBusy, bitmap, bound, client, kind, ctx, cleanupError, failed>>
        /\ \/ pc' = "complete" /\ phase' = "run" /\ status' = "ok"
           \/ pc' = "cleanup" /\ phase' = "run" /\ status' = "error"
    BY <1>1, <1>3, CommandFacts, ZenonT(30) DEF StartCommand, Send, At, Goto, LateExit,
       Running, NotificationSet, NoSet, spmc, history, ErrorsCount
  <2>2. ErrorsCount' /\ NotEnabled'
    BY <1>1, <2>1 DEF ErrorsCount, NotEnabled, Running
  <2>3. ContextTrue'
    BY <1>1, <2>1, ZenonT(30) DEF ContextTrue, Registered, WdHeld
  <2>4. GrantedWhile'
    BY <2>1, ZenonT(30) DEF GrantedWhile, Registered
  <2> QED
    BY <2>2, <2>3, <2>4, Zenon
<1>4. CASE FinishNotified
  <2>1. /\ pc = "finish" /\ phase = "run" /\ status = "ok" /\ ~cleanupError
        /\ UNCHANGED <<spBusy, bitmap, bound, pending, kind, ctx, cleanupError, failed>>
        /\ \/ pc' = "unregister" /\ phase' = "run" /\ status' = "ok"
           \/ pc' = "cleanup" /\ phase' = "run" /\ status' = "error"
    BY <1>1, <1>4 DEF FinishNotified, Send, At, Goto, LateExit, Running, spmc, history,
       ErrorsCount
  <2>2. UNCHANGED client
    BY <1>4, Zenon DEF FinishNotified, Svc!FinishRefused, Svc!FinishLocality,
       Svc!FinishCommand, Svc!Answer, Svc!notification
  <2>3. ErrorsCount' /\ NotEnabled'
    BY <1>1, <2>1, ZenonT(30) DEF ErrorsCount, NotEnabled, Running
  <2>4. ContextTrue'
    BY <1>1, <2>1, <2>2, ZenonT(30) DEF ContextTrue, Registered, WdHeld
  <2>5. GrantedWhile'
    BY <2>1, ZenonT(30) DEF GrantedWhile, Registered
  <2> QED
    BY <2>3, <2>4, <2>5, Zenon
<1>5. CASE Release
  <2>1. /\ pc = "release" /\ pc' = (IF phase = "post" THEN "report" ELSE "cleanup")
        /\ status' = status \/ (status' = "error" /\ phase # "early")
        /\ UNCHANGED <<spBusy, bitmap, bound, client, kind, phase, ctx, cleanupError, failed>>
    BY <1>5, StartFacts, Zenon DEF Release, Send, At, NotificationSet, NoSet, spmc, history
  <2>2. ErrorsCount' /\ NotEnabled'
    BY <2>1, ZenonT(30) DEF ErrorsCount, NotEnabled, Running, Bad
  <2>3. Fine => ~locSts'[Loc] /\ (pending' => pending)
    <3> SUFFICES ASSUME Fine PROVE ~locSts'[Loc] /\ (pending' => pending)
      BY Zenon
    <3>1. client = None
      BY <2>1, ZenonT(30) DEF ContextTrue, Registered
    <3>2. NoSet /\ Svc!ApplyLocalityRequest(Loc, {"relinquish"})
      BY <1>5, <2>1, <3>1, StartFacts, Vm1Assumption, ZenonT(30) DEF Release, GrantedWhile
    <3> QED
      BY <3>2 DEF NoSet, spmc, Svc!ApplyLocalityRequest, Service
  <2>4. ContextTrue'
    BY <2>1, <2>3, ZenonT(30) DEF ContextTrue, Registered, WdHeld
  <2>5. GrantedWhile'
    BY <2>1, <2>3, ZenonT(30) DEF GrantedWhile, Registered
  <2> QED
    BY <2>2, <2>4, <2>5, Zenon
<1> QED
  BY <1>2, <1>3, <1>4, <1>5, ZenonT(30)

\* The end of cleanup: what was bound and created is unbound and destroyed, or
\* the error is counted.
LEMMA CleanDestroy == ASSUME Inv, Scripted, Clean, CleanupNotification PROVE Clean'
<1>1. /\ pc = "destroy"
      /\ UNCHANGED <<spBusy, pending, client, locCtrl, locSts, kind, failed, status>>
      /\ ctx \in Context /\ kind # "watchdog"
      /\ bound' <=> (bound /\ ~Unbound /\ ~Destroyed)
      /\ bitmap' <=> (bitmap /\ ~Destroyed)
      /\ cleanupError' <=> (cleanupError \/ (ctx.bound /\ ~Unbound) \/ (ctx.created /\ ~Destroyed))
      /\ ctx' = [ctx EXCEPT !.bound = ctx.bound /\ ~Unbound, !.created = FALSE,
                            !.sriRegistered = FALSE]
  BY Zenon DEF CleanupNotification, AfterCleanup, At, svc, history, Inv, Types,
     ErrorsReported, Steps, WdHeld
<1>2. /\ phase' = (IF phase = "early" THEN "early" ELSE "post")
      /\ \/ phase = "early" /\ pc' = "report"
         \/ phase # "early" /\ kind = "command" /\ pc' = "clearStart"
         \/ phase # "early" /\ kind # "command" /\ locSts[Loc] /\ pc' = "relinquish"
         \/ phase # "early" /\ kind # "command" /\ ~locSts[Loc] /\ pc' = "report"
  BY Zenon DEF CleanupNotification, AfterCleanup
<1>3. /\ ctx'.sriEnabled = ctx.sriEnabled /\ ~ctx'.created /\ ctx'.registered = ctx.registered
      /\ ctx'.bound <=> (ctx.bound /\ ~Unbound)
  BY <1>1, Zenon DEF Context
<1>4. Fine => Fine' /\ ~bound' /\ ~bitmap'
  BY <1>1 DEF Fine, Clean, ContextTrue, Unbound, Destroyed, ffa_notification_unbind,
     ffa_notification_bitmap_destroy
<1>5. Fine' => Fine
  BY <1>1, Zenon DEF Fine
<1>6. ErrorsCount' /\ NotEnabled'
  BY <1>1, <1>2, <1>3, <1>4, ZenonT(30) DEF Clean, ErrorsCount, NotEnabled, Fine, Bad, Running
<1>7. ContextTrue'
  BY <1>1, <1>2, <1>3, <1>4, <1>5, ZenonT(30) DEF Clean, ContextTrue, Fine, Registered, WdHeld
<1>8. GrantedWhile'
  BY <1>1, <1>2, <1>5, ZenonT(30) DEF Clean, GrantedWhile, Registered
<1> QED
  BY <1>6, <1>7, <1>8, ZenonT(30) DEF Clean

\* Steps that leave alone all that the residue is about.
Settled ==
    UNCHANGED <<spBusy, bitmap, bound, pending, client, locCtrl, locSts, pc, kind, phase, ctx,
                status, cleanupError, failed>>

\* Such a step keeps the context true.
LEMMA CleanStill == ASSUME Clean, Settled PROVE Clean'
<1>1. ErrorsCount' /\ NotEnabled'
  BY Zenon DEF Clean, Settled, ErrorsCount, NotEnabled, Bad
<1>2. ContextTrue' /\ GrantedWhile'
  BY Zenon DEF Clean, Settled, ContextTrue, GrantedWhile, Fine
<1> QED
  BY <1>1, <1>2 DEF Clean

\* The steps between two tests, and those of vm_to_sp_preempt.
LEMMA CleanOutside ==
    ASSUME Inv, Service, Scripted, Clean,
           \/ \E sysregs, sre, found \in BOOLEAN : Boot(sysregs, sre, found)
           \/ \E k \in Kinds : Begin(k)
           \/ WatchdogTest
    PROVE  Clean'
<1> USE DEF Clean, Fine
<1>1. CASE \E sysregs, sre, found \in BOOLEAN : Boot(sysregs, sre, found)
  <2>1. /\ pc = "boot" /\ pc' = "idle" /\ status = "ok"
        /\ UNCHANGED <<spBusy, bitmap, bound, pending, client, locCtrl, locSts, kind, phase, ctx,
                       status, cleanupError, failed>>
    BY <1>1, ZenonT(30) DEF Boot, At, Goto, svc, spmc, history, Inv, ErrorsReported
  <2>2. ErrorsCount' /\ NotEnabled'
    BY <2>1 DEF ErrorsCount, NotEnabled, Running, Bad
  <2>3. ContextTrue' /\ GrantedWhile'
    BY <2>1, Zenon DEF ContextTrue, GrantedWhile, Registered, WdHeld
  <2> QED
    BY <2>2, <2>3, ZenonT(30)
<1>2. CASE \E k \in Kinds : Begin(k)
  <2>1. /\ pc = "idle" /\ pc' \in {"feature", "wdRegister"} /\ phase' = "run" /\ status' = "ok"
        /\ cleanupError' = FALSE /\ ctx' = NoContext
        /\ UNCHANGED <<spBusy, bitmap, bound, pending, failed>>
    BY <1>2, ZenonT(30) DEF Begin, At, spmc, history
  <2>2. UNCHANGED <<client, locSts>>
    BY <1>2 DEF Begin, svc, Svc!WriteLocCtrl, Svc!notification
  <2>3. Fine' => Fine
    BY <2>1, Zenon DEF ErrorsCount, Inv, ErrorsReported, Bad
  <2>4. ErrorsCount' /\ NotEnabled'
    BY <2>1, Zenon DEF ErrorsCount, NotEnabled, NoContext
  <2>5. ContextTrue'
    BY <2>1, <2>2, <2>3, ZenonT(30) DEF ContextTrue, NoContext, Registered
  <2>6. GrantedWhile'
    BY <2>1, <2>2, <2>3, ZenonT(30) DEF GrantedWhile, Registered
  <2> QED
    BY <2>4, <2>5, <2>6, ZenonT(30)
<1>3. CASE WatchdogTest
  <2>1. /\ pc \in {"wdRegister"} \cup WdHeld /\ pc' \in {"report"} \cup WdHeld
        /\ pc = "wdFree" => pc' = "report"
        /\ pc' = "report" => pc = "wdFree"
        /\ UNCHANGED <<spBusy, bitmap, bound, pending, client, locCtrl, locSts, kind, phase, ctx,
                       cleanupError, failed>>
        /\ status' \in {status, "ok", "error"} /\ (status = "error" => pc = "wdFree")
        /\ pc = "wdFree" => UNCHANGED status
    BY <1>3, Zenon DEF WatchdogTest, WdRegister, WdEnable, WdStart, WdRequest, WdDisable,
       WdRun, WdFree, At, Goto, WdHeld, svc, spmc, history, Inv, ErrorsReported, Running
  <2>2. kind = "watchdog" /\ (pc # "wdFree" => phase = "run" /\ status = "ok")
    BY <2>1, ZenonT(30) DEF Scripted, Inv, ErrorsReported, Running, WdHeld
  <2>3. ErrorsCount' /\ NotEnabled'
    BY <2>1, <2>2, ZenonT(30) DEF ErrorsCount, NotEnabled, Running, WdHeld, Bad
  <2>4. ContextTrue' /\ GrantedWhile'
    BY <2>1, <2>2, ZenonT(30) DEF ContextTrue, GrantedWhile, Registered, WdHeld
  <2> QED
    BY <2>3, <2>4, ZenonT(30)
<1> QED
  BY <1>1, <1>2, <1>3, ZenonT(30)

\* Every step keeps the context true.
LEMMA StepClean == ASSUME Inv, Service, Scripted, Clean, [Next]_vars PROVE Clean'
<1>1. CASE Exceptions \/ RaiseSri \/ WdExpires \/ TpmFails \/ UNCHANGED vars
  <2>1. Settled
    BY <1>1, Zenon DEF Settled, Exceptions, TakeException, SriHandler, WdHandler, RaiseSri,
       WdExpires, TpmFails, vars, svc, spmc, script, history
  <2> QED
    BY <2>1, CleanStill
<1> QED
  BY <1>1, CleanTalk, CleanFails, CleanNotify, CleanDestroy, CleanOutside, ZenonT(30) DEF
     Next, TpmTest

\* VM1 starts with an empty context and an idle service.
LEMMA InitClean == Init => Clean
<1> SUFFICES ASSUME Init PROVE Clean
  BY Zenon
<1> USE DEF Init
<1>1. ErrorsCount /\ NotEnabled
  BY Zenon DEF ErrorsCount, NotEnabled, Bad, NoContext
<1>2. ContextTrue
  BY Zenon DEF Svc!Init, ContextTrue, NoContext
<1>3. GrantedWhile
  BY ZenonT(30) DEF Svc!Init, GrantedWhile
<1> QED
  BY <1>1, <1>2, <1>3, ZenonT(30) DEF Clean

-----------------------------------------------------------------------------
(* Types.                                                                  *)

\* The registers of the GIC and the state of the CPU have their types.
GicTyped ==
    /\ gicv3 \in BOOLEAN /\ distif \in BOOLEAN /\ cpuif \in BOOLEAN /\ probed \in BOOLEAN
    /\ late \in BOOLEAN /\ masked \in BOOLEAN /\ halted \in BOOLEAN
    /\ routed \subseteq {NsWd} /\ priority \in [IntIds -> Nat] /\ latched \subseteq IntIds

\* Every step on the interrupts is one of the driver, of a device or of the exception.
LEMMA IrqSteps ==
    ASSUME [Next]_vars
    PROVE  \/ UNCHANGED irq
           \/ \E sysregs, sre, found \in BOOLEAN : Irq!pal_irq_setup(sysregs, sre, found)
           \/ Irq!pal_irq_enable(Sri, 10) \/ Irq!pal_irq_enable(NsWd, 0)
           \/ \E i \in IntIds : \/ Irq!pal_irq_disable(i)
                                \/ Irq!pal_irq_register_handler(i, "sri")
                                \/ Irq!pal_irq_register_handler(i, "watchdog")
                                \/ Irq!pal_irq_unregister_handler(i)
           \/ Irq!Pulse(Sri) \/ Irq!DriveLine(NsWd, TRUE) \/ Irq!DriveLine(NsWd, FALSE)
           \/ Irq!TakeIrq \/ Irq!Withdraw \/ Irq!Acknowledge \/ Irq!Unhandled
           \/ Irq!EndOfInterrupt \/ Irq!CallHandler({}) \/ Irq!CallHandler({NsWd})
<1>1. CASE TpmTest
  BY <1>1, Zenon DEF IntIds, TpmTest, FeatureSupported, RequestAccess, Grant,
     SetupInterrupt, CreateBitmap, Bind, Register, PrepareInterrupt, WriteCommand,
     StartCommand, CompleteInterrupt, CheckPending, FinishNotified, Unregister, Relinquish,
     Release, RequestFails, CleanupInterrupt, CleanupRegistration, CleanupNotification,
     ClearStart, Report
<1>2. CASE WatchdogTest
  BY <1>2, ZenonT(30) DEF IntIds, WatchdogTest, WdRegister, WdEnable, WdStart, WdRequest,
     WdDisable, WdRun, WdFree
<1>3. CASE Exceptions
  BY <1>3, Zenon DEF Exceptions, TakeException, SriHandler, WdHandler
<1> QED
  BY <1>1, <1>2, <1>3, ZenonT(30) DEF Next, vars, Boot, Begin, RaiseSri, WdExpires, TpmFails

\* Every operation of the GIC driver and of the dispatcher keeps these types.
LEMMA GicTypes == ASSUME GicTyped, [Next]_vars PROVE GicTyped'
<1> USE Vm1Assumption DEF GicTyped
<1>1. CASE UNCHANGED irq
  BY <1>1, ZenonT(30) DEF irq
<1>2. CASE \E sysregs, sre, found \in BOOLEAN : Irq!pal_irq_setup(sysregs, sre, found)
  BY <1>2, ZenonT(30) DEF Irq!pal_irq_setup, Irq!arm_gic_init, Irq!is_gicv3_mode,
     Irq!arm_gic_setup_global, Irq!arm_gic_setup_local, Irq!gicv3_setup_distif,
     Irq!gicv2_setup_distif, Irq!gicv3_probe_redistif_addr, Irq!gicv3_setup_cpuif,
     Irq!gicv3_enable_cpuif, Irq!gicv2_init, Irq!registers
<1>3. CASE \E i \in IntIds, prio \in Nat : Irq!pal_irq_enable(i, prio)
  <2>1. PICK i \in IntIds, prio \in Nat : Irq!pal_irq_enable(i, prio)
    BY <1>3, SMT, Zenon
  <2>2. /\ UNCHANGED <<gicv3, distif, cpuif, probed, late, latched>>
        /\ masked' \in BOOLEAN /\ halted' \in BOOLEAN
    BY <2>1, Zenon DEF Irq!pal_irq_enable, Irq!GicHalts, Irq!gic, Irq!setup
  <2>3. routed' \subseteq {NsWd} /\ priority' \in {priority, [priority EXCEPT ![i] = prio]}
    BY <2>1 DEF Irq!pal_irq_enable, Irq!GicHalts, Irq!gic, Irq!registers,
       Irq!arm_gic_set_intr_target,
       Irq!gicv3_set_intr_route, Irq!gicv2_set_itargetsr, Irq!gicd_write_irouter,
       Irq!gicd_set_itargetsr, Irq!arm_gic_set_intr_priority, Irq!gicv3_set_ipriorityr,
       Irq!gicv2_gicd_set_ipriorityr, Irq!gicd_set_ipriorityr
  <2> QED
    BY <2>2, <2>3, Zenon
<1>4. CASE \E i \in IntIds : Irq!pal_irq_disable(i)
  BY <1>4, ZenonT(30) DEF Irq!pal_irq_disable, Irq!GicHalts, Irq!gic, Irq!registers,
     Irq!setup, Irq!arm_gic_intr_disable,
     Irq!gicv3_set_icenabler, Irq!gicv2_gicd_set_icenabler, Irq!gicd_set_icenabler,
     Irq!gicr_set_icenabler0, Irq!StillSeen
<1>5. CASE \E i \in IntIds : \/ Irq!pal_irq_register_handler(i, "sri")
                             \/ Irq!pal_irq_register_handler(i, "watchdog")
                             \/ Irq!pal_irq_unregister_handler(i)
  BY <1>5, Zenon DEF Irq!pal_irq_register_handler, Irq!pal_irq_unregister_handler,
     Irq!pal_irq_update_handler, Irq!gic, Irq!setup, Irq!registers
<1>6. CASE Irq!Pulse(Sri) \/ Irq!DriveLine(NsWd, TRUE) \/ Irq!DriveLine(NsWd, FALSE)
  BY <1>6, Zenon DEF Irq!Pulse, Irq!DriveLine, Irq!setup, Irq!registers, IntIds
<1>7. CASE \/ Irq!TakeIrq \/ Irq!Withdraw \/ Irq!Acknowledge \/ Irq!Unhandled
           \/ Irq!EndOfInterrupt \/ Irq!CallHandler({}) \/ Irq!CallHandler({NsWd})
  BY <1>7, ZenonT(30) DEF Irq!TakeIrq, Irq!Withdraw, Irq!Acknowledge, Irq!Unhandled,
     Irq!EndOfInterrupt, Irq!CallHandler, Irq!arm_gic_intr_ack, Irq!gic, Irq!setup,
     Irq!registers
<1>8. Sri \in IntIds /\ NsWd \in IntIds /\ 0 \in Nat /\ 10 \in Nat
  BY Zenon DEF IntIds
<1> QED
  BY <1>1, <1>2, <1>3, <1>4, <1>5, <1>6, <1>7, <1>8, IrqSteps, ZenonT(30)

\* The flags of the SPMC and of the scripts.
FlagsTyped ==
    /\ bitmap \in BOOLEAN /\ bound \in BOOLEAN /\ pending \in BOOLEAN
    /\ sriDue \in BOOLEAN /\ spBusy \in BOOLEAN /\ wdog \in BOOLEAN
    /\ cleanupError \in BOOLEAN /\ sriSeen \in BOOLEAN /\ failed \in BOOLEAN

\* Every step keeps the flags Boolean.
LEMMA FlagTypes == ASSUME FlagsTyped, [Next]_vars PROVE FlagsTyped'
<1> USE DEF FlagsTyped, spmc, history, script
<1>1. CASE FeatureSupported \/ RequestAccess \/ Register \/ WriteCommand \/ Unregister \/ Relinquish
  <2>1. CASE FeatureSupported
    BY <2>1, Zenon DEF FeatureSupported
  <2>2. CASE RequestAccess
    BY <2>2, ZenonT(30) DEF RequestAccess
  <2>3. CASE Register
    BY <2>3 DEF Register
  <2>4. CASE WriteCommand
    BY <2>4, Zenon DEF WriteCommand
  <2>5. CASE Unregister
    BY <2>5, Zenon DEF Unregister
  <2>6. CASE Relinquish
    BY <2>6 DEF Relinquish
  <2> QED
    BY <1>1, <2>1, <2>2, <2>3, <2>4, <2>5, <2>6, ZenonT(30)
<1>2. CASE Grant \/ StartCommand \/ Release
  <2>1. UNCHANGED <<wdog, cleanupError, sriSeen, failed>>
    BY <1>2, Zenon DEF Grant, StartCommand, Release
  <2>2. NotificationSet \/ NoSet
    BY <1>2, StartFacts, CommandFacts, Zenon DEF Grant, Release
  <2> QED
    BY <2>1, <2>2, Zenon DEF NotificationSet, NoSet
<1>3. CASE SetupInterrupt \/ CreateBitmap \/ Bind \/ PrepareInterrupt \/ CompleteInterrupt
  <2>1. CASE SetupInterrupt
    BY <2>1, Zenon DEF SetupInterrupt
  <2>2. CASE CreateBitmap
    BY <2>2, Zenon DEF CreateBitmap
  <2>3. CASE Bind
    BY <2>3, Zenon DEF Bind
  <2>4. CASE PrepareInterrupt
    BY <2>4, Zenon DEF PrepareInterrupt
  <2>5. CASE CompleteInterrupt
    BY <2>5, ZenonT(30) DEF CompleteInterrupt
  <2> QED
    BY <1>3, <2>1, <2>2, <2>3, <2>4, <2>5, ZenonT(30)
<1>4. CASE CheckPending \/ FinishNotified \/ RequestFails
  <2>1. CASE CheckPending
    BY <2>1, Zenon DEF CheckPending, ffa_notification_get
  <2>2. CASE FinishNotified
    BY <2>2, Zenon DEF FinishNotified
  <2>3. CASE RequestFails
    BY <2>3, Zenon DEF RequestFails
  <2> QED
    BY <1>4, <2>1, <2>2, <2>3, ZenonT(30)
<1>5. CASE CleanupInterrupt \/ CleanupRegistration \/ CleanupNotification \/ ClearStart
  <2>1. CASE CleanupInterrupt
    BY <2>1 DEF CleanupInterrupt
  <2>2. CASE CleanupRegistration
    BY <2>2, Zenon DEF CleanupRegistration
  <2>3. CASE CleanupNotification
    BY <2>3, ZenonT(30) DEF CleanupNotification
  <2>4. CASE ClearStart
    BY <2>4 DEF ClearStart
  <2> QED
    BY <1>5, <2>1, <2>2, <2>3, <2>4, ZenonT(30)
<1>6. CASE Report
  BY <1>6, Zenon DEF Report
<1>7. CASE WatchdogTest
  <2>1. CASE WdRegister
    BY <2>1, Zenon DEF WdRegister
  <2>2. CASE WdEnable
    BY <2>2 DEF WdEnable
  <2>3. CASE WdStart
    BY <2>3, Zenon DEF WdStart
  <2>4. CASE WdRequest
    BY <2>4, ZenonT(30) DEF WdRequest
  <2>5. CASE WdDisable
    BY <2>5, ZenonT(30) DEF WdDisable
  <2>6. CASE WdRun
    BY <2>6, ZenonT(30) DEF WdRun
  <2>7. CASE WdFree
    BY <2>7, ZenonT(30) DEF WdFree
  <2> QED
    BY <1>7, <2>1, <2>2, <2>3, <2>4, <2>5, <2>6, <2>7, ZenonT(30) DEF WatchdogTest
<1>8. CASE Exceptions \/ RaiseSri \/ WdExpires \/ TpmFails \/ UNCHANGED vars
  <2>1. CASE TakeException
    BY <2>1, ZenonT(30) DEF TakeException
  <2>2. CASE SriHandler
    BY <2>2 DEF SriHandler
  <2>3. CASE WdHandler
    BY <2>3, Zenon DEF WdHandler
  <2>4. CASE RaiseSri
    BY <2>4, Zenon DEF RaiseSri
  <2>5. CASE WdExpires
    BY <2>5 DEF WdExpires
  <2>6. CASE TpmFails
    BY <2>6, Zenon DEF TpmFails
  <2>7. CASE UNCHANGED vars
    BY <2>7, ZenonT(30) DEF vars
  <2> QED
    BY <1>8, <2>1, <2>2, <2>3, <2>4, <2>5, <2>6, <2>7, ZenonT(30) DEF Exceptions
<1>9. CASE \/ \E sysregs, sre, found \in BOOLEAN : Boot(sysregs, sre, found)
           \/ \E k \in Kinds : Begin(k)
  <2>1. CASE \E sysregs, sre, found \in BOOLEAN : Boot(sysregs, sre, found)
    BY <2>1, Zenon DEF Boot
  <2>2. CASE \E k \in Kinds : Begin(k)
    BY <2>2, Zenon DEF Begin
  <2> QED
    BY <1>9, <2>1, <2>2, ZenonT(30)
<1> QED
  BY <1>1, <1>2, <1>3, <1>4, <1>5, <1>6, <1>7, <1>8, <1>9, ZenonT(30) DEF Next, TpmTest

\* A step reports a test, or begins one within the bound, or counts nothing.
LEMMA CountSteps ==
    ASSUME [Next]_vars
    PROVE  \/ Report
           \/ /\ UNCHANGED <<tests, last>>
              /\ pc' \in {pc, "idle"} \/ pc \notin {"boot", "idle"} \/ tests < MaxTests
<1> USE DEF At, Send, Goto, history
<1>1. CASE TpmTest
  BY <1>1, ZenonT(30) DEF TpmTest, FeatureSupported, RequestAccess, Grant, SetupInterrupt,
     CreateBitmap, Bind, Register, PrepareInterrupt, WriteCommand, StartCommand,
     CompleteInterrupt, CheckPending, FinishNotified, Unregister, Relinquish, Release,
     RequestFails, CleanupInterrupt, CleanupRegistration, CleanupNotification, ClearStart
<1>2. CASE WatchdogTest
  BY <1>2, ZenonT(30) DEF WatchdogTest, WdRegister, WdEnable, WdStart, WdRequest, WdDisable,
     WdRun, WdFree
<1>3. CASE Exceptions
  BY <1>3, Zenon DEF Exceptions, TakeException, SriHandler, WdHandler
<1>4. CASE RaiseSri \/ WdExpires \/ TpmFails \/ UNCHANGED vars
  BY <1>4, Zenon DEF RaiseSri, WdExpires, TpmFails, vars
<1>5. CASE \E sysregs, sre, found \in BOOLEAN : Boot(sysregs, sre, found)
  BY <1>5, ZenonT(30) DEF Boot
<1>6. CASE \E k \in Kinds : Begin(k)
  BY <1>6 DEF Begin
<1> QED
  BY <1>1, <1>2, <1>3, <1>4, <1>5, <1>6, ZenonT(30) DEF Next

\* The bound on the tests, and what is kept of the last one.
Counted ==
    /\ tests \in 0 .. MaxTests
    /\ pc \notin {"boot", "idle"} => tests < MaxTests
    /\ last \in [kind : Kinds, status : {"none", "ok", "skip", "error"}, own : SUBSET Own]

\* A report is the last step of a test that was within the bound.
LEMMA CountTypes == ASSUME Inv, Watched, Clean, Counted, [Next]_vars PROVE Counted'
<1>1. CASE Report
  <2>1. /\ pc = "report" /\ pc' = "idle" /\ tests' = tests + 1
        /\ last' = [kind |-> kind, own |-> own,
                    status |-> IF status = "ok" /\ phase # "early" /\ cleanupError
                               THEN "error" ELSE status]
    BY <1>1, ZenonT(30) DEF Report, At, Goto
  <2>2. tests' \in 0 .. MaxTests
    <3>1. tests \in 0 .. MaxTests /\ tests < MaxTests
      BY <2>1, ZenonT(30) DEF Counted
    <3> QED
      BY <2>1, <3>1, Numbers, ZenonT(30)
  <2>3. kind \in Kinds /\ own \subseteq Own /\ status \in {"ok", "skip", "error"}
    BY Zenon DEF Inv, Types, Watched, OwnTrue, Clean, ErrorsCount
  <2>4. last' \in [kind : Kinds, status : {"none", "ok", "skip", "error"}, own : SUBSET Own]
    BY <2>1, <2>3, ZenonT(30)
  <2> QED
    BY <2>1, <2>2, <2>4, ZenonT(30) DEF Counted
<1>2. CASE ~Report
  BY <1>2, CountSteps, ZenonT(30) DEF Counted
<1> QED
  BY <1>1, <1>2, ZenonT(30)

\* The phase of the running test.
LEMMA PhaseTypes ==
    ASSUME Inv, phase \in {"run", "early", "post"}, [Next]_vars
    PROVE  phase' \in {"run", "early", "post"}
<1> USE DEF Goto, EarlyExit, LateExit, Expect, script
<1>1. CASE FeatureSupported \/ RequestAccess \/ CreateBitmap \/ Bind \/ Register \/ WriteCommand
  BY <1>1, Zenon DEF FeatureSupported, RequestAccess, CreateBitmap, Bind, Register,
     WriteCommand
<1>2. CASE StartCommand \/ CheckPending \/ FinishNotified \/ Unregister \/ Relinquish \/ Release
  BY <1>2, ZenonT(30) DEF StartCommand, CheckPending, FinishNotified, Unregister,
     Relinquish, Release
<1>3. CASE SetupInterrupt \/ PrepareInterrupt \/ CompleteInterrupt \/ RequestFails
  BY <1>3 DEF SetupInterrupt, PrepareInterrupt, CompleteInterrupt, RequestFails
<1>4. CASE CleanupInterrupt \/ CleanupRegistration \/ CleanupNotification \/ ClearStart \/ Report
  BY <1>4, Zenon DEF CleanupInterrupt, CleanupRegistration, CleanupNotification, AfterCleanup,
     ClearStart, Report
<1>5. CASE Grant
  <2>1. kind \in {"command", "locality", "unregistered"}
    BY <1>5 DEF Grant, Send, At, Inv, Types, Kinds, ErrorsReported, Steps, WdHeld
  <2> QED
    BY <1>5, <2>1, ZenonT(30) DEF Grant
<1>6. CASE WatchdogTest
  BY <1>6, ZenonT(30) DEF WatchdogTest, WdRegister, WdEnable, WdStart, WdRequest, WdDisable,
     WdRun, WdFree
<1>7. CASE Exceptions \/ RaiseSri \/ WdExpires \/ TpmFails \/ UNCHANGED vars
  BY <1>7, Zenon DEF Exceptions, TakeException, SriHandler, WdHandler, RaiseSri, WdExpires,
     TpmFails, vars
<1>8. CASE \/ \E sysregs, sre, found \in BOOLEAN : Boot(sysregs, sre, found)
           \/ \E k \in Kinds : Begin(k)
  BY <1>8, ZenonT(30) DEF Boot, Begin
<1> QED
  BY <1>1, <1>2, <1>3, <1>4, <1>5, <1>6, <1>7, <1>8, ZenonT(30) DEF Next, TpmTest

-----------------------------------------------------------------------------
(* The theorems about the composed system.                                 *)

(* The theorems about the service and the TPM, for those of this model.    *)
TP == INSTANCE TpmProofs WITH Clients <- {Vm1}, Localities <- {Loc}, NotifIds <- {1},
                              BitmapWidth <- 64, NV_MEMORY_SIZE <- 2

\* The constants of this service are those its theorems assume.
LEMMA ServiceConstants == TP!ConstantsAssumption
<1>1. /\ None \notin {Vm1} /\ None \notin {Loc} /\ None \notin {1}
      /\ None \notin [loc : {Loc}, ctrl : SUBSET {"requestAccess", "relinquish"}]
      /\ None \notin [loc : {Loc}, data : {"command", "response", "unsized"}]
  BY Vm1Assumption, ZenonT(30)
<1> QED
  BY <1>1, Numbers, ZenonT(30) DEF TP!ConstantsAssumption

\* What TpmProofs calls a step of the TPM is one of this TPM.
LEMMA SameTpm == [Tpm!TpmNext]_(Tpm!tpmVars) => [TP!TpmNext]_(TP!tpmVars)
<1>1. ASSUME NEW size PROVE Tpm!NvWrites(size) <=> TP!NvWrites(size)
  BY Zenon DEF TP!NvWrites, Tpm!NvWrites, TP!_plat__NvMemoryWrite, Tpm!_plat__NvMemoryWrite,
     TP!_plat__NvMemoryClear, Tpm!_plat__NvMemoryClear, TP!Image, Tpm!Image, TP!Updated,
     Tpm!Updated, TP!NvOffsets, Tpm!NvOffsets, TP!pal_tpm_nv_range_valid,
     Tpm!pal_tpm_nv_range_valid
<1>2. ASSUME NEW ok PROVE Tpm!Manufacture(ok) <=> TP!Manufacture(ok)
  BY <1>1, Zenon DEF Tpm!Manufacture, TP!Manufacture
<1>3. ASSUME NEW ok PROVE Tpm!pal_tpm_init(ok) <=> TP!pal_tpm_init(ok)
  BY <1>2, ZenonT(30) DEF Tpm!pal_tpm_init, TP!pal_tpm_init, Tpm!_plat__NVEnable,
     TP!_plat__NVEnable, Tpm!pal_tpm_startup, TP!pal_tpm_startup
<1>4. ASSUME NEW ok
      PROVE  Tpm!pal_tpm_execute_command(ok) <=> TP!pal_tpm_execute_command(ok)
  BY <1>3, Zenon DEF Tpm!pal_tpm_execute_command, TP!pal_tpm_execute_command
<1>5. Tpm!Fail <=> TP!Fail
  BY Zenon DEF Tpm!Fail, TP!Fail
<1> QED
  BY <1>4, <1>5, Zenon DEF Tpm!TpmNext, TP!TpmNext, Tpm!tpmVars, TP!tpmVars

(* So the TPM that the tests reach through the service takes commands only *)
(* when pal_tpm_init has prepared all of it, however often it failed.      *)
THEOREM TpmInitialized == Spec => []InitializedTpm
<1>1. Tpm!TpmInit => Tpm!ReadyWhenInitialized
  BY ZenonT(30) DEF Tpm!TpmInit, Tpm!ReadyWhenInitialized
<1>2. Tpm!ReadyWhenInitialized /\ [Tpm!TpmNext]_(Tpm!tpmVars) => Tpm!ReadyWhenInitialized'
  BY Numbers, SameTpm, ServiceConstants, TP!ReadyStep, ZenonT(30) DEF TP!ConstantsAssumption,
     TP!ReadyWhenInitialized, Tpm!ReadyWhenInitialized
<1> QED
  BY <1>1, <1>2, DrivesTheTpm, PTL DEF InitializedTpm, Tpm!TpmSpec

\* It follows from that invariant.
LEMMA ServiceMeans == TP!Inv => Service
BY Vm1Assumption, Zenon DEF TP!Inv, TP!TypeOK, TP!GrantedIffActive, TP!DeferredIffOutstanding,
   TP!CtrlBits, Service

\* So each step keeps the service's invariant.
LEMMA ServiceInv == TP!Inv /\ [Next]_vars => TP!Inv'
<1>1. TP!Inv /\ [TP!Next]_(TP!vars) => TP!Inv'
  BY ServiceConstants, TP!NextKeepsInv, ZenonT(30) DEF TP!ConstantsAssumption
<1>2. [Svc!Next]_(Svc!vars) => [TP!Next]_(TP!vars)
  <2>1. (UNCHANGED Svc!vars) => UNCHANGED TP!vars
    BY ZenonT(30) DEF Svc!vars, TP!vars, Svc!crb, TP!crb, Svc!notification, TP!notification
  <2>2. Svc!Next => TP!Next
    BY Zenon DEF Svc!Next, TP!Next, Svc!ClientWrites, TP!ClientWrites, Svc!WriteLocCtrl,
       TP!WriteLocCtrl, Svc!WriteCtrlStart, TP!WriteCtrlStart, Svc!WriteDataBuffer,
       TP!WriteDataBuffer, Svc!CtrlBits, TP!CtrlBits, Svc!notification, TP!notification,
       Svc!NoReply, TP!NoReply, Svc!Reply, TP!Reply, Svc!HandleRequest, TP!HandleRequest,
       Svc!GetInterfaceVersion, TP!GetInterfaceVersion, Svc!GetFeatureInfo,
       TP!GetFeatureInfo, Svc!Answer, TP!Answer, Svc!crb, TP!crb, Svc!HandleStart,
       TP!HandleStart, Svc!StartInvalid, TP!StartInvalid, Svc!StartLocalityDeferred,
       TP!StartLocalityDeferred, Svc!StartLocalityFallback, TP!StartLocalityFallback,
       Svc!StartLocalityNow, TP!StartLocalityNow, Svc!StartCommandDeferred,
       TP!StartCommandDeferred, Svc!StartCommandFallback, TP!StartCommandFallback,
       Svc!StartCommandNow, TP!StartCommandNow, Svc!StartCommandIdle, TP!StartCommandIdle,
       Svc!Deferrable, TP!Deferrable, Svc!Executable, TP!Executable, Svc!SignalNotification,
       TP!SignalNotification, Svc!ApplyLocalityRequest, TP!ApplyLocalityRequest,
       Svc!ExecuteCommand, TP!ExecuteCommand, Svc!RegisterNotification,
       TP!RegisterNotification, Svc!UnregisterNotification, TP!UnregisterNotification,
       Svc!ClearNotificationRegistration, TP!ClearNotificationRegistration,
       Svc!FinishRefused, TP!FinishRefused, Svc!FinishLocality, TP!FinishLocality,
       Svc!FinishCommand, TP!FinishCommand, Svc!UnknownFunction, TP!UnknownFunction
  <2> QED
    BY <2>1, <2>2, ZenonT(30)
<1> QED
  BY <1>1, <1>2, ServiceStep, ZenonT(30)

\* The service starts in its invariant.
LEMMA InitService == Init => TP!Inv
<1>1. TP!Init => TP!Inv
  BY ServiceConstants, TP!InitInv, ZenonT(30) DEF TP!ConstantsAssumption
<1>2. Svc!Init => TP!Init
  BY Zenon DEF Svc!Init, TP!Init, Svc!NoReply, TP!NoReply, Svc!Reply, TP!Reply
<1> QED
  BY <1>1, <1>2, ZenonT(30) DEF Init

(* NoFalsePass, for any number of tests: a notification test that reports  *)
(* success has itself caused the notification to be set, raised its SRI,   *)
(* handled that SRI, read its bit and finished it.  A late SRI of an       *)
(* earlier test, an SRI that comes twice or a fatal error of the TPM never *)
(* stands in for one of these.                                             *)
THEOREM OwnNotificationSeen == Spec => []NoFalsePass
<1> DEFINE All == Inv /\ TP!Inv /\ Watched /\ NoFalsePass
<1>1. Init => All
  BY InitInv, InitService, InitWatched, ZenonT(30)
<1>2. All /\ [Next]_vars => All'
  BY StepInv, ServiceInv, ServiceMeans, StepWatched, ReportTrue, ZenonT(30)
<1>3. All => NoFalsePass
  BY Zenon
<1> HIDE DEF All
<1> QED
  BY <1>1, <1>2, <1>3, PTL DEF Spec

(* ResidueReported, for any number of tests: after tests that all reported *)
(* success or skipped, nothing of them is left: no registration with the   *)
(* service, no bitmap and no binding at the SPMC, no handler and no enabled *)
(* SRI, no granted locality.  Every path of val_tpm_notification_cleanup   *)
(* that leaves something behind makes its test report an error.            *)
THEOREM ResidueNoticed == Spec => []ResidueReported
<1> DEFINE All == Inv /\ TP!Inv /\ Watched /\ Clean
<1>1. Init => All
  BY InitInv, InitService, InitWatched, InitClean, ZenonT(30)
<1>2. All /\ [Next]_vars => All'
  BY StepInv, ServiceInv, ServiceMeans, StepWatched, StepClean, ZenonT(30) DEF Watched
<1>3. All => ResidueReported
  <2> SUFFICES ASSUME All, pc = "idle", ~failed
               PROVE  /\ client = None /\ ~outstanding /\ ~bitmap /\ ~bound /\ ~spBusy
                      /\ handler[Sri] = Null /\ Sri \notin enabled /\ ~locSts[Loc]
    BY Zenon DEF ResidueReported
  <2>1. Fine
    BY ZenonT(30) DEF Inv, ErrorsReported, Clean, ErrorsCount, Fine, Bad
  <2>2. ~ctx.registered /\ ~ctx.created
    BY <2>1, ZenonT(30) DEF Clean, ContextTrue, Registered
  <2>3. client = None /\ ~bitmap /\ ~bound /\ ~spBusy
    BY <2>1, <2>2, ZenonT(30) DEF Clean, ContextTrue
  <2>4. ~outstanding
    BY <2>3, ServiceMeans, Vm1Assumption, ZenonT(30) DEF Service
  <2>5. handler[Sri] = Null /\ Sri \notin enabled
    BY Zenon DEF Inv, HandlersHeld, NotHeld, EnabledHandled
  <2>6. ~locSts[Loc]
    BY <2>1, ZenonT(30) DEF Clean, GrantedWhile, Registered
  <2> QED
    BY <2>3, <2>4, <2>5, <2>6, ZenonT(30)
<1> HIDE DEF All
<1> QED
  BY <1>1, <1>2, <1>3, PTL DEF Spec

\* The NV memory of the TPM has a byte at every address.
LEMMA TpmTypeStep == Tpm!TpmTypeOK /\ [Next]_vars => Tpm!TpmTypeOK'
<1>1. 2 \in Nat \ {0}
  OBVIOUS
<1>2. (Tpm!TpmTypeOK <=> TP!TpmTypeOK) /\ (Tpm!TpmTypeOK' <=> TP!TpmTypeOK')
  BY Zenon DEF TP!TpmTypeOK, Tpm!TpmTypeOK, TP!NvType, Tpm!NvType, TP!NvOffsets, Tpm!NvOffsets
<1>3. TP!TpmTypeOK /\ [TP!TpmNext]_(TP!tpmVars) => TP!TpmTypeOK'
  BY <1>1, ServiceConstants, TP!TypeStep, Zenon DEF TP!ConstantsAssumption
<1> QED
  BY <1>2, <1>3, SameTpm, TpmStep, Zenon

\* The types, as the inductive invariants give them.
LEMMA TypesFollow ==
    ASSUME Inv, TP!Inv, Watched, Clean, GicTyped, FlagsTyped, Counted, Tpm!TpmTypeOK,
           phase \in {"run", "early", "post"}
    PROVE  TypeOK
<1>1. Svc!TypeOK
  BY ZenonT(30) DEF TP!Inv, TP!TypeOK, Svc!TypeOK, TP!CtrlBits, Svc!CtrlBits, TP!Data,
     Svc!Data, TP!Status, Svc!Status, TP!Bits, Svc!Bits
<1>2. Irq!IrqTypeOK
  <2>1. Irq!GicTypeOK
    BY Zenon DEF Irq!GicTypeOK, GicTyped, Inv, Types, IntIds, Watched, Sources
  <2>2. handler \in [{Sri, NsWd} \cup {Spurious} -> {"sri", "watchdog"} \cup {Null}]
    <3>1. {"sri", "watchdog", Null} = {"sri", "watchdog"} \cup {Null}
      BY Zenon
    <3> QED
      BY <3>1, ZenonT(30) DEF Inv, Types, IntIds
  <2> QED
    BY <2>1, <2>2, ZenonT(30) DEF Irq!IrqTypeOK, GicTyped, Inv, Types, IntIds
<1>3. pc \in Steps /\ kind \in Kinds /\ own \subseteq Own /\ status \in {"ok", "skip", "error"}
  BY Zenon DEF Inv, Types, Watched, OwnTrue, Clean, ErrorsCount
<1>4. ctx \in [created : BOOLEAN, bound : BOOLEAN, registered : BOOLEAN,
               sriRegistered : BOOLEAN, sriEnabled : BOOLEAN]
  BY Zenon DEF Inv, Types, Context
<1> QED
  BY <1>1, <1>2, <1>3, <1>4, Zenon DEF TypeOK, FlagsTyped, Counted, Own

(* TypeOK, for the composition of the tests, the service, the TPM, the GIC *)
(* and the SPMC: in particular no operation leaves a register, the handler *)
(* table or the NV memory with an entry missing.                           *)
THEOREM Vm1Types == Spec => []TypeOK
<1> DEFINE All == /\ Inv /\ TP!Inv /\ Watched /\ Clean /\ GicTyped /\ FlagsTyped /\ Counted
                  /\ Tpm!TpmTypeOK /\ phase \in {"run", "early", "post"}
<1>1. Init => All
  <2> SUFFICES ASSUME Init PROVE All
    BY Zenon
  <2>1. Inv /\ TP!Inv /\ Watched /\ Clean
    BY InitInv, InitService, InitWatched, InitClean, ZenonT(30)
  <2>2. GicTyped /\ FlagsTyped
    BY ZenonT(30) DEF Init, GicTyped, FlagsTyped, IntIds, Irq!IrqInit, Irq!GicInit
  <2>3. Counted /\ phase \in {"run", "early", "post"}
    <3>1. /\ pc = "boot" /\ tests = 0 /\ phase = "run"
          /\ last = [kind |-> "command", status |-> "none", own |-> {}]
      BY ZenonT(30) DEF Init
    <3>2. last \in [kind : Kinds, status : {"none", "ok", "skip", "error"}, own : SUBSET Own]
      BY <3>1, ZenonT(30) DEF Kinds
    <3> QED
      BY <3>1, <3>2, Numbers, ZenonT(30) DEF Counted
  <2>4. Tpm!TpmTypeOK
    <3>1. nv \in Tpm!NvType
      BY Zenon DEF Init, Tpm!TpmInit, Tpm!NvType
    <3> QED
      BY <3>1, Zenon DEF Init, Tpm!TpmInit, Tpm!TpmTypeOK
  <2> QED
    BY <2>1, <2>2, <2>3, <2>4, ZenonT(30)
<1>2. All /\ [Next]_vars => All'
  <2> SUFFICES ASSUME All, [Next]_vars PROVE All'
    BY Zenon
  <2>1. Inv' /\ TP!Inv' /\ Watched' /\ Clean'
    BY StepInv, ServiceInv, ServiceMeans, StepWatched, StepClean, ZenonT(30) DEF Watched
  <2>2. GicTyped' /\ FlagsTyped'
    BY GicTypes, FlagTypes, ServiceMeans, ZenonT(30)
  <2>3. Counted' /\ (phase \in {"run", "early", "post"})'
    BY CountTypes, PhaseTypes, ZenonT(30)
  <2> QED
    BY <2>1, <2>2, <2>3, TpmTypeStep, ZenonT(30)
<1>3. All => TypeOK
  BY TypesFollow, Zenon
<1> HIDE DEF All
<1> QED
  BY <1>1, <1>2, <1>3, PTL DEF Spec
=============================================================================
