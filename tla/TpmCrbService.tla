--------------------------- MODULE TpmCrbService ---------------------------
(***************************************************************************)
(* The TPM service of the TPM secure partition                             *)
(* (val/src/val_tpm_crb_service.c).  Clients write the CRB registers and   *)
(* the data buffer of a locality in shared memory, then send an FF-A       *)
(* direct request.  The partition has one execution context and handles a  *)
(* request to completion, so one request is one action: it changes the     *)
(* service's static variables and the registers, and answers the sender.   *)
(*                                                                         *)
(* A registered client's START is deferred: the request is saved, an FF-A  *)
(* notification is set, and FINISH_NOTIFIED carries the request out.       *)
(***************************************************************************)
EXTENDS Naturals

CONSTANTS
    Clients,        \* endpoint ids of the senders of direct requests
    Localities,     \* 0 .. CRB_LOCALITY_MAX
    NotifIds,       \* the notification ids clients register with
    BitmapWidth,    \* 64, the bits of an FF-A notification bitmap
    None            \* no client, no locality, no request

ASSUME ConstantsAssumption ==
    /\ None \notin Clients /\ None \notin Localities
    /\ None \notin NotifIds
    /\ None \notin [loc : Localities, ctrl : SUBSET {"requestAccess", "relinquish"}]
    /\ None \notin [loc : Localities, data : {"command", "response", "unsized"}]
    /\ NotifIds \subseteq Nat
    /\ BitmapWidth \in Nat \ {0}

VARIABLES
    supported,      \* the partition advertises FFA_PARTITION_NOTIFICATION
    active,         \* g_tpm_active_locality, None when > CRB_LOCALITY_MAX
    locCtrl,        \* LOC_CTRL of each locality: its set of valid bits
    locSts,         \* the Granted bit of LOC_STS of each locality
    ctrlStart,      \* the Start bit of CTRL_START of each locality
    dataBuffer,     \* the data buffer of each locality
    client,         \* g_tpm_notification_client, None when not registered
    notifId,        \* g_tpm_notification_id
    outstanding,    \* g_tpm_notification_outstanding
    pendLoc,        \* the deferred locality request, None when not valid
    pendCmd,        \* the deferred command, None when not valid
    reply           \* the direct response of the last request, see Reply

crb == <<locCtrl, locSts, ctrlStart, dataBuffer>>
notification == <<client, notifId, outstanding, pendLoc, pendCmd>>
vars == <<supported, active, crb, notification, reply>>

-----------------------------------------------------------------------------
CtrlBits == {"requestAccess", "relinquish"}

\* A data buffer holds a command, a response of the TPM, or content whose size
\* field is zero (as in untouched memory) or larger than the buffer.  The TPM
\* answers a response handed back to it as a command, too.
Data == {"command", "response", "unsized"}

Status == {"OK", "OK_RESULTS_RETURNED", "NOFUNC", "NOTSUP", "INVARG",
           "INV_CRB_CTRL_DATA", "ALREADY", "DENIED"}

\* What the last request did, as the outside sees it: the answer to its sender,
\* the locality on whose behalf the TPM executed a command, and the notification
\* bit that was set.
Reply(c, s) == [to |-> c, status |-> s, ran |-> None, bit |-> None]
NoReply == Reply(None, "OK")

Bits == 0 .. BitmapWidth - 1

TypeOK ==
    /\ supported \in BOOLEAN
    /\ active \in Localities \cup {None}
    /\ locCtrl \in [Localities -> SUBSET CtrlBits]
    /\ locSts \in [Localities -> BOOLEAN]
    /\ ctrlStart \in [Localities -> BOOLEAN]
    /\ dataBuffer \in [Localities -> Data]
    /\ client \in Clients \cup {None}
    /\ notifId \in NotifIds \cup {None}
    /\ outstanding \in BOOLEAN
    /\ pendLoc \in [loc : Localities, ctrl : SUBSET CtrlBits] \cup {None}
    /\ pendCmd \in [loc : Localities, data : Data] \cup {None}
    /\ reply \in [to : Clients \cup {None}, status : Status,
                  ran : Localities \cup {None}, bit : Bits \cup {None}]

Init ==
    /\ supported \in BOOLEAN
    /\ active = None
    /\ locCtrl = [l \in Localities |-> {}]
    /\ locSts = [l \in Localities |-> FALSE]
    /\ ctrlStart = [l \in Localities |-> FALSE]
    /\ dataBuffer = [l \in Localities |-> "unsized"]
    /\ client = None /\ notifId = None /\ outstanding = FALSE
    /\ pendLoc = None /\ pendCmd = None
    /\ reply = NoReply

-----------------------------------------------------------------------------
(***************************************************************************)
(* The clients' side of the shared memory: any endpoint that maps the CRB  *)
(* may write a control register or the data buffer between two requests.   *)
(* No client writes LOC_STS.                                               *)
(***************************************************************************)
WriteLocCtrl(l, ctrl) ==
    /\ locCtrl' = [locCtrl EXCEPT ![l] = ctrl]
    /\ reply' = NoReply
    /\ UNCHANGED <<supported, active, locSts, ctrlStart, dataBuffer, notification>>

WriteCtrlStart(l, start) ==
    /\ ctrlStart' = [ctrlStart EXCEPT ![l] = start]
    /\ reply' = NoReply
    /\ UNCHANGED <<supported, active, locCtrl, locSts, dataBuffer, notification>>

WriteDataBuffer(l, d) ==
    /\ dataBuffer' = [dataBuffer EXCEPT ![l] = d]
    /\ reply' = NoReply
    /\ UNCHANGED <<supported, active, locCtrl, locSts, ctrlStart, notification>>

-----------------------------------------------------------------------------
\* A request that is answered without any change of state.
Answer(c, s) ==
    /\ reply' = Reply(c, s)
    /\ UNCHANGED <<supported, active, crb, notification>>

GetInterfaceVersion(c) == Answer(c, "OK_RESULTS_RETURNED")

GetFeatureInfo(c, isNotification) ==
    Answer(c, IF ~isNotification THEN "INVARG" ELSE IF supported THEN "OK" ELSE "NOTSUP")

UnknownFunction(c) == Answer(c, "NOFUNC")

\* A start qualifier or a locality out of range.
StartInvalid(c) == Answer(c, "INVARG")

-----------------------------------------------------------------------------
\* Mutation: relinquish clears the Granted bit and keeps the active locality.
ApplyKeepsActive(l, ctrl) ==
    \/ /\ ctrl = {}
       /\ locSts' = [locSts EXCEPT ![l] = (active = l)]
       /\ UNCHANGED active
    \/ /\ "requestAccess" \in ctrl
       /\ locSts' = [locSts EXCEPT ![l] = (active \in {None, l})]
       /\ active' = IF active = None THEN l ELSE active
    \/ /\ ctrl = {"relinquish"}
       /\ locSts' = [locSts EXCEPT ![l] = FALSE]
       /\ UNCHANGED active

\* Mutation: requestAccess without the test that another locality is active.
ApplyAlwaysGrants(l, ctrl) ==
    \/ /\ ctrl = {}
       /\ locSts' = [locSts EXCEPT ![l] = (active = l)]
       /\ UNCHANGED active
    \/ /\ "requestAccess" \in ctrl
       /\ locSts' = [locSts EXCEPT ![l] = TRUE]
       /\ active' = l
    \/ /\ ctrl = {"relinquish"}
       /\ locSts' = [locSts EXCEPT ![l] = FALSE]
       /\ active' = IF active = l THEN None ELSE active

\* requestAccess wins over relinquish when both bits are set.
ApplyLocalityRequest(l, ctrl) ==
    \/ /\ ctrl = {}
       /\ locSts' = [locSts EXCEPT ![l] = (active = l)]
       /\ UNCHANGED active
    \/ /\ "requestAccess" \in ctrl
       /\ locSts' = [locSts EXCEPT ![l] = (active \in {None, l})]
       /\ active' = IF active = None THEN l ELSE active
    \/ /\ ctrl = {"relinquish"}
       /\ locSts' = [locSts EXCEPT ![l] = FALSE]
       /\ active' = IF active = l THEN None ELSE active

\* The registered client has no notification outstanding.
Deferrable(c) == client = c /\ ~outstanding

\* Mutation: the id is taken for a bit position whatever its size.
SignalUnbounded(c, r) ==
    /\ supported /\ client = c /\ ~outstanding
    /\ outstanding' = TRUE
    /\ reply' = [r EXCEPT !.bit = notifId]

\* FFA_NOTIFICATION_SET accepted by the SPMC.  1ULL << id is undefined for an
\* id of 64 or more; the AArch64 shift uses the id modulo 64.
SignalNotification(c, r) ==
    /\ supported /\ client = c /\ ~outstanding
    /\ outstanding' = TRUE
    /\ reply' = [r EXCEPT !.bit = notifId % BitmapWidth]

StartLocalityDeferred(c, l) ==
    /\ Deferrable(c)
    /\ SignalNotification(c, Reply(c, "OK"))
    /\ pendLoc' = [loc |-> l, ctrl |-> locCtrl[l]]
    /\ locCtrl' = [locCtrl EXCEPT ![l] = {}]
    /\ UNCHANGED <<supported, active, locSts, ctrlStart, dataBuffer, client, notifId, pendCmd>>

\* Mutation: the saved request stays valid after it was applied.
FallbackKeepsPending(c, l) ==
    /\ Deferrable(c)
    /\ ApplyLocalityRequest(l, locCtrl[l])
    /\ pendLoc' = [loc |-> l, ctrl |-> {}]
    /\ locCtrl' = [locCtrl EXCEPT ![l] = {}]
    /\ reply' = Reply(c, "OK")
    /\ UNCHANGED <<supported, ctrlStart, dataBuffer, client, notifId, outstanding, pendCmd>>

\* The SPMC refused the notification: the saved request is dropped and applied now.
StartLocalityFallback(c, l) ==
    /\ Deferrable(c)
    /\ ApplyLocalityRequest(l, locCtrl[l])
    /\ pendLoc' = None
    /\ locCtrl' = [locCtrl EXCEPT ![l] = {}]
    /\ reply' = Reply(c, "OK")
    /\ UNCHANGED <<supported, ctrlStart, dataBuffer, client, notifId, outstanding, pendCmd>>

StartLocalityNow(c, l) ==
    /\ ~Deferrable(c)
    /\ ApplyLocalityRequest(l, locCtrl[l])
    /\ locCtrl' = [locCtrl EXCEPT ![l] = {}]
    /\ reply' = Reply(c, "OK")
    /\ UNCHANGED <<supported, ctrlStart, dataBuffer, notification>>

-----------------------------------------------------------------------------
\* The CRB state of l lets a command run.
Executable(l) == active = l /\ locSts[l] /\ ctrlStart[l]

\* Mutation: Start is cleared before the outcome is known.
ExecuteClearsStart(l, d, r) ==
    \/ /\ d # "unsized"
       /\ dataBuffer' = [dataBuffer EXCEPT ![l] = "response"]
       /\ ctrlStart' = [ctrlStart EXCEPT ![l] = FALSE]
       /\ reply' = [r EXCEPT !.ran = l]
    \/ /\ reply' = [r EXCEPT !.status = "INV_CRB_CTRL_DATA"]
       /\ ctrlStart' = [ctrlStart EXCEPT ![l] = FALSE]
       /\ UNCHANGED dataBuffer

\* Runs d for locality l.  On success the response replaces the buffer and Start
\* clears; on a size refused here or by the PAL, or a failing PAL, nothing is written and Start stays.
ExecuteCommand(l, d, r) ==
    \/ /\ d # "unsized"
       /\ dataBuffer' = [dataBuffer EXCEPT ![l] = "response"]
       /\ ctrlStart' = [ctrlStart EXCEPT ![l] = FALSE]
       /\ reply' = [r EXCEPT !.ran = l]
    \/ /\ reply' = [r EXCEPT !.status = "INV_CRB_CTRL_DATA"]
       /\ UNCHANGED <<dataBuffer, ctrlStart>>

StartCommandDeferred(c, l) ==
    /\ Deferrable(c) /\ Executable(l)
    /\ SignalNotification(c, Reply(c, "OK"))
    /\ pendCmd' = [loc |-> l, data |-> dataBuffer[l]]
    /\ UNCHANGED <<supported, active, crb, client, notifId, pendLoc>>

StartCommandFallback(c, l) ==
    /\ Deferrable(c) /\ Executable(l)
    /\ pendCmd' = None
    /\ ExecuteCommand(l, dataBuffer[l], Reply(c, "OK"))
    /\ UNCHANGED <<supported, active, locCtrl, locSts, client, notifId, outstanding, pendLoc>>

StartCommandNow(c, l) ==
    /\ ~Deferrable(c) /\ Executable(l)
    /\ ExecuteCommand(l, dataBuffer[l], Reply(c, "OK"))
    /\ UNCHANGED <<supported, active, locCtrl, locSts, notification>>

\* The CRB state disallows execution: answered with OK, nothing runs.
StartCommandIdle(c, l) == ~Executable(l) /\ Answer(c, "OK")

-----------------------------------------------------------------------------
\* Mutation: the caller is stored before the test for an earlier registration.
RegisterOverwrites(c, id) ==
    /\ id # None /\ supported
    /\ client' = c /\ notifId' = id
    /\ reply' = Reply(c, IF client # None THEN "ALREADY" ELSE "OK")
    /\ UNCHANGED <<supported, active, crb, outstanding, pendLoc, pendCmd>>

\* id = None stands for any argument encoding the service refuses.
RegisterNotification(c, id) ==
    \/ /\ id = None
       /\ Answer(c, "INVARG")
    \/ /\ id # None /\ ~supported
       /\ Answer(c, "NOTSUP")
    \/ /\ id # None /\ supported /\ client # None
       /\ Answer(c, "ALREADY")
    \/ /\ id # None /\ supported /\ client = None
       /\ client' = c /\ notifId' = id /\ outstanding' = FALSE
       /\ reply' = Reply(c, "OK")
       /\ UNCHANGED <<supported, active, crb, pendLoc, pendCmd>>

\* Mutation: no test for an outstanding notification.
UnregisterWhileOutstanding(c) ==
    /\ supported /\ client = c
    /\ client' = None /\ notifId' = None /\ outstanding' = FALSE
    /\ pendLoc' = None /\ pendCmd' = None
    /\ reply' = Reply(c, "OK")
    /\ UNCHANGED <<supported, active, crb>>

ClearNotificationRegistration ==
    /\ client' = None /\ notifId' = None /\ outstanding' = FALSE
    /\ pendLoc' = None /\ pendCmd' = None

UnregisterNotification(c) ==
    \/ /\ ~supported
       /\ Answer(c, "NOTSUP")
    \/ /\ supported /\ (client # c \/ outstanding)
       /\ Answer(c, "DENIED")
    \/ /\ supported /\ Deferrable(c)
       /\ ClearNotificationRegistration
       /\ reply' = Reply(c, "OK")
       /\ UNCHANGED <<supported, active, crb>>

FinishRefused(c) ==
    \/ /\ ~supported
       /\ Answer(c, "NOTSUP")
    \/ /\ supported /\ (client # c \/ ~outstanding)
       /\ Answer(c, "DENIED")

FinishLocality(c) ==
    /\ supported /\ client = c /\ outstanding
    /\ pendLoc # None
    /\ ApplyLocalityRequest(pendLoc.loc, pendLoc.ctrl)
    /\ pendLoc' = None /\ outstanding' = FALSE
    /\ reply' = Reply(c, "OK")
    /\ UNCHANGED <<supported, locCtrl, ctrlStart, dataBuffer, client, notifId, pendCmd>>

\* The saved command runs whatever the CRB state of its locality is by now.
FinishCommand(c) ==
    /\ supported /\ client = c /\ outstanding
    /\ pendLoc = None /\ pendCmd # None
    /\ ExecuteCommand(pendCmd.loc, pendCmd.data, Reply(c, "OK"))
    /\ pendCmd' = None /\ outstanding' = FALSE
    /\ UNCHANGED <<supported, active, locCtrl, locSts, client, notifId, pendLoc>>

-----------------------------------------------------------------------------
ClientWrites ==
    \E l \in Localities :
        \/ \E ctrl \in SUBSET CtrlBits : WriteLocCtrl(l, ctrl)
        \/ \E start \in BOOLEAN : WriteCtrlStart(l, start)
        \/ \E d \in {"command", "unsized"} : WriteDataBuffer(l, d)

HandleStart(c) ==
    \/ StartInvalid(c)
    \/ \E l \in Localities :
        \/ StartLocalityDeferred(c, l)
        \/ StartLocalityFallback(c, l)
        \/ StartLocalityNow(c, l)
        \/ StartCommandDeferred(c, l)
        \/ StartCommandFallback(c, l)
        \/ StartCommandNow(c, l)
        \/ StartCommandIdle(c, l)

HandleRequest(c) ==
    \/ GetInterfaceVersion(c)
    \/ \E isNotification \in BOOLEAN : GetFeatureInfo(c, isNotification)
    \/ HandleStart(c)
    \/ \E id \in NotifIds \cup {None} : RegisterNotification(c, id)
    \/ UnregisterNotification(c)
    \/ FinishRefused(c)
    \/ FinishLocality(c)
    \/ FinishCommand(c)
    \/ UnknownFunction(c)

Next == ClientWrites \/ \E c \in Clients : HandleRequest(c)

Spec == Init /\ [][Next]_vars

-----------------------------------------------------------------------------
(* A locality's Granted bit is set exactly when the service holds that     *)
(* locality active, so no two localities are ever granted together and a   *)
(* relinquished locality is never left looking granted (the two stores of  *)
(* val_tpm_crb_apply_locality_request, on every path that reaches it).     *)
GrantedIffActive == \A l \in Localities : locSts[l] <=> active = l

(* A notification is outstanding exactly while one request is saved, never *)
(* two, and only for a registered client: FINISH_NOTIFIED, which picks the *)
(* locality request first, can neither skip a saved command nor find none. *)
DeferredIffOutstanding ==
    /\ outstanding <=> (pendLoc # None \/ pendCmd # None)
    /\ pendLoc = None \/ pendCmd = None
    /\ outstanding => client # None

(* A saved request stays as it was saved until its own client, still       *)
(* registered afterwards, finishes it: no other START, UNREGISTER or       *)
(* FINISH_NOTIFIED, of that client or of another, drops or replaces it.    *)
DeferredUntilFinished ==
    [][(outstanding /\ <<pendLoc, pendCmd>>' # <<pendLoc, pendCmd>>)
         => /\ reply'.to = client /\ client' = client
            /\ ~outstanding' /\ pendLoc' = None /\ pendCmd' = None]_vars

(* A request that is answered with a service error other than bad control  *)
(* data leaves the registration, the saved request, the active locality    *)
(* and all CRB registers alone.                                            *)
RefusedChangesNothing ==
    [][reply'.status \in {"NOFUNC", "NOTSUP", "INVARG", "ALREADY", "DENIED"}
         => UNCHANGED <<active, crb, notification>>]_vars

(* The service touches a data buffer or a Start bit only to deliver a      *)
(* response: it clears Start and writes the buffer together, for the one   *)
(* locality the command ran for.                                           *)
ResponseHandshake ==
    [][\A l \in Localities :
         (reply'.to # None /\ (\/ ctrlStart'[l] # ctrlStart[l]
                              \/ dataBuffer'[l] # dataBuffer[l]))
            => /\ reply'.ran = l /\ reply'.status = "OK"
               /\ ~ctrlStart'[l] /\ dataBuffer'[l] = "response"]_vars

(* The service implements the promise of LocalityOwnership on the Granted  *)
(* bits that clients read.                                                 *)
Ownership == INSTANCE LocalityOwnership
    WITH granted <- {l \in Localities : locSts[l]}
OwnershipSpec == Ownership!Spec

(* "The TPM service does not execute a TPM command when CRB state          *)
(* disallows execution": a command runs only for a locality that is active *)
(* and granted at that moment.  The code breaks this for a deferred        *)
(* command whose locality was given up meanwhile, see FinishCommand.       *)
NoExecutionWithoutGrant ==
    [][reply'.ran # None => active = reply'.ran /\ locSts[reply'.ran]]_vars
=============================================================================
