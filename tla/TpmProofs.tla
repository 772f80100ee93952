----------------------------- MODULE TpmProofs -----------------------------
(***************************************************************************)
(* The TPM service: it keeps its bookkeeping consistent for any number of  *)
(* clients, localities and notification ids, and implements                *)
(* LocalityOwnership.  Then the platform layer of the TPM: its NV memory   *)
(* operations, for every size of the memory, and its initialisation.       *)
(***************************************************************************)
EXTENDS TpmCrbService, TpmPlatform, TLAPS, SequenceTheorems

\* The id and the client are stored and cleared together, so that an accepted
\* notification has a bit.
IdIffClient == notifId = None <=> client = None

\* The inductive invariant: the three invariants of the runs and IdIffClient,
\* which only the types need.
Inv == TypeOK /\ GrantedIffActive /\ DeferredIffOutstanding /\ IdIffClient

(* val_tpm_crb_apply_locality_request keeps the Granted bits and the       *)
(* active locality in agreement, whichever of its paths is taken.          *)
LEMMA ApplyKeepsGrant ==
    ASSUME TypeOK, GrantedIffActive,
           NEW l \in Localities, NEW ctrl \in SUBSET CtrlBits,
           ApplyLocalityRequest(l, ctrl)
    PROVE  /\ active' \in Localities \cup {None}
           /\ locSts' \in [Localities -> BOOLEAN]
           /\ GrantedIffActive'
<1> USE ConstantsAssumption DEF TypeOK, GrantedIffActive
<1>1. CASE ctrl = {} /\ locSts' = [locSts EXCEPT ![l] = (active = l)] /\ UNCHANGED active
  BY <1>1
<1>2. CASE /\ locSts' = [locSts EXCEPT ![l] = (active \in {None, l})]
           /\ active' = IF active = None THEN l ELSE active
  <2>1. CASE active \in {None, l}
    <3>1. locSts' = [locSts EXCEPT ![l] = TRUE] /\ active' = l
      <4>1. (active \in {None, l}) = TRUE
        BY <2>1
      <4>2. QED
        BY <1>2, <2>1, <4>1
    <3>2. QED
      BY <2>1, <3>1
  <2>2. CASE active \notin {None, l}
    <3>1. locSts' = [locSts EXCEPT ![l] = FALSE] /\ active' = active
      <4>1. (active \in {None, l}) = FALSE
        BY <2>2
      <4>2. QED
        BY <1>2, <2>2, <4>1
    <3>2. QED
      BY <2>2, <3>1
  <2>3. QED
    BY <2>1, <2>2
<1>3. CASE /\ locSts' = [locSts EXCEPT ![l] = FALSE]
           /\ active' = IF active = l THEN None ELSE active
  BY <1>3
<1>4. QED
  BY <1>1, <1>2, <1>3 DEF ApplyLocalityRequest

(* Running a command keeps the registers and the answer well typed.        *)
LEMMA ExecuteTypes ==
    ASSUME TypeOK, NEW l \in Localities, NEW d \in Data, NEW c \in Clients,
           ExecuteCommand(l, d, Reply(c, "OK"))
    PROVE  /\ dataBuffer' \in [Localities -> Data]
           /\ ctrlStart' \in [Localities -> BOOLEAN]
           /\ reply' \in [to : Clients \cup {None}, status : Status,
                          ran : Localities \cup {None}, bit : Bits \cup {None}]
BY ZenonT(30) DEF TypeOK, ExecuteCommand, Reply, Data, Status

(* Every answer the handler builds is well typed.                          *)
LEMMA ReplyTypes ==
    ASSUME NEW c \in Clients \cup {None}, NEW s \in Status
    PROVE  Reply(c, s) \in [to : Clients \cup {None}, status : Status,
                            ran : Localities \cup {None}, bit : Bits \cup {None}]
BY DEF Reply

(* A request answered without a change of state preserves the invariant.   *)
LEMMA AnswerKeepsInv ==
    ASSUME Inv, NEW c \in Clients, NEW s \in Status, Answer(c, s)
    PROVE  Inv'
BY ReplyTypes DEF Inv, TypeOK, GrantedIffActive, DeferredIffOutstanding, IdIffClient, Answer, crb, notification

(* Init establishes the invariant.                                         *)
LEMMA InitInv == Init => Inv
<1> SUFFICES ASSUME Init PROVE Inv
  OBVIOUS
<1>1. NoReply \in [to : Clients \cup {None}, status : Status,
                   ran : Localities \cup {None}, bit : Bits \cup {None}]
  BY DEF NoReply, Reply, Status
<1>2. TypeOK
  BY <1>1 DEF Init, TypeOK, Data
<1>3. GrantedIffActive
  BY ConstantsAssumption DEF Init, GrantedIffActive
<1>4. DeferredIffOutstanding /\ IdIffClient
  BY DEF Init, DeferredIffOutstanding, IdIffClient
<1>5. QED
  BY <1>2, <1>3, <1>4 DEF Inv

(* A client's write to a register or a data buffer preserves the           *)
(* invariant: it reaches neither LOC_STS nor the service's own variables.  *)
LEMMA ClientWritesKeepInv == Inv /\ ClientWrites => Inv'
<1> SUFFICES ASSUME Inv, ClientWrites PROVE Inv'
  OBVIOUS
<1> USE DEF Inv, TypeOK, GrantedIffActive, DeferredIffOutstanding, IdIffClient, notification
<1>0. NoReply \in [to : Clients \cup {None}, status : Status,
                   ran : Localities \cup {None}, bit : Bits \cup {None}]
  BY DEF NoReply, Reply, Status
<1>1. ASSUME NEW l \in Localities, NEW ctrl \in SUBSET CtrlBits, WriteLocCtrl(l, ctrl)
      PROVE  Inv'
  BY <1>0, <1>1 DEF WriteLocCtrl
<1>2. ASSUME NEW l \in Localities, NEW start \in BOOLEAN, WriteCtrlStart(l, start)
      PROVE  Inv'
  BY <1>0, <1>2 DEF WriteCtrlStart
<1>3. ASSUME NEW l \in Localities, NEW d \in Data, WriteDataBuffer(l, d)
      PROVE  Inv'
  BY <1>0, <1>3 DEF WriteDataBuffer
<1>4. QED
  BY <1>1, <1>2, <1>3 DEF ClientWrites, Data

(* Setting the notification yields a bit of the bitmap.                    *)
LEMMA SignalTypes ==
    ASSUME Inv, NEW c \in Clients, SignalNotification(c, Reply(c, "OK"))
    PROVE  reply' \in [to : Clients \cup {None}, status : Status,
                       ran : Localities \cup {None}, bit : Bits \cup {None}]
<1>1. notifId \in Nat /\ BitmapWidth \in Nat \ {0}
  BY ConstantsAssumption DEF Inv, TypeOK, IdIffClient, SignalNotification
<1>2. notifId % BitmapWidth \in Bits
  BY <1>1 DEF Bits
<1>3. QED
  BY <1>2 DEF SignalNotification, Reply, Status

(* START preserves the invariant: a request is saved together with the     *)
(* outstanding flag, or carried out with neither.                          *)
LEMMA StartKeepsInv ==
    ASSUME Inv, NEW c \in Clients, HandleStart(c)
    PROVE  Inv'
<1> USE ConstantsAssumption DEF Inv
<1>r. Reply(c, "OK") \in [to : Clients \cup {None}, status : Status,
                          ran : Localities \cup {None}, bit : Bits \cup {None}]
  BY ReplyTypes DEF Status
<1>1. CASE StartInvalid(c)
  BY <1>1, AnswerKeepsInv DEF StartInvalid, Status
<1>2. ASSUME NEW l \in Localities, StartLocalityDeferred(c, l)
      PROVE  Inv'
  <2> USE <1>2 DEF StartLocalityDeferred
  <2>0. locCtrl[l] \in SUBSET CtrlBits
    BY DEF TypeOK
  <2>1. TypeOK'
    BY <2>0, SignalTypes DEF TypeOK, SignalNotification
  <2>2. GrantedIffActive'
    BY DEF GrantedIffActive
  <2>3. DeferredIffOutstanding' /\ IdIffClient'
    BY <2>0 DEF DeferredIffOutstanding, IdIffClient, SignalNotification, Deferrable, CtrlBits
  <2>4. QED
    BY <2>1, <2>2, <2>3
<1>3. ASSUME NEW l \in Localities, StartLocalityFallback(c, l)
      PROVE  Inv'
  <2> USE <1>3 DEF StartLocalityFallback
  <2>0. locCtrl[l] \in SUBSET CtrlBits
    BY DEF TypeOK
  <2>1. TypeOK' /\ GrantedIffActive'
    BY <1>r, <2>0, ApplyKeepsGrant DEF TypeOK
  <2>2. DeferredIffOutstanding' /\ IdIffClient'
    BY DEF DeferredIffOutstanding, IdIffClient, Deferrable
  <2>3. QED
    BY <2>1, <2>2
<1>4. ASSUME NEW l \in Localities, StartLocalityNow(c, l)
      PROVE  Inv'
  <2> USE <1>4 DEF StartLocalityNow, notification
  <2>0. locCtrl[l] \in SUBSET CtrlBits
    BY DEF TypeOK
  <2>1. TypeOK' /\ GrantedIffActive'
    BY <1>r, <2>0, ApplyKeepsGrant DEF TypeOK
  <2>2. DeferredIffOutstanding' /\ IdIffClient'
    BY DEF DeferredIffOutstanding, IdIffClient
  <2>3. QED
    BY <2>1, <2>2
<1>5. ASSUME NEW l \in Localities, StartCommandDeferred(c, l)
      PROVE  Inv'
  <2> USE <1>5 DEF StartCommandDeferred, crb
  <2>0. dataBuffer[l] \in Data
    BY DEF TypeOK
  <2>1. TypeOK'
    BY <2>0, SignalTypes DEF TypeOK, SignalNotification
  <2>2. GrantedIffActive'
    BY DEF GrantedIffActive
  <2>3. DeferredIffOutstanding' /\ IdIffClient'
    BY <2>0 DEF DeferredIffOutstanding, IdIffClient, SignalNotification, Deferrable, Data
  <2>4. QED
    BY <2>1, <2>2, <2>3
<1>6. ASSUME NEW l \in Localities, StartCommandFallback(c, l)
      PROVE  Inv'
  <2> USE <1>6 DEF StartCommandFallback
  <2>0. dataBuffer[l] \in Data
    BY DEF TypeOK
  <2>1. TypeOK'
    BY <2>0, ExecuteTypes DEF TypeOK
  <2>2. GrantedIffActive'
    BY DEF GrantedIffActive
  <2>3. DeferredIffOutstanding' /\ IdIffClient'
    BY DEF DeferredIffOutstanding, IdIffClient, Deferrable
  <2>4. QED
    BY <2>1, <2>2, <2>3
<1>7. ASSUME NEW l \in Localities, StartCommandNow(c, l)
      PROVE  Inv'
  <2> USE <1>7 DEF StartCommandNow, notification
  <2>0. dataBuffer[l] \in Data
    BY DEF TypeOK
  <2>1. TypeOK'
    BY <2>0, ExecuteTypes DEF TypeOK
  <2>2. GrantedIffActive'
    BY DEF GrantedIffActive
  <2>3. DeferredIffOutstanding' /\ IdIffClient'
    BY DEF DeferredIffOutstanding, IdIffClient
  <2>4. QED
    BY <2>1, <2>2, <2>3
<1>8. ASSUME NEW l \in Localities, StartCommandIdle(c, l)
      PROVE  Inv'
  BY <1>8, AnswerKeepsInv DEF StartCommandIdle, Status
<1>9. QED
  BY <1>1, <1>2, <1>3, <1>4, <1>5, <1>6, <1>7, <1>8 DEF HandleStart

(* Registering and unregistering preserve the invariant: a registration    *)
(* starts and ends with nothing saved.                                     *)
LEMMA RegistrationKeepsInv ==
    ASSUME Inv, NEW c \in Clients,
           \/ \E id \in NotifIds \cup {None} : RegisterNotification(c, id)
           \/ UnregisterNotification(c)
    PROVE  Inv'
<1> USE ConstantsAssumption DEF Inv
<1>r. Reply(c, "OK") \in [to : Clients \cup {None}, status : Status,
                          ran : Localities \cup {None}, bit : Bits \cup {None}]
  BY ReplyTypes DEF Status
<1>1. ASSUME NEW s \in Status, Answer(c, s)
      PROVE  Inv'
  BY <1>1, AnswerKeepsInv
<1>2. ASSUME NEW id \in NotifIds, client = None,
             client' = c, notifId' = id, outstanding' = FALSE, reply' = Reply(c, "OK"),
             UNCHANGED <<supported, active, crb, pendLoc, pendCmd>>
      PROVE  Inv'
  <2>1. TypeOK'
    BY <1>r, <1>2 DEF TypeOK, crb
  <2>2. GrantedIffActive' /\ DeferredIffOutstanding' /\ IdIffClient'
    BY <1>2 DEF GrantedIffActive, DeferredIffOutstanding, IdIffClient, crb
  <2>3. QED
    BY <2>1, <2>2
<1>3. ASSUME client' = None, notifId' = None, outstanding' = FALSE,
             pendLoc' = None, pendCmd' = None, reply' = Reply(c, "OK"),
             UNCHANGED <<supported, active, crb>>
      PROVE  Inv'
  <2>1. TypeOK'
    BY <1>r, <1>3 DEF TypeOK, crb
  <2>2. GrantedIffActive' /\ DeferredIffOutstanding' /\ IdIffClient'
    BY <1>3 DEF GrantedIffActive, DeferredIffOutstanding, IdIffClient, crb
  <2>3. QED
    BY <2>1, <2>2
<1>4. QED
  BY <1>1, <1>2, <1>3 DEF RegisterNotification, UnregisterNotification,
      ClearNotificationRegistration, Status

(* FINISH_NOTIFIED preserves the invariant: the one saved request and the  *)
(* outstanding flag go together.                                           *)
LEMMA FinishKeepsInv ==
    ASSUME Inv, NEW c \in Clients,
           FinishRefused(c) \/ FinishLocality(c) \/ FinishCommand(c)
    PROVE  Inv'
<1> USE DEF Inv
<1>r. Reply(c, "OK") \in [to : Clients \cup {None}, status : Status,
                          ran : Localities \cup {None}, bit : Bits \cup {None}]
  BY ReplyTypes DEF Status
<1>1. CASE FinishRefused(c)
  BY <1>1, AnswerKeepsInv DEF FinishRefused, Status
<1>2. CASE FinishLocality(c)
  <2> USE <1>2 DEF FinishLocality
  <2>0. pendLoc.loc \in Localities /\ pendLoc.ctrl \in SUBSET CtrlBits
    BY DEF TypeOK
  <2>1. TypeOK' /\ GrantedIffActive'
    BY <1>r, <2>0, ApplyKeepsGrant DEF TypeOK
  <2>2. DeferredIffOutstanding' /\ IdIffClient'
    BY DEF DeferredIffOutstanding, IdIffClient
  <2>3. QED
    BY <2>1, <2>2
<1>3. CASE FinishCommand(c)
  <2> USE <1>3 DEF FinishCommand
  <2>0. pendCmd.loc \in Localities /\ pendCmd.data \in Data
    BY DEF TypeOK
  <2>1. TypeOK'
    BY <2>0, ExecuteTypes DEF TypeOK
  <2>2. GrantedIffActive' /\ DeferredIffOutstanding' /\ IdIffClient'
    BY DEF GrantedIffActive, DeferredIffOutstanding, IdIffClient
  <2>3. QED
    BY <2>1, <2>2
<1>4. QED
  BY <1>1, <1>2, <1>3

(* Every step of the service or of a client preserves the invariant.       *)
LEMMA NextKeepsInv == Inv /\ [Next]_vars => Inv'
<1> SUFFICES ASSUME Inv, [Next]_vars PROVE Inv'
  OBVIOUS
<1>1. CASE ClientWrites
  BY <1>1, ClientWritesKeepInv
<1>2. ASSUME NEW c \in Clients, HandleRequest(c)
      PROVE  Inv'
  <2>1. ASSUME NEW s \in Status, Answer(c, s)
        PROVE  Inv'
    BY <2>1, AnswerKeepsInv
  <2>2. CASE \/ GetInterfaceVersion(c) \/ UnknownFunction(c)
             \/ \E isNotification \in BOOLEAN : GetFeatureInfo(c, isNotification)
    BY <2>1, <2>2 DEF GetInterfaceVersion, UnknownFunction, GetFeatureInfo, Status
  <2>3. QED
    BY <1>2, <2>2, StartKeepsInv, RegistrationKeepsInv, FinishKeepsInv DEF HandleRequest
<1>3. CASE UNCHANGED vars
  BY <1>3 DEF vars, crb, notification, Inv, TypeOK, GrantedIffActive,
              DeferredIffOutstanding, IdIffClient
<1>4. QED
  BY <1>1, <1>2, <1>3 DEF Next

-----------------------------------------------------------------------------
(* The inductive invariant holds in every reachable state.                 *)
THEOREM ServiceInvariant == Spec => []Inv
BY InitInv, NextKeepsInv, PTL DEF Spec

(* Every variable keeps its type.                                          *)
THEOREM ServiceTypes == Spec => []TypeOK
<1>1. Inv => TypeOK
  BY DEF Inv
<1>2. QED
  BY <1>1, ServiceInvariant, PTL

(* The Granted bits clients read and the service's active locality agree,  *)
(* for any set of localities: never two grants, never a stale one.         *)
THEOREM GrantsAgree == Spec => []GrantedIffActive
<1>1. Inv => GrantedIffActive
  BY DEF Inv
<1>2. QED
  BY <1>1, ServiceInvariant, PTL

(* A notification is outstanding exactly while one request of a registered *)
(* client is saved.                                                        *)
THEOREM OneDeferredRequest == Spec => []DeferredIffOutstanding
<1>1. Inv => DeferredIffOutstanding
  BY DEF Inv
<1>2. QED
  BY <1>1, ServiceInvariant, PTL

-----------------------------------------------------------------------------
\* What one step does to the active locality: nothing, a grant, or a release.
ActiveStep == active' = active \/ active = None \/ active' = None

(* No step hands the TPM from one locality directly to another.            *)
LEMMA NextActiveStep == Next => ActiveStep
<1> SUFFICES ASSUME Next PROVE ActiveStep
  OBVIOUS
<1> USE DEF ActiveStep
<1>1. CASE ClientWrites
  BY <1>1 DEF ClientWrites, WriteLocCtrl, WriteCtrlStart, WriteDataBuffer
<1>2. ASSUME NEW c \in Clients, HandleRequest(c)
      PROVE  ActiveStep
  <2>1. ASSUME NEW s, Answer(c, s)
        PROVE  ActiveStep
    BY <2>1 DEF Answer
  <2>2. ASSUME NEW l, NEW ctrl, ApplyLocalityRequest(l, ctrl)
        PROVE  ActiveStep
    BY <2>2 DEF ApplyLocalityRequest
  <2>3. ASSUME HandleStart(c)
        PROVE  ActiveStep
    BY <2>1, <2>2, <2>3 DEF HandleStart, StartInvalid, StartLocalityDeferred,
       StartLocalityFallback, StartLocalityNow, StartCommandDeferred,
       StartCommandFallback, StartCommandNow, StartCommandIdle
  <2>4. ASSUME FinishRefused(c) \/ FinishLocality(c) \/ FinishCommand(c)
        PROVE  ActiveStep
    BY <2>1, <2>2, <2>4 DEF FinishRefused, FinishLocality, FinishCommand
  <2>5. ASSUME NEW id, RegisterNotification(c, id) \/ UnregisterNotification(c)
        PROVE  ActiveStep
    BY <2>1, <2>5 DEF RegisterNotification, UnregisterNotification,
      ClearNotificationRegistration
  <2>6. ASSUME NEW b, GetInterfaceVersion(c) \/ UnknownFunction(c) \/ GetFeatureInfo(c, b)
        PROVE  ActiveStep
    BY <2>1, <2>6 DEF GetInterfaceVersion, UnknownFunction, GetFeatureInfo
  <2>7. QED
    BY <1>2, <2>3, <2>4, <2>5, <2>6 DEF HandleRequest
<1>3. QED
  BY <1>1, <1>2 DEF Next

(* The service implements LocalityOwnership: the set of granted localities *)
(* is the singleton of the active one, so a grant is an Acquire, a release *)
(* a Relinquish, and every other step leaves the set alone.                *)
THEOREM ServiceOwnership == Spec => OwnershipSpec
<1> DEFINE granted == {l \in Localities : locSts[l]}
<1>1. Init => Ownership!Init
  BY DEF Init, Ownership!Init
<1>2. ASSUME Inv, Inv', [Next]_vars
      PROVE  [Ownership!Next]_granted
  <2>1. ActiveStep
    BY <1>2, NextActiveStep DEF vars, ActiveStep
  <2>2. granted = {l \in Localities : active = l}
    BY <1>2 DEF Inv, GrantedIffActive
  <2>3. granted' = {l \in Localities : active' = l}
    BY <1>2 DEF Inv, GrantedIffActive
  <2>4. active \in Localities \cup {None} /\ active' \in Localities \cup {None}
    BY <1>2 DEF Inv, TypeOK
  <2> HIDE DEF granted
  <2>5. CASE active' = active
    BY <2>2, <2>3, <2>5
  <2>6. CASE active = None /\ active' # None
    <3>1. granted = {} /\ granted' = {active'} /\ active' \in Localities
      BY <2>2, <2>3, <2>4, <2>6, ConstantsAssumption
    <3>2. QED
      BY <3>1 DEF Ownership!Next, Ownership!Acquire, granted
  <2>7. CASE active # None /\ active' = None
    <3>1. granted = {active} /\ granted' = {} /\ active \in Localities
      BY <2>2, <2>3, <2>4, <2>7, ConstantsAssumption
    <3>2. QED
      BY <3>1 DEF Ownership!Next, Ownership!Relinquish, granted
  <2>8. QED
    BY <2>1, <2>5, <2>6, <2>7 DEF ActiveStep
<1>3. QED
  BY <1>1, <1>2, ServiceInvariant, PTL DEF Spec, OwnershipSpec, Ownership!Spec

-----------------------------------------------------------------------------
\* The step that DeferredUntilFinished allows while a request is saved.
KeptOrFinished ==
    (outstanding /\ <<pendLoc, pendCmd>>' # <<pendLoc, pendCmd>>)
        => /\ reply'.to = client /\ client' = client
           /\ ~outstanding' /\ pendLoc' = None /\ pendCmd' = None

(* While a request is saved, START is never deferrable and UNREGISTER is   *)
(* refused, so only FINISH_NOTIFIED of its client removes it.              *)
LEMMA NextKeepsDeferred == Inv /\ Next => KeptOrFinished
<1> SUFFICES ASSUME Inv, Next, outstanding PROVE KeptOrFinished
  BY DEF KeptOrFinished
<1> USE DEF KeptOrFinished
<1>1. CASE ClientWrites
  BY <1>1 DEF ClientWrites, WriteLocCtrl, WriteCtrlStart, WriteDataBuffer, notification
<1>2. ASSUME NEW c \in Clients, HandleRequest(c)
      PROVE  KeptOrFinished
  <2>1. ASSUME NEW s, Answer(c, s)
        PROVE  KeptOrFinished
    BY <2>1 DEF Answer, notification
  <2>2. ASSUME HandleStart(c)
        PROVE  KeptOrFinished
    BY <2>1, <2>2 DEF HandleStart, StartInvalid, StartLocalityDeferred,
       StartLocalityFallback, StartLocalityNow, StartCommandDeferred, Deferrable,
       StartCommandFallback, StartCommandNow, StartCommandIdle, notification
  <2>3. ASSUME FinishLocality(c)
        PROVE  KeptOrFinished
    BY <2>3 DEF FinishLocality, Inv, DeferredIffOutstanding, Reply
  <2>4. ASSUME FinishCommand(c)
        PROVE  KeptOrFinished
    <3>1. reply'.to = c
      BY <2>4 DEF FinishCommand, ExecuteCommand, Reply
    <3>2. QED
      BY <2>4, <3>1 DEF FinishCommand, Inv, DeferredIffOutstanding
  <2>5. ASSUME NEW id, \/ RegisterNotification(c, id) \/ UnregisterNotification(c)
                       \/ FinishRefused(c)
        PROVE  KeptOrFinished
    BY <2>1, <2>5 DEF RegisterNotification, UnregisterNotification,
      ClearNotificationRegistration, FinishRefused,
       Deferrable, Inv, DeferredIffOutstanding
  <2>6. ASSUME NEW b, GetInterfaceVersion(c) \/ UnknownFunction(c) \/ GetFeatureInfo(c, b)
        PROVE  KeptOrFinished
    BY <2>1, <2>6 DEF GetInterfaceVersion, UnknownFunction, GetFeatureInfo
  <2>7. QED
    BY <1>2, <2>2, <2>3, <2>4, <2>5, <2>6 DEF HandleRequest
<1>3. QED
  BY <1>1, <1>2 DEF Next

(* A saved request is neither dropped nor replaced until its own client    *)
(* finishes it, whatever other requests arrive in between.                 *)
THEOREM DeferredRequestKept == Spec => DeferredUntilFinished
<1>1. Inv /\ [Next]_vars => [KeptOrFinished]_vars
  BY NextKeepsDeferred
<1>2. QED
  BY <1>1, ServiceInvariant, PTL DEF Spec, DeferredUntilFinished, KeptOrFinished

-----------------------------------------------------------------------------
Refusals == {"NOFUNC", "NOTSUP", "INVARG", "ALREADY", "DENIED"}

\* The steps that RefusedChangesNothing and ResponseHandshake allow.
RefusedStep == reply'.status \in Refusals => UNCHANGED <<active, crb, notification>>

Handshake(l) ==
    (reply'.to # None /\ (\/ ctrlStart'[l] # ctrlStart[l]
                         \/ dataBuffer'[l] # dataBuffer[l]))
        => /\ reply'.ran = l /\ reply'.status = "OK"
           /\ ~ctrlStart'[l] /\ dataBuffer'[l] = "response"

(* Executing a command refuses nothing, and writes the buffer and Start of *)
(* the one locality it runs for, both or neither.                          *)
LEMMA ExecuteSteps ==
    ASSUME TypeOK, NEW c \in Clients, NEW k \in Localities, NEW d,
           ExecuteCommand(k, d, Reply(c, "OK"))
    PROVE  RefusedStep /\ \A l \in Localities : Handshake(l)
<1>1. CASE /\ dataBuffer' = [dataBuffer EXCEPT ![k] = "response"]
           /\ ctrlStart' = [ctrlStart EXCEPT ![k] = FALSE]
           /\ reply' = [Reply(c, "OK") EXCEPT !.ran = k]
  <2>1. reply'.ran = k /\ reply'.status = "OK"
    BY <1>1 DEF Reply
  <2>2. ~ctrlStart'[k] /\ dataBuffer'[k] = "response"
    BY <1>1 DEF TypeOK
  <2>3. \A l \in Localities \ {k} :
            ctrlStart'[l] = ctrlStart[l] /\ dataBuffer'[l] = dataBuffer[l]
    BY <1>1 DEF TypeOK
  <2> QED
    BY <2>1, <2>2, <2>3 DEF RefusedStep, Refusals, Handshake
<1>2. CASE /\ reply' = [Reply(c, "OK") EXCEPT !.status = "INV_CRB_CTRL_DATA"]
           /\ UNCHANGED <<dataBuffer, ctrlStart>>
  BY <1>2 DEF RefusedStep, Refusals, Handshake, Reply
<1> QED
  BY <1>1, <1>2 DEF ExecuteCommand

(* Only the execution of a command goes to the data buffer or Start, and a *)
(* refusal goes nowhere.                                                   *)
LEMMA NextSteps == Inv /\ Next => RefusedStep /\ \A l \in Localities : Handshake(l)
<1> SUFFICES ASSUME Inv, Next PROVE RefusedStep /\ \A l \in Localities : Handshake(l)
  OBVIOUS
<1>1. CASE ClientWrites
  BY <1>1 DEF ClientWrites, WriteLocCtrl, WriteCtrlStart, WriteDataBuffer, NoReply, Reply,
              RefusedStep, Refusals, Handshake
<1>2. ASSUME NEW c \in Clients, HandleRequest(c)
      PROVE  RefusedStep /\ \A l \in Localities : Handshake(l)
  <2>1. ASSUME NEW s, Answer(c, s)
        PROVE  RefusedStep /\ \A l \in Localities : Handshake(l)
    BY <2>1 DEF Answer, RefusedStep, Handshake, crb
  <2>2. ASSUME reply'.status = "OK", UNCHANGED <<ctrlStart, dataBuffer>>
        PROVE  RefusedStep /\ \A l \in Localities : Handshake(l)
    BY <2>2 DEF RefusedStep, Refusals, Handshake
  <2>3. ASSUME NEW k \in Localities,
               \/ StartLocalityDeferred(c, k) \/ StartCommandDeferred(c, k)
               \/ StartLocalityFallback(c, k) \/ StartLocalityNow(c, k)
        PROVE  RefusedStep /\ \A l \in Localities : Handshake(l)
    BY <2>2, <2>3 DEF StartLocalityDeferred, StartCommandDeferred, SignalNotification,
       StartLocalityFallback, StartLocalityNow, Reply, crb
  <2>4. ASSUME NEW k \in Localities, StartCommandFallback(c, k) \/ StartCommandNow(c, k)
        PROVE  RefusedStep /\ \A l \in Localities : Handshake(l)
    BY <2>4, ExecuteSteps DEF StartCommandFallback, StartCommandNow, Inv
  <2>5. ASSUME HandleStart(c)
        PROVE  RefusedStep /\ \A l \in Localities : Handshake(l)
    BY <2>1, <2>3, <2>4, <2>5 DEF HandleStart, StartInvalid, StartCommandIdle
  <2>6. ASSUME NEW id, RegisterNotification(c, id) \/ UnregisterNotification(c)
        PROVE  RefusedStep /\ \A l \in Localities : Handshake(l)
    BY <2>1, <2>2, <2>6 DEF RegisterNotification, UnregisterNotification, Reply, crb
  <2>7. ASSUME FinishLocality(c)
        PROVE  RefusedStep /\ \A l \in Localities : Handshake(l)
    BY <2>2, <2>7 DEF FinishLocality, Reply
  <2>8. ASSUME FinishCommand(c)
        PROVE  RefusedStep /\ \A l \in Localities : Handshake(l)
    <3>1. pendCmd.loc \in Localities
      BY <2>8 DEF FinishCommand, Inv, TypeOK
    <3> QED
      BY <2>8, <3>1, ExecuteSteps DEF FinishCommand, Inv
  <2>9. ASSUME NEW b, \/ GetInterfaceVersion(c) \/ UnknownFunction(c) \/ GetFeatureInfo(c, b)
                      \/ FinishRefused(c)
        PROVE  RefusedStep /\ \A l \in Localities : Handshake(l)
    BY <2>1, <2>9 DEF GetInterfaceVersion, UnknownFunction, GetFeatureInfo, FinishRefused
  <2> QED
    BY <1>2, <2>5, <2>6, <2>7, <2>8, <2>9 DEF HandleRequest
<1> QED
  BY <1>1, <1>2 DEF Next

(* A request answered with NOFUNC, NOTSUP, INVARG, ALREADY or DENIED has   *)
(* left the registration, the saved request and the registers as they      *)
(* were, for any number of clients and localities.                         *)
THEOREM RefusalsChangeNothing == Spec => RefusedChangesNothing
<1>1. Inv /\ [Next]_vars => [RefusedStep]_vars
  BY NextSteps
<1> QED
  BY <1>1, ServiceInvariant, PTL DEF Spec, RefusedChangesNothing, RefusedStep, Refusals

(* The service delivers a response and clears Start in one, and writes     *)
(* neither for any other reason or locality.                               *)
THEOREM ResponsesHandshake == Spec => ResponseHandshake
<1>1. Inv /\ [Next]_vars => [\A l \in Localities : Handshake(l)]_vars
  BY NextSteps
<1> QED
  BY <1>1, ServiceInvariant, PTL DEF Spec, ResponseHandshake, Handshake

-----------------------------------------------------------------------------
(* The platform layer.                                                     *)

\* A range that pal_tpm_nv_range_valid accepts lies inside the memory: no
\* address of it reaches past the end, whatever offset and size are asked for.
THEOREM ValidRangeInside ==
    ASSUME NV_MEMORY_SIZE \in Nat, NEW offset \in Nat, NEW size \in Nat,
           pal_tpm_nv_range_valid(offset, size), NEW k \in 0 .. size - 1
    PROVE  offset + k \in NvOffsets
  BY DEF pal_tpm_nv_range_valid, NvOffsets

\* _plat__NvMemoryWrite: reading back a range just written gives what was
\* written, and _plat__NvGetChangedStatus sees no change to it.
THEOREM ReadAfterWrite ==
    ASSUME NV_MEMORY_SIZE \in Nat, NEW n, NEW S, NEW data \in Seq(S), NEW offset \in Nat,
           pal_tpm_nv_range_valid(offset, Len(data)), data # <<>>
    PROVE  LET written == _plat__NvMemoryWrite(n, offset, data)
           IN  /\ _plat__NvMemoryRead(written, offset, Len(data)) = data
               /\ ~_plat__NvGetChangedStatus(written, offset, data)
<1> DEFINE w == Updated(n, offset, Len(data), data, FALSE)
<1>1. Len(data) \in Nat \ {0} /\ DOMAIN data = 1 .. Len(data)
      /\ data = [k \in 1 .. Len(data) |-> data[k]]
  BY EmptySeq, LenProperties
<1>2. ASSUME NEW k \in 1 .. Len(data)
      PROVE  w.byte[offset + k - 1] = data[k]
  <2>1. offset + k - 1 \in NvOffsets
    BY <1>1, <1>2, ValidRangeInside, k - 1 \in 0 .. Len(data) - 1, offset + (k - 1) = offset + k - 1
  <2>2. offset <= offset + k - 1 /\ offset + k - 1 < offset + Len(data)
        /\ (offset + k - 1) - offset + 1 = k
    BY <1>1, <1>2
  <2> HIDE DEF w
  <2>3. w.byte[offset + k - 1] =
           IF offset <= offset + k - 1 /\ offset + k - 1 < offset + Len(data)
           THEN data[(offset + k - 1) - offset + 1] ELSE n.byte[offset + k - 1]
    BY <1>1, <2>1 DEF w, Updated
  <2> QED BY <2>2, <2>3
<1> HIDE DEF w
<1>3. [k \in 1 .. Len(data) |-> w.byte[offset + k - 1]] = [k \in 1 .. Len(data) |-> data[k]]
  BY <1>2
<1>4. _plat__NvMemoryRead(w, offset, Len(data)) = data
  BY <1>1, <1>3 DEF _plat__NvMemoryRead
<1>5. _plat__NvMemoryWrite(n, offset, data) = w
  BY DEF _plat__NvMemoryWrite, w
<1> QED BY <1>4, <1>5 DEF _plat__NvGetChangedStatus

\* _plat__NvMemoryMove: the destination then reads as the source did before,
\* also when the two ranges overlap, and every other address is as it was.
THEOREM MoveCopies ==
    ASSUME NV_MEMORY_SIZE \in Nat, NEW n, NEW source \in Nat, NEW dest \in Nat,
           NEW size \in Nat \ {0},
           pal_tpm_nv_range_valid(source, size), pal_tpm_nv_range_valid(dest, size)
    PROVE  LET moved == _plat__NvMemoryMove(n, source, dest, size)
           IN  /\ _plat__NvMemoryRead(moved, dest, size) =
                      _plat__NvMemoryRead(n, source, size)
               /\ \A a \in NvOffsets :
                      a < dest \/ dest + size <= a => moved.byte[a] = n.byte[a]
<1> DEFINE old == _plat__NvMemoryRead(n, source, size)
           moved == Updated(n, dest, size, old, FALSE)
<1>1. ASSUME NEW a \in NvOffsets
      PROVE  moved.byte[a] = IF dest <= a /\ a < dest + size
                             THEN old[a - dest + 1] ELSE n.byte[a]
  <2> HIDE DEF old
  <2> QED BY DEF moved, Updated
<1>2. ASSUME NEW k \in 1 .. size
      PROVE  moved.byte[dest + k - 1] = old[k]
  <2>1. dest + k - 1 \in NvOffsets
    BY <1>2, ValidRangeInside, k - 1 \in 0 .. size - 1, dest + (k - 1) = dest + k - 1
  <2>2. dest <= dest + k - 1 /\ dest + k - 1 < dest + size /\ (dest + k - 1) - dest + 1 = k
    BY <1>2
  <2> HIDE DEF old, moved
  <2>3. moved.byte[dest + k - 1] =
            IF dest <= dest + k - 1 /\ dest + k - 1 < dest + size
            THEN old[(dest + k - 1) - dest + 1] ELSE n.byte[dest + k - 1]
    BY <1>1, <2>1
  <2> QED BY <2>2, <2>3
<1>3. _plat__NvMemoryRead(moved, dest, size) = old
  <2>1. old = [k \in 1 .. size |-> old[k]]
    BY DEF old, _plat__NvMemoryRead
  <2> HIDE DEF old, moved
  <2> QED BY <1>2, <2>1 DEF _plat__NvMemoryRead
<1>4. ASSUME NEW a \in NvOffsets, a < dest \/ dest + size <= a
      PROVE  moved.byte[a] = n.byte[a]
  <2>1. ~(dest <= a /\ a < dest + size)
    BY <1>4 DEF NvOffsets
  <2> HIDE DEF old, moved
  <2> QED BY <1>1, <1>4, <2>1
<1>5. _plat__NvMemoryMove(n, source, dest, size) = moved
  BY DEF _plat__NvMemoryMove, moved, old
<1> HIDE DEF moved, old
<1> QED BY <1>3, <1>4, <1>5 DEF old

-----------------------------------------------------------------------------

\* A complete manufacture leaves the memory marked manufactured: the clear
\* marks it, and the writes that follow take the mark away.
LEMMA ManufactureMarks ==
    ASSUME NV_MEMORY_SIZE \in Nat \ {0}, NEW size \in 1 .. NV_MEMORY_SIZE, NvWrites(size)
    PROVE  nv'.needsManufacture = FALSE
<1>1. Image \in Seq({"data"}) /\ Len(Image) = NV_MEMORY_SIZE
  BY DEF Image
<1>2. Len(SubSeq(Image, 1, size)) = size
  BY <1>1, SubSeqProperties
<1>3. pal_tpm_nv_range_valid(0, size) /\ size # 0
  BY DEF pal_tpm_nv_range_valid
<1> QED BY <1>2, <1>3 DEF NvWrites, _plat__NvMemoryWrite, Updated

\* Neither a command nor a fatal error makes an initialised TPM unready.
LEMMA ReadyStep ==
    ASSUME NV_MEMORY_SIZE \in Nat \ {0}, ReadyWhenInitialized, [TpmNext]_tpmVars
    PROVE  ReadyWhenInitialized'
<1>1. ASSUME Manufacture(TRUE) PROVE ~nv'.needsManufacture
  <2>1. CASE ~nv.needsManufacture /\ UNCHANGED nv
    BY <2>1
  <2>2. CASE NvWrites(NV_MEMORY_SIZE)
    <3>1. NV_MEMORY_SIZE \in 1 .. NV_MEMORY_SIZE
      OBVIOUS
    <3>2. nv'.needsManufacture = FALSE
      BY <2>2, <3>1, ManufactureMarks, Zenon
    <3> QED BY <3>2
  <2> QED BY <1>1, <2>1, <2>2 DEF Manufacture
<1>2. ASSUME NEW ok \in BOOLEAN, pal_tpm_init(ok) PROVE ReadyWhenInitialized'
  <2>1. CASE Manufacture(TRUE) /\ pal_tpm_startup(ok) /\ initialized' = ok
    BY <1>1, <1>2, <2>1
       DEF pal_tpm_init, pal_tpm_startup, _plat__NVEnable, ReadyWhenInitialized
  <2>2. CASE UNCHANGED initialized
    BY <1>2, <2>2 DEF pal_tpm_init, ReadyWhenInitialized
  <2> QED BY <1>2, <2>1, <2>2 DEF pal_tpm_init
<1>3. CASE UNCHANGED <<initialized, nvReady, nv, started>>
  BY <1>3 DEF ReadyWhenInitialized
<1>4. CASE \E ok \in BOOLEAN : pal_tpm_execute_command(ok)
  BY <1>2, <1>3, <1>4 DEF pal_tpm_execute_command
<1>5. CASE Fail
  BY <1>3, <1>5 DEF Fail
<1> QED BY <1>3, <1>4, <1>5 DEF TpmNext, tpmVars

\* pal_tpm_init and pal_tpm_execute_command: the TPM is taken for initialised
\* only with its NV memory enabled and marked manufactured and after a good
\* TPM2_Startup, for every size of the NV memory and every sequence of failures.
THEOREM TpmReady ==
    ASSUME NV_MEMORY_SIZE \in Nat \ {0}
    PROVE  TpmSpec => []ReadyWhenInitialized
<1>1. TpmInit => ReadyWhenInitialized
  BY DEF TpmInit, ReadyWhenInitialized
<1>2. ReadyWhenInitialized /\ [TpmNext]_tpmVars => ReadyWhenInitialized'
  BY ReadyStep
<1> QED BY <1>1, <1>2, PTL DEF TpmSpec

\* Every operation on the NV memory leaves a byte at every address.
LEMMA UpdatedTyped ==
    ASSUME NV_MEMORY_SIZE \in Nat, NEW n \in NvType, NEW offset \in Nat, NEW size \in Nat,
           NEW needed \in BOOLEAN, NEW data,
           \A k \in 1 .. size : data[k] \in {"zero", "ones", "data"}
    PROVE  Updated(n, offset, size, data, needed) \in NvType
<1>1. ASSUME NEW a \in NvOffsets, offset <= a, a < offset + size
      PROVE  data[a - offset + 1] \in {"zero", "ones", "data"}
  <2>1. a - offset + 1 \in 1 .. size
    BY <1>1 DEF NvOffsets
  <2> QED
    BY <2>1
<1>2. ASSUME NEW a \in NvOffsets PROVE n.byte[a] \in {"zero", "ones", "data"}
  BY <1>2 DEF NvType
<1> QED
  BY <1>1, <1>2 DEF Updated, NvType

\* A manufacture of the TPM clears the NV memory and writes what it got to.
LEMMA NvWritesTyped ==
    ASSUME NV_MEMORY_SIZE \in Nat, nv \in NvType, NEW size \in 0 .. NV_MEMORY_SIZE,
           NvWrites(size)
    PROVE  nv' \in NvType
<1> DEFINE ones == [k \in 1 .. NV_MEMORY_SIZE |-> "ones"]
           cleared == Updated(nv, 0, NV_MEMORY_SIZE, ones, TRUE)
           image == SubSeq(Image, 1, size)
<1>1. cleared \in NvType
  <2>1. \A k \in 1 .. NV_MEMORY_SIZE : ones[k] \in {"zero", "ones", "data"}
    OBVIOUS
  <2> HIDE DEF ones
  <2> QED
    BY <2>1, UpdatedTyped
<1>2. Len(image) = size /\ size \in Nat /\ \A k \in 1 .. size : image[k] \in {"zero", "ones", "data"}
  <2>1. Image \in Seq({"data"}) /\ Len(Image) = NV_MEMORY_SIZE
    BY DEF Image
  <2> QED
    BY <2>1, SubSeqProperties DEF Image
<1>3. nv' = Updated(cleared, 0, size, image, FALSE)
  BY <1>2 DEF NvWrites, _plat__NvMemoryWrite, _plat__NvMemoryClear
<1> HIDE DEF cleared, image
<1> QED
  BY <1>1, <1>2, <1>3, UpdatedTyped

\* Every step keeps the types.
LEMMA TypeStep ==
    ASSUME NV_MEMORY_SIZE \in Nat \ {0}, TpmTypeOK, [TpmNext]_tpmVars
    PROVE  TpmTypeOK'
<1>1. ASSUME NEW ok \in BOOLEAN, Manufacture(ok) PROVE nv' \in NvType
  <2>1. CASE UNCHANGED nv
    BY <2>1 DEF TpmTypeOK
  <2>2. CASE \E size \in 0 .. NV_MEMORY_SIZE : NvWrites(size)
    BY <2>2, NvWritesTyped DEF TpmTypeOK
  <2>3. NV_MEMORY_SIZE \in 0 .. NV_MEMORY_SIZE
        /\ 0 .. NV_MEMORY_SIZE - 1 \subseteq 0 .. NV_MEMORY_SIZE
    OBVIOUS
  <2>4. NvWrites(NV_MEMORY_SIZE) => \E size \in 0 .. NV_MEMORY_SIZE : NvWrites(size)
    BY <2>3, Zenon
  <2> QED
    BY <1>1, <2>1, <2>2, <2>3, <2>4 DEF Manufacture
<1>2. ASSUME NEW ok \in BOOLEAN, pal_tpm_init(ok) PROVE nv' \in NvType
  BY <1>1, <1>2 DEF pal_tpm_init
<1>3. ASSUME NEW ok \in BOOLEAN, pal_tpm_init(ok)
      PROVE  nvReady' \in BOOLEAN /\ started' \in BOOLEAN /\ initialized' \in BOOLEAN
  BY <1>3 DEF pal_tpm_init, _plat__NVEnable, pal_tpm_startup, TpmTypeOK
<1>4. CASE \E ok \in BOOLEAN : pal_tpm_execute_command(ok)
  <2>1. PICK ok \in BOOLEAN : pal_tpm_execute_command(ok)
    BY <1>4
  <2>2. CASE \E o \in BOOLEAN : pal_tpm_init(o)
    <3>1. nv' \in NvType /\ nvReady' \in BOOLEAN /\ started' \in BOOLEAN /\ initialized' \in BOOLEAN
      BY <1>2, <1>3, <2>2, Zenon
    <3> QED
      BY <2>1, <3>1 DEF pal_tpm_execute_command, TpmTypeOK
  <2>3. CASE UNCHANGED <<initialized, nvReady, nv, started>>
    BY <2>1, <2>3 DEF pal_tpm_execute_command, TpmTypeOK
  <2> QED
    BY <2>1, <2>2, <2>3, Zenon DEF pal_tpm_execute_command
<1>5. CASE Fail \/ UNCHANGED tpmVars
  <2>1. UNCHANGED <<initialized, nvReady, nv, started>> /\ failureMode' \in BOOLEAN
    BY <1>5 DEF Fail, tpmVars, TpmTypeOK
  <2> QED
    BY <2>1 DEF TpmTypeOK
<1> QED
  BY <1>4, <1>5 DEF TpmNext

(* TpmTypeOK for an NV memory of any size: every address of it holds a     *)
(* byte of the image, however a manufacture was cut short.                 *)
THEOREM TpmTypes ==
    ASSUME NV_MEMORY_SIZE \in Nat \ {0}
    PROVE  TpmSpec => []TpmTypeOK
<1>1. TpmInit => TpmTypeOK
  <2>1. TpmInit => nv \in NvType
    BY DEF TpmInit, NvType
  <2> QED
    BY <2>1 DEF TpmInit, TpmTypeOK
<1>2. TpmTypeOK /\ [TpmNext]_tpmVars => TpmTypeOK'
  BY TypeStep
<1> QED
  BY <1>1, <1>2, PTL DEF TpmSpec

(* _platPcr__GetInitialValueForPcr: the PCRs of a dynamic launch, 17 to    *)
(* 22, start with all ones, every other with zeros, but for the startup    *)
(* locality in the last byte of the H-CRTM's; no value is longer than the  *)
(* caller's buffer.                                                        *)
THEOREM PcrInitialValues ==
    ASSUME NEW n \in Nat, NEW digest \in Nat, NEW buffer \in Nat,
           NEW locality \in 0 .. 255
    PROVE  LET v == _platPcr__GetInitialValueForPcr(n, digest, locality, buffer)
           IN  \/ v = <<>> /\ (n >= IMPLEMENTATION_PCR \/ digest = 0 \/ buffer < digest)
               \/ /\ v \in Seq(0 .. 255) /\ Len(v) = digest /\ digest <= buffer
                  /\ \A k \in 1 .. digest :
                        v[k] = IF n \in 17 .. 22 THEN 255
                               ELSE IF n = HCRTM_PCR /\ k = digest THEN locality ELSE 0
<1> DEFINE v == _platPcr__GetInitialValueForPcr(n, digest, locality, buffer)
<1>1. CASE n >= IMPLEMENTATION_PCR \/ digest = 0 \/ buffer < digest
  BY <1>1 DEF _platPcr__GetInitialValueForPcr
<1>2. CASE ~(n >= IMPLEMENTATION_PCR \/ digest = 0 \/ buffer < digest)
  <2> DEFINE default == IF (resetLocality[n] \div 16) % 2 = 1 THEN 255 ELSE 0
  <2>1. n \in 0 .. 23
    BY <1>2 DEF IMPLEMENTATION_PCR
  <2>2. default = IF n \in 17 .. 22 THEN 255 ELSE 0
    BY <2>1 DEF resetLocality, IMPLEMENTATION_PCR
  <2>3. v = [k \in 1 .. digest |-> IF n = HCRTM_PCR /\ k = digest THEN locality ELSE default]
    BY <1>2 DEF _platPcr__GetInitialValueForPcr, _platPcr__GetPcrInitializationAttributes
  <2>4. digest \in Nat /\ digest <= buffer
    BY <1>2
  <2>5. \A k \in 1 .. digest : v[k] \in 0 .. 255
    BY <2>2, <2>3
  <2>6. v \in Seq(0 .. 255) /\ Len(v) = digest
    BY <2>3, <2>4, <2>5
  <2>7. \A k \in 1 .. digest :
          v[k] = IF n \in 17 .. 22 THEN 255
                 ELSE IF n = HCRTM_PCR /\ k = digest THEN locality ELSE 0
    BY <2>2, <2>3 DEF HCRTM_PCR
  <2> QED
    BY <2>4, <2>6, <2>7
<1> QED
  BY <1>1, <1>2
=============================================================================
