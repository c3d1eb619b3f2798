----------------------- MODULE MautrixSignalReconciler -----------------------
(***************************************************************************)
(* The mautrix-signal controller (src/unnamed/part_000, 3115-3447, and     *)
(* mautrixsignal_configmap.go) against an abstract Synapse.                *)
(*                                                                         *)
(* Reconcile composes the bridge's subreconcilers from its Spec and from   *)
(* the Status it read, and runs them in order.  The controller watches the *)
(* MautrixSignal only (SetupWithManager): a change to the Synapse it names *)
(* does not requeue it.  The Synapse is reduced to what the bridge reads   *)
(* and writes: whether it exists, its Spec server name and isOpenshift,    *)
(* and its Status server name and NeedsReconcile.  The Synapse controller  *)
(* is one action that brings its Status to the Spec.                       *)
(***************************************************************************)
EXTENDS Naturals, Sequences

CONSTANTS
    ServerNames,    \* the server names a Synapse may be given
    NoName,         \* the empty server name of a Status not yet populated
    InputDomain,    \* the domain written in the user's input config.yaml
    MaxErrors,      \* bound on store failures
    MaxEdits        \* bound on changes made by users

ConstantsAssumption ==
    /\ NoName \notin ServerNames
    /\ InputDomain \notin ServerNames \cup {NoName}
    /\ MaxErrors \in Nat
    /\ MaxEdits \in Nat

ASSUME ConstantsAssumption

Domains == ServerNames \cup {NoName, InputDomain}

\* ms.Status: State and Reason (set together), Synapse.ServerName, IsOpenshift.
MSStatus == [state: {"", "FAILED"}, serverName: ServerNames \cup {NoName},
             isOpenshift: BOOLEAN]

\* The bridge's config.yaml: absent, generated from the values, or copied
\* from the input; the homeserver domain it holds; and whether it has the
\* sections updateMautrixSignalData edits.
MSConfigMaps == [source: {"none", "values", "input"}, domain: Domains,
                 wellFormed: BOOLEAN]

\* The input ConfigMap the user names: absent, or present with or without
\* every section updateMautrixSignalData needs.
InputStates == {"absent", "valid", "malformed"}

\* synapse.Status as the bridge sees it.
SynapseStatus == [serverName: ServerNames \cup {NoName}, needsReconcile: BOOLEAN]

\* The subreconcilers that only call ReconcileResource on a child, and the
\* child each one creates.
ChildOf == [reconcileMautrixSignalServiceAccount |-> "ServiceAccount",
            reconcileMautrixSignalRoleBinding    |-> "RoleBinding",
            reconcileSignaldPVC                  |-> "SignaldPVC",
            reconcileSignaldDeployment           |-> "SignaldDeployment",
            reconcileMautrixSignalService        |-> "Service",
            reconcileMautrixSignalPVC            |-> "PVC",
            reconcileMautrixSignalDeployment     |-> "Deployment"]

ChildKinds == {ChildOf[s] : s \in DOMAIN ChildOf}
OpenshiftChildren == {"ServiceAccount", "RoleBinding"}
BaseChildren == ChildKinds \ OpenshiftChildren

\* Reconcile (3171-3216): the list of subreconcilers, from the Spec's input
\* ConfigMap name and the IsOpenshift of the Status that was read.
Pipeline(inputNamed, isOpenshift) ==
    <<"triggerSynapseReconciliation", "buildMautrixSignalStatus">>
    \o (IF inputNamed
        THEN <<"copyInputMautrixSignalConfigMap", "configureMautrixSignalConfigMap">>
        ELSE <<"reconcileMautrixSignalConfigMap">>)
    \o (IF isOpenshift
        THEN <<"reconcileMautrixSignalServiceAccount", "reconcileMautrixSignalRoleBinding">>
        ELSE <<>>)
    \o <<"reconcileSignaldPVC", "reconcileSignaldDeployment",
         "reconcileMautrixSignalService", "reconcileMautrixSignalPVC",
         "reconcileMautrixSignalDeployment">>

StepNames == {"triggerSynapseReconciliation", "buildMautrixSignalStatus",
              "copyInputMautrixSignalConfigMap", "configureMautrixSignalConfigMap",
              "reconcileMautrixSignalConfigMap"} \cup DOMAIN ChildOf

VARIABLES
    msExists,       \* the MautrixSignal object exists
    msInputNamed,   \* ms.Spec.ConfigMap.Name is set
    msStatus,       \* ms.Status in the store
    msCM,           \* the bridge's ConfigMap
    msChildren,     \* the other owned objects
    inputCM,        \* the user's input ConfigMap
    synExists,      \* the Synapse named by ms.Spec.Synapse exists
    synServerName,  \* the server name the Synapse's Spec asks for
    synOpenshift,   \* synapse.Spec.IsOpenshift
    synStatus,      \* synapse.Status
    pending,        \* the work queue holds the bridge's key
    steps,          \* the list composed by the running Reconcile
    pc,             \* the running step; 0 when no Reconcile runs
    fetched,        \* triggerSynapseReconciliation has read the Synapse
    synCopy,        \* the Synapse Status it read
    errors,         \* store failures so far
    edits           \* user changes so far

vars == <<msExists, msInputNamed, msStatus, msCM, msChildren, inputCM,
          synExists, synServerName, synOpenshift, synStatus, pending, steps,
          pc, fetched, synCopy, errors, edits>>
msVars == <<msStatus, msCM, msChildren>>
synVars == <<synExists, synServerName, synOpenshift, synStatus>>
envVars == <<msExists, msInputNamed, inputCM>>
runVars == <<steps, pc, fetched, synCopy>>

TypeOK ==
    /\ msExists \in BOOLEAN
    /\ msInputNamed \in BOOLEAN
    /\ msStatus \in MSStatus
    /\ msCM \in MSConfigMaps
    /\ msChildren \subseteq ChildKinds
    /\ inputCM \in InputStates
    /\ synExists \in BOOLEAN
    /\ synServerName \in ServerNames
    /\ synOpenshift \in BOOLEAN
    /\ synStatus \in SynapseStatus
    /\ pending \in BOOLEAN
    /\ steps \in Seq(StepNames)
    /\ pc \in 0..Len(steps)
    /\ fetched \in BOOLEAN
    /\ synCopy \in SynapseStatus
    /\ errors \in 0..MaxErrors
    /\ edits \in 0..MaxEdits

InitialMSStatus == [state |-> "", serverName |-> NoName, isOpenshift |-> FALSE]
NoConfigMap == [source |-> "none", domain |-> NoName, wellFormed |-> TRUE]
UnsetSynapseStatus == [serverName |-> NoName, needsReconcile |-> FALSE]

\* A new MautrixSignal is queued; the Synapse it names may not exist yet.
Init ==
    /\ msExists = TRUE
    /\ msInputNamed \in BOOLEAN
    /\ msStatus = InitialMSStatus
    /\ msCM = NoConfigMap
    /\ msChildren = {}
    /\ inputCM \in InputStates
    /\ synExists \in BOOLEAN
    /\ synServerName \in ServerNames
    /\ synOpenshift \in BOOLEAN
    /\ synStatus = UnsetSynapseStatus
    /\ pending = TRUE
    /\ steps = <<>>
    /\ pc = 0
    /\ fetched = FALSE
    /\ synCopy = UnsetSynapseStatus
    /\ errors = 0
    /\ edits = 0

-----------------------------------------------------------------------------
(***************************************************************************)
(* The pipeline executor.                                                  *)
(***************************************************************************)

\* Step `name` runs; its getLatestMautrixSignal found the object.
At(name) == pc > 0 /\ steps[pc] = name /\ ~fetched /\ msExists

\* Reconcile returns; the key is requeued if asked to, or if an event
\* arrived during the run.
Finish(requeue) ==
    /\ pc' = 0
    /\ steps' = <<>>
    /\ fetched' = FALSE
    /\ synCopy' = synCopy
    /\ pending' = (pending \/ requeue)

\* Mutant of Advance: the loop's end test is off by one.
AdvancePastEnd(event) ==
    IF pc > Len(steps)
    THEN Finish(event)
    ELSE /\ pc' = pc + 1
         /\ UNCHANGED <<steps, synCopy>>
         /\ fetched' = FALSE
         /\ pending' = (pending \/ event)

\* The subreconciler returned ContinueReconciling; after the last one
\* Reconcile returns DoNotRequeue.  `event` is a write of the bridge's own
\* Status, which the watch on the MautrixSignal turns into a requeue.
Advance(event) ==
    IF pc = Len(steps)
    THEN Finish(event)
    ELSE /\ pc' = pc + 1
         /\ UNCHANGED <<steps, synCopy>>
         /\ fetched' = FALSE
         /\ pending' = (pending \/ event)

\* Reconcile: the MautrixSignal is read and the subreconcilers composed.
StartReconcile ==
    /\ pc = 0
    /\ pending
    /\ msExists
    /\ steps' = Pipeline(msInputNamed, msStatus.isOpenshift)
    /\ pc' = 1
    /\ pending' = FALSE
    /\ UNCHANGED <<envVars, msVars, synVars, fetched, synCopy, errors, edits>>

\* getLatestMautrixSignal, at the start of Reconcile or of any step, finds
\* the object deleted: DoNotRequeue.
MautrixSignalNotFound ==
    /\ ~msExists
    /\ \/ /\ pc = 0
          /\ pending
          /\ pending' = FALSE
          /\ UNCHANGED runVars
       \/ /\ pc > 0
          /\ ~fetched
          /\ Finish(FALSE)
    /\ UNCHANGED <<envVars, msVars, synVars, errors, edits>>

-----------------------------------------------------------------------------
(***************************************************************************)
(* The subreconcilers.  Each starts with getLatestMautrixSignal (At).      *)
(***************************************************************************)

\* triggerSynapseReconciliation, first half: fetchSynapseInstance reads the
\* Synapse the bridge names.
fetchSynapseInstance ==
    /\ At("triggerSynapseReconciliation")
    /\ synExists
    /\ fetched' = TRUE
    /\ synCopy' = synStatus
    /\ UNCHANGED <<envVars, msVars, synVars, pending, steps, pc, errors, edits>>

\* Mutant of triggerSynapseReconciliation: the step returns Requeue.
triggerSynapseReconciliationRequeues ==
    /\ pc > 0
    /\ fetched
    /\ synStatus' = [synCopy EXCEPT !.needsReconcile = TRUE]
    /\ Finish(TRUE)
    /\ UNCHANGED <<envVars, msVars, synExists, synServerName, synOpenshift,
                   errors, edits>>

\* triggerSynapseReconciliation, second half: NeedsReconcile is set on the
\* copy read above and utils.UpdateSynapseStatus commits the whole copy.
\* The bridge does not watch the Synapse: ContinueReconciling.
triggerSynapseReconciliation ==
    /\ pc > 0
    /\ fetched
    /\ synStatus' = [synCopy EXCEPT !.needsReconcile = TRUE]
    /\ Advance(FALSE)
    /\ UNCHANGED <<envVars, msVars, synExists, synServerName, synOpenshift,
                   errors, edits>>

\* fetchSynapseInstance fails, or utils.GetSynapseServerName finds the
\* Synapse's Status server name empty: RequeueWithError.
SynapseNotReady ==
    /\ \/ At("triggerSynapseReconciliation") /\ ~synExists
       \/ At("buildMautrixSignalStatus")
          /\ (~synExists \/ synStatus.serverName = NoName)
    /\ Finish(TRUE)
    /\ UNCHANGED <<envVars, msVars, synVars, errors, edits>>

\* The Status buildMautrixSignalStatus computes from the Synapse.
BuiltStatus ==
    [msStatus EXCEPT !.serverName = synStatus.serverName,
                     !.isOpenshift = synOpenshift]

buildMautrixSignalStatus ==
    /\ At("buildMautrixSignalStatus")
    /\ synExists
    /\ synStatus.serverName # NoName
    /\ msStatus' = BuiltStatus
    /\ IF BuiltStatus # msStatus THEN Finish(TRUE) ELSE Advance(FALSE)
    /\ UNCHANGED <<envVars, msCM, msChildren, synVars, errors, edits>>

\* configMapForMautrixSignal: the generated config.yaml; of its text only
\* the homeserver domain, ms.Status.Synapse.ServerName, is kept.
configMapForMautrixSignal(serverName) ==
    [source |-> "values", domain |-> serverName, wellFormed |-> TRUE]

\* configMapForMautrixSignalCopy: a copy of the input ConfigMap.
configMapForMautrixSignalCopy(input) ==
    [source |-> "input", domain |-> InputDomain, wellFormed |-> input = "valid"]

\* updateMautrixSignalData on a config.yaml that has every section: the
\* homeserver domain (and the permissions derived from it) become
\* ms.Status.Synapse.ServerName.
updateMautrixSignalData(doc, serverName) == [doc EXCEPT !.domain = serverName]

\* reconcileMautrixSignalConfigMap: ReconcileResource puts the generated
\* config.yaml in place, its domain from ms.Status.Synapse.ServerName.
reconcileMautrixSignalConfigMap ==
    /\ At("reconcileMautrixSignalConfigMap")
    /\ msCM' = configMapForMautrixSignal(msStatus.serverName)
    /\ Advance(FALSE)
    /\ UNCHANGED <<envVars, msStatus, msChildren, synVars, errors, edits>>

\* Mutant of copyInputMautrixSignalConfigMap: ReconcileResource creates
\* the copy when absent and leaves an existing ConfigMap as it is.
copyInputMautrixSignalConfigMapCreateOnly ==
    /\ At("copyInputMautrixSignalConfigMap")
    /\ IF inputCM = "absent"
       THEN /\ msStatus' = [msStatus EXCEPT !.state = "FAILED"]
            /\ Finish(TRUE)
            /\ UNCHANGED msCM
       ELSE /\ msCM' = IF msCM.source # "none" THEN msCM
                       ELSE configMapForMautrixSignalCopy(inputCM)
            /\ Advance(FALSE)
            /\ UNCHANGED msStatus
    /\ UNCHANGED <<envVars, msChildren, synVars, errors, edits>>

\* copyInputMautrixSignalConfigMap: a missing input ConfigMap sets State
\* FAILED (the write's error is only logged) and returns
\* RequeueWithDelayAndError; otherwise ReconcileResource puts the copy in
\* place, replacing any earlier edit of it.
copyInputMautrixSignalConfigMap ==
    /\ At("copyInputMautrixSignalConfigMap")
    /\ IF inputCM = "absent"
       THEN /\ msStatus' = [msStatus EXCEPT !.state = "FAILED"]
            /\ Finish(TRUE)
            /\ UNCHANGED msCM
       ELSE /\ msCM' = configMapForMautrixSignalCopy(inputCM)
            /\ Advance(FALSE)
            /\ UNCHANGED msStatus
    /\ UNCHANGED <<envVars, msChildren, synVars, errors, edits>>

\* configureMautrixSignalConfigMap: UpdateConfigMap runs
\* updateMautrixSignalData on the copy.  A missing section is an error and
\* the step returns RequeueWithError; otherwise the homeserver domain is set
\* to ms.Status.Synapse.ServerName.
configureMautrixSignalConfigMap ==
    /\ At("configureMautrixSignalConfigMap")
    /\ IF msCM.wellFormed
       THEN /\ msCM' = updateMautrixSignalData(msCM, msStatus.serverName)
            /\ Advance(FALSE)
       ELSE /\ Finish(TRUE)
            /\ UNCHANGED msCM
    /\ UNCHANGED <<envVars, msStatus, msChildren, synVars, errors, edits>>

\* A subreconciler that calls ReconcileResource on one child.
ReconcileChild(s) ==
    /\ At(s)
    /\ msChildren' = msChildren \cup {ChildOf[s]}
    /\ Advance(FALSE)
    /\ UNCHANGED <<envVars, msStatus, msCM, synVars, errors, edits>>

\* A Get, Create or Patch of the running step fails: RequeueWithError.
StoreFailure ==
    /\ pc > 0
    /\ errors < MaxErrors
    /\ errors' = errors + 1
    /\ Finish(TRUE)
    /\ UNCHANGED <<envVars, msVars, synVars, edits>>

BridgeController ==
    \/ StartReconcile
    \/ MautrixSignalNotFound
    \/ fetchSynapseInstance
    \/ triggerSynapseReconciliation
    \/ SynapseNotReady
    \/ buildMautrixSignalStatus
    \/ reconcileMautrixSignalConfigMap
    \/ copyInputMautrixSignalConfigMap
    \/ configureMautrixSignalConfigMap
    \/ \E s \in DOMAIN ChildOf : ReconcileChild(s)

-----------------------------------------------------------------------------
(***************************************************************************)
(* The Synapse controller and the users.                                   *)
(***************************************************************************)

\* The Synapse controller's runs, taken together: Status gets the server
\* name of the Spec, and the terminal step clears NeedsReconcile.
SynapseReconciles ==
    /\ synExists
    /\ synStatus # [serverName |-> synServerName, needsReconcile |-> FALSE]
    /\ synStatus' = [serverName |-> synServerName, needsReconcile |-> FALSE]
    /\ UNCHANGED <<envVars, msVars, synExists, synServerName, synOpenshift,
                   runVars, pending, errors, edits>>

\* A user change; a change to the MautrixSignal is an event for its key.
Edit(event) ==
    /\ edits < MaxEdits
    /\ edits' = edits + 1
    /\ pending' = (pending \/ event)
    /\ UNCHANGED <<runVars, errors>>

CreateSynapse ==
    /\ ~synExists
    /\ synExists' = TRUE
    /\ Edit(FALSE)
    /\ UNCHANGED <<envVars, msVars, synServerName, synOpenshift, synStatus>>

EditSynapse ==
    /\ synExists
    /\ \E n \in ServerNames, o \in BOOLEAN :
          /\ <<n, o>> # <<synServerName, synOpenshift>>
          /\ synServerName' = n
          /\ synOpenshift' = o
    /\ Edit(FALSE)
    /\ UNCHANGED <<envVars, msVars, synExists, synStatus>>

\* Deleting the MautrixSignal garbage-collects what it owns.
DeleteMautrixSignal ==
    /\ msExists
    /\ msExists' = FALSE
    /\ msStatus' = InitialMSStatus
    /\ msCM' = NoConfigMap
    /\ msChildren' = {}
    /\ Edit(TRUE)
    /\ UNCHANGED <<msInputNamed, inputCM, synVars>>

CreateMautrixSignal ==
    /\ ~msExists
    /\ msExists' = TRUE
    /\ msInputNamed' \in BOOLEAN
    /\ Edit(TRUE)
    /\ UNCHANGED <<inputCM, msVars, synVars>>

EditMautrixSignalConfigMapName ==
    /\ msExists
    /\ msInputNamed' = ~msInputNamed
    /\ Edit(TRUE)
    /\ UNCHANGED <<msExists, inputCM, msVars, synVars>>

\* The input ConfigMap is not watched: no event.
EditInputConfigMap ==
    /\ \E v \in InputStates \ {inputCM} : inputCM' = v
    /\ Edit(FALSE)
    /\ UNCHANGED <<msExists, msInputNamed, msVars, synVars>>

Environment ==
    \/ CreateSynapse
    \/ EditSynapse
    \/ DeleteMautrixSignal
    \/ CreateMautrixSignal
    \/ EditMautrixSignalConfigMapName
    \/ EditInputConfigMap

Next ==
    \/ BridgeController
    \/ SynapseReconciles
    \/ StoreFailure
    \/ Environment

\* A queued key is handed to a worker and a Reconcile never blocks; the
\* Synapse controller is scheduled the same way.
Fairness ==
    /\ WF_vars(BridgeController)
    /\ WF_vars(SynapseReconciles)

Spec == Init /\ [][Next]_vars /\ Fairness

-----------------------------------------------------------------------------
(***************************************************************************)
(* Properties.                                                             *)
(***************************************************************************)

\* No Reconcile of the bridge runs or is queued.
Quiescent == pc = 0 /\ ~pending

\* The bridge's controller is a pipeline executor (PipelineExecutor): the
\* work queue is the MautrixSignal's key, and a run composes its
\* subreconcilers from the Spec.ConfigMap name and Status.IsOpenshift of the
\* MautrixSignal it read at its start (Reconcile, 3161-3216).
ComposeFrom(in) == {Pipeline(in[2], in[3].isOpenshift)}
Executor == INSTANCE PipelineExecutor
                WITH queued <- pending, list <- steps, at <- pc,
                     input <- <<msExists, msInputNamed, msStatus>>,
                     Compose <- ComposeFrom

Blocked == ~synExists \/ (msInputNamed /\ inputCM # "valid")

\* What the store holds once the bridge has converged: the config.yaml comes
\* from the source the Spec names and holds the server name Status
\* recorded from the Synapse, and every child exists, ServiceAccount and
\* RoleBinding too when Status says OpenShift.
Converged ==
    /\ msStatus.serverName # NoName
    /\ msCM.source = IF msInputNamed THEN "input" ELSE "values"
    /\ msCM.domain = msStatus.serverName
    /\ BaseChildren \subseteq msChildren
    /\ msStatus.isOpenshift => OpenshiftChildren \subseteq msChildren

\* Once the bridge's controller is quiet, the bridge has converged.  The
\* list of steps is composed from the Status read before
\* buildMautrixSignalStatus updates it, and the ConfigMap is put in place
\* anew by each run; the rerun that the Status patch causes is what makes
\* this hold.
QuiescentBridgeConsistent == Quiescent /\ msExists => Converged

\* What step s, once it has returned ContinueReconciling, has left in the
\* store.
StepEffect(s) ==
    /\ s \in DOMAIN ChildOf => ChildOf[s] \in msChildren
    /\ s = "reconcileMautrixSignalConfigMap" =>
          msCM = configMapForMautrixSignal(msStatus.serverName)
    /\ s = "copyInputMautrixSignalConfigMap" => msCM.source = "input"
    /\ s = "configureMautrixSignalConfigMap" =>
          msCM.source = "input" /\ msCM.domain = msStatus.serverName

\* What a run that no event has interrupted has done so far: its list is the
\* one the current Spec and Status compose, and each step before pc has left
\* its effect in place.  With QuiescentBridgeConsistent it is the inductive
\* invariant behind that property.
RunProgress ==
    pc > 0 /\ ~pending =>
        /\ msExists
        /\ steps = Pipeline(msInputNamed, msStatus.isOpenshift)
        /\ pc > 2 => msStatus.serverName # NoName
        /\ \A i \in 1..(pc - 1) : StepEffect(steps[i])

\* No reconciliation storm: although every run of the bridge sets
\* NeedsReconcile on the Synapse and may patch its own Status, its runs stop
\* unless it waits for the Synapse or for a valid input ConfigMap.
\* (The hypothesis: from some point on the trigger's copy is not stale.
\* Each time the Synapse controller writes between fetchSynapseInstance and
\* the commit, the commit undoes that write, and TriggerOnlySetsFlag shows
\* that this happens; repeated forever it is a livelock.)
StaleTriggerCopy == fetched /\ synCopy # synStatus
BridgeEventuallyQuiescent ==
    <>[]~StaleTriggerCopy => <>[](Quiescent \/ Blocked)

BridgeDomainFollowsSynapse ==
    Quiescent /\ msExists
    /\ synStatus = [serverName |-> synServerName, needsReconcile |-> FALSE]
    => msCM.domain = synStatus.serverName

\* Spec 7: an entity whose pipeline ran to its end does not show Failed.
\* copyInputMautrixSignalConfigMap sets FAILED; nothing clears it.
FailedStateCleared == Quiescent /\ msExists => msStatus.state # "FAILED"

\* Spec 4.4 and 7: a config.yaml that lacks a section updateMautrixSignalData
\* edits is a structural error; the run halts instead of retrying forever.
MalformedInput == msExists /\ msInputNamed /\ inputCM = "malformed" /\ synExists
MalformedConfigHalts == MalformedInput ~> (Quiescent \/ ~MalformedInput)

=============================================================================
