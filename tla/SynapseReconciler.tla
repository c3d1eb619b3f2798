-------------------------- MODULE SynapseReconciler --------------------------
(***************************************************************************)
(* The Synapse controller of synapse-operator                              *)
(* (src/controllers/synapse/synapse/synapse_controller.go and the          *)
(* subreconcilers of src/unnamed/part_000), together with the parts of its *)
(* environment it reacts to: the user editing the Synapse Spec, bridge     *)
(* objects appearing and disappearing, the bridge controllers that mark    *)
(* the Synapse as needing reconciliation, postgres-operator and the store. *)
(*                                                                         *)
(* One Reconcile call is a run: it reads the Synapse, composes the list of *)
(* subreconcilers from the Spec and Status it read, and runs them in       *)
(* order until one halts or requeues.  A subreconciler that writes Status  *)
(* is two steps: it reads the Synapse and computes the new Status in       *)
(* memory, then updateSynapseStatus re-reads the Synapse and patches the   *)
(* difference.  Other writers (the bridge controllers) may act between.    *)
(***************************************************************************)
EXTENDS Naturals, Sequences

CONSTANTS
    ServerNames,       \* values of Spec.Homeserver.Values.ServerName
    InputName,         \* server_name in the user-provided homeserver ConfigMap
    NoName,            \* Status.HomeserverConfiguration.ServerName before it is set
    MaxErrors,         \* bound on store failures the code turns into a requeue
    MaxIgnoredErrors,  \* bound on failed status writes whose error is only logged
    MaxEdits           \* bound on changes made outside the operator

ASSUME ConstantsAssumption ==
    /\ InputName \in ServerNames
    /\ NoName \notin ServerNames
    /\ MaxErrors \in Nat
    /\ MaxIgnoredErrors \in Nat
    /\ MaxEdits \in Nat

BridgeKinds == {"Heisenbridge", "MautrixSignal"}
States == {"", "FAILED", "RUNNING"}
Reasons == {"", "PostgresOperatorMissing", "InputConfigMapMissing"}

\* The owned objects other than the homeserver ConfigMap, by the
\* subreconciler that reconciles each of them.
ChildOf == [reconcilePostgresClusterConfigMap |-> "PostgresClusterConfigMap",
            reconcilePostgresClusterCR        |-> "PostgresCluster",
            reconcileSynapseServiceAccount    |-> "ServiceAccount",
            reconcileSynapseRoleBinding       |-> "RoleBinding",
            reconcileSynapseService           |-> "Service",
            reconcileSynapsePVC               |-> "PersistentVolumeClaim",
            reconcileSynapseDeployment        |-> "Deployment"]
ChildKinds == {ChildOf[st] : st \in DOMAIN ChildOf}

\* SetupWithManager: changes to the Synapse and to these owned kinds
\* enqueue the Synapse; changes to any other child do not.
WatchedKinds == {"Service", "Deployment", "PersistentVolumeClaim"}

ConfigStepOf == [Heisenbridge  |-> "updateSynapseConfigMapForHeisenbridge",
                 MautrixSignal |-> "updateSynapseConfigMapForMautrixSignal"]

\* The subreconcilers Reconcile can compose, and the setFailedState call it
\* makes instead of running them.
StepNames ==
    {"parseInputSynapseConfigMap", "copyInputSynapseConfigMap",
     "setStatusHomeserverConfiguration", "reconcileSynapseConfigMap",
     "updateSynapseStatusBridges", "updateSynapseStatusWithPostgreSQLInfos",
     "updateSynapseConfigMapForPostgresCluster", "setSynapseStatusAsRunning",
     "setFailedState"}
    \cup DOMAIN ChildOf \cup {ConfigStepOf[b] : b \in BridgeKinds}

SynapseSpec == [inputConfigMap: BOOLEAN, serverName: ServerNames,
                createNewPostgreSQL: BOOLEAN, isOpenshift: BOOLEAN]

SynapseStatus == [state: States, reason: Reasons,
                  serverName: ServerNames \cup {NoName},
                  bridges: [BridgeKinds -> BOOLEAN],
                  databaseReady: BOOLEAN, needsReconcile: BOOLEAN]

InitialStatus == [state |-> "", reason |-> "", serverName |-> NoName,
                  bridges |-> [b \in BridgeKinds |-> FALSE],
                  databaseReady |-> FALSE, needsReconcile |-> FALSE]

\* The homeserver ConfigMap: where its homeserver.yaml comes from
\* (generated from Spec.Homeserver.Values, or copied from the input
\* ConfigMap), its server_name, whether it has the database section and
\* the bridges listed in app_service_config_files.
ConfigMaps == [source: {"none", "values", "input"},
               serverName: ServerNames \cup {NoName},
               database: BOOLEAN,
               appServices: SUBSET BridgeKinds]

\* What is to happen once a Status candidate is committed: the normal
\* subreconcilers continue (or requeue when they patched), setFailedState
\* stops the run, the missing input ConfigMap requeues after a delay.
OnCommit == {"Continue", "DoNotRequeue", "RequeueWithDelay"}
Candidates == [status: SynapseStatus, onCommit: OnCommit]
NoCandidate == [onCommit |-> "none"]
NoCopy == [state |-> "none"]

VARIABLES
    spec,           \* Synapse.Spec in the store
    status,         \* Synapse.Status in the store
    inputCM,        \* the ConfigMap named by Spec.Homeserver.ConfigMap exists
    pgoInstalled,   \* the PostgresCluster kind can be listed
    pgSecret,       \* the postgres-operator Secret for the synapse user
    bridges,        \* kinds of bridge objects whose Spec.Synapse names this one
    cm,             \* the homeserver ConfigMap
    children,       \* the other owned objects that exist
    pending,        \* the work queue holds the Synapse's key
    steps,          \* the subreconcilers composed by the running Reconcile
    pc,             \* index of the running subreconciler, 0 when idle
    candidate,      \* Status computed in memory, not yet committed
    bridgePending,  \* a bridge's controller has a Reconcile to run
    bridgeCopy,     \* the Synapse a bridge controller fetched
    errors, ignoredErrors, edits

vars == <<spec, status, inputCM, pgoInstalled, pgSecret, bridges, cm,
          children, pending, steps, pc, candidate, bridgePending,
          bridgeCopy, errors, ignoredErrors, edits>>
envVars == <<spec, inputCM, pgoInstalled, pgSecret, bridges>>
runVars == <<steps, pc, candidate>>
bridgeVars == <<bridgePending, bridgeCopy>>
countVars == <<errors, ignoredErrors, edits>>

TypeOK ==
    /\ spec \in SynapseSpec
    /\ status \in SynapseStatus
    /\ inputCM \in BOOLEAN
    /\ pgoInstalled \in BOOLEAN
    /\ pgSecret \in {"absent", "incomplete", "complete"}
    /\ bridges \in SUBSET BridgeKinds
    /\ cm \in ConfigMaps
    /\ children \in SUBSET ChildKinds
    /\ pending \in BOOLEAN
    /\ steps \in Seq(StepNames)
    /\ pc \in 0..Len(steps)
    /\ candidate \in Candidates \cup {NoCandidate}
    /\ bridgePending \in [BridgeKinds -> BOOLEAN]
    /\ bridgeCopy \in [BridgeKinds -> SynapseStatus \cup {NoCopy}]
    /\ errors \in 0..MaxErrors
    /\ ignoredErrors \in 0..MaxIgnoredErrors
    /\ edits \in 0..MaxEdits

Init ==
    /\ spec \in SynapseSpec
    /\ status = InitialStatus
    /\ inputCM \in BOOLEAN
    /\ pgoInstalled \in BOOLEAN
    /\ pgSecret = "absent"
    /\ bridges = {}
    /\ cm = [source |-> "none", serverName |-> NoName, database |-> FALSE,
             appServices |-> {}]
    /\ children = {}
    /\ pending = TRUE
    /\ steps = <<>>
    /\ pc = 0
    /\ candidate = NoCandidate
    /\ bridgePending = [b \in BridgeKinds |-> FALSE]
    /\ bridgeCopy = [b \in BridgeKinds |-> NoCopy]
    /\ errors = 0 /\ ignoredErrors = 0 /\ edits = 0

-----------------------------------------------------------------------------
(***************************************************************************)
(* Composing the run (Reconcile).                                          *)
(***************************************************************************)

\* The subreconcilers Reconcile appends, in order, for the Spec and Status
\* it read at the start of the run.
Pipeline(sp, st) ==
    (IF sp.inputConfigMap
        THEN <<"parseInputSynapseConfigMap", "copyInputSynapseConfigMap">>
        ELSE <<"setStatusHomeserverConfiguration", "reconcileSynapseConfigMap">>)
    \o <<"updateSynapseStatusBridges">>
    \o (IF sp.createNewPostgreSQL
        THEN <<"reconcilePostgresClusterConfigMap", "reconcilePostgresClusterCR",
               "updateSynapseStatusWithPostgreSQLInfos",
               "updateSynapseConfigMapForPostgresCluster">>
        ELSE <<>>)
    \o (IF st.bridges["Heisenbridge"]
        THEN <<ConfigStepOf["Heisenbridge"]>> ELSE <<>>)
    \o (IF st.bridges["MautrixSignal"]
        THEN <<ConfigStepOf["MautrixSignal"]>> ELSE <<>>)
    \o (IF sp.isOpenshift
        THEN <<"reconcileSynapseServiceAccount", "reconcileSynapseRoleBinding">>
        ELSE <<>>)
    \o <<"reconcileSynapseService", "reconcileSynapsePVC",
         "reconcileSynapseDeployment", "setSynapseStatusAsRunning">>

\* What a run may compose from the Spec and Status it read: the list above,
\* or, with CreateNewPostgreSQL, the lone setFailedState when the
\* postgres-operator List fails or finds no kind.
Compositions(sp, st) ==
    {Pipeline(sp, st)}
    \cup (IF sp.createNewPostgreSQL THEN {<<"setFailedState">>} ELSE {})

\* The run is at subreconciler name and has not yet computed a candidate.
At(name) == pc > 0 /\ steps[pc] = name /\ candidate = NoCandidate

\* The run ends; the key is requeued if asked to, or if an event arrived.
Finish(requeue) ==
    /\ pc' = 0
    /\ steps' = <<>>
    /\ candidate' = NoCandidate
    /\ pending' = (pending \/ requeue)

\* Mutant of Advance: the loop's end test is off by one.
AdvancePastEnd(event) ==
    IF pc > Len(steps)
    THEN Finish(event)
    ELSE /\ pc' = pc + 1
         /\ steps' = steps
         /\ candidate' = NoCandidate
         /\ pending' = (pending \/ event)

\* The subreconciler returned ContinueReconciling; after the last one
\* Reconcile returns DoNotRequeue.
Advance(event) ==
    IF pc = Len(steps)
    THEN Finish(event)
    ELSE /\ pc' = pc + 1
         /\ steps' = steps
         /\ candidate' = NoCandidate
         /\ pending' = (pending \/ event)

\* Reconcile: the Synapse is read, the subreconcilers are composed and run.
StartReconcile ==
    /\ pc = 0
    /\ pending
    /\ ~(spec.createNewPostgreSQL /\ ~pgoInstalled)
    /\ steps' = Pipeline(spec, status)
    /\ pc' = 1
    /\ pending' = FALSE
    /\ UNCHANGED <<envVars, status, cm, children, candidate, bridgeVars, countVars>>

\* isPostgresOperatorInstalled: any error of the List, not only a missing
\* kind, reads as "not installed".
PostgresOperatorListFails == pgoInstalled /\ errors < MaxErrors

\* Reconcile with CreateNewPostgreSQL and no postgres-operator: before any
\* subreconciler, setFailedState commits the Synapse read at the start of
\* the run with State FAILED, and the run ends with DoNotRequeue.
setFailedState ==
    /\ pc = 0
    /\ pending
    /\ spec.createNewPostgreSQL
    /\ ~pgoInstalled \/ PostgresOperatorListFails
    /\ errors' = IF pgoInstalled THEN errors + 1 ELSE errors
    /\ steps' = <<"setFailedState">>
    /\ pc' = 1
    /\ pending' = FALSE
    /\ candidate' = [status |-> [status EXCEPT !.state = "FAILED",
                                               !.reason = "PostgresOperatorMissing"],
                     onCommit |-> "DoNotRequeue"]
    /\ UNCHANGED <<envVars, status, cm, children, bridgeVars, ignoredErrors, edits>>

-----------------------------------------------------------------------------
(***************************************************************************)
(* Subreconcilers that write Status: the in-memory part.                   *)
(***************************************************************************)

Compute(st, onCommit) ==
    /\ candidate' = [status |-> st, onCommit |-> onCommit]
    /\ UNCHANGED <<envVars, status, cm, children, pending, steps, pc,
                   bridgeVars, countVars>>

setStatusHomeserverConfiguration ==
    /\ At("setStatusHomeserverConfiguration")
    /\ Compute([status EXCEPT !.serverName = spec.serverName], "Continue")

\* The input ConfigMap is read and its server_name copied into Status; when
\* it is missing, the run records FAILED and requeues after a delay.
parseInputSynapseConfigMap ==
    /\ At("parseInputSynapseConfigMap")
    /\ \/ inputCM /\ Compute([status EXCEPT !.serverName = InputName], "Continue")
       \/ ~inputCM /\ Compute([status EXCEPT !.state = "FAILED",
                                             !.reason = "InputConfigMapMissing"],
                              "RequeueWithDelay")

\* Both Lists discard their error: a failed List yields no items, and a
\* bridge found is only ever switched on.
updateSynapseStatusBridges ==
    /\ At("updateSynapseStatusBridges")
    /\ \E listed \in SUBSET bridges :
          /\ listed # bridges => errors < MaxErrors
          /\ candidate' = [status |-> [status EXCEPT !.bridges =
                              [b \in BridgeKinds |-> status.bridges[b] \/ b \in listed]],
                           onCommit |-> "Continue"]
          /\ errors' = IF listed = bridges THEN errors ELSE errors + 1
    /\ UNCHANGED <<envVars, status, cm, children, pending, steps, pc,
                   bridgeVars, ignoredErrors, edits>>

\* The connection fields taken from a Secret holding host, port, dbname,
\* user and password.
updateSynapseStatusDatabase(st) == [st EXCEPT !.databaseReady = TRUE]

updateSynapseStatusWithPostgreSQLInfos ==
    /\ At("updateSynapseStatusWithPostgreSQLInfos")
    /\ \/ /\ pgSecret = "complete"
          /\ Compute(updateSynapseStatusDatabase(status), "Continue")
       \/ /\ pgSecret # "complete"
          /\ Finish(TRUE)
          /\ UNCHANGED <<envVars, status, cm, children, bridgeVars, countVars>>

setSynapseStatusAsRunning ==
    /\ At("setSynapseStatusAsRunning")
    /\ Compute([status EXCEPT !.needsReconcile = FALSE, !.state = "RUNNING",
                              !.reason = ""], "Continue")

\* Mutant of updateSynapseStatus: Status compared by reference, so that
\* every commit patches.
updateSynapseStatusAlwaysPatches ==
    /\ pc > 0
    /\ candidate # NoCandidate
    /\ status' = candidate.status
    /\ Finish(TRUE)
    /\ UNCHANGED <<envVars, cm, children, bridgeVars, countVars>>

updateSynapseStatus ==
    /\ pc > 0
    /\ candidate # NoCandidate
    /\ status' = candidate.status
    /\ LET patched == candidate.status # status IN
       IF candidate.onCommit = "Continue" /\ ~patched
       THEN Advance(FALSE)
       ELSE Finish(patched \/ candidate.onCommit # "DoNotRequeue")
    /\ UNCHANGED <<envVars, cm, children, bridgeVars, countVars>>

-----------------------------------------------------------------------------
(***************************************************************************)
(* Subreconcilers that write owned objects.                                *)
(***************************************************************************)

\* A homeserver.yaml as generated or copied, before any section is added.
DesiredConfigMap(source, name) ==
    [source |-> source, serverName |-> name, database |-> FALSE, appServices |-> {}]

\* ReconcileResource on the homeserver ConfigMap: created when absent,
\* patched to the desired value when it differs, which it does whenever
\* a later step of an earlier run added a section.  Either way the store
\* then holds exactly the desired ConfigMap.
EnsureConfigMap(source, name) == cm' = DesiredConfigMap(source, name)

\* The desired ConfigMap generated from Spec.Homeserver.Values: only its
\* server_name varies with the Spec.
configMapForSynapse(sp) == [source |-> "values", serverName |-> sp.serverName]

\* Mutant of reconcileSynapseConfigMap: the ConfigMap is created when
\* absent and an existing one is left as it is.
reconcileSynapseConfigMapCreateOnly ==
    /\ At("reconcileSynapseConfigMap")
    /\ cm' = IF cm.source # "none" THEN cm
             ELSE DesiredConfigMap(configMapForSynapse(spec).source,
                                   configMapForSynapse(spec).serverName)
    /\ Advance(FALSE)
    /\ UNCHANGED <<envVars, status, children, bridgeVars, countVars>>

reconcileSynapseConfigMap ==
    /\ At("reconcileSynapseConfigMap")
    /\ EnsureConfigMap(configMapForSynapse(spec).source,
                       configMapForSynapse(spec).serverName)
    /\ Advance(FALSE)
    /\ UNCHANGED <<envVars, status, children, bridgeVars, countVars>>

copyInputSynapseConfigMap ==
    /\ At("copyInputSynapseConfigMap")
    /\ \/ inputCM /\ EnsureConfigMap("input", InputName) /\ Advance(FALSE)
       \/ ~inputCM /\ Finish(TRUE) /\ UNCHANGED cm
    /\ UNCHANGED <<envVars, status, children, bridgeVars, countVars>>

\* ReconcileResource on another owned object; creating a watched kind is
\* an event for the Synapse.
ReconcileChild ==
    \E st \in DOMAIN ChildOf :
       /\ At(st)
       /\ children' = children \cup {ChildOf[st]}
       /\ Advance(ChildOf[st] \in WatchedKinds /\ ChildOf[st] \notin children)
       /\ UNCHANGED <<envVars, status, cm, bridgeVars, countVars>>

\* UpdateConfigMap: the homeserver ConfigMap is read, a section is added
\* and the result written back; the database section is built from the
\* connection information in Status, and fails without it.  (The
\* ConfigMap always exists here: an earlier step of the run ensured it, and
\* a failed Get of it is a StoreFailure.)
updateSynapseConfigMapForPostgresCluster ==
    /\ At("updateSynapseConfigMapForPostgresCluster")
    /\ \/ /\ status.databaseReady
          /\ cm' = [cm EXCEPT !.database = TRUE]
          /\ Advance(FALSE)
       \/ /\ ~status.databaseReady
          /\ Finish(TRUE) /\ UNCHANGED cm
    /\ UNCHANGED <<envVars, status, children, bridgeVars, countVars>>

\* addAppServiceToHomeserver: app_service_config_files is appended to when
\* it reads back as a []string, and replaced by the one new path when it
\* does not.  UpdateConfigMap decodes homeserver.yaml into a generic tree,
\* in which a list is a []interface{}: the assertion never holds.
AppServiceListIsStringSlice == FALSE

addAppServiceToHomeserver(doc, b) ==
    [doc EXCEPT !.appServices = IF AppServiceListIsStringSlice THEN @ \cup {b} ELSE {b}]

\* updateSynapseConfigMapForHeisenbridge and ...ForMautrixSignal.
updateSynapseConfigMapForBridge(b) ==
    /\ At(ConfigStepOf[b])
    /\ cm' = addAppServiceToHomeserver(cm, b)
    /\ Advance(FALSE)
    /\ UNCHANGED <<envVars, status, children, bridgeVars, countVars>>

\* A Get, Create or Patch of the running subreconciler fails: the run
\* ends with RequeueWithError.  Also covers getLatestSynapse failing.
StoreFailure ==
    /\ pc > 0
    /\ candidate = NoCandidate \/ candidate.onCommit = "Continue"
    /\ errors < MaxErrors
    /\ errors' = errors + 1
    /\ Finish(TRUE)
    /\ UNCHANGED <<envVars, status, cm, children, bridgeVars, ignoredErrors, edits>>

\* The status write of setFailedState, or of a missing input ConfigMap,
\* fails: the error is logged and the run ends as it would have.
IgnoredStatusWriteFailure ==
    /\ pc > 0
    /\ candidate # NoCandidate
    /\ candidate.onCommit # "Continue"
    /\ ignoredErrors < MaxIgnoredErrors
    /\ ignoredErrors' = ignoredErrors + 1
    /\ Finish(candidate.onCommit # "DoNotRequeue")
    /\ UNCHANGED <<envVars, status, cm, children, bridgeVars, errors, edits>>

-----------------------------------------------------------------------------
(***************************************************************************)
(* The bridge controllers: triggerSynapseReconciliation.                   *)
(***************************************************************************)

\* fetchSynapseInstance: the bridge controller reads the Synapse it names.
fetchSynapseInstance(b) ==
    /\ bridgePending[b]
    /\ bridgeCopy[b] = NoCopy
    /\ b \in bridges
    /\ bridgeCopy' = [bridgeCopy EXCEPT ![b] = status]
    /\ UNCHANGED <<envVars, status, cm, children, pending, runVars,
                   bridgePending, countVars>>

\* NeedsReconcile is set on the copy read earlier, which is then committed
\* the way updateSynapseStatus does: every field that differs from the
\* store is written back from the copy.
triggerSynapseReconciliation(b) ==
    /\ bridgeCopy[b] # NoCopy
    /\ LET new == [bridgeCopy[b] EXCEPT !.needsReconcile = TRUE] IN
          /\ status' = new
          /\ pending' = (pending \/ new # status)
    /\ bridgePending' = [bridgePending EXCEPT ![b] = FALSE]
    /\ bridgeCopy' = [bridgeCopy EXCEPT ![b] = NoCopy]
    /\ UNCHANGED <<envVars, cm, children, runVars, countVars>>

\* The bridge was deleted before its Reconcile read it: nothing to do.
BridgeGone(b) ==
    /\ bridgePending[b]
    /\ bridgeCopy[b] = NoCopy
    /\ b \notin bridges
    /\ bridgePending' = [bridgePending EXCEPT ![b] = FALSE]
    /\ UNCHANGED <<envVars, status, cm, children, pending, runVars,
                   bridgeCopy, countVars>>

-----------------------------------------------------------------------------
(***************************************************************************)
(* Changes made outside the operator.                                      *)
(***************************************************************************)

Edit == edits < MaxEdits /\ edits' = edits + 1

\* The user edits the Synapse Spec: a Synapse event.
EditSynapseSpec ==
    /\ Edit
    /\ \E sp \in SynapseSpec \ {spec} : spec' = sp
    /\ pending' = TRUE
    /\ UNCHANGED <<status, inputCM, pgoInstalled, pgSecret, bridges, cm,
                   children, runVars, bridgeVars, errors, ignoredErrors>>

CreateBridge(b) ==
    /\ Edit
    /\ b \notin bridges
    /\ bridges' = bridges \cup {b}
    /\ bridgePending' = [bridgePending EXCEPT ![b] = TRUE]
    /\ UNCHANGED <<spec, status, inputCM, pgoInstalled, pgSecret, cm, children,
                   pending, runVars, bridgeCopy, errors, ignoredErrors>>

DeleteBridge(b) ==
    /\ Edit
    /\ b \in bridges
    /\ bridges' = bridges \ {b}
    /\ UNCHANGED <<spec, status, inputCM, pgoInstalled, pgSecret, cm, children,
                   pending, runVars, bridgeVars, errors, ignoredErrors>>

CreateInputConfigMap ==
    /\ Edit
    /\ ~inputCM
    /\ inputCM' = TRUE
    /\ UNCHANGED <<spec, status, pgoInstalled, pgSecret, bridges, cm, children,
                   pending, runVars, bridgeVars, errors, ignoredErrors>>

InstallPostgresOperator ==
    /\ Edit
    /\ ~pgoInstalled
    /\ pgoInstalled' = TRUE
    /\ UNCHANGED <<spec, status, inputCM, pgSecret, bridges, cm, children,
                   pending, runVars, bridgeVars, errors, ignoredErrors>>

\* postgres-operator writes the Secret of the cluster's synapse user,
\* possibly first without all of its keys.
WritePostgresSecret ==
    /\ Edit
    /\ pgoInstalled
    /\ "PostgresCluster" \in children
    /\ pgSecret # "complete"
    /\ pgSecret' \in {"incomplete", "complete"} \ {pgSecret}
    /\ UNCHANGED <<spec, status, inputCM, pgoInstalled, bridges, cm, children,
                   pending, runVars, bridgeVars, errors, ignoredErrors>>

-----------------------------------------------------------------------------

SynapseController ==
    \/ StartReconcile
    \/ setFailedState
    \/ setStatusHomeserverConfiguration
    \/ parseInputSynapseConfigMap
    \/ updateSynapseStatusBridges
    \/ updateSynapseStatusWithPostgreSQLInfos
    \/ setSynapseStatusAsRunning
    \/ updateSynapseStatus
    \/ reconcileSynapseConfigMap
    \/ copyInputSynapseConfigMap
    \/ ReconcileChild
    \/ updateSynapseConfigMapForPostgresCluster
    \/ \E b \in BridgeKinds : updateSynapseConfigMapForBridge(b)

BridgeController(b) ==
    fetchSynapseInstance(b) \/ triggerSynapseReconciliation(b) \/ BridgeGone(b)

Failures == StoreFailure \/ IgnoredStatusWriteFailure

Environment ==
    \/ EditSynapseSpec
    \/ CreateInputConfigMap
    \/ InstallPostgresOperator
    \/ WritePostgresSecret
    \/ \E b \in BridgeKinds : CreateBridge(b) \/ DeleteBridge(b)

Next ==
    \/ SynapseController
    \/ \E b \in BridgeKinds : BridgeController(b)
    \/ Failures
    \/ Environment

\* The work queue hands a queued key to a worker, and a Reconcile runs to
\* its end without blocking: weak fairness on each controller.
Fairness ==
    /\ WF_vars(SynapseController)
    /\ \A b \in BridgeKinds : WF_vars(BridgeController(b))

Spec == Init /\ [][Next]_vars /\ Fairness

-----------------------------------------------------------------------------
(***************************************************************************)
(* Properties.                                                             *)
(***************************************************************************)

\* No run is in progress or queued, for the Synapse or for any bridge.
Quiescent == pc = 0 /\ ~pending /\ \A b \in BridgeKinds : ~bridgePending[b]

\* The server name the Spec asks for, from the values or the input ConfigMap.
DesiredServerName == IF spec.inputConfigMap THEN InputName ELSE spec.serverName
DesiredSource == IF spec.inputConfigMap THEN "input" ELSE "values"

\* The runs are retrying a prerequisite that only someone else can supply.
WaitingForPrerequisite ==
    \/ spec.inputConfigMap /\ ~inputCM
    \/ spec.createNewPostgreSQL /\ pgSecret # "complete"

\* The Synapse controller is a pipeline executor (PipelineExecutor): the
\* work queue is the Synapse's key, a run composes its subreconcilers from
\* the Spec and Status read at its start, and the input of the composition
\* is the Synapse's Spec and Status.
ComposeFrom(in) == Compositions(in[1], in[2])
Executor == INSTANCE PipelineExecutor
                WITH queued <- pending, list <- steps, at <- pc,
                     input <- <<spec, status>>, Compose <- ComposeFrom

QuiescentRunningConsistent ==
    Quiescent /\ status.state = "RUNNING" =>
        /\ cm.source = DesiredSource
        /\ cm.serverName = DesiredServerName
        /\ status.serverName = DesiredServerName
        /\ spec.createNewPostgreSQL =>
              /\ status.databaseReady
              /\ cm.database
              /\ {"PostgresClusterConfigMap", "PostgresCluster"} \subseteq children
        /\ spec.isOpenshift => {"ServiceAccount", "RoleBinding"} \subseteq children
        /\ WatchedKinds \subseteq children

\* No reconciliation storm: every Status patch requeues the Synapse, yet
\* once the world stops changing the controllers go quiet, unless a run
\* keeps retrying a missing prerequisite.
EventuallyQuiescent == <>[](Quiescent \/ WaitingForPrerequisite)

BridgeStatusReflectsDependents ==
    Quiescent /\ status.state = "RUNNING" =>
        \A b \in BridgeKinds : status.bridges[b] = (b \in bridges)

\* A bridge that keeps pointing at the Synapse is eventually registered
\* in the homeserver ConfigMap, unless the Synapse is FAILED or waiting for
\* a prerequisite (the List errors of updateSynapseStatusBridges).
BridgeEventuallyRegistered ==
    \A b \in BridgeKinds :
        b \in bridges ~> \/ b \in cm.appServices
                         \/ b \notin bridges
                         \/ status.state = "FAILED"
                         \/ WaitingForPrerequisite

\* Spec 8 (a mutation that adds a path to a list keeps what is there): once
\* the controller has gone quiet with State RUNNING, every bridge Status
\* lists is registered in app_service_config_files of homeserver.yaml
\* (updateSynapseConfigMapForHeisenbridge, ...ForMautrixSignal).
AllBridgesRegistered ==
    Quiescent /\ status.state = "RUNNING" =>
        \A b \in BridgeKinds : status.bridges[b] => b \in cm.appServices
=============================================================================
