----------------------- MODULE SynapseReconcilerProofs -----------------------
(***************************************************************************)
(* Proofs about the Synapse controller model, for every value of the       *)
(* constants allowed by ConstantsAssumption.                               *)
(***************************************************************************)
EXTENDS SynapseReconciler, SequenceTheorems, TLAPS

USE ConstantsAssumption

\* Every list of subreconcilers Reconcile composes is a non-empty sequence
\* of subreconciler names: the loop of Reconcile always has a first step.
LEMMA PipelineType ==
    ASSUME NEW sp \in SynapseSpec, NEW st \in SynapseStatus
    PROVE  /\ Pipeline(sp, st) \in Seq(StepNames)
           /\ Len(Pipeline(sp, st)) >= 1
<1> DEFINE S == StepNames
<1>1. /\ <<"parseInputSynapseConfigMap", "copyInputSynapseConfigMap">> \in Seq(S)
      /\ <<"setStatusHomeserverConfiguration", "reconcileSynapseConfigMap">> \in Seq(S)
      /\ <<"updateSynapseStatusBridges">> \in Seq(S)
      /\ <<"reconcilePostgresClusterConfigMap", "reconcilePostgresClusterCR",
           "updateSynapseStatusWithPostgreSQLInfos",
           "updateSynapseConfigMapForPostgresCluster">> \in Seq(S)
      /\ <<ConfigStepOf["Heisenbridge"]>> \in Seq(S)
      /\ <<ConfigStepOf["MautrixSignal"]>> \in Seq(S)
      /\ <<"reconcileSynapseServiceAccount", "reconcileSynapseRoleBinding">> \in Seq(S)
      /\ <<>> \in Seq(S)
  BY DEF StepNames, ChildOf, ConfigStepOf, BridgeKinds
<1>2. <<"reconcileSynapseService", "reconcileSynapsePVC",
        "reconcileSynapseDeployment", "setSynapseStatusAsRunning">> \in Seq(S)
  BY DEF StepNames, ChildOf
<1> DEFINE A == IF sp.inputConfigMap
                  THEN <<"parseInputSynapseConfigMap", "copyInputSynapseConfigMap">>
                  ELSE <<"setStatusHomeserverConfiguration", "reconcileSynapseConfigMap">>
           B == <<"updateSynapseStatusBridges">>
           C == IF sp.createNewPostgreSQL
                  THEN <<"reconcilePostgresClusterConfigMap", "reconcilePostgresClusterCR",
                         "updateSynapseStatusWithPostgreSQLInfos",
                         "updateSynapseConfigMapForPostgresCluster">>
                  ELSE <<>>
           D == IF st.bridges["Heisenbridge"]
                  THEN <<ConfigStepOf["Heisenbridge"]>> ELSE <<>>
           E == IF st.bridges["MautrixSignal"]
                  THEN <<ConfigStepOf["MautrixSignal"]>> ELSE <<>>
           F == IF sp.isOpenshift
                  THEN <<"reconcileSynapseServiceAccount", "reconcileSynapseRoleBinding">>
                  ELSE <<>>
           G == <<"reconcileSynapseService", "reconcileSynapsePVC",
                  "reconcileSynapseDeployment", "setSynapseStatusAsRunning">>
<1>3. A \in Seq(S) /\ B \in Seq(S) /\ C \in Seq(S) /\ D \in Seq(S)
      /\ E \in Seq(S) /\ F \in Seq(S) /\ G \in Seq(S) /\ Len(G) = 4
  BY <1>1, <1>2
<1>4. Pipeline(sp, st) = A \o B \o C \o D \o E \o F \o G
  BY DEF Pipeline
<1>5. /\ A \o B \o C \o D \o E \o F \in Seq(S)
  BY <1>3, ConcatProperties
<1>6. /\ A \o B \o C \o D \o E \o F \o G \in Seq(S)
      /\ Len(A \o B \o C \o D \o E \o F \o G) >= 1
  BY <1>3, <1>5, ConcatProperties, LenProperties
<1>7. QED
  BY <1>4, <1>6

\* Each change a subreconciler or a bridge controller makes to a Status
\* yields a Status.
LEMMA StatusUpdates ==
    ASSUME NEW st \in SynapseStatus
    PROVE  /\ \A n \in ServerNames : [st EXCEPT !.serverName = n] \in SynapseStatus
           /\ \A s \in States, r \in Reasons :
                 [st EXCEPT !.state = s, !.reason = r] \in SynapseStatus
           /\ \A f \in [BridgeKinds -> BOOLEAN] :
                 [st EXCEPT !.bridges = f] \in SynapseStatus
           /\ [st EXCEPT !.databaseReady = TRUE] \in SynapseStatus
           /\ [st EXCEPT !.needsReconcile = TRUE] \in SynapseStatus
           /\ [st EXCEPT !.needsReconcile = FALSE, !.state = "RUNNING",
                         !.reason = ""] \in SynapseStatus
<1>1. \A n \in ServerNames : [st EXCEPT !.serverName = n] \in SynapseStatus
  BY Zenon DEF SynapseStatus
<1>2. \A s \in States, r \in Reasons :
         [st EXCEPT !.state = s, !.reason = r] \in SynapseStatus
  BY Zenon DEF SynapseStatus
<1>3. \A f \in [BridgeKinds -> BOOLEAN] : [st EXCEPT !.bridges = f] \in SynapseStatus
  BY Zenon DEF SynapseStatus
<1>4. [st EXCEPT !.databaseReady = TRUE] \in SynapseStatus
  BY Zenon DEF SynapseStatus
<1>5. [st EXCEPT !.needsReconcile = TRUE] \in SynapseStatus
  BY Zenon DEF SynapseStatus
<1>6. [st EXCEPT !.needsReconcile = FALSE, !.state = "RUNNING",
                 !.reason = ""] \in SynapseStatus
  BY Zenon DEF SynapseStatus, States, Reasons
<1>7. QED
  BY <1>1, <1>2, <1>3, <1>4, <1>5, <1>6

\* A computed Status with what is to follow its commit is a candidate.
LEMMA CandidateType ==
    ASSUME NEW st \in SynapseStatus, NEW oc \in OnCommit
    PROVE  [status |-> st, onCommit |-> oc] \in Candidates
  BY DEF Candidates

\* A step that ends the run leaves the run variables well typed.
LEMMA FinishType ==
    ASSUME TypeOK, NEW rq \in BOOLEAN, Finish(rq)
    PROVE  /\ steps' \in Seq(StepNames)
           /\ pc' \in 0..Len(steps')
           /\ candidate' \in Candidates \cup {NoCandidate}
           /\ pending' \in BOOLEAN
<1>1. steps' \in Seq(StepNames) /\ Len(steps') = 0
  BY EmptySeq DEF Finish
<1>2. pending' \in BOOLEAN
  BY Zenon DEF Finish, TypeOK
<1>3. QED
  BY <1>1, <1>2 DEF Finish

\* A step that moves to the next subreconciler, or ends the run after the
\* last one, leaves the run variables well typed.
LEMMA AdvanceType ==
    ASSUME TypeOK, pc > 0, NEW ev \in BOOLEAN, Advance(ev)
    PROVE  /\ steps' \in Seq(StepNames)
           /\ pc' \in 0..Len(steps')
           /\ candidate' \in Candidates \cup {NoCandidate}
           /\ pending' \in BOOLEAN
<1>1. CASE pc = Len(steps)
  BY <1>1, FinishType DEF Advance
<1>2. CASE pc # Len(steps)
  <2>1. steps' = steps /\ pc' = pc + 1 /\ candidate' = NoCandidate
        /\ pending' = (pending \/ ev)
    BY <1>2 DEF Advance
  <2>2. pending' \in BOOLEAN
    BY <2>1, Zenon DEF TypeOK
  <2>3. steps \in Seq(StepNames) /\ pc \in 0..Len(steps)
    BY DEF TypeOK
  <2>4. QED
    BY <1>2, <2>1, <2>2, <2>3, LenProperties
<1>3. QED
  BY <1>1, <1>2

\* A subreconciler step of the run that leaves the world and the bridge
\* controllers alone, and keeps Status, the ConfigMap, the children and
\* the counters well typed, preserves TypeOK.
LEMMA RunStepType ==
    ASSUME TypeOK,
           steps' \in Seq(StepNames), pc' \in 0..Len(steps'),
           candidate' \in Candidates \cup {NoCandidate}, pending' \in BOOLEAN,
           status' \in SynapseStatus, cm' \in ConfigMaps,
           children' \in SUBSET ChildKinds,
           errors' \in 0..MaxErrors, ignoredErrors' \in 0..MaxIgnoredErrors,
           UNCHANGED <<envVars, bridgeVars, edits>>
    PROVE  TypeOK'
  BY DEF TypeOK, envVars, bridgeVars

\* Computing a candidate changes nothing else.
LEMMA ComputeType ==
    ASSUME TypeOK, NEW st \in SynapseStatus, NEW oc \in OnCommit, Compute(st, oc)
    PROVE  TypeOK'
<1>1. candidate' \in Candidates
  BY CandidateType DEF Compute
<1>2. QED
  BY <1>1, RunStepType DEF Compute, TypeOK, envVars, bridgeVars, countVars

\* A step that ends the run changing only the run variables and the
\* error counters.
LEMMA FinishStepType ==
    ASSUME TypeOK, NEW rq \in BOOLEAN, Finish(rq),
           errors' \in 0..MaxErrors, ignoredErrors' \in 0..MaxIgnoredErrors,
           UNCHANGED <<envVars, status, cm, children, bridgeVars, edits>>
    PROVE  TypeOK'
  BY FinishType, RunStepType DEF TypeOK


\* Every initial state is well typed.
LEMMA TypeInit == Init => TypeOK
<1> SUFFICES ASSUME Init PROVE TypeOK
  OBVIOUS
<1>1. InitialStatus \in SynapseStatus
  BY DEF InitialStatus, SynapseStatus, States, Reasons, BridgeKinds
<1>2. [source |-> "none", serverName |-> NoName, database |-> FALSE,
       appServices |-> {}] \in ConfigMaps
  BY DEF ConfigMaps
<1>3. <<>> \in Seq(StepNames) /\ Len(<<>>) = 0
  BY EmptySeq
<1>4. [b \in BridgeKinds |-> NoCopy] \in [BridgeKinds -> SynapseStatus \cup {NoCopy}]
  OBVIOUS
<1>5. QED
  BY <1>1, <1>2, <1>3, <1>4 DEF Init, TypeOK

\* Every step of the controllers, the bridges and the world keeps TypeOK.
LEMMA TypeStep == TypeOK /\ [Next]_vars => TypeOK'
<1> SUFFICES ASSUME TypeOK, [Next]_vars PROVE TypeOK'
  OBVIOUS
<1> status \in SynapseStatus
  BY DEF TypeOK
<1>1. CASE StartReconcile
  <2>1. Pipeline(spec, status) \in Seq(StepNames) /\ Len(Pipeline(spec, status)) >= 1
    BY PipelineType DEF TypeOK
  <2>2. steps' = Pipeline(spec, status) /\ pc' = 1 /\ pending' = FALSE
    BY <1>1 DEF StartReconcile
  <2>5. steps' \in Seq(StepNames) /\ Len(steps') >= 1
    BY <2>1, <2>2, Zenon
  <2>7. Len(steps') \in Nat
    BY <2>5, LenProperties
  <2>8. pc' \in 0..Len(steps')
    BY <2>2, <2>5, <2>7
  <2>9. pending' \in BOOLEAN
    BY <2>2
  <2>6. steps' \in Seq(StepNames) /\ pc' \in 0..Len(steps') /\ pending' \in BOOLEAN
    BY <2>5, <2>8, <2>9
  <2>3. UNCHANGED <<envVars, status, cm, children, candidate, bridgeVars, countVars>>
    BY <1>1 DEF StartReconcile
  <2>4. QED
    BY <2>6, <2>3, RunStepType DEF TypeOK, countVars
<1>2. CASE setFailedState
  <2>1. <<"setFailedState">> \in Seq(StepNames)
    BY DEF StepNames
  <2>2. [status EXCEPT !.state = "FAILED", !.reason = "PostgresOperatorMissing"]
          \in SynapseStatus
    BY StatusUpdates DEF States, Reasons
  <2>3. candidate' \in Candidates
    BY <1>2, <2>2, CandidateType DEF setFailedState, OnCommit
  <2>4. errors' \in 0..MaxErrors
    BY <1>2 DEF setFailedState, PostgresOperatorListFails, TypeOK
  <2>5. pending' \in BOOLEAN /\ pc' = 1 /\ steps' = <<"setFailedState">>
    BY <1>2 DEF setFailedState
  <2>6. UNCHANGED <<envVars, status, cm, children, bridgeVars, ignoredErrors, edits>>
    BY <1>2 DEF setFailedState
  <2>7. QED
    BY <2>1, <2>3, <2>4, <2>5, <2>6, RunStepType DEF TypeOK
<1>3. CASE setStatusHomeserverConfiguration
  <2>1. [status EXCEPT !.serverName = spec.serverName] \in SynapseStatus
    BY StatusUpdates DEF TypeOK, SynapseSpec
  <2>2. QED
    BY <1>3, <2>1, ComputeType DEF setStatusHomeserverConfiguration, OnCommit
<1>4. CASE parseInputSynapseConfigMap
  <2>1. [status EXCEPT !.serverName = InputName] \in SynapseStatus
    BY StatusUpdates
  <2>2. [status EXCEPT !.state = "FAILED", !.reason = "InputConfigMapMissing"]
          \in SynapseStatus
    BY StatusUpdates DEF States, Reasons
  <2>3. QED
    BY <1>4, <2>1, <2>2, ComputeType DEF parseInputSynapseConfigMap, OnCommit
<1>5. CASE updateSynapseStatusBridges
  <2>1. PICK listed \in SUBSET bridges :
           /\ listed # bridges => errors < MaxErrors
           /\ candidate' = [status |-> [status EXCEPT !.bridges =
                               [b \in BridgeKinds |-> status.bridges[b] \/ b \in listed]],
                            onCommit |-> "Continue"]
           /\ errors' = IF listed = bridges THEN errors ELSE errors + 1
    BY <1>5 DEF updateSynapseStatusBridges
  <2>2. [b \in BridgeKinds |-> status.bridges[b] \/ b \in listed] \in [BridgeKinds -> BOOLEAN]
    BY DEF SynapseStatus
  <2>3. candidate' \in Candidates
    BY <2>1, <2>2, StatusUpdates, CandidateType DEF OnCommit
  <2>4. errors' \in 0..MaxErrors
    BY <2>1 DEF TypeOK
  <2>5. UNCHANGED <<envVars, status, cm, children, pending, steps, pc,
                    bridgeVars, ignoredErrors, edits>>
    BY <1>5 DEF updateSynapseStatusBridges
  <2>6. QED
    BY <2>3, <2>4, <2>5, RunStepType DEF TypeOK
<1>6. CASE updateSynapseStatusWithPostgreSQLInfos
  <2>1. CASE pgSecret = "complete"
    <3>1. updateSynapseStatusDatabase(status) \in SynapseStatus
      BY StatusUpdates DEF updateSynapseStatusDatabase
    <3>2. QED
      BY <1>6, <2>1, <3>1, ComputeType DEF updateSynapseStatusWithPostgreSQLInfos, OnCommit
  <2>2. CASE pgSecret # "complete"
    BY <1>6, <2>2, FinishStepType DEF updateSynapseStatusWithPostgreSQLInfos,
                                      TypeOK, countVars
  <2>3. QED
    BY <2>1, <2>2
<1>7. CASE setSynapseStatusAsRunning
  <2>1. [status EXCEPT !.needsReconcile = FALSE, !.state = "RUNNING",
                       !.reason = ""] \in SynapseStatus
    BY StatusUpdates
  <2>2. QED
    BY <1>7, <2>1, ComputeType DEF setSynapseStatusAsRunning, OnCommit
<1>8. CASE updateSynapseStatus
  <2>1. candidate \in Candidates
    BY <1>8 DEF updateSynapseStatus, TypeOK
  <2>2. status' \in SynapseStatus
    BY <1>8, <2>1 DEF updateSynapseStatus, Candidates
  <2>3. UNCHANGED <<envVars, cm, children, bridgeVars, countVars>>
    BY <1>8 DEF updateSynapseStatus
  <2>4. /\ steps' \in Seq(StepNames)
        /\ pc' \in 0..Len(steps')
        /\ candidate' \in Candidates \cup {NoCandidate}
        /\ pending' \in BOOLEAN
    <3>1. CASE candidate.onCommit = "Continue" /\ candidate.status = status
      <4>1. Advance(FALSE)
        BY <1>8, <3>1 DEF updateSynapseStatus
      <4>2. QED
        BY <1>8, <4>1, AdvanceType DEF updateSynapseStatus
    <3>2. CASE ~(candidate.onCommit = "Continue" /\ candidate.status = status)
      <4>1. Finish(candidate.status # status \/ candidate.onCommit # "DoNotRequeue")
        BY <1>8, <3>2 DEF updateSynapseStatus
      <4>2. QED
        BY <4>1, FinishType
    <3>3. QED
      BY <3>1, <3>2
  <2>5. QED
    BY <2>2, <2>3, <2>4, RunStepType DEF TypeOK, countVars
<1>9. CASE reconcileSynapseConfigMap
  <2>1. cm' \in ConfigMaps
    BY <1>9 DEF reconcileSynapseConfigMap, EnsureConfigMap, DesiredConfigMap, configMapForSynapse,
                TypeOK, ConfigMaps, SynapseSpec
  <2>2. QED
    BY <1>9, <2>1, AdvanceType, RunStepType
       DEF reconcileSynapseConfigMap, At, TypeOK, countVars
<1>10. CASE copyInputSynapseConfigMap
  <2>1. CASE inputCM /\ EnsureConfigMap("input", InputName) /\ Advance(FALSE)
    <3>1. cm' \in ConfigMaps
      BY <2>1 DEF EnsureConfigMap, DesiredConfigMap, ConfigMaps
    <3>2. QED
      BY <1>10, <2>1, <3>1, AdvanceType, RunStepType
         DEF copyInputSynapseConfigMap, At, TypeOK, countVars
  <2>2. CASE ~inputCM /\ Finish(TRUE) /\ UNCHANGED cm
    BY <1>10, <2>2, FinishStepType DEF copyInputSynapseConfigMap, TypeOK, countVars
  <2>3. QED
    BY <1>10, <2>1, <2>2 DEF copyInputSynapseConfigMap
<1>11. CASE ReconcileChild
  <2>1. PICK st \in DOMAIN ChildOf :
           /\ At(st)
           /\ children' = children \cup {ChildOf[st]}
           /\ Advance(ChildOf[st] \in WatchedKinds /\ ChildOf[st] \notin children)
           /\ UNCHANGED <<envVars, status, cm, bridgeVars, countVars>>
    BY <1>11 DEF ReconcileChild
  <2>2. children' \in SUBSET ChildKinds
    BY <2>1 DEF TypeOK, ChildKinds
  <2>3. QED
    BY <2>1, <2>2, AdvanceType, RunStepType DEF At, TypeOK, countVars
<1>12. CASE updateSynapseConfigMapForPostgresCluster
  <2>1. CASE status.databaseReady
    <3>1. cm' = [cm EXCEPT !.database = TRUE] /\ Advance(FALSE)
      BY <1>12, <2>1 DEF updateSynapseConfigMapForPostgresCluster
    <3>2. cm' \in ConfigMaps
      BY <3>1, Zenon DEF TypeOK, ConfigMaps
    <3>3. QED
      BY <1>12, <3>1, <3>2, AdvanceType, RunStepType
         DEF updateSynapseConfigMapForPostgresCluster, At, TypeOK, countVars
  <2>2. CASE ~status.databaseReady
    <3>1. Finish(TRUE) /\ UNCHANGED cm
      BY <1>12, <2>2 DEF updateSynapseConfigMapForPostgresCluster
    <3>2. QED
      BY <1>12, <3>1, FinishStepType
         DEF updateSynapseConfigMapForPostgresCluster, TypeOK, countVars
  <2>3. QED
    BY <2>1, <2>2
<1>13. CASE \E b \in BridgeKinds : updateSynapseConfigMapForBridge(b)
  <2>1. PICK b \in BridgeKinds : updateSynapseConfigMapForBridge(b)
    BY <1>13
  <2>2. cm' \in ConfigMaps
    BY <2>1, Zenon DEF updateSynapseConfigMapForBridge, addAppServiceToHomeserver,
                       AppServiceListIsStringSlice, TypeOK, ConfigMaps, BridgeKinds
  <2>3. QED
    BY <2>1, <2>2, AdvanceType, RunStepType
       DEF updateSynapseConfigMapForBridge, At, TypeOK, countVars
<1>14. CASE \E b \in BridgeKinds : BridgeController(b)
  <2>1. PICK b \in BridgeKinds : BridgeController(b)
    BY <1>14
  <2>2. CASE fetchSynapseInstance(b)
    BY <2>2 DEF fetchSynapseInstance, TypeOK, envVars, runVars, countVars
  <2>3. CASE triggerSynapseReconciliation(b)
    <3>1. bridgeCopy[b] \in SynapseStatus
      BY <2>3 DEF triggerSynapseReconciliation, TypeOK
    <3>2. status' \in SynapseStatus
      BY <2>3, <3>1, StatusUpdates DEF triggerSynapseReconciliation
    <3>3. pending' \in BOOLEAN
      BY <2>3, Zenon DEF triggerSynapseReconciliation, TypeOK
    <3>4. QED
      BY <2>3, <3>2, <3>3 DEF triggerSynapseReconciliation, TypeOK, envVars,
                              runVars, countVars
  <2>4. CASE BridgeGone(b)
    BY <2>4 DEF BridgeGone, TypeOK, envVars, runVars, countVars
  <2>5. QED
    BY <2>1, <2>2, <2>3, <2>4 DEF BridgeController
<1>15. CASE StoreFailure
  <2>1. Finish(TRUE) /\ errors' = errors + 1 /\ errors < MaxErrors
    BY <1>15 DEF StoreFailure
  <2>4. errors' \in 0..MaxErrors
    BY <2>1 DEF TypeOK
  <2>2. UNCHANGED <<envVars, status, cm, children, bridgeVars, ignoredErrors, edits>>
    BY <1>15 DEF StoreFailure
  <2>3. QED
    BY <2>1, <2>2, <2>4, FinishStepType DEF TypeOK
<1>16. CASE IgnoredStatusWriteFailure
  <2>1. /\ Finish(candidate.onCommit # "DoNotRequeue")
        /\ ignoredErrors' \in 0..MaxIgnoredErrors
    BY <1>16 DEF IgnoredStatusWriteFailure, TypeOK
  <2>2. UNCHANGED <<envVars, status, cm, children, bridgeVars, errors, edits>>
    BY <1>16 DEF IgnoredStatusWriteFailure
  <2>3. (candidate.onCommit # "DoNotRequeue") \in BOOLEAN
    OBVIOUS
  <2>4. QED
    BY <2>1, <2>2, <2>3, FinishStepType DEF TypeOK
<1>17. CASE Environment
  <2>1. CASE EditSynapseSpec
    BY <2>1 DEF EditSynapseSpec, Edit, TypeOK, runVars, bridgeVars
  <2>2. CASE CreateInputConfigMap
    BY <2>2 DEF CreateInputConfigMap, Edit, TypeOK, runVars, bridgeVars
  <2>3. CASE InstallPostgresOperator
    BY <2>3 DEF InstallPostgresOperator, Edit, TypeOK, runVars, bridgeVars
  <2>4. CASE WritePostgresSecret
    BY <2>4 DEF WritePostgresSecret, Edit, TypeOK, runVars, bridgeVars
  <2>5. CASE \E b \in BridgeKinds : CreateBridge(b) \/ DeleteBridge(b)
    <3>1. PICK b \in BridgeKinds : CreateBridge(b) \/ DeleteBridge(b)
      BY <2>5
    <3>2. CASE CreateBridge(b)
      BY <3>2 DEF CreateBridge, Edit, TypeOK, runVars
    <3>3. CASE DeleteBridge(b)
      BY <3>3 DEF DeleteBridge, Edit, TypeOK, runVars, bridgeVars
    <3>4. QED
      BY <3>1, <3>2, <3>3
  <2>6. QED
    BY <1>17, <2>1, <2>2, <2>3, <2>4, <2>5 DEF Environment
<1>18. CASE UNCHANGED vars
  BY <1>18 DEF vars, TypeOK
<1>19. QED
  BY <1>1, <1>2, <1>3, <1>4, <1>5, <1>6, <1>7, <1>8, <1>9, <1>10, <1>11,
     <1>12, <1>13, <1>14, <1>15, <1>16, <1>17, <1>18
     DEF Next, SynapseController, Failures

\* TypeOK is an invariant of the controllers, the bridges and the world.
THEOREM TypeCorrect == Spec => []TypeOK
  BY TypeInit, TypeStep, PTL DEF Spec

-----------------------------------------------------------------------------
(***************************************************************************)
(* The Synapse controller implements PipelineExecutor.                     *)
(***************************************************************************)

\* What the composition reads.
ExecInput == <<spec, status>>

\* Returning from Reconcile is the executor's StopRun, provided any change of
\* the input leaves the key queued.
LEMMA FinishRefines ==
    ASSUME pc > 0, NEW rq, Finish(rq), ExecInput' # ExecInput => pending'
    PROVE  Executor!StopRun
  BY DEF Finish, Executor!StopRun, Executor!Noticed, ExecInput

\* Moving on is NextStep, or StopRun after the last step.
LEMMA AdvanceRefines ==
    ASSUME TypeOK, pc > 0, NEW ev \in BOOLEAN, Advance(ev),
           ExecInput' # ExecInput => pending'
    PROVE  Executor!NextStep \/ Executor!StopRun
<1>1. CASE pc = Len(steps)
  BY <1>1, FinishRefines DEF Advance
<1>2. CASE pc # Len(steps)
  <2>1. pc \in 1..(Len(steps) - 1)
    BY <1>2 DEF TypeOK
  <2>2. QED
    BY <1>2, <2>1 DEF Advance, Executor!NextStep, Executor!Noticed, ExecInput
<1>3. QED
  BY <1>1, <1>2

\* A step that leaves the run alone, keeps a queued key queued and queues
\* it on any change of the input is Outside.
LEMMA OutsideRefines ==
    ASSUME UNCHANGED <<steps, pc>>, pending => pending',
           ExecInput' # ExecInput => pending'
    PROVE  Executor!Outside
  BY DEF Executor!Outside, Executor!Noticed, ExecInput

\* Computing a candidate in memory is Outside.
LEMMA ComputeRefines ==
    ASSUME NEW st, NEW oc, Compute(st, oc)
    PROVE  Executor!Outside
  BY OutsideRefines DEF Compute, ExecInput, envVars

\* Every step of the Synapse controller, of the bridges, of the failures
\* and of the users is a step of the executor or leaves it as it is.
LEMMA ExecutorStep ==
    ASSUME TypeOK, [Next]_vars
    PROVE  [Executor!Next]_Executor!vars
<1> USE DEF Executor!Next
<1>1. CASE StartReconcile
  <2>1. steps' = Pipeline(spec, status)
    BY <1>1 DEF StartReconcile
  <2>2. Len(Pipeline(spec, status)) >= 1
    BY PipelineType DEF TypeOK
  <2>3. steps' \in ComposeFrom(<<spec, status>>) /\ Len(steps') > 0
    BY <2>1, <2>2 DEF ComposeFrom, Compositions
  <2>4. Executor!StartRun
    BY <1>1, <2>3 DEF StartReconcile, Executor!StartRun, envVars
  <2>5. QED
    BY <2>4
<1>2. CASE setFailedState
  <2>1. steps' \in ComposeFrom(<<spec, status>>) /\ Len(steps') > 0
    BY <1>2 DEF setFailedState, ComposeFrom, Compositions
  <2>2. Executor!StartRun
    BY <1>2, <2>1 DEF setFailedState, Executor!StartRun, envVars
  <2>3. QED
    BY <2>2
<1>3. CASE setStatusHomeserverConfiguration \/ setSynapseStatusAsRunning
  BY <1>3, ComputeRefines
     DEF setStatusHomeserverConfiguration, setSynapseStatusAsRunning
<1>4. CASE parseInputSynapseConfigMap
  BY <1>4, ComputeRefines DEF parseInputSynapseConfigMap
<1>5. CASE updateSynapseStatusBridges
  BY <1>5, OutsideRefines DEF updateSynapseStatusBridges, ExecInput, envVars
<1>6. CASE updateSynapseStatusWithPostgreSQLInfos
  <2>1. CASE pgSecret = "complete"
    BY <1>6, <2>1, ComputeRefines DEF updateSynapseStatusWithPostgreSQLInfos
  <2>2. CASE pgSecret # "complete"
    BY <1>6, <2>2, FinishRefines
       DEF updateSynapseStatusWithPostgreSQLInfos, At, ExecInput, envVars
  <2>3. QED
    BY <2>1, <2>2
<1>7. CASE updateSynapseStatus
  <2>1. CASE candidate.onCommit = "Continue" /\ candidate.status = status
    <3>1. Advance(FALSE) /\ status' = status
      BY <1>7, <2>1 DEF updateSynapseStatus
    <3>2. QED
      BY <1>7, <3>1, AdvanceRefines DEF updateSynapseStatus, ExecInput, envVars
  <2>2. CASE ~(candidate.onCommit = "Continue" /\ candidate.status = status)
    <3>1. /\ Finish(candidate.status # status
                    \/ candidate.onCommit # "DoNotRequeue")
          /\ status' = candidate.status
      BY <1>7, <2>2 DEF updateSynapseStatus
    <3>2. ExecInput' # ExecInput => pending'
      BY <1>7, <3>1 DEF updateSynapseStatus, ExecInput, envVars, Finish
    <3>3. QED
      BY <1>7, <3>1, <3>2, FinishRefines DEF updateSynapseStatus
  <2>3. QED
    BY <2>1, <2>2
<1>8. CASE reconcileSynapseConfigMap
  BY <1>8, AdvanceRefines DEF reconcileSynapseConfigMap, At, ExecInput, envVars
<1>9. CASE copyInputSynapseConfigMap
  <2>1. CASE inputCM /\ EnsureConfigMap("input", InputName) /\ Advance(FALSE)
    BY <1>9, <2>1, AdvanceRefines
       DEF copyInputSynapseConfigMap, At, ExecInput, envVars
  <2>2. CASE ~inputCM /\ Finish(TRUE) /\ UNCHANGED cm
    BY <1>9, <2>2, FinishRefines
       DEF copyInputSynapseConfigMap, At, ExecInput, envVars
  <2>3. QED
    BY <1>9, <2>1, <2>2 DEF copyInputSynapseConfigMap
<1>10. CASE ReconcileChild
  <2>1. PICK st \in DOMAIN ChildOf :
           /\ At(st)
           /\ Advance(ChildOf[st] \in WatchedKinds /\ ChildOf[st] \notin children)
           /\ UNCHANGED <<envVars, status>>
    BY <1>10 DEF ReconcileChild
  <2>2. QED
    BY <2>1, AdvanceRefines DEF At, ExecInput, envVars
<1>11. CASE updateSynapseConfigMapForPostgresCluster
  <2>1. CASE status.databaseReady
    BY <1>11, <2>1, AdvanceRefines
       DEF updateSynapseConfigMapForPostgresCluster, At, ExecInput, envVars
  <2>2. CASE ~status.databaseReady
    BY <1>11, <2>2, FinishRefines
       DEF updateSynapseConfigMapForPostgresCluster, At, ExecInput, envVars
  <2>3. QED
    BY <2>1, <2>2
<1>12. CASE \E b \in BridgeKinds : updateSynapseConfigMapForBridge(b)
  <2>1. PICK b \in BridgeKinds : updateSynapseConfigMapForBridge(b)
    BY <1>12
  <2>2. QED
    BY <2>1, AdvanceRefines
       DEF updateSynapseConfigMapForBridge, At, ExecInput, envVars
<1>13. CASE \E b \in BridgeKinds : BridgeController(b)
  <2>1. PICK b \in BridgeKinds : BridgeController(b)
    BY <1>13
  <2>2. CASE fetchSynapseInstance(b)
    BY <2>2, OutsideRefines DEF fetchSynapseInstance, ExecInput, envVars, runVars
  <2>3. CASE triggerSynapseReconciliation(b)
    BY <2>3, OutsideRefines
       DEF triggerSynapseReconciliation, ExecInput, envVars, runVars
  <2>4. CASE BridgeGone(b)
    BY <2>4, OutsideRefines DEF BridgeGone, ExecInput, envVars, runVars
  <2>5. QED
    BY <2>1, <2>2, <2>3, <2>4 DEF BridgeController
<1>14. CASE StoreFailure
  BY <1>14, FinishRefines DEF StoreFailure, ExecInput, envVars
<1>15. CASE IgnoredStatusWriteFailure
  BY <1>15, FinishRefines DEF IgnoredStatusWriteFailure, ExecInput, envVars
<1>16. CASE EditSynapseSpec
  BY <1>16, OutsideRefines DEF EditSynapseSpec, runVars
<1>17. CASE CreateInputConfigMap \/ InstallPostgresOperator
            \/ WritePostgresSecret
  BY <1>17, OutsideRefines DEF CreateInputConfigMap, InstallPostgresOperator,
     WritePostgresSecret, ExecInput, runVars
<1>18. CASE \E b \in BridgeKinds : CreateBridge(b) \/ DeleteBridge(b)
  <2>1. PICK b \in BridgeKinds : CreateBridge(b) \/ DeleteBridge(b)
    BY <1>18
  <2>2. QED
    BY <2>1, OutsideRefines DEF CreateBridge, DeleteBridge, ExecInput, runVars
<1>19. CASE UNCHANGED vars
  BY <1>19 DEF vars, Executor!vars
<1>20. QED
  BY <1>1, <1>2, <1>3, <1>4, <1>5, <1>6, <1>7, <1>8, <1>9, <1>10, <1>11,
     <1>12, <1>13, <1>14, <1>15, <1>16, <1>17, <1>18, <1>19
     DEF Next, SynapseController, Failures, Environment

\* The Synapse controller implements the safety part of PipelineExecutor:
\* Reconcile composes its list from the Spec and Status it read, goes
\* through it one subreconciler at a time, and no write of the Spec or
\* Status (its own Status patches, a bridge's trigger, a user's edit)
\* leaves the Synapse's key unqueued.  RunsEnd, the liveness part, is
\* checked by TLC (ImplementsExecutor).
THEOREM SynapseImplementsExecutor == Spec => Executor!SafetySpec
<1>1. Init => Executor!Init
  BY DEF Init, Executor!Init
<1>2. TypeOK /\ [Next]_vars => [Executor!Next]_Executor!vars
  BY ExecutorStep
<1>3. QED
  BY <1>1, <1>2, TypeCorrect, PTL DEF Spec, Executor!SafetySpec

=============================================================================
