------------------------- MODULE MautrixSignalProofs -------------------------
(***************************************************************************)
(* Proofs about the mautrix-signal controller model, for every value of    *)
(* the constants allowed by ConstantsAssumption.                           *)
(***************************************************************************)
EXTENDS MautrixSignalReconciler, SequenceTheorems, TLAPS

USE ConstantsAssumption DEF ConstantsAssumption

\* The four lists Reconcile can compose, written out.
ValuesList ==
    <<"triggerSynapseReconciliation", "buildMautrixSignalStatus",
      "reconcileMautrixSignalConfigMap",
      "reconcileSignaldPVC", "reconcileSignaldDeployment",
      "reconcileMautrixSignalService", "reconcileMautrixSignalPVC",
      "reconcileMautrixSignalDeployment">>
InputList ==
    <<"triggerSynapseReconciliation", "buildMautrixSignalStatus",
      "copyInputMautrixSignalConfigMap", "configureMautrixSignalConfigMap",
      "reconcileSignaldPVC", "reconcileSignaldDeployment",
      "reconcileMautrixSignalService", "reconcileMautrixSignalPVC",
      "reconcileMautrixSignalDeployment">>
ValuesOpenshiftList ==
    <<"triggerSynapseReconciliation", "buildMautrixSignalStatus",
      "reconcileMautrixSignalConfigMap",
      "reconcileMautrixSignalServiceAccount", "reconcileMautrixSignalRoleBinding",
      "reconcileSignaldPVC", "reconcileSignaldDeployment",
      "reconcileMautrixSignalService", "reconcileMautrixSignalPVC",
      "reconcileMautrixSignalDeployment">>
InputOpenshiftList ==
    <<"triggerSynapseReconciliation", "buildMautrixSignalStatus",
      "copyInputMautrixSignalConfigMap", "configureMautrixSignalConfigMap",
      "reconcileMautrixSignalServiceAccount", "reconcileMautrixSignalRoleBinding",
      "reconcileSignaldPVC", "reconcileSignaldDeployment",
      "reconcileMautrixSignalService", "reconcileMautrixSignalPVC",
      "reconcileMautrixSignalDeployment">>

\* Reconcile's appends with Spec.ConfigMap unset and IsOpenshift FALSE.
LEMMA PipelineValues == Pipeline(FALSE, FALSE) = ValuesList
<1>1. Pipeline(FALSE, FALSE) \in Seq(StepNames) /\ ValuesList \in Seq(StepNames)
  BY DEF Pipeline, ValuesList, StepNames, ChildOf
<1>2. /\ Len(Pipeline(FALSE, FALSE)) = 8
      /\ \A j \in 1..8 : Pipeline(FALSE, FALSE)[j] = ValuesList[j]
  BY DEF Pipeline, ValuesList
<1>3. QED
  BY <1>1, <1>2, SeqEqual DEF ValuesList

\* Reconcile's appends with Spec.ConfigMap set and IsOpenshift FALSE.
LEMMA PipelineInput == Pipeline(TRUE, FALSE) = InputList
<1>1. Pipeline(TRUE, FALSE) \in Seq(StepNames) /\ InputList \in Seq(StepNames)
  BY DEF Pipeline, InputList, StepNames, ChildOf
<1>2. /\ Len(Pipeline(TRUE, FALSE)) = 9
      /\ \A j \in 1..9 : Pipeline(TRUE, FALSE)[j] = InputList[j]
  BY DEF Pipeline, InputList
<1>3. QED
  BY <1>1, <1>2, SeqEqual DEF InputList

\* Reconcile's appends with Spec.ConfigMap unset and IsOpenshift TRUE.
LEMMA PipelineValuesOpenshift == Pipeline(FALSE, TRUE) = ValuesOpenshiftList
<1>1. Pipeline(FALSE, TRUE) \in Seq(StepNames) /\ ValuesOpenshiftList \in Seq(StepNames)
  BY DEF Pipeline, ValuesOpenshiftList, StepNames, ChildOf
<1>2. /\ Len(Pipeline(FALSE, TRUE)) = 10
      /\ \A j \in 1..10 : Pipeline(FALSE, TRUE)[j] = ValuesOpenshiftList[j]
  BY DEF Pipeline, ValuesOpenshiftList
<1>3. QED
  BY <1>1, <1>2, SeqEqual DEF ValuesOpenshiftList

\* Reconcile's appends with Spec.ConfigMap set and IsOpenshift TRUE.
LEMMA PipelineInputOpenshift == Pipeline(TRUE, TRUE) = InputOpenshiftList
<1>1. Pipeline(TRUE, TRUE) \in Seq(StepNames) /\ InputOpenshiftList \in Seq(StepNames)
  BY DEF Pipeline, InputOpenshiftList, StepNames, ChildOf
<1>2. /\ Len(Pipeline(TRUE, TRUE)) = 11
      /\ \A j \in 1..11 : Pipeline(TRUE, TRUE)[j] = InputOpenshiftList[j]
  BY DEF Pipeline, InputOpenshiftList
<1>3. QED
  BY <1>1, <1>2, SeqEqual DEF InputOpenshiftList

\* The four lists are sequences of subreconciler names.
LEMMA ListsType ==
    /\ ValuesList \in Seq(StepNames) /\ Len(ValuesList) = 8
    /\ InputList \in Seq(StepNames) /\ Len(InputList) = 9
    /\ ValuesOpenshiftList \in Seq(StepNames) /\ Len(ValuesOpenshiftList) = 10
    /\ InputOpenshiftList \in Seq(StepNames) /\ Len(InputOpenshiftList) = 11
  BY DEF ValuesList, InputList, ValuesOpenshiftList, InputOpenshiftList,
         StepNames, ChildOf

\* Every list Reconcile composes is one of the four.
LEMMA PipelineIsList ==
    ASSUME NEW i \in BOOLEAN, NEW o \in BOOLEAN
    PROVE  Pipeline(i, o) \in {ValuesList, InputList, ValuesOpenshiftList,
                               InputOpenshiftList}
<1>1. CASE ~i /\ ~o
  <2>1. i = FALSE /\ o = FALSE
    BY <1>1
  <2>2. QED
    BY <2>1, PipelineValues
<1>2. CASE i /\ ~o
  <2>1. i = TRUE /\ o = FALSE
    BY <1>2
  <2>2. QED
    BY <2>1, PipelineInput
<1>3. CASE ~i /\ o
  <2>1. i = FALSE /\ o = TRUE
    BY <1>3
  <2>2. QED
    BY <2>1, PipelineValuesOpenshift
<1>4. CASE i /\ o
  <2>1. i = TRUE /\ o = TRUE
    BY <1>4
  <2>2. QED
    BY <2>1, PipelineInputOpenshift
<1>5. QED
  BY <1>1, <1>2, <1>3, <1>4

\* Every list Reconcile composes is a sequence of subreconciler names with
\* at least the trigger and the status step.
LEMMA PipelineType ==
    ASSUME NEW i \in BOOLEAN, NEW o \in BOOLEAN
    PROVE  /\ Pipeline(i, o) \in Seq(StepNames)
           /\ Len(Pipeline(i, o)) >= 2
<1>1. Pipeline(i, o) \in {ValuesList, InputList, ValuesOpenshiftList,
                          InputOpenshiftList}
  BY PipelineIsList
<1>2. CASE Pipeline(i, o) = ValuesList
  BY <1>2, ListsType
<1>3. CASE Pipeline(i, o) = InputList
  BY <1>3, ListsType
<1>4. CASE Pipeline(i, o) = ValuesOpenshiftList
  BY <1>4, ListsType
<1>5. CASE Pipeline(i, o) = InputOpenshiftList
  BY <1>5, ListsType
<1>6. QED
  BY <1>1, <1>2, <1>3, <1>4, <1>5

\* The record updates of the model stay in their types.
LEMMA FailedStatusType ==
    ASSUME NEW st \in MSStatus
    PROVE  [st EXCEPT !.state = "FAILED"] \in MSStatus
  BY Zenon DEF MSStatus

LEMMA BuiltStatusType ==
    ASSUME NEW st \in MSStatus, NEW n \in ServerNames \cup {NoName},
           NEW o \in BOOLEAN
    PROVE  [st EXCEPT !.serverName = n, !.isOpenshift = o] \in MSStatus
  BY Zenon DEF MSStatus

LEMMA NeedsReconcileType ==
    ASSUME NEW sc \in SynapseStatus
    PROVE  [sc EXCEPT !.needsReconcile = TRUE] \in SynapseStatus
  BY Zenon DEF SynapseStatus

LEMMA DomainType ==
    ASSUME NEW cm \in MSConfigMaps, NEW d \in Domains
    PROVE  [cm EXCEPT !.domain = d] \in MSConfigMaps
  BY Zenon DEF MSConfigMaps

\* Ending the run leaves the run variables well typed.
LEMMA FinishType ==
    ASSUME TypeOK, NEW rq \in BOOLEAN, Finish(rq)
    PROVE  /\ steps' \in Seq(StepNames)
           /\ pc' \in 0..Len(steps')
           /\ fetched' \in BOOLEAN
           /\ synCopy' \in SynapseStatus
           /\ pending' \in BOOLEAN
<1>1. steps' \in Seq(StepNames) /\ Len(steps') = 0
  BY EmptySeq DEF Finish
<1>2. pending' \in BOOLEAN /\ fetched' \in BOOLEAN /\ synCopy' \in SynapseStatus
  BY Zenon DEF Finish, TypeOK
<1>3. QED
  BY <1>1, <1>2 DEF Finish

\* Moving to the next step, or ending the run after the last one, leaves
\* the run variables well typed.
LEMMA AdvanceType ==
    ASSUME TypeOK, pc > 0, NEW ev \in BOOLEAN, Advance(ev)
    PROVE  /\ steps' \in Seq(StepNames)
           /\ pc' \in 0..Len(steps')
           /\ fetched' \in BOOLEAN
           /\ synCopy' \in SynapseStatus
           /\ pending' \in BOOLEAN
<1>1. CASE pc = Len(steps)
  BY <1>1, FinishType DEF Advance
<1>2. CASE pc # Len(steps)
  <2>1. steps' = steps /\ pc' = pc + 1 /\ fetched' = FALSE /\ synCopy' = synCopy
        /\ pending' = (pending \/ ev)
    BY <1>2 DEF Advance
  <2>2. pending' \in BOOLEAN /\ synCopy' \in SynapseStatus
    BY <2>1, Zenon DEF TypeOK
  <2>3. steps \in Seq(StepNames) /\ pc \in 0..Len(steps)
    BY DEF TypeOK
  <2>4. pc < Len(steps) /\ Len(steps) \in Nat
    BY <1>2, <2>3, LenProperties
  <2>5. pc' \in 0..Len(steps')
    BY <2>1, <2>3, <2>4
  <2>6. QED
    BY <2>1, <2>2, <2>3, <2>5
<1>3. QED
  BY <1>1, <1>2

\* A step that keeps every variable in its type, and leaves the users'
\* variables alone, preserves TypeOK.
LEMMA StepType ==
    ASSUME TypeOK,
           steps' \in Seq(StepNames), pc' \in 0..Len(steps'),
           fetched' \in BOOLEAN, synCopy' \in SynapseStatus, pending' \in BOOLEAN,
           msStatus' \in MSStatus, msCM' \in MSConfigMaps,
           msChildren' \subseteq ChildKinds, synStatus' \in SynapseStatus,
           errors' \in 0..MaxErrors,
           UNCHANGED <<envVars, synExists, synServerName, synOpenshift, edits>>
    PROVE  TypeOK'
  BY DEF TypeOK, envVars

\* Init establishes TypeOK.
LEMMA TypeInit == Init => TypeOK
<1> SUFFICES ASSUME Init PROVE TypeOK
  OBVIOUS
<1>1. InitialMSStatus \in MSStatus /\ NoConfigMap \in MSConfigMaps
      /\ UnsetSynapseStatus \in SynapseStatus
  BY DEF InitialMSStatus, MSStatus, NoConfigMap, MSConfigMaps, Domains,
         UnsetSynapseStatus, SynapseStatus
<1>2. <<>> \in Seq(StepNames) /\ Len(<<>>) = 0
  BY EmptySeq
<1>3. errors \in 0..MaxErrors /\ edits \in 0..MaxEdits /\ pc \in 0..Len(steps)
  BY <1>2 DEF Init
<1>4. msChildren \subseteq ChildKinds /\ steps \in Seq(StepNames)
  BY <1>2 DEF Init
<1>5. QED
  BY <1>1, <1>3, <1>4 DEF Init, TypeOK

\* Every step keeps TypeOK.
LEMMA TypeStep == TypeOK /\ [Next]_vars => TypeOK'
<1> SUFFICES ASSUME TypeOK, [Next]_vars PROVE TypeOK'
  OBVIOUS
<1>1. CASE StartReconcile
  <2>1. steps' = Pipeline(msInputNamed, msStatus.isOpenshift) /\ pc' = 1
    BY <1>1 DEF StartReconcile
  <2>2. msInputNamed \in BOOLEAN /\ msStatus.isOpenshift \in BOOLEAN
    BY DEF TypeOK, MSStatus
  <2>3. steps' \in Seq(StepNames) /\ Len(steps') >= 2
    BY <2>1, <2>2, PipelineType
  <2>4. pc' \in 0..Len(steps')
    BY <2>1, <2>3, LenProperties
  <2>5. QED
    BY <1>1, <2>3, <2>4 DEF StartReconcile, TypeOK, envVars, msVars, synVars
<1>2. CASE MautrixSignalNotFound
  <2>1. CASE pc = 0 /\ pending /\ pending' = FALSE /\ UNCHANGED runVars
    BY <1>2, <2>1 DEF MautrixSignalNotFound, TypeOK, envVars, msVars, synVars, runVars
  <2>2. CASE pc > 0 /\ Finish(FALSE)
    BY <1>2, <2>2, FinishType, StepType DEF MautrixSignalNotFound, TypeOK,
       msVars, synVars
  <2>3. QED
    BY <1>2, <2>1, <2>2 DEF MautrixSignalNotFound
<1>3. CASE fetchSynapseInstance
  BY <1>3 DEF fetchSynapseInstance, TypeOK, envVars, msVars, synVars
<1>4. CASE triggerSynapseReconciliation
  <2>1. synStatus' \in SynapseStatus
    BY <1>4, NeedsReconcileType DEF triggerSynapseReconciliation, TypeOK
  <2>2. QED
    BY <1>4, <2>1, AdvanceType, StepType DEF triggerSynapseReconciliation,
       TypeOK, msVars
<1>5. CASE SynapseNotReady
  BY <1>5, FinishType, StepType DEF SynapseNotReady, TypeOK, msVars, synVars
<1>6. CASE buildMautrixSignalStatus
  <2>1. msStatus' \in MSStatus
    <3>1. synStatus.serverName \in ServerNames \cup {NoName}
          /\ synOpenshift \in BOOLEAN /\ msStatus \in MSStatus
      BY DEF TypeOK, SynapseStatus
    <3>2. BuiltStatus \in MSStatus
      BY <3>1, BuiltStatusType DEF BuiltStatus
    <3>3. QED
      BY <1>6, <3>2 DEF buildMautrixSignalStatus
  <2>2. pc > 0
    BY <1>6 DEF buildMautrixSignalStatus, At
  <2>3. CASE BuiltStatus # msStatus
    BY <1>6, <2>1, <2>3, FinishType, StepType DEF buildMautrixSignalStatus,
       TypeOK, synVars
  <2>4. CASE BuiltStatus = msStatus
    BY <1>6, <2>1, <2>2, <2>4, AdvanceType, StepType
       DEF buildMautrixSignalStatus, TypeOK, synVars
  <2>5. QED
    BY <2>3, <2>4
<1>7. CASE reconcileMautrixSignalConfigMap
  <2>1. msCM' \in MSConfigMaps
    BY <1>7 DEF reconcileMautrixSignalConfigMap, configMapForMautrixSignal,
       MSConfigMaps, Domains, TypeOK, MSStatus
  <2>2. QED
    BY <1>7, <2>1, AdvanceType, StepType DEF reconcileMautrixSignalConfigMap,
       At, TypeOK, synVars
<1>8. CASE copyInputMautrixSignalConfigMap
  <2>1. CASE inputCM = "absent"
    <3>1. msStatus' \in MSStatus
      BY <1>8, <2>1, FailedStatusType DEF copyInputMautrixSignalConfigMap, TypeOK
    <3>2. QED
      BY <1>8, <2>1, <3>1, FinishType, StepType
         DEF copyInputMautrixSignalConfigMap, TypeOK, synVars
  <2>2. CASE inputCM # "absent"
    <3>0. configMapForMautrixSignalCopy(inputCM) \in MSConfigMaps
      BY Zenon DEF configMapForMautrixSignalCopy, MSConfigMaps, Domains
    <3>1. msCM' \in MSConfigMaps
      BY <1>8, <2>2, <3>0 DEF copyInputMautrixSignalConfigMap
    <3>2. QED
      BY <1>8, <2>2, <3>1, AdvanceType, StepType
         DEF copyInputMautrixSignalConfigMap, At, TypeOK, synVars
  <2>3. QED
    BY <2>1, <2>2
<1>9. CASE configureMautrixSignalConfigMap
  <2>1. CASE msCM.wellFormed
    <3>1. msStatus.serverName \in Domains /\ msCM \in MSConfigMaps
      BY DEF TypeOK, MSStatus, Domains
    <3>2. updateMautrixSignalData(msCM, msStatus.serverName) \in MSConfigMaps
      BY <3>1, DomainType DEF updateMautrixSignalData
    <3>3. msCM' \in MSConfigMaps
      BY <1>9, <2>1, <3>2 DEF configureMautrixSignalConfigMap
    <3>4. QED
      BY <1>9, <2>1, <3>3, AdvanceType, StepType
         DEF configureMautrixSignalConfigMap, At, TypeOK, synVars
  <2>2. CASE ~msCM.wellFormed
    BY <1>9, <2>2, FinishType, StepType DEF configureMautrixSignalConfigMap,
       TypeOK, synVars
  <2>3. QED
    BY <2>1, <2>2
<1>10. CASE \E s \in DOMAIN ChildOf : ReconcileChild(s)
  <2>1. PICK s \in DOMAIN ChildOf : ReconcileChild(s)
    BY <1>10
  <2>2. msChildren' \subseteq ChildKinds
    BY <2>1 DEF ReconcileChild, ChildKinds, TypeOK
  <2>3. QED
    BY <2>1, <2>2, AdvanceType, StepType DEF ReconcileChild, At, TypeOK, synVars
<1>11. CASE SynapseReconciles
  <2>1. synStatus' \in SynapseStatus
    BY <1>11 DEF SynapseReconciles, SynapseStatus, TypeOK
  <2>2. QED
    BY <1>11, <2>1 DEF SynapseReconciles, TypeOK, envVars, msVars, runVars
<1>12. CASE StoreFailure
  <2>1. Finish(TRUE) /\ errors' = errors + 1 /\ errors < MaxErrors
    BY <1>12 DEF StoreFailure
  <2>2. /\ steps' \in Seq(StepNames) /\ pc' \in 0..Len(steps')
        /\ fetched' \in BOOLEAN /\ synCopy' \in SynapseStatus
        /\ pending' \in BOOLEAN
    BY <2>1, FinishType
  <2>3. errors' \in 0..MaxErrors
    BY <2>1 DEF TypeOK
  <2>4. UNCHANGED <<envVars, msVars, synVars, edits>>
    BY <1>12 DEF StoreFailure
  <2>5. QED
    BY <2>2, <2>3, <2>4, StepType DEF TypeOK, msVars, synVars
<1>13. CASE Environment
  <2> USE DEF Environment, Edit, TypeOK, envVars, msVars, synVars, runVars
  <2>1. CASE CreateSynapse
    BY <2>1 DEF CreateSynapse
  <2>2. CASE EditSynapse
    BY <2>2 DEF EditSynapse
  <2>3. CASE DeleteMautrixSignal
    <3>1. InitialMSStatus \in MSStatus /\ NoConfigMap \in MSConfigMaps
      BY DEF InitialMSStatus, MSStatus, NoConfigMap, MSConfigMaps, Domains
    <3>2. edits' \in 0..MaxEdits /\ pending' \in BOOLEAN
          /\ msChildren' \subseteq ChildKinds
      BY <2>3 DEF DeleteMautrixSignal
    <3>3. msStatus' \in MSStatus /\ msCM' \in MSConfigMaps
      BY <2>3, <3>1 DEF DeleteMautrixSignal
    <3>4. QED
      BY <2>3, <3>2, <3>3 DEF DeleteMautrixSignal
  <2>4. CASE CreateMautrixSignal
    BY <2>4 DEF CreateMautrixSignal
  <2>5. CASE EditMautrixSignalConfigMapName
    BY <2>5 DEF EditMautrixSignalConfigMapName
  <2>6. CASE EditInputConfigMap
    BY <2>6 DEF EditInputConfigMap, InputStates
  <2>7. QED
    BY <1>13, <2>1, <2>2, <2>3, <2>4, <2>5, <2>6
<1>14. CASE UNCHANGED vars
  BY <1>14 DEF vars, TypeOK
<1>15. QED
  BY <1>1, <1>2, <1>3, <1>4, <1>5, <1>6, <1>7, <1>8, <1>9, <1>10, <1>11,
     <1>12, <1>13, <1>14 DEF Next, BridgeController

\* Init establishes TypeOK, and every step keeps it.
THEOREM TypeCorrect == Spec => []TypeOK
<1>1. QED
  BY TypeInit, TypeStep, PTL DEF Spec

-----------------------------------------------------------------------------
(***************************************************************************)
(* A quiet bridge has converged.                                           *)
(***************************************************************************)

Lists == {ValuesList, InputList, ValuesOpenshiftList, InputOpenshiftList}

\* The subreconcilers that call ReconcileResource on one child, and what
\* each creates.
LEMMA ChildFacts ==
    /\ DOMAIN ChildOf = {"reconcileMautrixSignalServiceAccount",
                         "reconcileMautrixSignalRoleBinding",
                         "reconcileSignaldPVC", "reconcileSignaldDeployment",
                         "reconcileMautrixSignalService",
                         "reconcileMautrixSignalPVC",
                         "reconcileMautrixSignalDeployment"}
    /\ ChildOf["reconcileMautrixSignalServiceAccount"] = "ServiceAccount"
    /\ ChildOf["reconcileMautrixSignalRoleBinding"] = "RoleBinding"
    /\ ChildOf["reconcileSignaldPVC"] = "SignaldPVC"
    /\ ChildOf["reconcileSignaldDeployment"] = "SignaldDeployment"
    /\ ChildOf["reconcileMautrixSignalService"] = "Service"
    /\ ChildOf["reconcileMautrixSignalPVC"] = "PVC"
    /\ ChildOf["reconcileMautrixSignalDeployment"] = "Deployment"
  BY DEF ChildOf

\* The children every bridge has.
LEMMA BaseChildrenIs ==
    BaseChildren = {"SignaldPVC", "SignaldDeployment", "Service", "PVC",
                    "Deployment"}
  BY ChildFacts DEF BaseChildren, ChildKinds, OpenshiftChildren

\* Where the steps stand in every list: the trigger first, the status
\* step second, the ConfigMap steps third (and fourth, after the copy).
LEMMA ListShape ==
    ASSUME NEW L \in Lists
    PROVE  /\ L \in Seq(StepNames) /\ Len(L) >= 8
           /\ L[1] = "triggerSynapseReconciliation"
           /\ L[2] = "buildMautrixSignalStatus"
           /\ \A j \in 1..Len(L) : L[j] = "triggerSynapseReconciliation" => j = 1
           /\ \A j \in 1..Len(L) : L[j] = "buildMautrixSignalStatus" => j = 2
           /\ \A j \in 1..Len(L) : L[j] = "reconcileMautrixSignalConfigMap" => j = 3
           /\ \A j \in 1..Len(L) : L[j] = "copyInputMautrixSignalConfigMap" => j = 3
           /\ \A j \in 1..Len(L) : L[j] = "configureMautrixSignalConfigMap" =>
                 j = 4 /\ L[3] = "copyInputMautrixSignalConfigMap"
<1>1. CASE L = ValuesList
  BY <1>1, ListsType DEF ValuesList
<1>2. CASE L = InputList
  BY <1>2, ListsType DEF InputList
<1>3. CASE L = ValuesOpenshiftList
  BY <1>3, ListsType DEF ValuesOpenshiftList
<1>4. CASE L = InputOpenshiftList
  BY <1>4, ListsType DEF InputOpenshiftList
<1>5. QED
  BY <1>1, <1>2, <1>3, <1>4 DEF Lists

\* StepEffect and Converged with the store as parameters, so that they can
\* be said of the state after a step.
StepEffectOf(s, cm, ch, st) ==
    /\ s \in DOMAIN ChildOf => ChildOf[s] \in ch
    /\ s = "reconcileMautrixSignalConfigMap" =>
          cm = configMapForMautrixSignal(st.serverName)
    /\ s = "copyInputMautrixSignalConfigMap" => cm.source = "input"
    /\ s = "configureMautrixSignalConfigMap" =>
          cm.source = "input" /\ cm.domain = st.serverName
ConvergedOf(named, st, cm, ch) ==
    /\ st.serverName # NoName
    /\ cm.source = IF named THEN "input" ELSE "values"
    /\ cm.domain = st.serverName
    /\ BaseChildren \subseteq ch
    /\ st.isOpenshift => OpenshiftChildren \subseteq ch

\* The effect of step s in the store after a step (s itself unprimed).
EffectAfter(s) == StepEffectOf(s, msCM', msChildren', msStatus')

LEMMA EffectIsOf ==
    ASSUME NEW s
    PROVE  /\ StepEffect(s) = StepEffectOf(s, msCM, msChildren, msStatus)
           /\ StepEffect(s)' = StepEffectOf(s, msCM', msChildren', msStatus')
  BY DEF StepEffect, StepEffectOf

LEMMA ConvergedIsOf ==
    Converged' = ConvergedOf(msInputNamed', msStatus', msCM', msChildren')
  BY DEF Converged, ConvergedOf

\* A run of the whole list leaves the bridge converged.
LEMMA CompleteRun ==
    ASSUME NEW named \in BOOLEAN, NEW st \in MSStatus, NEW cm, NEW ch,
           st.serverName # NoName,
           NEW L, L = Pipeline(named, st.isOpenshift),
           \A i \in 1..Len(L) : StepEffectOf(L[i], cm, ch, st)
    PROVE  ConvergedOf(named, st, cm, ch)
<1>1. st.isOpenshift \in BOOLEAN
  BY DEF MSStatus
<1>2. \A k \in 1..Len(L) : StepEffectOf(L[k], cm, ch, st)
  OBVIOUS
<1>3. CASE ~named /\ ~st.isOpenshift
  <2>1. named = FALSE /\ st.isOpenshift = FALSE
    BY <1>1, <1>3
  <2>2. L = ValuesList /\ Len(L) = 8
    BY <2>1, PipelineValues, ListsType
  <2>3. \A s \in {"reconcileMautrixSignalConfigMap", "reconcileSignaldPVC",
                  "reconcileSignaldDeployment", "reconcileMautrixSignalService",
                  "reconcileMautrixSignalPVC", "reconcileMautrixSignalDeployment"} :
          StepEffectOf(s, cm, ch, st)
    BY <1>2, <2>2 DEF ValuesList
  <2>4. QED
    BY <1>3, <2>3, ChildFacts, BaseChildrenIs
       DEF StepEffectOf, ConvergedOf, configMapForMautrixSignal
<1>4. CASE named /\ ~st.isOpenshift
  <2>1. named = TRUE /\ st.isOpenshift = FALSE
    BY <1>1, <1>4
  <2>2. L = InputList /\ Len(L) = 9
    BY <2>1, PipelineInput, ListsType
  <2>3. \A s \in {"copyInputMautrixSignalConfigMap", "configureMautrixSignalConfigMap",
                  "reconcileSignaldPVC",
                  "reconcileSignaldDeployment", "reconcileMautrixSignalService",
                  "reconcileMautrixSignalPVC", "reconcileMautrixSignalDeployment"} :
          StepEffectOf(s, cm, ch, st)
    BY <1>2, <2>2 DEF InputList
  <2>4. QED
    BY <1>4, <2>3, ChildFacts, BaseChildrenIs DEF StepEffectOf, ConvergedOf
<1>5. CASE ~named /\ st.isOpenshift
  <2>1. named = FALSE /\ st.isOpenshift = TRUE
    BY <1>1, <1>5
  <2>2. L = ValuesOpenshiftList /\ Len(L) = 10
    BY <2>1, PipelineValuesOpenshift, ListsType
  <2>3. \A s \in {"reconcileMautrixSignalConfigMap",
                  "reconcileMautrixSignalServiceAccount",
                  "reconcileMautrixSignalRoleBinding", "reconcileSignaldPVC",
                  "reconcileSignaldDeployment", "reconcileMautrixSignalService",
                  "reconcileMautrixSignalPVC", "reconcileMautrixSignalDeployment"} :
          StepEffectOf(s, cm, ch, st)
    BY <1>2, <2>2 DEF ValuesOpenshiftList
  <2>4. QED
    BY <1>5, <2>3, ChildFacts, BaseChildrenIs
       DEF StepEffectOf, ConvergedOf, configMapForMautrixSignal, OpenshiftChildren
<1>6. CASE named /\ st.isOpenshift
  <2>1. named = TRUE /\ st.isOpenshift = TRUE
    BY <1>1, <1>6
  <2>2. L = InputOpenshiftList /\ Len(L) = 11
    BY <2>1, PipelineInputOpenshift, ListsType
  <2>3. \A s \in {"copyInputMautrixSignalConfigMap", "configureMautrixSignalConfigMap",
                  "reconcileMautrixSignalServiceAccount",
                  "reconcileMautrixSignalRoleBinding", "reconcileSignaldPVC",
                  "reconcileSignaldDeployment", "reconcileMautrixSignalService",
                  "reconcileMautrixSignalPVC", "reconcileMautrixSignalDeployment"} :
          StepEffectOf(s, cm, ch, st)
    BY <1>2, <2>2 DEF InputOpenshiftList
  <2>4. QED
    BY <1>6, <2>3, ChildFacts, BaseChildrenIs
       DEF StepEffectOf, ConvergedOf, OpenshiftChildren
<1>7. QED
  BY <1>3, <1>4, <1>5, <1>6

\* A running Reconcile works through one of the four lists, and the
\* Synapse copy read by fetchSynapseInstance belongs to the first step.
RunShape ==
    /\ pc > 0 => steps \in Lists
    /\ fetched => pc = 1

\* The inductive invariant behind QuiescentBridgeConsistent.
IInv == TypeOK /\ RunShape /\ RunProgress /\ QuiescentBridgeConsistent

\* Moving on to the next step keeps the run's shape.
LEMMA AdvanceShape ==
    ASSUME TypeOK, RunShape, pc > 0, NEW ev \in BOOLEAN, Advance(ev)
    PROVE  RunShape'
  BY DEF Advance, Finish, RunShape

\* Ending the run resets its shape.
LEMMA FinishShape ==
    ASSUME NEW rq, Finish(rq)
    PROVE  RunShape'
  BY DEF Finish, RunShape

\* Where step `name` runs, by its name.
LEMMA AtPlace ==
    ASSUME TypeOK, RunShape, NEW name, At(name)
    PROVE  /\ steps \in Lists /\ pc \in 1..Len(steps) /\ steps[pc] = name
           /\ name = "triggerSynapseReconciliation" => pc = 1
           /\ name = "buildMautrixSignalStatus" => pc = 2
           /\ name = "reconcileMautrixSignalConfigMap" => pc = 3
           /\ name = "copyInputMautrixSignalConfigMap" => pc = 3
           /\ name = "configureMautrixSignalConfigMap" =>
                 pc = 4 /\ steps[3] = "copyInputMautrixSignalConfigMap"
           /\ name # "buildMautrixSignalStatus" /\ pc >= 2 => pc > 2
<1>1. steps \in Lists /\ pc \in 1..Len(steps) /\ steps[pc] = name
  BY DEF At, RunShape, TypeOK
<1>2. QED
  BY <1>1, ListShape

\* What a step leaves in the store stays there while the ConfigMap and the
\* Status do and no child is removed.
LEMMA EffectKept ==
    ASSUME NEW s, StepEffect(s),
           msCM' = msCM, msStatus' = msStatus, msChildren \subseteq msChildren'
    PROVE  EffectAfter(s)
  BY DEF StepEffect, EffectAfter, StepEffectOf

\* The trigger and the status step leave nothing to keep.
LEMMA NoEffect ==
    ASSUME NEW s \in {"triggerSynapseReconciliation", "buildMautrixSignalStatus"}
    PROVE  EffectAfter(s)
  BY ChildFacts DEF EffectAfter, StepEffectOf

\* A write that makes the bridge's key pending again discharges both.
LEMMA PendingProgress ==
    ASSUME pending'
    PROVE  RunProgress' /\ QuiescentBridgeConsistent'
  BY DEF RunProgress, QuiescentBridgeConsistent, Quiescent

\* A step that touches neither the bridge, its Spec, the run nor the queue
\* keeps both.
LEMMA UntouchedProgress ==
    ASSUME RunProgress, QuiescentBridgeConsistent,
           UNCHANGED <<msExists, msInputNamed, msStatus, msCM, msChildren,
                       pending, steps, pc>>
    PROVE  RunProgress' /\ QuiescentBridgeConsistent'
  BY DEF RunProgress, QuiescentBridgeConsistent, Quiescent, Converged,
         StepEffect

\* A step of the run that returns ContinueReconciling, leaves the Spec and
\* Status alone and leaves the effect of every step so far in place keeps
\* RunProgress; after the last step the bridge has converged.
LEMMA AdvanceProgress ==
    ASSUME TypeOK, RunProgress, pc > 0, ~pending, Advance(FALSE),
           msExists' = msExists, msInputNamed' = msInputNamed,
           msStatus' = msStatus,
           pc >= 2 => msStatus.serverName # NoName,
           \A i \in 1..pc : EffectAfter(steps[i])
    PROVE  RunProgress' /\ QuiescentBridgeConsistent'
<1>1. /\ msExists
      /\ steps = Pipeline(msInputNamed, msStatus.isOpenshift)
  BY DEF RunProgress
<1>2. msInputNamed' \in BOOLEAN /\ msStatus' \in MSStatus
      /\ msStatus'.isOpenshift \in BOOLEAN
  BY DEF TypeOK, MSStatus
<1>3. Len(steps) >= 2 /\ pc \in 1..Len(steps)
  BY <1>1, <1>2, PipelineType DEF TypeOK
<1>4. CASE pc = Len(steps)
  <2>1. pc' = 0 /\ pending' = FALSE
    BY <1>4 DEF Advance, Finish
  <2>2. RunProgress'
    BY <2>1 DEF RunProgress
  <2>3. \A i \in 1..Len(steps) : StepEffectOf(steps[i], msCM', msChildren', msStatus')
    BY <1>4 DEF EffectAfter
  <2>4. steps = Pipeline(msInputNamed', msStatus'.isOpenshift)
        /\ msStatus'.serverName # NoName
    BY <1>1, <1>3, <1>4
  <2>5. ConvergedOf(msInputNamed', msStatus', msCM', msChildren')
    BY <1>2, <2>3, <2>4, CompleteRun
  <2>6. QED
    BY <2>2, <2>5, ConvergedIsOf DEF QuiescentBridgeConsistent
<1>5. CASE pc # Len(steps)
  <2>1. pc' = pc + 1 /\ steps' = steps /\ pending' = FALSE
    BY <1>5, Zenon DEF Advance
  <2>2. pc \in Nat
    BY DEF TypeOK
  <2>3. QuiescentBridgeConsistent'
    BY <2>1, <2>2 DEF QuiescentBridgeConsistent, Quiescent
  <2>4. \A i \in 1..(pc' - 1) : EffectAfter(steps'[i])
    BY <2>1, <2>2
  <2>5. QED
    BY <1>1, <2>1, <2>2, <2>3, <2>4
       DEF RunProgress, StepEffect, EffectAfter, StepEffectOf
<1>6. QED
  BY <1>4, <1>5

\* Every step keeps the shape of the run.
LEMMA ShapeStep ==
    ASSUME TypeOK, RunShape, [Next]_vars
    PROVE  RunShape'
<1>1. CASE StartReconcile
  <2>1. msInputNamed \in BOOLEAN /\ msStatus.isOpenshift \in BOOLEAN
    BY DEF TypeOK, MSStatus
  <2>2. steps' = Pipeline(msInputNamed, msStatus.isOpenshift)
    BY <1>1 DEF StartReconcile
  <2>5. steps' \in Lists
    BY <2>1, <2>2, PipelineIsList DEF Lists
  <2>3. ~fetched /\ fetched' = fetched
    BY <1>1 DEF StartReconcile, RunShape
  <2>4. QED
    BY <2>5, <2>3 DEF RunShape
<1>2. CASE MautrixSignalNotFound
  <2>1. CASE UNCHANGED runVars
    BY <2>1 DEF RunShape, runVars
  <2>2. CASE Finish(FALSE)
    BY <2>2, FinishShape
  <2>3. QED
    BY <1>2, <2>1, <2>2 DEF MautrixSignalNotFound
<1>3. CASE fetchSynapseInstance
  <2>1. pc = 1
    BY <1>3, AtPlace DEF fetchSynapseInstance
  <2>2. QED
    BY <1>3, <2>1 DEF fetchSynapseInstance, RunShape
<1>4. CASE triggerSynapseReconciliation
  BY <1>4, AdvanceShape DEF triggerSynapseReconciliation
<1>5. CASE SynapseNotReady
  BY <1>5, FinishShape DEF SynapseNotReady
<1>6. CASE buildMautrixSignalStatus
  BY <1>6, AdvanceShape, FinishShape DEF buildMautrixSignalStatus, At
<1>7. CASE reconcileMautrixSignalConfigMap
  BY <1>7, AdvanceShape DEF reconcileMautrixSignalConfigMap, At
<1>8. CASE copyInputMautrixSignalConfigMap
  BY <1>8, AdvanceShape, FinishShape DEF copyInputMautrixSignalConfigMap, At
<1>9. CASE configureMautrixSignalConfigMap
  BY <1>9, AdvanceShape, FinishShape DEF configureMautrixSignalConfigMap, At
<1>10. CASE \E c \in DOMAIN ChildOf : ReconcileChild(c)
  BY <1>10, AdvanceShape DEF ReconcileChild, At
<1>11. CASE StoreFailure
  BY <1>11, FinishShape DEF StoreFailure
<1>12. CASE SynapseReconciles \/ Environment \/ UNCHANGED vars
  BY <1>12 DEF SynapseReconciles, Environment, CreateSynapse, EditSynapse,
     DeleteMautrixSignal, CreateMautrixSignal, EditMautrixSignalConfigMapName,
     EditInputConfigMap, Edit, runVars, vars, RunShape
<1>13. QED
  BY <1>1, <1>2, <1>3, <1>4, <1>5, <1>6, <1>7, <1>8, <1>9, <1>10, <1>11,
     <1>12 DEF Next, BridgeController

\* The effects of the steps before pc, after a step.
EarlierEffectsKept == \A i \in 1..(pc - 1) : EffectAfter(steps[i])

\* Step n of the run returns ContinueReconciling with no event pending,
\* leaving the bridge's Spec and Status alone.
ContinuesAt(n) ==
    /\ At(n) /\ ~pending /\ Advance(FALSE)
    /\ msExists' = msExists /\ msInputNamed' = msInputNamed
    /\ msStatus' = msStatus

\* Every step keeps RunProgress and QuiescentBridgeConsistent.
LEMMA ProgressStep ==
    ASSUME TypeOK, RunShape, RunProgress, QuiescentBridgeConsistent,
           [Next]_vars
    PROVE  RunProgress' /\ QuiescentBridgeConsistent'
<1>1. ASSUME NEW n, ContinuesAt(n), EarlierEffectsKept, EffectAfter(n),
             n = "buildMautrixSignalStatus" => msStatus.serverName # NoName
      PROVE  RunProgress' /\ QuiescentBridgeConsistent'
  <2>1. At(n) /\ ~pending /\ Advance(FALSE)
    BY <1>1 DEF ContinuesAt
  <2>2. /\ pc \in 1..Len(steps) /\ steps[pc] = n
        /\ n # "buildMautrixSignalStatus" /\ pc >= 2 => pc > 2
    BY <2>1, AtPlace
  <2>3. pc > 2 => msStatus.serverName # NoName
    BY <2>1 DEF RunProgress, At
  <2>4. pc >= 2 => msStatus.serverName # NoName
    BY <1>1, <2>2, <2>3
  <2>5. \A i \in 1..pc : EffectAfter(steps[i])
    BY <1>1, <2>2 DEF EarlierEffectsKept
  <2>6. QED
    BY <1>1, <2>1, <2>4, <2>5, AdvanceProgress DEF ContinuesAt, At
<1>2. ASSUME pc \in 1..Len(steps), steps \in Lists
      PROVE  /\ steps[1] = "triggerSynapseReconciliation"
             /\ steps[2] = "buildMautrixSignalStatus"
             /\ pc = 3 => EarlierEffectsKept
  BY <1>2, ListShape, NoEffect DEF EarlierEffectsKept
<1>3. ASSUME ~pending, pc > 0, msCM' = msCM, msStatus' = msStatus,
             msChildren \subseteq msChildren'
      PROVE  EarlierEffectsKept
  BY <1>3, EffectKept DEF EarlierEffectsKept, RunProgress
<1>4. CASE StartReconcile
  BY <1>4 DEF StartReconcile, RunProgress, QuiescentBridgeConsistent,
     Quiescent, envVars, msVars
<1>5. CASE MautrixSignalNotFound
  BY <1>5 DEF MautrixSignalNotFound, Finish, RunProgress,
     QuiescentBridgeConsistent, runVars, envVars
<1>6. CASE fetchSynapseInstance
  BY <1>6, UntouchedProgress DEF fetchSynapseInstance, envVars, msVars
<1>7. CASE triggerSynapseReconciliation
  <2>1. CASE pending
    BY <1>7, <2>1, PendingProgress DEF triggerSynapseReconciliation, Advance,
       Finish
  <2>2. CASE ~pending
    <3>1. pc = 1 /\ steps \in Lists /\ pc \in 1..Len(steps)
      BY <1>7, ListShape DEF triggerSynapseReconciliation, RunShape
    <3>2. \A i \in 1..pc : EffectAfter(steps[i])
      BY <3>1, ListShape, NoEffect
    <3>3. RunProgress /\ msExists
      BY <2>2, <3>1 DEF RunProgress
    <3>4. QED
      BY <1>7, <2>2, <3>1, <3>2, <3>3, AdvanceProgress
         DEF triggerSynapseReconciliation, envVars, msVars
  <2>3. QED
    BY <2>1, <2>2
<1>8. CASE SynapseNotReady
  BY <1>8, PendingProgress DEF SynapseNotReady, Finish
<1>9. CASE buildMautrixSignalStatus
  <2>1. CASE BuiltStatus # msStatus \/ pending
    BY <1>9, <2>1, PendingProgress, Zenon
       DEF buildMautrixSignalStatus, Advance, Finish
  <2>2. CASE BuiltStatus = msStatus /\ ~pending
    <3>1. ContinuesAt("buildMautrixSignalStatus")
      BY <1>9, <2>2 DEF buildMautrixSignalStatus, ContinuesAt, envVars
    <3>2. msStatus.serverName # NoName
      BY <1>9, <2>2, Zenon DEF buildMautrixSignalStatus, BuiltStatus, TypeOK,
         MSStatus
    <3>3. EarlierEffectsKept
      BY <1>9, <2>2, <1>3 DEF buildMautrixSignalStatus, At
    <3>4. QED
      BY <3>1, <3>2, <3>3, <1>1, NoEffect
  <2>3. QED
    BY <2>1, <2>2
<1>10. CASE reconcileMautrixSignalConfigMap
  <2>1. CASE pending
    BY <1>10, <2>1, PendingProgress DEF reconcileMautrixSignalConfigMap,
       Advance, Finish
  <2>2. CASE ~pending
    <3>1. pc = 3 /\ steps \in Lists /\ pc \in 1..Len(steps)
      BY <1>10, AtPlace DEF reconcileMautrixSignalConfigMap
    <3>2. EarlierEffectsKept
      BY <1>10, <2>2, <3>1, <1>2 DEF reconcileMautrixSignalConfigMap, At
    <3>3. EffectAfter("reconcileMautrixSignalConfigMap")
      BY <1>10, ChildFacts
         DEF reconcileMautrixSignalConfigMap, EffectAfter, StepEffectOf
    <3>4. QED
      BY <1>10, <2>2, <3>2, <3>3, <1>1
         DEF reconcileMautrixSignalConfigMap, ContinuesAt, envVars
  <2>3. QED
    BY <2>1, <2>2
<1>11. CASE copyInputMautrixSignalConfigMap
  <2>1. CASE pending \/ inputCM = "absent"
    BY <1>11, <2>1, PendingProgress, Zenon
       DEF copyInputMautrixSignalConfigMap, Advance, Finish
  <2>2. CASE ~pending /\ inputCM # "absent"
    <3>1. pc = 3 /\ steps \in Lists /\ pc \in 1..Len(steps)
      BY <1>11, AtPlace DEF copyInputMautrixSignalConfigMap
    <3>2. EarlierEffectsKept
      BY <1>11, <2>2, <3>1, <1>2 DEF copyInputMautrixSignalConfigMap, At
    <3>3. /\ msCM' = configMapForMautrixSignalCopy(inputCM)
          /\ Advance(FALSE) /\ msStatus' = msStatus
      BY <1>11, <2>2 DEF copyInputMautrixSignalConfigMap
    <3>4. EffectAfter("copyInputMautrixSignalConfigMap")
      BY <3>3, ChildFacts
         DEF EffectAfter, StepEffectOf, configMapForMautrixSignalCopy
    <3>5. QED
      BY <1>11, <2>2, <3>2, <3>3, <3>4, <1>1
         DEF copyInputMautrixSignalConfigMap, ContinuesAt, envVars
  <2>3. QED
    BY <2>1, <2>2
<1>12. CASE configureMautrixSignalConfigMap
  <2>1. CASE pending \/ ~msCM.wellFormed
    BY <1>12, <2>1, PendingProgress, Zenon
       DEF configureMautrixSignalConfigMap, Advance, Finish
  <2>2. CASE ~pending /\ msCM.wellFormed
    <3>1. /\ pc = 4 /\ steps \in Lists /\ pc \in 1..Len(steps)
          /\ steps[3] = "copyInputMautrixSignalConfigMap"
      BY <1>12, AtPlace DEF configureMautrixSignalConfigMap
    <3>2. msCM.source = "input"
      BY <1>12, <2>2, <3>1, ChildFacts
         DEF RunProgress, StepEffect, configureMautrixSignalConfigMap, At
    <3>3. /\ msCM' = [msCM EXCEPT !.domain = msStatus.serverName]
          /\ msStatus' = msStatus /\ Advance(FALSE)
      BY <1>12, <2>2 DEF configureMautrixSignalConfigMap, updateMautrixSignalData
    <3>4. msCM'.source = "input" /\ msCM'.domain = msStatus'.serverName
      BY <3>2, <3>3 DEF TypeOK, MSConfigMaps
    <3>5. /\ EffectAfter("copyInputMautrixSignalConfigMap")
          /\ EffectAfter("configureMautrixSignalConfigMap")
      BY <3>4, ChildFacts DEF EffectAfter, StepEffectOf
    <3>6. EarlierEffectsKept
      <4>1. EffectAfter(steps[1]) /\ EffectAfter(steps[2])
        BY <3>1, <1>2, NoEffect
      <4>2. EffectAfter(steps[3])
        BY <3>1, <3>5
      <4>3. QED
        BY <3>1, <4>1, <4>2 DEF EarlierEffectsKept
    <3>7. QED
      BY <1>12, <2>2, <3>3, <3>5, <3>6, <1>1
         DEF configureMautrixSignalConfigMap, ContinuesAt, envVars
  <2>3. QED
    BY <2>1, <2>2
<1>13. CASE \E c \in DOMAIN ChildOf : ReconcileChild(c)
  <2>1. PICK c \in DOMAIN ChildOf : ReconcileChild(c)
    BY <1>13
  <2>2. CASE pending
    BY <2>1, <2>2, PendingProgress DEF ReconcileChild, Advance, Finish
  <2>3. CASE ~pending
    <3>1. EarlierEffectsKept
      BY <2>1, <2>3, <1>3 DEF ReconcileChild, At
    <3>2. EffectAfter(c)
      BY <2>1, ChildFacts DEF ReconcileChild, EffectAfter, StepEffectOf
    <3>3. c # "buildMautrixSignalStatus"
      BY ChildFacts
    <3>4. QED
      BY <2>1, <2>3, <3>1, <3>2, <3>3, <1>1
         DEF ReconcileChild, ContinuesAt, envVars
  <2>4. QED
    BY <2>2, <2>3
<1>14. CASE StoreFailure
  BY <1>14, PendingProgress DEF StoreFailure, Finish
<1>15. CASE SynapseReconciles \/ CreateSynapse \/ EditSynapse
                \/ EditInputConfigMap \/ UNCHANGED vars
  <2>1. UNCHANGED <<msExists, msInputNamed, msStatus, msCM, msChildren,
                    pending, steps, pc>>
    <3>0. pending \in BOOLEAN
      BY DEF TypeOK
    <3>1. CASE SynapseReconciles
      BY <3>1 DEF SynapseReconciles, envVars, msVars, runVars
    <3>2. CASE CreateSynapse \/ EditSynapse \/ EditInputConfigMap
      <4>1. CASE CreateSynapse
        BY <3>0, <4>1 DEF CreateSynapse, Edit, envVars, msVars, runVars
      <4>2. CASE EditSynapse
        BY <3>0, <4>2 DEF EditSynapse, Edit, envVars, msVars, runVars
      <4>3. CASE EditInputConfigMap
        BY <3>0, <4>3 DEF EditInputConfigMap, Edit, msVars, runVars
      <4>4. QED
        BY <3>2, <4>1, <4>2, <4>3
    <3>3. CASE UNCHANGED vars
      BY <3>3 DEF vars, envVars, msVars, runVars
    <3>4. QED
      BY <1>15, <3>1, <3>2, <3>3
  <2>2. QED
    BY <2>1, UntouchedProgress
<1>16. CASE DeleteMautrixSignal \/ CreateMautrixSignal
                \/ EditMautrixSignalConfigMapName
  BY <1>16, PendingProgress DEF DeleteMautrixSignal, CreateMautrixSignal,
     EditMautrixSignalConfigMapName, Edit
<1>17. QED
  BY <1>4, <1>5, <1>6, <1>7, <1>8, <1>9, <1>10, <1>11, <1>12, <1>13, <1>14,
     <1>15, <1>16 DEF Next, BridgeController, Environment

\* Whenever the mautrix-signal controller is quiet and the bridge exists,
\* the bridge has converged: its config.yaml comes from the source the Spec
\* names and carries the server name Status recorded, and every child is in
\* place (QuiescentBridgeConsistent).  Proved through IInv: a run no event
\* has interrupted works through the list the current Spec and Status
\* compose and leaves each step's effect in place.
THEOREM BridgeConsistent == Spec => []QuiescentBridgeConsistent
<1>1. Init => IInv
  <2> SUFFICES ASSUME Init PROVE IInv
    OBVIOUS
  <2>1. TypeOK
    BY TypeInit
  <2>2. RunShape /\ RunProgress /\ QuiescentBridgeConsistent
    BY DEF Init, RunShape, RunProgress, QuiescentBridgeConsistent, Quiescent
  <2>3. QED
    BY <2>1, <2>2 DEF IInv
<1>2. IInv /\ [Next]_vars => IInv'
  <2> SUFFICES ASSUME IInv, [Next]_vars PROVE IInv'
    OBVIOUS
  <2>1. TypeOK'
    BY TypeStep DEF IInv
  <2>2. RunShape'
    BY ShapeStep DEF IInv
  <2>3. RunProgress' /\ QuiescentBridgeConsistent'
    BY ProgressStep DEF IInv
  <2>4. QED
    BY <2>1, <2>2, <2>3 DEF IInv
<1>3. QED
  BY <1>1, <1>2, PTL DEF Spec, IInv

-----------------------------------------------------------------------------
(***************************************************************************)
(* The bridge's controller implements PipelineExecutor.                    *)
(***************************************************************************)

\* What the composition reads.
ExecInput == <<msExists, msInputNamed, msStatus>>

\* Returning from Reconcile is the executor's StopRun, provided any change of
\* the input leaves the key queued.
LEMMA FinishRefines ==
    ASSUME pc > 0, NEW rq, Finish(rq), ExecInput' # ExecInput => pending'
    PROVE  Executor!StopRun
  BY DEF Finish, Executor!StopRun, Executor!Noticed, ExecInput

\* Moving on is NextStep, or StopRun after the last step.
LEMMA AdvanceRefines ==
    ASSUME TypeOK, pc > 0, NEW ev \in BOOLEAN, Advance(ev),
           ExecInput' # ExecInput => pending'
    PROVE  Executor!NextStep \/ Executor!StopRun
<1>1. CASE pc = Len(steps)
  BY <1>1, FinishRefines DEF Advance
<1>2. CASE pc # Len(steps)
  <2>1. pc \in 1..(Len(steps) - 1)
    BY <1>2 DEF TypeOK
  <2>2. QED
    BY <1>2, <2>1 DEF Advance, Executor!NextStep, Executor!Noticed, ExecInput
<1>3. QED
  BY <1>1, <1>2

\* A step that leaves the run, the queue and the input alone is Outside.
LEMMA OutsideRefines ==
    ASSUME UNCHANGED <<steps, pc, msExists, msInputNamed, msStatus>>,
           pending => pending'
    PROVE  Executor!Outside
  BY DEF Executor!Outside, Executor!Noticed

\* Every step of the bridge's controller, of the Synapse and of the users
\* is a step of the executor or leaves it as it is.
LEMMA ExecutorStep ==
    ASSUME TypeOK, [Next]_vars
    PROVE  [Executor!Next]_Executor!vars
<1> USE DEF Executor!Next
<1>1. CASE StartReconcile
  <2>1. msInputNamed \in BOOLEAN /\ msStatus.isOpenshift \in BOOLEAN
    BY DEF TypeOK, MSStatus
  <2>2. Len(steps') > 0
    BY <1>1, <2>1, PipelineType DEF StartReconcile
  <2>3. Executor!StartRun
    BY <1>1, <2>2 DEF StartReconcile, Executor!StartRun, ComposeFrom,
       envVars, msVars
  <2>4. QED
    BY <2>3
<1>2. CASE MautrixSignalNotFound
  <2>1. CASE pc = 0
    <3>1. pending /\ ~pending' /\ UNCHANGED <<steps, pc>>
      BY <1>2, <2>1 DEF MautrixSignalNotFound, Finish, runVars
    <3>2. UNCHANGED <<msExists, msInputNamed, msStatus>>
      BY <1>2 DEF MautrixSignalNotFound, envVars, msVars
    <3>3. QED
      BY <2>1, <3>1, <3>2 DEF Executor!EmptyRun
  <2>2. CASE pc > 0
    <3>0. pc # 0
      BY <2>2
    <3>1. Finish(FALSE)
      BY <1>2, <3>0, Zenon DEF MautrixSignalNotFound
    <3>2. ExecInput' = ExecInput
      BY <1>2 DEF MautrixSignalNotFound, ExecInput, envVars, msVars
    <3>3. Executor!StopRun
      BY <2>2, <3>1, <3>2, FinishRefines
    <3>4. QED
      BY <3>3
  <2>3. QED
    BY <2>1, <2>2 DEF TypeOK
<1>3. CASE fetchSynapseInstance
  BY <1>3, OutsideRefines DEF fetchSynapseInstance, envVars, msVars
<1>4. CASE triggerSynapseReconciliation
  BY <1>4, AdvanceRefines DEF triggerSynapseReconciliation, ExecInput,
     envVars, msVars
<1>5. CASE SynapseNotReady
  BY <1>5, FinishRefines DEF SynapseNotReady, At, Finish
<1>6. CASE buildMautrixSignalStatus
  <2>1. CASE BuiltStatus # msStatus
    BY <1>6, <2>1, FinishRefines DEF buildMautrixSignalStatus, At, Finish
  <2>2. CASE BuiltStatus = msStatus
    BY <1>6, <2>2, AdvanceRefines DEF buildMautrixSignalStatus, At,
       ExecInput, envVars
  <2>3. QED
    BY <2>1, <2>2
<1>7. CASE reconcileMautrixSignalConfigMap
  BY <1>7, AdvanceRefines DEF reconcileMautrixSignalConfigMap, At,
     ExecInput, envVars
<1>8. CASE copyInputMautrixSignalConfigMap
  <2>1. CASE inputCM = "absent"
    BY <1>8, <2>1, FinishRefines DEF copyInputMautrixSignalConfigMap, At,
       Finish
  <2>2. CASE inputCM # "absent"
    BY <1>8, <2>2, AdvanceRefines DEF copyInputMautrixSignalConfigMap, At,
       ExecInput, envVars
  <2>3. QED
    BY <2>1, <2>2
<1>9. CASE configureMautrixSignalConfigMap
  <2>1. CASE msCM.wellFormed
    BY <1>9, <2>1, AdvanceRefines DEF configureMautrixSignalConfigMap, At,
       ExecInput, envVars
  <2>2. CASE ~msCM.wellFormed
    BY <1>9, <2>2, FinishRefines DEF configureMautrixSignalConfigMap, At,
       Finish
  <2>3. QED
    BY <2>1, <2>2
<1>10. CASE \E c \in DOMAIN ChildOf : ReconcileChild(c)
  BY <1>10, AdvanceRefines DEF ReconcileChild, At, ExecInput, envVars
<1>11. CASE StoreFailure
  BY <1>11, FinishRefines DEF StoreFailure, Finish
<1>12. CASE SynapseReconciles \/ CreateSynapse \/ EditSynapse
            \/ EditInputConfigMap
  <2>1. CASE SynapseReconciles
    BY <2>1, OutsideRefines DEF SynapseReconciles, envVars, msVars, runVars
  <2>2. CASE CreateSynapse
    BY <2>2, OutsideRefines DEF CreateSynapse, Edit, envVars, msVars, runVars
  <2>3. CASE EditSynapse
    BY <2>3, OutsideRefines DEF EditSynapse, Edit, envVars, msVars, runVars
  <2>4. CASE EditInputConfigMap
    BY <2>4, OutsideRefines DEF EditInputConfigMap, Edit, msVars, runVars
  <2>5. QED
    BY <1>12, <2>1, <2>2, <2>3, <2>4
<1>13. CASE DeleteMautrixSignal \/ CreateMautrixSignal
            \/ EditMautrixSignalConfigMapName
  <2>1. UNCHANGED <<steps, pc>> /\ pending'
    BY <1>13 DEF DeleteMautrixSignal, CreateMautrixSignal,
       EditMautrixSignalConfigMapName, Edit, runVars
  <2>2. QED
    BY <2>1 DEF Executor!Outside, Executor!Noticed
<1>14. CASE UNCHANGED vars
  BY <1>14 DEF vars, Executor!vars
<1>15. QED
  BY <1>1, <1>2, <1>3, <1>4, <1>5, <1>6, <1>7, <1>8, <1>9, <1>10, <1>11,
     <1>12, <1>13, <1>14 DEF Next, BridgeController, Environment

\* The bridge's controller is a pipeline executor: a run composes its list
\* from the MautrixSignal it read at its start, goes through it one
\* subreconciler at a time, and no change of the MautrixSignal (its Status
\* patches included) leaves its key unqueued.  The safety part of
\* ImplementsExecutor; that every run ends is checked by TLC.
THEOREM BridgeImplementsExecutor == Spec => Executor!SafetySpec
<1>1. Init => Executor!Init
  BY DEF Init, Executor!Init
<1>2. TypeOK /\ [Next]_vars => [Executor!Next]_Executor!vars
  BY ExecutorStep
<1>3. QED
  BY <1>1, <1>2, TypeCorrect, PTL DEF Spec, Executor!SafetySpec

=============================================================================
