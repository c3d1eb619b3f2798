------------------------- MODULE SynapseRunningProofs -------------------------
(***************************************************************************)
(* Proof that the Synapse controller keeps QuiescentRunningConsistent: once *)
(* the controllers are quiet with State RUNNING, the homeserver ConfigMap,  *)
(* the Status and the children are what the current Spec asks for.         *)
(*                                                                         *)
(* The invariant is not inductive.  A run halfway through its list says    *)
(* nothing yet about a quiet state, and a quiet state is reached only by   *)
(* the last step of a run.  The strengthening says what a run that no      *)
(* event has disturbed has achieved so far: its list is the one the        *)
(* current Spec and Status compose, and each subreconciler before the      *)
(* running one has left its effect in the store.                           *)
(***************************************************************************)
EXTENDS SynapseReconcilerProofs

\* What subreconciler s has established once it returned
\* ContinueReconciling, stated of a Status st, a Spec sp, a homeserver
\* ConfigMap c and the children ch.  The other subreconcilers establish
\* nothing the invariant needs.
EffectOf(s, st, sp, c, ch) ==
    /\ s = "setStatusHomeserverConfiguration" => st.serverName = sp.serverName
    /\ s = "parseInputSynapseConfigMap" => st.serverName = InputName
    /\ s = "reconcileSynapseConfigMap" =>
          c.source = "values" /\ c.serverName = sp.serverName
    /\ s = "copyInputSynapseConfigMap" =>
          c.source = "input" /\ c.serverName = InputName
    /\ s = "updateSynapseStatusWithPostgreSQLInfos" => st.databaseReady
    /\ s = "updateSynapseConfigMapForPostgresCluster" => c.database
    /\ s \in DOMAIN ChildOf => ChildOf[s] \in ch

Effect(s) == EffectOf(s, status, spec, cm, children)

\* The effect in the state after a step (an action-level operator, so that
\* the list is not primed with the store).
EffectAfter(s) == EffectOf(s, status', spec', cm', children')

\* What QuiescentRunningConsistent asserts of a quiet RUNNING Synapse with
\* Spec sp, Status st, homeserver ConfigMap c and children ch.
ConsistentOf(sp, st, c, ch) ==
    LET name == IF sp.inputConfigMap THEN InputName ELSE sp.serverName IN
    /\ c.source = (IF sp.inputConfigMap THEN "input" ELSE "values")
    /\ c.serverName = name
    /\ st.serverName = name
    /\ sp.createNewPostgreSQL =>
          /\ st.databaseReady
          /\ c.database
          /\ {"PostgresClusterConfigMap", "PostgresCluster"} \subseteq ch
    /\ sp.isOpenshift => {"ServiceAccount", "RoleBinding"} \subseteq ch
    /\ WatchedKinds \subseteq ch

Consistent == ConsistentOf(spec, status, cm, children)

-----------------------------------------------------------------------------
(***************************************************************************)
(* The shape of the composed list.                                         *)
(***************************************************************************)

\* The subreconcilers that can follow the first two: none of them writes
\* the homeserver ConfigMap from scratch or sets Status' server name.
Later == StepNames \ {"parseInputSynapseConfigMap", "copyInputSynapseConfigMap",
                      "setStatusHomeserverConfiguration", "reconcileSynapseConfigMap"}

FirstStep(sp) == IF sp.inputConfigMap THEN "parseInputSynapseConfigMap"
                                      ELSE "setStatusHomeserverConfiguration"
SecondStep(sp) == IF sp.inputConfigMap THEN "copyInputSynapseConfigMap"
                                       ELSE "reconcileSynapseConfigMap"

\* A list that starts with a and b and continues with later steps only.
HeadIs(s, a, b) ==
    /\ Len(s) >= 2 /\ s[1] = a /\ s[2] = b
    /\ \A j \in 3..Len(s) : s[j] \in Later

\* The subreconcilers whose effects make up Consistent.
Required(sp) ==
    {FirstStep(sp), SecondStep(sp), "reconcileSynapseService",
     "reconcileSynapsePVC", "reconcileSynapseDeployment"}
    \cup (IF sp.createNewPostgreSQL
          THEN {"reconcilePostgresClusterConfigMap", "reconcilePostgresClusterCR",
                "updateSynapseStatusWithPostgreSQLInfos",
                "updateSynapseConfigMapForPostgresCluster"}
          ELSE {})
    \cup (IF sp.isOpenshift
          THEN {"reconcileSynapseServiceAccount", "reconcileSynapseRoleBinding"}
          ELSE {})

\* Appending later steps keeps the head of a list.
LEMMA HeadConcat ==
    ASSUME NEW s \in Seq(StepNames), NEW t \in Seq(Later), NEW a, NEW b,
           HeadIs(s, a, b)
    PROVE  s \o t \in Seq(StepNames) /\ HeadIs(s \o t, a, b)
<1>1. t \in Seq(StepNames)
  BY SeqMonotonic DEF Later
<1>2. /\ s \o t \in Seq(StepNames)
      /\ Len(s \o t) = Len(s) + Len(t)
      /\ \A i \in 1..(Len(s) + Len(t)) :
            (s \o t)[i] = IF i <= Len(s) THEN s[i] ELSE t[i - Len(s)]
  BY <1>1, ConcatProperties
<1>3. Len(s) \in Nat /\ Len(t) \in Nat
  BY <1>1, LenProperties
<1>4. \A j \in 1..Len(t) : t[j] \in Later
  BY LenProperties
<1>5. QED
  BY <1>2, <1>3, <1>4 DEF HeadIs

\* Every composed list starts with the two steps that set the server name
\* and write the homeserver ConfigMap, in that order, and no later step is
\* one of them; and it contains every subreconciler Consistent rests on.
LEMMA PipelineFacts ==
    ASSUME NEW sp \in SynapseSpec, NEW st \in SynapseStatus
    PROVE  /\ Pipeline(sp, st) \in Seq(StepNames)
           /\ HeadIs(Pipeline(sp, st), FirstStep(sp), SecondStep(sp))
           /\ Required(sp) \subseteq Range(Pipeline(sp, st))
<1> DEFINE A == IF sp.inputConfigMap
                  THEN <<"parseInputSynapseConfigMap", "copyInputSynapseConfigMap">>
                  ELSE <<"setStatusHomeserverConfiguration", "reconcileSynapseConfigMap">>
           B == <<"updateSynapseStatusBridges">>
           C == IF sp.createNewPostgreSQL
                  THEN <<"reconcilePostgresClusterConfigMap", "reconcilePostgresClusterCR",
                         "updateSynapseStatusWithPostgreSQLInfos",
                         "updateSynapseConfigMapForPostgresCluster">>
                  ELSE <<>>
           D == IF st.bridges["Heisenbridge"]
                  THEN <<ConfigStepOf["Heisenbridge"]>> ELSE <<>>
           E == IF st.bridges["MautrixSignal"]
                  THEN <<ConfigStepOf["MautrixSignal"]>> ELSE <<>>
           F == IF sp.isOpenshift
                  THEN <<"reconcileSynapseServiceAccount", "reconcileSynapseRoleBinding">>
                  ELSE <<>>
           G == <<"reconcileSynapseService", "reconcileSynapsePVC",
                  "reconcileSynapseDeployment", "setSynapseStatusAsRunning">>
           AB == A \o B
           AC == AB \o C
           AD == AC \o D
           AE == AD \o E
           AF == AE \o F
           AG == AF \o G
<1>1. Pipeline(sp, st) = AG
  BY DEF Pipeline
<1>2. /\ B \in Seq(Later) /\ C \in Seq(Later) /\ D \in Seq(Later)
      /\ E \in Seq(Later) /\ F \in Seq(Later) /\ G \in Seq(Later)
  <2>1. /\ "updateSynapseStatusBridges" \in Later
        /\ "reconcilePostgresClusterConfigMap" \in Later
        /\ "reconcilePostgresClusterCR" \in Later
        /\ "updateSynapseStatusWithPostgreSQLInfos" \in Later
        /\ "updateSynapseConfigMapForPostgresCluster" \in Later
        /\ ConfigStepOf["Heisenbridge"] \in Later
        /\ ConfigStepOf["MautrixSignal"] \in Later
        /\ "reconcileSynapseServiceAccount" \in Later
        /\ "reconcileSynapseRoleBinding" \in Later
        /\ "reconcileSynapseService" \in Later
        /\ "reconcileSynapsePVC" \in Later
        /\ "reconcileSynapseDeployment" \in Later
        /\ "setSynapseStatusAsRunning" \in Later
    BY DEF Later, StepNames, ChildOf, ConfigStepOf, BridgeKinds
  <2>2. <<>> \in Seq(Later)
    BY EmptySeq
  <2>3. QED
    BY <2>1, <2>2
<1>3. A \in Seq(StepNames) /\ HeadIs(A, FirstStep(sp), SecondStep(sp))
  BY DEF HeadIs, FirstStep, SecondStep, StepNames
<1>4. /\ AG \in Seq(StepNames) /\ HeadIs(AG, FirstStep(sp), SecondStep(sp))
      /\ AB \in Seq(StepNames) /\ AC \in Seq(StepNames) /\ AD \in Seq(StepNames)
      /\ AE \in Seq(StepNames) /\ AF \in Seq(StepNames)
  <2> DEFINE H(s) == s \in Seq(StepNames) /\ HeadIs(s, FirstStep(sp), SecondStep(sp))
  <2>1. H(AB)
    BY <1>2, <1>3, HeadConcat
  <2>2. H(AC)
    BY <1>2, <2>1, HeadConcat
  <2>3. H(AD)
    BY <1>2, <2>2, HeadConcat
  <2>4. H(AE)
    BY <1>2, <2>3, HeadConcat
  <2>5. H(AF)
    BY <1>2, <2>4, HeadConcat
  <2>6. H(AG)
    BY <1>2, <2>5, HeadConcat
  <2>7. QED
    BY <2>1, <2>2, <2>3, <2>4, <2>5, <2>6
<1>5. /\ B \in Seq(StepNames) /\ C \in Seq(StepNames) /\ D \in Seq(StepNames)
      /\ E \in Seq(StepNames) /\ F \in Seq(StepNames) /\ G \in Seq(StepNames)
  <2>1. Later \subseteq StepNames
    BY DEF Later
  <2>2. \A t \in Seq(Later) : t \in Seq(StepNames)
    BY <2>1, SeqMonotonic
  <2>3. QED
    BY <1>2, <2>2
<1>6. Range(AG) = Range(A) \cup Range(B) \cup Range(C) \cup Range(D)
                  \cup Range(E) \cup Range(F) \cup Range(G)
  <2>0. \A s1, s2 \in Seq(StepNames) : Range(s1 \o s2) = Range(s1) \cup Range(s2)
    BY RangeConcatenation
  <2>1. Range(AB) = Range(A) \cup Range(B)
    BY <1>3, <1>5, <2>0
  <2>2. Range(AC) = Range(AB) \cup Range(C)
    BY <1>4, <1>5, <2>0
  <2>3. Range(AD) = Range(AC) \cup Range(D)
    BY <1>4, <1>5, <2>0
  <2>4. Range(AE) = Range(AD) \cup Range(E)
    BY <1>4, <1>5, <2>0
  <2>5. Range(AF) = Range(AE) \cup Range(F)
    BY <1>4, <1>5, <2>0
  <2>6. Range(AG) = Range(AF) \cup Range(G)
    BY <1>4, <1>5, <2>0
  <2>7. QED
    BY <2>1, <2>2, <2>3, <2>4, <2>5, <2>6
<1>7. /\ Range(A) = {FirstStep(sp), SecondStep(sp)}
      /\ Range(G) = {"reconcileSynapseService", "reconcileSynapsePVC",
                     "reconcileSynapseDeployment", "setSynapseStatusAsRunning"}
      /\ sp.createNewPostgreSQL =>
            Range(C) = {"reconcilePostgresClusterConfigMap", "reconcilePostgresClusterCR",
                        "updateSynapseStatusWithPostgreSQLInfos",
                        "updateSynapseConfigMapForPostgresCluster"}
      /\ sp.isOpenshift =>
            Range(F) = {"reconcileSynapseServiceAccount", "reconcileSynapseRoleBinding"}
  BY DEF Range, FirstStep, SecondStep
<1>8. Required(sp) \subseteq Range(AG)
  BY <1>6, <1>7 DEF Required
<1>9. QED
  BY <1>1, <1>4, <1>8

\* A run that has left the effect of every subreconciler of its list has
\* made the state consistent.
LEMMA ConsistentFromEffects ==
    ASSUME NEW sp \in SynapseSpec, NEW st \in SynapseStatus, NEW c, NEW ch,
           \A i \in 1..Len(Pipeline(sp, st)) :
              EffectOf(Pipeline(sp, st)[i], st, sp, c, ch)
    PROVE  ConsistentOf(sp, st, c, ch)
<1> DEFINE L == Pipeline(sp, st)
           Eff(x) == EffectOf(x, st, sp, c, ch)
<1>1. L \in Seq(StepNames) /\ Required(sp) \subseteq Range(L)
  BY PipelineFacts
<1>2. Range(L) = {L[i] : i \in 1..Len(L)}
  BY <1>1, RangeEquality
<1>3. \A x \in Required(sp) : Eff(x)
  BY <1>1, <1>2
<1>4. /\ Eff(FirstStep(sp)) /\ Eff(SecondStep(sp))
      /\ Eff("reconcileSynapseService") /\ Eff("reconcileSynapsePVC")
      /\ Eff("reconcileSynapseDeployment")
  BY <1>3 DEF Required
<1>5. /\ c.source = (IF sp.inputConfigMap THEN "input" ELSE "values")
      /\ c.serverName = (IF sp.inputConfigMap THEN InputName ELSE sp.serverName)
      /\ st.serverName = (IF sp.inputConfigMap THEN InputName ELSE sp.serverName)
  <2>1. CASE sp.inputConfigMap
    BY <1>4, <2>1 DEF EffectOf, FirstStep, SecondStep
  <2>2. CASE ~sp.inputConfigMap
    BY <1>4, <2>2 DEF EffectOf, FirstStep, SecondStep
  <2>3. QED
    BY <2>1, <2>2
<1>6. WatchedKinds \subseteq ch
  BY <1>4 DEF EffectOf, ChildOf, WatchedKinds
<1>7. sp.createNewPostgreSQL =>
         /\ st.databaseReady
         /\ c.database
         /\ {"PostgresClusterConfigMap", "PostgresCluster"} \subseteq ch
  <2> SUFFICES ASSUME sp.createNewPostgreSQL
               PROVE  /\ st.databaseReady
                      /\ c.database
                      /\ {"PostgresClusterConfigMap", "PostgresCluster"} \subseteq ch
    OBVIOUS
  <2>1. /\ Eff("reconcilePostgresClusterConfigMap") /\ Eff("reconcilePostgresClusterCR")
        /\ Eff("updateSynapseStatusWithPostgreSQLInfos")
        /\ Eff("updateSynapseConfigMapForPostgresCluster")
    BY <1>3 DEF Required
  <2>2. QED
    BY <2>1 DEF EffectOf, ChildOf
<1>8. sp.isOpenshift => {"ServiceAccount", "RoleBinding"} \subseteq ch
  <2> SUFFICES ASSUME sp.isOpenshift
               PROVE  {"ServiceAccount", "RoleBinding"} \subseteq ch
    OBVIOUS
  <2>1. Eff("reconcileSynapseServiceAccount") /\ Eff("reconcileSynapseRoleBinding")
    BY <1>3 DEF Required
  <2>2. QED
    BY <2>1 DEF EffectOf, ChildOf
<1>9. QED
  BY <1>5, <1>6, <1>7, <1>8 DEF ConsistentOf

\* Between runs no Status is computed.
IdleNoCandidate == pc = 0 => candidate = NoCandidate

\* Only setFailedState's candidate ends the run without a requeue, and
\* it records FAILED.
StopCandidate ==
    candidate.onCommit = "DoNotRequeue" => candidate.status.state = "FAILED"

\* A setFailedState run holds its candidate until it ends.
FailedRun ==
    pc > 0 /\ steps = <<"setFailedState">> => candidate.onCommit = "DoNotRequeue"

\* With no run and nothing queued, a RUNNING Synapse is consistent
\* (whether or not a bridge controller has work queued).
IdleConsistent == pc = 0 /\ ~pending /\ status.state = "RUNNING" => Consistent

\* A run that no event has disturbed since it started runs the list the
\* current Spec and Status compose; every subreconciler before the running
\* one has left its effect, and a candidate to be committed with Continue
\* carries the running one's.
RunProgress ==
    pc > 0 /\ ~pending /\ steps # <<"setFailedState">> =>
        /\ steps = Pipeline(spec, status)
        /\ \A i \in 1..(pc - 1) : Effect(steps[i])
        /\ candidate.onCommit = "Continue" =>
              EffectOf(steps[pc], candidate.status, spec, cm, children)

IInv ==
    /\ TypeOK
    /\ IdleNoCandidate
    /\ StopCandidate
    /\ FailedRun
    /\ IdleConsistent
    /\ RunProgress

-----------------------------------------------------------------------------
(***************************************************************************)
(* The inductive step, by kind of step.                                    *)
(***************************************************************************)

\* An effect survives a step that keeps where the ConfigMap comes from and
\* its server name, keeps its database section and adds children.
LEMMA EffectMono ==
    ASSUME NEW s, NEW st, NEW sp, NEW c, NEW c2, NEW ch, NEW ch2,
           EffectOf(s, st, sp, c, ch),
           c2.source = c.source, c2.serverName = c.serverName,
           c.database => c2.database, ch \subseteq ch2
    PROVE  EffectOf(s, st, sp, c2, ch2)
  BY DEF EffectOf

\* A subreconciler can run only outside a setFailedState run: that run
\* holds its candidate to the end.
LEMMA AtNotFailed ==
    ASSUME FailedRun, pc > 0, candidate = NoCandidate
    PROVE  steps # <<"setFailedState">>
  BY DEF FailedRun, NoCandidate

\* A step outside the run (a bridge controller, the user, postgres-operator)
\* that keeps a queued key queued and queues it when it changes the Spec or
\* the Status keeps the invariant.
LEMMA EnvStep ==
    ASSUME IInv, TypeOK',
           UNCHANGED <<steps, pc, candidate, cm, children>>,
           pending => pending',
           <<spec, status>> # <<spec', status'>> => pending'
    PROVE  IInv'
<1>1. IdleNoCandidate' /\ StopCandidate' /\ FailedRun'
  BY DEF IInv, IdleNoCandidate, StopCandidate, FailedRun
<1>2. CASE pending'
  BY <1>1, <1>2 DEF IInv, IdleConsistent, RunProgress
<1>3. CASE ~pending'
  <2>1. ~pending /\ spec' = spec /\ status' = status
    BY <1>3
  <2>2. IdleConsistent'
    BY <2>1 DEF IInv, IdleConsistent, Consistent
  <2>3. RunProgress'
    BY <2>1 DEF IInv, RunProgress, Effect
  <2>4. QED
    BY <1>1, <2>2, <2>3 DEF IInv
<1>4. QED
  BY <1>2, <1>3


\* Computing a candidate keeps the invariant when the candidate carries the
\* running subreconciler's effect in case it is committed with Continue.
LEMMA CandidateStep ==
    ASSUME IInv, TypeOK', pc > 0, candidate = NoCandidate,
           UNCHANGED <<spec, status, cm, children, pending, steps, pc>>,
           candidate'.onCommit \in {"Continue", "RequeueWithDelay"},
           candidate'.onCommit = "Continue" =>
              EffectOf(steps[pc], candidate'.status, spec, cm, children)
    PROVE  IInv'
<1>1. steps # <<"setFailedState">>
  BY AtNotFailed DEF IInv
<1>2. IdleNoCandidate' /\ StopCandidate' /\ IdleConsistent'
  BY DEF IdleNoCandidate, StopCandidate, IdleConsistent
<1>3. FailedRun'
  BY <1>1 DEF FailedRun
<1>4. RunProgress'
  BY DEF IInv, RunProgress, Effect
<1>5. QED
  BY <1>2, <1>3, <1>4 DEF IInv

\* Ending a run keeps the invariant when the key stays queued or the
\* Synapse is not RUNNING.
LEMMA FinishStep ==
    ASSUME IInv, TypeOK', NEW rq, Finish(rq),
           pending' \/ status'.state # "RUNNING"
    PROVE  IInv'
  BY DEF Finish, IInv, IdleNoCandidate, StopCandidate, FailedRun,
         IdleConsistent, RunProgress, NoCandidate

\* Moving on, or ending the run after the last subreconciler, keeps the
\* invariant when, in an undisturbed run, every subreconciler up to the
\* running one has left its effect.  After the last one the run has left
\* them all, and the state is consistent.
LEMMA AdvanceStep ==
    ASSUME IInv, TypeOK', pc > 0, NEW ev \in BOOLEAN, Advance(ev),
           steps # <<"setFailedState">>,
           spec' = spec, status' = status,
           ~pending => \A i \in 1..pc : EffectAfter(steps[i])
    PROVE  IInv'
<1>1. pc \in 1..Len(steps) /\ steps \in Seq(StepNames)
  BY DEF IInv, TypeOK
<1>2. CASE pc = Len(steps)
  <2>1. /\ pc' = 0 /\ steps' = <<>> /\ candidate' = NoCandidate
        /\ pending' = (pending \/ ev)
    BY <1>2 DEF Advance, Finish
  <2>2. IdleNoCandidate' /\ StopCandidate' /\ FailedRun' /\ RunProgress'
    BY <2>1 DEF IdleNoCandidate, StopCandidate, FailedRun, RunProgress, NoCandidate
  <2>3. IdleConsistent'
    <3> SUFFICES ASSUME ~pending' PROVE Consistent'
      BY <2>1 DEF IdleConsistent
    <3>1. ~pending
      BY <2>1
    <3>2. steps = Pipeline(spec, status)
      BY <3>1 DEF IInv, RunProgress
    <3>3. \A i \in 1..Len(Pipeline(spec, status)) :
             EffectOf(Pipeline(spec, status)[i], status, spec, cm', children')
      BY <3>1, <3>2, <1>2 DEF EffectAfter
    <3>4. spec \in SynapseSpec /\ status \in SynapseStatus
      BY DEF IInv, TypeOK
    <3>5. ConsistentOf(spec, status, cm', children')
      BY <3>3, <3>4, ConsistentFromEffects
    <3>6. QED
      BY <3>5 DEF Consistent
  <2>4. QED
    BY <2>2, <2>3 DEF IInv
<1>3. CASE pc # Len(steps)
  <2>1. /\ pc' = pc + 1 /\ steps' = steps /\ candidate' = NoCandidate
        /\ pending' = (pending \/ ev)
    BY <1>3 DEF Advance
  <2>2. IdleNoCandidate' /\ StopCandidate' /\ IdleConsistent'
    BY <2>1, <1>1 DEF IdleNoCandidate, StopCandidate, IdleConsistent, NoCandidate
  <2>3. FailedRun'
    BY <2>1, <1>1, <1>3 DEF FailedRun
  <2>4. RunProgress'
    <3>1. CASE pending'
      BY <3>1 DEF RunProgress
    <3>2. CASE ~pending'
      <4>1. ~pending
        BY <2>1, <3>2
      <4>2. steps = Pipeline(spec, status)
        BY <4>1 DEF IInv, RunProgress
      <4>3. \A i \in 1..pc : EffectAfter(steps[i])
        BY <4>1
      <4>4. 1..(pc' - 1) = 1..pc
        BY <2>1, <1>1
      <4>5. \A i \in 1..(pc' - 1) : EffectOf(steps'[i], status', spec', cm', children')
        BY <4>3, <4>4, <2>1 DEF EffectAfter
      <4>6. steps' = Pipeline(spec', status')
        BY <4>2, <2>1
      <4>7. candidate'.onCommit # "Continue"
        BY <2>1 DEF NoCandidate
      <4>8. QED
        BY <4>5, <4>6, <4>7 DEF RunProgress, Effect
    <3>3. QED
      BY <3>1, <3>2
  <2>5. QED
    BY <2>2, <2>3, <2>4 DEF IInv
<1>4. QED
  BY <1>2, <1>3


\* In an undisturbed run, a subreconciler that leaves its effect, keeps the
\* Spec and Status, keeps where the ConfigMap comes from, its server name
\* and its database section, and removes no child, keeps the effects of
\* the subreconcilers before it.
LEMMA KeptEffects ==
    ASSUME IInv, pc > 0, ~pending, steps # <<"setFailedState">>,
           spec' = spec, status' = status,
           cm'.source = cm.source, cm'.serverName = cm.serverName,
           cm.database => cm'.database, children \subseteq children',
           EffectAfter(steps[pc])
    PROVE  \A i \in 1..pc : EffectAfter(steps[i])
<1> SUFFICES ASSUME NEW i \in 1..pc PROVE EffectAfter(steps[i])
  OBVIOUS
<1>1. pc \in Nat
  BY DEF IInv, TypeOK
<1>2. CASE i = pc
  BY <1>2
<1>3. CASE i # pc
  <2>1. i \in 1..(pc - 1)
    BY <1>1, <1>3
  <2>2. Effect(steps[i])
    BY <2>1 DEF IInv, RunProgress
  <2>3. QED
    BY <2>2, EffectMono DEF Effect, EffectAfter
<1>4. QED
  BY <1>2, <1>3

\* The two subreconcilers that write the homeserver ConfigMap from scratch
\* run second, after the one that sets Status' server name and before any
\* that adds a section: rewriting the ConfigMap loses no earlier effect.
LEMMA ResetEffects ==
    ASSUME IInv, pc > 0, ~pending, steps # <<"setFailedState">>,
           spec' = spec, status' = status,
           steps[pc] \in {"reconcileSynapseConfigMap", "copyInputSynapseConfigMap"},
           EffectAfter(steps[pc])
    PROVE  \A i \in 1..pc : EffectAfter(steps[i])
<1>1. steps = Pipeline(spec, status)
  BY DEF IInv, RunProgress
<1>2. HeadIs(steps, FirstStep(spec), SecondStep(spec))
  BY <1>1, PipelineFacts DEF IInv, TypeOK
<1>3. pc \in 1..Len(steps)
  BY DEF IInv, TypeOK
<1>4. pc = 2
  BY <1>2, <1>3 DEF HeadIs, Later, FirstStep
<1>5. Effect(steps[1])
  BY <1>4 DEF IInv, RunProgress
<1>6. EffectAfter(steps[1])
  BY <1>2, <1>5 DEF HeadIs, FirstStep, Effect, EffectAfter, EffectOf, ChildOf
<1>7. QED
  BY <1>4, <1>6


-----------------------------------------------------------------------------

\* The invariant holds initially: nothing is running and no Synapse is
\* RUNNING yet.
LEMMA IInvInit == Init => IInv
<1> SUFFICES ASSUME Init PROVE IInv
  OBVIOUS
<1>1. TypeOK
  BY TypeInit
<1>2. QED
  BY <1>1 DEF Init, IInv, IdleNoCandidate, StopCandidate, FailedRun,
              IdleConsistent, RunProgress, NoCandidate, InitialStatus

\* Every step keeps the invariant, provided no status write of
\* setFailedState is lost (the lost write is finding 3).
LEMMA IInvStep ==
    ASSUME MaxIgnoredErrors = 0, IInv, [Next]_vars
    PROVE  IInv'
<1>0. TypeOK'
  BY TypeStep DEF IInv
<1>a. /\ TypeOK /\ spec \in SynapseSpec /\ status \in SynapseStatus
      /\ pc \in 0..Len(steps) /\ pending \in BOOLEAN
  BY DEF IInv, TypeOK
<1>1. CASE StartReconcile
  <2>1. /\ steps' = Pipeline(spec, status) /\ pc' = 1 /\ ~pending'
        /\ candidate' = NoCandidate /\ UNCHANGED <<spec, status, cm, children>>
    BY <1>1 DEF StartReconcile, IInv, IdleNoCandidate, envVars
  <2>2. HeadIs(Pipeline(spec, status), FirstStep(spec), SecondStep(spec))
    BY <1>a, PipelineFacts
  <2>3. steps' # <<"setFailedState">>
    BY <2>1, <2>2 DEF HeadIs
  <2>4. QED
    BY <2>1, <2>3, <1>0 DEF IInv, IdleNoCandidate, StopCandidate, FailedRun,
                            IdleConsistent, RunProgress, NoCandidate
<1>2. CASE setFailedState
  <2>1. /\ steps' = <<"setFailedState">> /\ pc' = 1
        /\ candidate'.onCommit = "DoNotRequeue"
        /\ candidate'.status.state = "FAILED"
    BY <1>2, <1>a DEF setFailedState, SynapseStatus
  <2>2. QED
    BY <2>1, <1>0 DEF IInv, IdleNoCandidate, StopCandidate, FailedRun,
                      IdleConsistent, RunProgress
<1>3. CASE setStatusHomeserverConfiguration
  <2>1. /\ At("setStatusHomeserverConfiguration")
        /\ Compute([status EXCEPT !.serverName = spec.serverName], "Continue")
    BY <1>3 DEF setStatusHomeserverConfiguration
  <2>2. EffectOf("setStatusHomeserverConfiguration",
                 [status EXCEPT !.serverName = spec.serverName], spec, cm, children)
    BY <1>a DEF EffectOf, SynapseStatus, ChildOf
  <2>3. QED
    BY <2>1, <2>2, <1>0, CandidateStep DEF At, Compute, envVars
<1>4. CASE parseInputSynapseConfigMap
  <2>1. At("parseInputSynapseConfigMap")
    BY <1>4 DEF parseInputSynapseConfigMap
  <2>2. CASE inputCM /\ Compute([status EXCEPT !.serverName = InputName], "Continue")
    <3>1. EffectOf("parseInputSynapseConfigMap",
                   [status EXCEPT !.serverName = InputName], spec, cm, children)
      BY <1>a DEF EffectOf, SynapseStatus, ChildOf
    <3>2. QED
      BY <2>1, <2>2, <3>1, <1>0, CandidateStep DEF At, Compute, envVars
  <2>3. CASE ~inputCM /\ Compute([status EXCEPT !.state = "FAILED",
                                                !.reason = "InputConfigMapMissing"],
                                 "RequeueWithDelay")
    BY <2>1, <2>3, <1>0, CandidateStep DEF At, Compute, envVars
  <2>4. QED
    BY <1>4, <2>2, <2>3 DEF parseInputSynapseConfigMap
<1>5. CASE updateSynapseStatusBridges
  <2>1. /\ At("updateSynapseStatusBridges")
        /\ candidate'.onCommit = "Continue"
        /\ UNCHANGED <<spec, status, cm, children, pending, steps, pc>>
    BY <1>5 DEF updateSynapseStatusBridges, envVars
  <2>2. \A st : EffectOf("updateSynapseStatusBridges", st, spec, cm, children)
    BY DEF EffectOf, ChildOf
  <2>3. QED
    BY <2>1, <2>2, <1>0, CandidateStep DEF At
<1>6. CASE updateSynapseStatusWithPostgreSQLInfos
  <2>1. At("updateSynapseStatusWithPostgreSQLInfos")
    BY <1>6 DEF updateSynapseStatusWithPostgreSQLInfos
  <2>2. CASE pgSecret = "complete"
    <3>1. Compute(updateSynapseStatusDatabase(status), "Continue")
      BY <1>6, <2>2 DEF updateSynapseStatusWithPostgreSQLInfos
    <3>2. EffectOf("updateSynapseStatusWithPostgreSQLInfos",
                   updateSynapseStatusDatabase(status), spec, cm, children)
      BY <1>a DEF EffectOf, updateSynapseStatusDatabase, SynapseStatus, ChildOf
    <3>3. QED
      BY <2>1, <3>1, <3>2, <1>0, CandidateStep DEF At, Compute, envVars
  <2>3. CASE pgSecret # "complete"
    BY <1>6, <2>3, <1>0, FinishStep DEF updateSynapseStatusWithPostgreSQLInfos, Finish
  <2>4. QED
    BY <2>2, <2>3
<1>7. CASE setSynapseStatusAsRunning
  <2>1. /\ At("setSynapseStatusAsRunning")
        /\ Compute([status EXCEPT !.needsReconcile = FALSE, !.state = "RUNNING",
                                  !.reason = ""], "Continue")
    BY <1>7 DEF setSynapseStatusAsRunning
  <2>2. \A st : EffectOf("setSynapseStatusAsRunning", st, spec, cm, children)
    BY DEF EffectOf, ChildOf
  <2>3. QED
    BY <2>1, <2>2, <1>0, CandidateStep DEF At, Compute, envVars
<1>8. CASE updateSynapseStatus
  <2>1. /\ pc > 0 /\ candidate # NoCandidate /\ status' = candidate.status
        /\ UNCHANGED <<spec, cm, children>>
    BY <1>8 DEF updateSynapseStatus, envVars
  <2>2. CASE candidate.onCommit = "Continue" /\ candidate.status = status
    <3>1. Advance(FALSE)
      BY <1>8, <2>2 DEF updateSynapseStatus
    <3>2. steps # <<"setFailedState">>
      BY <2>1, <2>2 DEF IInv, FailedRun
    <3>3. ASSUME ~pending PROVE \A i \in 1..pc : EffectAfter(steps[i])
      <4>1. EffectOf(steps[pc], candidate.status, spec, cm, children)
        BY <2>1, <2>2, <3>2, <3>3 DEF IInv, RunProgress
      <4>2. EffectAfter(steps[pc])
        BY <2>1, <2>2, <4>1 DEF EffectAfter
      <4>3. QED
        BY <2>1, <2>2, <3>2, <3>3, <4>2, KeptEffects
    <3>4. QED
      BY <2>1, <2>2, <3>1, <3>2, <3>3, <1>0, AdvanceStep
  <2>3. CASE ~(candidate.onCommit = "Continue" /\ candidate.status = status)
    <3>1. Finish(candidate.status # status \/ candidate.onCommit # "DoNotRequeue")
      BY <1>8, <2>3 DEF updateSynapseStatus
    <3>2. pending' \/ status'.state # "RUNNING"
      BY <2>1, <3>1 DEF Finish, IInv, StopCandidate
    <3>3. QED
      BY <3>1, <3>2, <1>0, FinishStep
  <2>4. QED
    BY <2>2, <2>3

<1>9. CASE reconcileSynapseConfigMap
  <2>1. /\ At("reconcileSynapseConfigMap") /\ Advance(FALSE)
        /\ cm' = DesiredConfigMap("values", spec.serverName)
        /\ spec' = spec /\ status' = status /\ children' = children
    BY <1>9 DEF reconcileSynapseConfigMap, EnsureConfigMap, configMapForSynapse, envVars
  <2>2. steps # <<"setFailedState">>
    BY <2>1, AtNotFailed DEF At, IInv
  <2>3. EffectAfter(steps[pc])
    BY <2>1 DEF At, EffectAfter, EffectOf, DesiredConfigMap, ChildOf
  <2>4. ASSUME ~pending PROVE \A i \in 1..pc : EffectAfter(steps[i])
    BY <2>1, <2>2, <2>3, <2>4, ResetEffects DEF At
  <2>5. QED
    BY <2>1, <2>2, <2>4, <1>0, AdvanceStep DEF At
<1>10. CASE copyInputSynapseConfigMap
  <2>1. /\ At("copyInputSynapseConfigMap")
        /\ spec' = spec /\ status' = status /\ children' = children
    BY <1>10 DEF copyInputSynapseConfigMap, envVars
  <2>2. CASE inputCM /\ EnsureConfigMap("input", InputName) /\ Advance(FALSE)
    <3>1. steps # <<"setFailedState">>
      BY <2>1, AtNotFailed DEF At, IInv
    <3>2. EffectAfter(steps[pc])
      BY <2>1, <2>2 DEF At, EffectAfter, EffectOf, EnsureConfigMap, DesiredConfigMap, ChildOf
    <3>3. ASSUME ~pending PROVE \A i \in 1..pc : EffectAfter(steps[i])
      BY <2>1, <3>1, <3>2, <3>3, ResetEffects DEF At
    <3>4. QED
      BY <2>1, <2>2, <3>1, <3>3, <1>0, AdvanceStep DEF At
  <2>3. CASE ~inputCM /\ Finish(TRUE) /\ UNCHANGED cm
    BY <2>3, <1>0, FinishStep DEF Finish
  <2>4. QED
    BY <1>10, <2>2, <2>3 DEF copyInputSynapseConfigMap
<1>11. CASE ReconcileChild
  <2>1. PICK st \in DOMAIN ChildOf :
           /\ At(st)
           /\ children' = children \cup {ChildOf[st]}
           /\ Advance(ChildOf[st] \in WatchedKinds /\ ChildOf[st] \notin children)
           /\ UNCHANGED <<envVars, status, cm>>
    BY <1>11 DEF ReconcileChild
  <2>2. steps # <<"setFailedState">>
    BY <2>1, AtNotFailed DEF At, IInv
  <2>3. EffectAfter(steps[pc])
    BY <2>1 DEF At, EffectAfter, EffectOf, ChildOf, envVars
  <2>4. ASSUME ~pending PROVE \A i \in 1..pc : EffectAfter(steps[i])
    BY <2>1, <2>2, <2>3, <2>4, KeptEffects DEF At, envVars
  <2>5. QED
    BY <2>1, <2>2, <2>4, <1>0, AdvanceStep DEF At, envVars
<1>12. CASE updateSynapseConfigMapForPostgresCluster
  <2>1. /\ At("updateSynapseConfigMapForPostgresCluster")
        /\ spec' = spec /\ status' = status /\ children' = children
    BY <1>12 DEF updateSynapseConfigMapForPostgresCluster, envVars
  <2>2. CASE status.databaseReady /\ cm' = [cm EXCEPT !.database = TRUE]
             /\ Advance(FALSE)
    <3>1. steps # <<"setFailedState">>
      BY <2>1, AtNotFailed DEF At, IInv
    <3>2. cm'.source = cm.source /\ cm'.serverName = cm.serverName /\ cm'.database
      BY <2>2 DEF IInv, TypeOK, ConfigMaps
    <3>3. EffectAfter(steps[pc])
      BY <2>1, <3>2 DEF At, EffectAfter, EffectOf, ChildOf
    <3>4. ASSUME ~pending PROVE \A i \in 1..pc : EffectAfter(steps[i])
      BY <2>1, <3>1, <3>2, <3>3, <3>4, KeptEffects DEF At
    <3>5. QED
      BY <2>1, <2>2, <3>1, <3>4, <1>0, AdvanceStep DEF At
  <2>3. CASE ~status.databaseReady /\ Finish(TRUE) /\ UNCHANGED cm
    BY <2>3, <1>0, FinishStep DEF Finish
  <2>4. QED
    BY <1>12, <2>2, <2>3 DEF updateSynapseConfigMapForPostgresCluster
<1>13. CASE \E b \in BridgeKinds : updateSynapseConfigMapForBridge(b)
  <2>1. PICK b \in BridgeKinds : updateSynapseConfigMapForBridge(b)
    BY <1>13
  <2>2. /\ At(ConfigStepOf[b]) /\ Advance(FALSE)
        /\ cm' = addAppServiceToHomeserver(cm, b)
        /\ spec' = spec /\ status' = status /\ children' = children
    BY <2>1 DEF updateSynapseConfigMapForBridge, envVars
  <2>3. steps # <<"setFailedState">>
    BY <2>2, AtNotFailed DEF At, IInv
  <2>4. cm'.source = cm.source /\ cm'.serverName = cm.serverName
        /\ cm'.database = cm.database
    BY <2>2 DEF addAppServiceToHomeserver, IInv, TypeOK, ConfigMaps
  <2>5. EffectAfter(steps[pc])
    BY <2>2 DEF At, EffectAfter, EffectOf, ChildOf, ConfigStepOf, BridgeKinds
  <2>6. ASSUME ~pending PROVE \A i \in 1..pc : EffectAfter(steps[i])
    BY <2>2, <2>3, <2>4, <2>5, <2>6, KeptEffects DEF At
  <2>7. QED
    BY <2>2, <2>3, <2>6, <1>0, AdvanceStep DEF At
<1>14. CASE StoreFailure
  BY <1>14, <1>0, FinishStep DEF StoreFailure, Finish
<1>15. CASE IgnoredStatusWriteFailure
  BY <1>15, <1>a DEF IgnoredStatusWriteFailure, TypeOK
<1>16. CASE \E b \in BridgeKinds : BridgeController(b)
  <2>1. PICK b \in BridgeKinds : BridgeController(b)
    BY <1>16
  <2>2. UNCHANGED <<steps, pc, candidate, cm, children, spec>>
        /\ (pending => pending')
        /\ (status # status' => pending')
    <3>1. CASE fetchSynapseInstance(b)
      BY <3>1 DEF fetchSynapseInstance, runVars, envVars
    <3>2. CASE triggerSynapseReconciliation(b)
      BY <3>2 DEF triggerSynapseReconciliation, runVars, envVars
    <3>3. CASE BridgeGone(b)
      BY <3>3 DEF BridgeGone, runVars, envVars
    <3>4. QED
      BY <2>1, <3>1, <3>2, <3>3 DEF BridgeController
  <2>3. QED
    BY <2>2, <1>0, EnvStep
<1>17. CASE Environment
  <2>1. UNCHANGED <<steps, pc, candidate, cm, children, status>>
        /\ (pending => pending')
        /\ (spec # spec' => pending')
    BY <1>17 DEF Environment, EditSynapseSpec, CreateInputConfigMap,
              InstallPostgresOperator, WritePostgresSecret, CreateBridge,
              DeleteBridge, runVars
  <2>2. QED
    BY <2>1, <1>0, EnvStep
<1>18. CASE UNCHANGED vars
  BY <1>18, <1>0, EnvStep DEF vars
<1>19. QED
  BY <1>1, <1>2, <1>3, <1>4, <1>5, <1>6, <1>7, <1>8, <1>9, <1>10, <1>11,
     <1>12, <1>13, <1>14, <1>15, <1>16, <1>17, <1>18
  DEF Next, SynapseController, Failures


\* QuiescentRunningConsistent for every Spec, server names and bounds, as
\* long as no status write of setFailedState is lost (finding 3 shows the
\* invariant fails otherwise).  It holds because Reconcile composes its
\* list from the Spec and Status it read, and because every Status patch
\* by updateSynapseStatus, every trigger of a bridge controller and every
\* Spec edit requeues the Synapse: a run that ends quiet and RUNNING was
\* undisturbed, and ran every subreconciler the current Spec asks for.
THEOREM RunningConsistent ==
    ASSUME MaxIgnoredErrors = 0
    PROVE  Spec => []QuiescentRunningConsistent
<1>1. Init => IInv
  BY IInvInit
<1>2. IInv /\ [Next]_vars => IInv'
  BY IInvStep
<1>3. IInv => QuiescentRunningConsistent
  BY DEF IInv, IdleConsistent, Consistent, ConsistentOf,
         QuiescentRunningConsistent, Quiescent, DesiredSource, DesiredServerName
<1>4. QED
  BY <1>1, <1>2, <1>3, PTL DEF Spec

=============================================================================
