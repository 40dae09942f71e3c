----------------------------- MODULE CreationProofs -----------------------------
(***************************************************************************)
(* Keptn is told to deploy only what it was told to create, for any        *)
(* services, branch contents and number of faults.                         *)
(***************************************************************************)
EXTENDS GitOperatorProofs

--------------------------------------------------------------------------------
(* Keptn knows the service, or deleted it for the resource now stored. *)
Known(s) == s \in keptn \union deleted

(* A resource whose creation is not pending, and a fresh copy that is past   *)
(* its creation, are of a service that Keptn was told of.  Only the resource *)
(* that the project worker is about to trigger is in its hands.              *)
CreatedOf(s) ==
  /\ cr[s].exists /\ ~cr[s].CreationPending => Known(s)
  /\ "service" \in fresh[s] => svcStep \in {"check", "create"} \/ Known(s)
  /\ target = s => pStep = "trigger"
  /\ "project" \in fresh[s] =>
       target = s /\ (pCopy.exists /\ ~pCopy.CreationPending => Known(s))

Created == \A s \in Services : CreatedOf(s)

(* A step keeps it for s when Keptn is not made to forget the service and  *)
(* neither the resource nor a copy gets past its creation for another      *)
(* reason.                                                                 *)
LEMMA CreatedKept ==
  ASSUME NEW s \in Services, CreatedOf(s),
         Known(s) => Known(s)',
         \/ UNCHANGED cr[s]
         \/ ~cr'[s].exists
         \/ cr'[s].CreationPending
         \/ Known(s)',
         "service" \in fresh'[s] => \/ "service" \in fresh[s] /\ UNCHANGED svcStep
                                    \/ svcStep' \in {"check", "create"}
                                    \/ Known(s)',
         \/ UNCHANGED <<target, pCopy, pStep>>
         \/ target' = NoTarget /\ "project" \notin fresh'[s],
         "project" \in fresh'[s] => "project" \in fresh[s]
  PROVE  CreatedOf(s)'
<1>1. target' = s => UNCHANGED <<target, pCopy, pStep>>
  BY NoTargetAssumption DEF NoTargetAssumption
<1> QED
  BY <1>1 DEF CreatedOf

(* The KeptnService worker gets past the creation of a service only when *)
(* Keptn knows it.                                                       *)
LEMMA ServiceCreated ==
  ASSUME "rejected" \notin FaultKinds, TypeOK, TriggerInv, Created, ServiceController
  PROVE  Created'
<1> USE DEF ProjectWaits, reconcileVars
<1>0. \A s \in Services : CreatedOf(s) /\ TriggerInvOf(s)
  BY TriggerInvParts DEF Created
<1> SUFFICES ASSUME NEW s \in Services PROVE CreatedOf(s)'
  BY DEF Created
<1>s. CreatedOf(s) /\ TriggerInvOf(s)
  BY <1>0
<1>1. ASSUME NEW k \in Services, ServiceGet(k), ProjectWaits PROVE CreatedOf(s)'
  <2>1. /\ UNCHANGED <<cr, keptn, deleted, target, pCopy, pStep>>
        /\ svcStep = "idle" /\ cached[k].exists
        /\ svcStep' = IF cached[k].CreationPending THEN "check" ELSE NextStep(cached[k])
    BY <1>1 DEF ServiceGet, keptnVars
  <2>2. /\ "project" \in fresh'[s] => "project" \in fresh[s]
        /\ "service" \in fresh'[s] => s = k /\ "cache" \in fresh[s]
    BY <1>1, <1>s, <2>1 DEF ServiceGet, Take, TriggerInvOf, TypeOK, ClusterTypeOK
  <2>3. "service" \in fresh'[s] => svcStep' = "check" \/ Known(s)'
    BY <1>s, <2>1, <2>2 DEF CreatedOf, TriggerInvOf, Known
  <2> QED
    BY <1>s, <2>1, <2>2, <2>3, CreatedKept DEF Known
<1>2. ASSUME NEW k \in Services, ServiceNotFound(k), ProjectWaits PROVE CreatedOf(s)'
  BY <1>2, <1>s DEF ServiceNotFound, clusterVars, serviceVars, CreatedOf, Known
<1>3. ASSUME ServiceCheck, ProjectWaits PROVE CreatedOf(s)'
  <2>1. UNCHANGED <<cr, fresh, svcKey, keptn, deleted, target, pCopy, pStep>>
    BY <1>3 DEF ServiceCheck, ServiceContinue, keptnVars
  <2>2. svcStep' = "create" \/ svcKey \in keptn
    BY <1>3 DEF ServiceCheck, ServiceContinue
  <2>3. "service" \in fresh'[s] => svcStep' = "create" \/ Known(s)'
    BY <1>s, <2>1, <2>2 DEF TriggerInvOf, Known
  <2> QED
    BY <1>s, <2>1, <2>3, CreatedKept DEF Known
<1>4. ASSUME NEW answer \in Answers, ServiceCreate(answer), ProjectWaits PROVE CreatedOf(s)'
  <2>1. /\ UNCHANGED <<cr, deleted, target, pCopy, pStep>>
        /\ keptn \subseteq keptn'
        /\ ~Errs(answer) => UNCHANGED <<svcKey, fresh>>
        /\ Errs(answer) => ServiceRetry
    BY <1>4 DEF ServiceCreate, createService, ServiceContinue
  <2>2. CASE Errs(answer)
    <3>1. svcKey \in Services
      BY <1>4 DEF ServiceCreate, TypeOK, ServiceTypeOK
    <3>2. fresh'[s] = fresh[s] \ (IF s = svcKey THEN {"service"} ELSE {})
      BY <2>1, <2>2, <3>1, DropEffect DEF ServiceRetry
    <3>3. "service" \notin fresh'[s]
      BY <1>s, <3>2 DEF TriggerInvOf
    <3> QED
      BY <1>s, <2>1, <3>2, <3>3, CreatedKept DEF Known
  <2>3. CASE ~Errs(answer)
    <3>1. answer = "ok"
      BY <1>4, <2>3 DEF ServiceCreate, createService, CallKeptn, Fault, Answers, Errs
    <3>2. svcKey \in keptn'
      BY <1>4, <3>1 DEF ServiceCreate, createService, Executed
    <3>3. "service" \in fresh'[s] => Known(s)'
      BY <1>s, <2>1, <2>3, <3>2 DEF TriggerInvOf, Known
    <3> QED
      BY <1>s, <2>1, <2>3, <3>3, CreatedKept DEF Known
  <2> QED
    BY <2>2, <2>3
<1>5. ASSUME ServiceRetry, UNCHANGED <<cr, target, pCopy, pStep>>, svcKey \in Services,
             Known(s) => Known(s)'
      PROVE  CreatedOf(s)'
  <2>1. fresh'[s] = fresh[s] \ (IF s = svcKey THEN {"service"} ELSE {})
    BY <1>5, DropEffect DEF ServiceRetry
  <2>2. "service" \notin fresh'[s]
    BY <1>s, <2>1 DEF TriggerInvOf
  <2> QED
    BY <1>s, <1>5, <2>1, <2>2, CreatedKept
<1>6. ASSUME NEW answer \in Answers, ServiceDeploy(answer), ProjectWaits PROVE CreatedOf(s)'
  <2>1. /\ UNCHANGED <<cr, keptn, deleted, target, pCopy, pStep>>
        /\ svcStep = "deploy" /\ svcKey \in Services
        /\ ServiceRetry \/ UNCHANGED fresh
    BY <1>6 DEF ServiceDeploy, triggerDeployment, ServiceContinue, TypeOK, ServiceTypeOK
  <2>2. CASE UNCHANGED fresh
    BY <1>s, <2>1, <2>2, CreatedKept DEF CreatedOf, Known
  <2> QED
    BY <1>5, <2>1, <2>2 DEF Known
<1>7. ASSUME NEW answer \in Answers, ServiceDelete(answer), ProjectWaits PROVE CreatedOf(s)'
  <2>1. /\ UNCHANGED <<cr, target, pCopy, pStep>>
        /\ svcStep = "delete" /\ svcKey \in Services
        /\ ServiceRetry \/ UNCHANGED fresh
    BY <1>7 DEF ServiceDelete, ServiceContinue, TypeOK, ServiceTypeOK
  <2>2. Known(s) => Known(s)'
    BY <1>7 DEF ServiceDelete, deleteService, Known
  <2>3. CASE UNCHANGED fresh
    BY <1>s, <2>1, <2>2, <2>3, CreatedKept DEF CreatedOf
  <2> QED
    BY <1>5, <2>1, <2>2, <2>3
<1>8. ASSUME NEW result \in Results, ServiceUpdate(result), ProjectWaits PROVE CreatedOf(s)'
  <2>1. /\ UNCHANGED <<keptn, target, pCopy, pStep>>
        /\ svcStep \in {"deployed", "update"}
        /\ svcKey \in Services /\ svcCopy \in KeptnService
        /\ UpdateCR("service", svcKey, svcCopy, result)
    BY <1>8 DEF ServiceUpdate, keptnVars, TypeOK, ServiceTypeOK
  <2>2. /\ UNCHANGED deleted /\ fresh'[s] \subseteq fresh[s]
        /\ s = svcKey => "service" \notin fresh'[s]
        /\ \/ cr'[s] = cr[s]
           \/ s = svcKey /\ "service" \in fresh[s]
    BY <2>1, UpdateEffect
  <2>3. "service" \notin fresh'[s]
    BY <1>s, <2>2 DEF TriggerInvOf
  <2>4. cr'[s] = cr[s] \/ Known(s)'
    BY <1>s, <2>1, <2>2 DEF CreatedOf, Known
  <2> QED
    BY <1>s, <2>1, <2>2, <2>3, <2>4, CreatedKept DEF Known
<1> QED
  BY <1>1, <1>2, <1>3, <1>4, <1>6, <1>7, <1>8 DEF ServiceController, ServiceRequest

(* The project worker makes resources whose creation is pending, and writes *)
(* back what it read only while that is what is stored.                     *)
LEMMA ProjectCreated ==
  ASSUME TypeOK, TriggerInv, Created, ProjectController
  PROVE  Created'
<1> USE DEF ServiceWaits, serviceVars
<1>0. \A s \in Services : CreatedOf(s) /\ TriggerInvOf(s)
  BY TriggerInvParts DEF Created
<1> SUFFICES ASSUME NEW s \in Services PROVE CreatedOf(s)'
  BY DEF Created
<1>s. CreatedOf(s) /\ TriggerInvOf(s)
  BY <1>0
<1>1. ASSUME UNCHANGED <<apiVars, keptn, svcStep>>,
             \/ target' = NoTarget /\ pStep # "trigger"
             \/ UNCHANGED <<target, pCopy, pStep>>
      PROVE  CreatedOf(s)'
  <2>1. target' = NoTarget /\ pStep # "trigger" => "project" \notin fresh[s]
    BY <1>s DEF CreatedOf
  <2> QED
    BY <1>1, <1>s, <2>1, CreatedKept DEF apiVars, Known
<1>2. ASSUME ProjectStart \/ ProjectClone \/ ProjectCloneFails \/ ProjectCompare, ServiceWaits
      PROVE  CreatedOf(s)'
  <2>1. UNCHANGED <<apiVars, keptn, svcStep>> /\ pStep # "trigger"
    BY <1>2 DEF ProjectStart, ProjectClone, ProjectCloneFails, ProjectCompare,
                apiVars, clusterVars, keptnVars
  <2>2. target' = NoTarget \/ UNCHANGED <<target, pCopy>>
    BY <1>2 DEF ProjectStart, ProjectClone, ProjectCloneFails, ProjectCompare,
                ProjectDone, Forget
  <2>3. target # s /\ "project" \notin fresh[s]
    BY <1>s, <2>1 DEF CreatedOf
  <2> QED
    BY <1>s, <2>1, <2>2, <2>3, NoTargetAssumption DEF CreatedOf, Known, apiVars, NoTargetAssumption
<1>3. ASSUME NEW k \in Services, NEW result \in Results,
             ProjectCreate(k, result), ServiceWaits
      PROVE  CreatedOf(s)'
  <2>1. /\ UNCHANGED <<keptn, svcStep>> /\ pStep = "create"
        /\ target' = NoTarget \/ UNCHANGED <<target, pCopy, pStep>>
        /\ UNCHANGED apiVars \/ CreateCR(k, NewKeptnService, result)
    BY <1>3 DEF ProjectCreate, ProjectDone, Forget, keptnVars
  <2>2. "project" \notin fresh[s]
    BY <1>s, <2>1 DEF CreatedOf
  <2>3. CASE UNCHANGED <<cr, fresh, deleted>>
    BY <1>1, <2>1, <2>3 DEF apiVars
  <2>4. CASE CreateCR(k, NewKeptnService, result) /\ ~UNCHANGED <<cr, fresh, deleted>>
    <3>1. /\ deleted' = deleted \ {k}
          /\ \/ s # k /\ cr'[s] = cr[s] /\ fresh'[s] = fresh[s]
             \/ s = k /\ cr'[s] = NewKeptnService /\ fresh'[s] = {}
      BY <2>4, CreateEffect, ZeroType
    <3>2. CASE s # k
      BY <1>s, <2>1, <2>2, <3>1, <3>2, CreatedKept DEF Known
    <3>3. CASE s = k
      <4>1. NewKeptnService.CreationPending
        BY DEF NewKeptnService, Zero
      <4>2. target' # s
        BY <1>s, <2>1, NoTargetAssumption DEF CreatedOf, NoTargetAssumption
      <4> QED
        BY <3>1, <3>3, <4>1, <4>2 DEF CreatedOf
    <3> QED
      BY <3>2, <3>3
  <2> QED
    BY <2>1, <2>3, <2>4 DEF apiVars
<1>4. ASSUME NEW k \in Services, NEW result \in Results,
             ProjectRemove(k, result), ServiceWaits
      PROVE  CreatedOf(s)'
  <2> DEFINE marked == [cached[k] EXCEPT !.DeletionPending = TRUE]
  <2>1. /\ UNCHANGED <<keptn, svcStep>> /\ target' = NoTarget /\ pStep = "create"
        /\ cached[k].exists
        /\ DeleteCR(k, result) \/ UpdateCR("cache", k, marked, result)
    BY <1>4 DEF ProjectRemove, ProjectDone, Forget, Unlisted, keptnVars
  <2>2. /\ marked \in KeptnService
        /\ marked.exists = cached[k].exists
        /\ marked.CreationPending = cached[k].CreationPending
    <3>1. cached[k] \in KeptnService
      BY DEF TypeOK, ClusterTypeOK
    <3> QED
      BY <3>1 DEF KeptnService
  <2> HIDE DEF marked
  <2>3. "project" \notin fresh[s]
    BY <1>s, <2>1 DEF CreatedOf
  <2>4. CASE DeleteCR(k, result)
    <3>1. /\ UNCHANGED deleted /\ fresh'[s] \subseteq fresh[s]
          /\ cr'[s] = cr[s] \/ cr'[s] = Zero
      BY <2>4, DeleteEffect
    <3>2. ~Zero.exists
      BY DEF Zero
    <3> QED
      BY <1>s, <2>1, <2>3, <3>1, <3>2, CreatedKept DEF Known
  <2>5. CASE UpdateCR("cache", k, marked, result)
    <3>1. /\ UNCHANGED deleted /\ fresh'[s] \subseteq fresh[s]
          /\ \/ cr'[s] = cr[s]
             \/ s = k /\ cr'[s] = marked /\ "cache" \in fresh[s]
      BY <2>2, <2>5, UpdateEffect
    <3>2. cr'[s] = cr[s] \/ cr'[s].CreationPending \/ Known(s)
      BY <1>s, <2>1, <2>2, <3>1 DEF TriggerInvOf, CreatedOf
    <3> QED
      BY <1>s, <2>1, <2>3, <3>1, <3>2, CreatedKept DEF Known
  <2> QED
    BY <2>1, <2>4, <2>5
<1>5. ASSUME NEW k \in Services, NEW version \in Versions \union {NoVersion},
             ProjectGetVersion(k, version), ServiceWaits
      PROVE  CreatedOf(s)'
  <2> DEFINE wanted == Wanted(cached[k], version, commits[config].trigger[k])
  <2>1. /\ UNCHANGED <<cr, keptn, deleted, svcStep, pStep>>
        /\ pStep = "trigger" /\ target = NoTarget
        /\ \/ target' = k /\ pCopy' = wanted /\ Take("project", k)
           \/ UNCHANGED <<target, pCopy, fresh>>
    BY <1>5, Zenon DEF ProjectGetVersion, Wanted, keptnVars
  <2>2. "project" \notin fresh[s]
    BY <1>s, <2>1, NoTargetAssumption DEF CreatedOf, NoTargetAssumption
  <2>3. wanted.exists = cached[k].exists /\ wanted.CreationPending = cached[k].CreationPending
    <3>1. cached[k] \in KeptnService
      BY DEF TypeOK, ClusterTypeOK
    <3> QED
      BY <3>1 DEF Wanted, KeptnService
  <2> HIDE DEF wanted
  <2>4. CASE UNCHANGED <<target, pCopy, fresh>>
    BY <1>1, <2>1, <2>4 DEF apiVars
  <2>5. CASE target' = k /\ pCopy' = wanted /\ Take("project", k)
    <3>1. /\ "service" \in fresh'[s] => "service" \in fresh[s]
          /\ "project" \in fresh'[s] => s = k /\ "cache" \in fresh[s]
      BY <2>2, <2>5 DEF Take, TypeOK, ClusterTypeOK
    <3>2. "project" \in fresh'[s] => (wanted.exists /\ ~wanted.CreationPending => Known(s))
      BY <1>s, <2>3, <3>1 DEF TriggerInvOf, CreatedOf
    <3> QED
      BY <1>s, <2>1, <2>5, <3>1, <3>2 DEF CreatedOf, Known
  <2> QED
    BY <2>1, <2>4, <2>5
<1>6. ASSUME NEW result \in Results, ProjectTrigger(result), ServiceWaits
      PROVE  CreatedOf(s)'
  <2>1. /\ UNCHANGED <<keptn, svcStep>> /\ target' = NoTarget
        /\ target \in Services /\ pCopy \in KeptnService
        /\ UpdateCR("project", target, pCopy, result)
    BY <1>6 DEF ProjectTrigger, ProjectDone, Forget, keptnVars, TypeOK, ProjectTypeOK
  <2>2. /\ UNCHANGED deleted /\ fresh'[s] \subseteq fresh[s]
        /\ s = target => "project" \notin fresh'[s]
        /\ \/ cr'[s] = cr[s]
           \/ s = target /\ cr'[s] = pCopy /\ "project" \in fresh[s] /\ pCopy.exists
    BY <2>1, UpdateEffect
  <2>3. "project" \notin fresh'[s]
    BY <1>s, <2>2 DEF CreatedOf
  <2>4. cr'[s] = cr[s] \/ cr'[s].CreationPending \/ Known(s)
    BY <1>s, <2>2 DEF CreatedOf
  <2> QED
    BY <1>s, <2>1, <2>2, <2>3, <2>4, CreatedKept DEF Known
<1>7. ASSUME NEW result \in Results, ProjectRecord(result), ServiceWaits
      PROVE  CreatedOf(s)'
  <2>1. /\ UNCHANGED <<cr, fresh, deleted, keptn, svcStep>>
        /\ target = NoTarget /\ target' = NoTarget
    BY <1>7 DEF ProjectRecord, ProjectDone, Forget, apiVars, keptnVars
  <2>2. "project" \notin fresh[s]
    BY <1>s, <2>1, NoTargetAssumption DEF CreatedOf, NoTargetAssumption
  <2> QED
    BY <1>s, <2>1, <2>2, CreatedKept DEF Known
<1> QED
  BY <1>2, <1>3, <1>4, <1>5, <1>6, <1>7 DEF ProjectController, ProjectRequest

(* Watch events, pushes, edits and restarts create and delete nothing. *)
LEMMA SurroundingsCreated ==
  ASSUME TypeOK, Created, Informers \/ Environment \/ Restart
  PROVE  Created'
<1> SUFFICES ASSUME NEW s \in Services PROVE CreatedOf(s)'
  BY DEF Created
<1>s. CreatedOf(s)
  BY DEF Created
<1>1. ASSUME NEW k \in Services, Sync(k), BothWait PROVE CreatedOf(s)'
  <2>1. /\ UNCHANGED <<cr, keptn, deleted, svcStep, target, pCopy, pStep>>
        /\ "service" \in fresh'[s] => "service" \in fresh[s]
        /\ "project" \in fresh'[s] => "project" \in fresh[s]
    BY <1>1 DEF Sync, BothWait, ServiceWaits, ProjectWaits, serviceVars, reconcileVars,
                keptnVars, TypeOK, ClusterTypeOK
  <2> QED
    BY <1>s, <2>1, CreatedKept DEF Known
<1>2. ASSUME SyncProject \/ Push \/ EditProject, BothWait PROVE CreatedOf(s)'
  BY <1>2, <1>s DEF SyncProject, Push, EditProject, BothWait, ServiceWaits, ProjectWaits,
                    serviceVars, reconcileVars, apiVars, keptnVars, CreatedOf, Known
<1>3. ASSUME Restart PROVE CreatedOf(s)'
  <2>1. /\ UNCHANGED <<cr, keptn, deleted>>
        /\ fresh'[s] = {"cache"} /\ target' = NoTarget
    BY <1>3 DEF Restart, RestartCluster, Forget, keptnVars
  <2> QED
    BY <1>s, <2>1, NoTargetAssumption DEF CreatedOf, Known, NoTargetAssumption
<1> QED
  BY <1>1, <1>2, <1>3 DEF Informers, Environment

(* At the start there is no resource and no copy of one. *)
LEMMA InitCreated == Init => Created
  BY NoTargetAssumption
     DEF Init, ClusterInit, ServiceInit, ProjectInit, Created, CreatedOf, Zero,
         NoTargetAssumption

(* As long as Keptn never answers with an error status, a resource past its *)
(* creation is one of a service that Keptn was told of.                     *)
LEMMA CreatedHolds ==
  ASSUME "rejected" \notin FaultKinds
  PROVE  Spec => []Created
<1>1. TypeOK /\ TriggerInv /\ Created /\ [Next]_vars => Created'
  <2> SUFFICES ASSUME TypeOK, TriggerInv, Created, [Next]_vars PROVE Created'
    OBVIOUS
  <2>1. CASE Next
    BY <2>1, ServiceCreated, ProjectCreated, SurroundingsCreated DEF Next
  <2>2. CASE UNCHANGED vars
    BY <2>2 DEF vars, clusterVars, serviceVars, reconcileVars, Created, CreatedOf, Known
  <2> QED
    BY <2>1, <2>2
<1> QED
  BY <1>1, InitCreated, TypeCorrect, TriggerInvariant, PTL DEF Spec

(* Only triggerDeployment, for the key in the worker's hands, makes Keptn *)
(* accept an event.                                                       *)
LEMMA AcceptedIsDeployed ==
  ASSUME TypeOK, [Next]_vars, NEW s \in Services, accepted'[s] # accepted[s]
  PROVE  svcStep = "deploy" /\ svcKey = s
<1>1. ASSUME NEW answer \in Answers, ServiceDeploy(answer)
      PROVE  svcStep = "deploy" /\ svcKey = s
  BY <1>1 DEF ServiceDeploy, triggerDeployment, TypeOK, ClusterTypeOK
<1>2. CASE UNCHANGED accepted
  BY <1>2
<1>3. CASE ServiceController
  BY <1>1, <1>2, <1>3
     DEF ServiceController, ServiceRequest, ServiceGet, ServiceNotFound, ServiceCheck,
         ServiceCreate, ServiceDelete, ServiceUpdate, createService, deleteService,
         keptnVars, clusterVars
<1>4. CASE ProjectController
  BY <1>2, <1>4
     DEF ProjectController, ProjectRequest, ProjectStart, ProjectClone, ProjectCloneFails,
         ProjectCreate, ProjectRemove, ProjectCompare, ProjectGetVersion, ProjectTrigger,
         ProjectRecord, keptnVars, clusterVars
<1>5. CASE Informers \/ Environment \/ Restart \/ UNCHANGED vars
  BY <1>2, <1>5 DEF Informers, Environment, Restart, Sync, SyncProject, Push, EditProject,
                    RestartCluster, keptnVars, vars, clusterVars
<1> QED
  BY <1>3, <1>4, <1>5 DEF Next

(* As long as Keptn never answers with an error status, it is sent a         *)
(* deployment from an up-to-date copy only for a service it knows, or has    *)
(* deleted for the very resource that is deployed: neither a check that      *)
(* fails, nor a lost answer, nor a restart lets the worker skip the creation.*)
THEOREM DeploymentFollowsCreation ==
  ASSUME "rejected" \notin FaultKinds
  PROVE  Spec => CreatedBeforeDeployed
<1> DEFINE Deployment == \A s \in Services :
             accepted'[s] # accepted[s] /\ "service" \in fresh[s]
               => s \in keptn \union deleted
<1>1. TypeOK /\ Created /\ [Next]_vars => [Deployment]_vars
  BY AcceptedIsDeployed DEF Created, CreatedOf, Known
<1> HIDE DEF Deployment
<1>2. Spec => [][Deployment]_vars
  BY <1>1, TypeCorrect, CreatedHolds, PTL DEF Spec
<1> QED
  BY <1>2 DEF Deployment, CreatedBeforeDeployed
================================================================================
