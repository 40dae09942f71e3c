--------------------------- MODULE GitOperatorProofs ---------------------------
(***************************************************************************)
(* Theorems about GitOperator, for any services, branch contents and       *)
(* number of faults.                                                       *)
(***************************************************************************)
EXTENDS GitOperator, TLAPS

--------------------------------------------------------------------------------
(* The zero value and a new resource are KeptnServices. *)
LEMMA ZeroType == Zero \in KeptnService /\ NewKeptnService \in KeptnService
  BY DEF Zero, NewKeptnService, KeptnService

(* The event of a resource is a trigger event. *)
LEMMA EventType ==
  ASSUME NEW o \in KeptnService PROVE EventOf(o) \in TriggerEvent
  BY DEF EventOf, TriggerEvent, KeptnService

(* A fault keeps the fault budget. *)
LEMMA FaultType ==
  ASSUME ClusterTypeOK, NEW kind, Fault(kind) PROVE faults' \in 0..MaxFaults
  BY ClusterAssumption DEF ClusterTypeOK, Fault, ClusterAssumption

(* A call of Keptn and a write of the API server keep it too. *)
LEMMA CallType ==
  ASSUME ClusterTypeOK, NEW answer, CallKeptn(answer) PROVE faults' \in 0..MaxFaults
  BY FaultType DEF CallKeptn, ClusterTypeOK

(* ... and so does a write of the API server. *)
LEMMA WriteType ==
  ASSUME ClusterTypeOK, NEW result, NEW allowed, Write(result, allowed)
  PROVE  faults' \in 0..MaxFaults
  BY FaultType DEF Write, ClusterTypeOK

(* What a write of a resource leaves has the right type. *)
LEMMA StoreType ==
  ASSUME ClusterTypeOK, NEW s \in Services, NEW o \in KeptnService, Store(s, o)
  PROVE  cr' \in [Services -> KeptnService] /\ fresh' \in [Services -> SUBSET Holders]
  BY DEF ClusterTypeOK, Store

(* Dropping a copy keeps the type of fresh. *)
LEMMA DropType ==
  ASSUME ClusterTypeOK, NEW s, NEW holder, Drop(holder, s)
  PROVE  fresh' \in [Services -> SUBSET Holders]
  BY DEF ClusterTypeOK, Drop

(* ... and so does taking one from the cache. *)
LEMMA TakeType ==
  ASSUME ClusterTypeOK, NEW s, NEW holder \in Holders, Take(holder, s)
  PROVE  fresh' \in [Services -> SUBSET Holders]
  BY DEF ClusterTypeOK, Take

(* An Update keeps the types of what it may change. *)
LEMMA UpdateType ==
  ASSUME ClusterTypeOK, NEW s \in Services, NEW holder, NEW o \in KeptnService,
         NEW result, UpdateCR(holder, s, o, result)
  PROVE  /\ cr' \in [Services -> KeptnService]
         /\ fresh' \in [Services -> SUBSET Holders]
         /\ deleted' \in SUBSET Services
         /\ faults' \in 0..MaxFaults
<1>1. faults' \in 0..MaxFaults
  BY WriteType DEF UpdateCR
<1>2. deleted' \in SUBSET Services
  BY DEF UpdateCR, ClusterTypeOK
<1>3. CASE Store(s, o)
  BY <1>1, <1>2, <1>3, StoreType
<1>4. CASE UNCHANGED cr /\ Drop(holder, s)
  BY <1>1, <1>2, <1>4, DropType DEF ClusterTypeOK
<1> QED
  BY <1>3, <1>4 DEF UpdateCR

(* ... and so does a Create. *)
LEMMA CreateType ==
  ASSUME ClusterTypeOK, NEW s \in Services, NEW o \in KeptnService,
         NEW result, CreateCR(s, o, result)
  PROVE  /\ cr' \in [Services -> KeptnService]
         /\ fresh' \in [Services -> SUBSET Holders]
         /\ deleted' \in SUBSET Services
         /\ faults' \in 0..MaxFaults
<1>1. faults' \in 0..MaxFaults
  BY WriteType DEF CreateCR
<1>2. CASE Store(s, o) /\ deleted' = deleted \ {s}
  BY <1>1, <1>2, StoreType DEF ClusterTypeOK
<1>3. CASE UNCHANGED <<cr, fresh, deleted>>
  BY <1>1, <1>3 DEF ClusterTypeOK
<1> QED
  BY <1>2, <1>3 DEF CreateCR

(* ... and so does a Delete. *)
LEMMA DeleteType ==
  ASSUME ClusterTypeOK, NEW s \in Services, NEW result, DeleteCR(s, result)
  PROVE  /\ cr' \in [Services -> KeptnService]
         /\ fresh' \in [Services -> SUBSET Holders]
         /\ deleted' \in SUBSET Services
         /\ faults' \in 0..MaxFaults
<1>1. faults' \in 0..MaxFaults /\ deleted' \in SUBSET Services
  BY WriteType DEF DeleteCR, ClusterTypeOK
<1>2. CASE Store(s, Zero)
  BY <1>1, <1>2, StoreType, ZeroType
<1>3. CASE UNCHANGED <<cr, fresh>>
  BY <1>1, <1>3 DEF ClusterTypeOK
<1> QED
  BY <1>2, <1>3 DEF DeleteCR

(* What the project worker asks for is a KeptnService. *)
Wanted(o, version, trigger) ==
  [o EXCEPT !.DesiredVersion = version, !.trigger = trigger,
            !.DeploymentPending = TRUE]

(* A request for a version of the branch is a KeptnService. *)
LEMMA WantedType ==
  ASSUME NEW o \in KeptnService, NEW version \in Versions \union {NoVersion},
         NEW trigger \in Triggers \union {NoTrigger}
  PROVE  /\ Wanted(o, version, trigger) \in KeptnService
         /\ Wanted(o, version, trigger).DeploymentPending
         /\ Wanted(o, version, trigger).SafeToDelete = o.SafeToDelete
<1> DEFINE a == [o EXCEPT !.DesiredVersion = version]
           b == [a EXCEPT !.trigger = trigger]
<1>1. a \in KeptnService /\ a.SafeToDelete = o.SafeToDelete
  BY DEF KeptnService
<1>2. b \in KeptnService /\ b.SafeToDelete = o.SafeToDelete
  BY <1>1 DEF KeptnService
<1>3. Wanted(o, version, trigger) = [b EXCEPT !.DeploymentPending = TRUE]
  BY Zenon DEF Wanted
<1> QED
  BY <1>2, <1>3 DEF KeptnService

--------------------------------------------------------------------------------
(* Type correctness, one lemma per controller. *)

(* What the project controller reads from the branch has the right type. *)
LEMMA BranchType ==
  ASSUME ClusterTypeOK
  PROVE  /\ Tip \in Nat \ {0}
         /\ \A i \in 1..Tip :
              /\ commits[i] \in Commit
              /\ Listed(i) \subseteq Services
              /\ \A s \in Services :
                   /\ commits[i].version[s] \in Versions \union {NoVersion}
                   /\ commits[i].trigger[s] \in Triggers \union {NoTrigger}
<1>1. Tip \in Nat \ {0} /\ commits \in Seq(Commit)
  BY DEF ClusterTypeOK, Tip
<1>2. \A i \in 1..Tip : commits[i] \in Commit
  BY <1>1 DEF Tip
<1> QED
  BY <1>1, <1>2 DEF Commit, Listed

(* The worker goes on to a step it has. *)
LEMMA NextStepType ==
  ASSUME NEW o \in KeptnService PROVE NextStep(o) \in {"deploy", "delete", "update"}
  BY DEF NextStep, KeptnService

(* Every step of the KeptnService controller keeps the types. *)
LEMMA ServiceTypePreserved ==
  ASSUME TypeOK, ServiceController
  PROVE  TypeOK'
<1> USE DEF TypeOK, ProjectWaits, reconcileVars, ProjectTypeOK, Tip
<1>1. ASSUME NEW s \in Services, ServiceGet(s), ProjectWaits PROVE TypeOK'
  <2>1. fresh' \in [Services -> SUBSET Holders]
    BY <1>1, TakeType DEF ServiceGet, Holders
  <2>2. ServiceTypeOK'
    BY <1>1, NextStepType DEF ServiceGet, ServiceTypeOK, ServiceSteps, ClusterTypeOK
  <2>3. ClusterTypeOK'
    BY <1>1, <2>1 DEF ServiceGet, ClusterTypeOK, gitVars, projectVars, cacheVars, keptnVars
  <2> QED
    BY <1>1, <2>2, <2>3 DEF ServiceGet, gitVars
<1>2. ASSUME NEW s \in Services, ServiceNotFound(s), ProjectWaits PROVE TypeOK'
  BY <1>2 DEF ServiceNotFound, clusterVars, serviceVars, ClusterTypeOK, ServiceTypeOK
<1>3. ASSUME ServiceCheck, ProjectWaits PROVE TypeOK'
  <2>1. svcCopy \in KeptnService /\ svcKey \in Services
    BY <1>3 DEF ServiceCheck, ServiceTypeOK
  <2>2. faults' \in 0..MaxFaults
    BY <1>3, FaultType DEF ServiceCheck, ClusterTypeOK
  <2>3. ServiceTypeOK'
    BY <1>3, <2>1, NextStepType DEF ServiceCheck, ServiceContinue, ServiceTypeOK, ServiceSteps
  <2>4. ClusterTypeOK'
    BY <1>3, <2>2 DEF ServiceCheck, ServiceContinue, ClusterTypeOK, gitVars,
                      projectVars, cacheVars, keptnVars
  <2> QED
    BY <1>3, <2>3, <2>4 DEF ServiceCheck, gitVars
<1>4. ASSUME NEW answer \in Answers, ServiceCreate(answer), ProjectWaits PROVE TypeOK'
  <2> DEFINE created == [svcCopy EXCEPT !.CreationPending = FALSE]
  <2>1. svcKey \in Services /\ created \in KeptnService
    BY <1>4 DEF ServiceCreate, ServiceTypeOK, KeptnService
  <2>2. faults' \in 0..MaxFaults
    BY <1>4, CallType DEF ServiceCreate, createService
  <2>3. \/ ServiceRetry
        \/ ServiceContinue(NextStep(created), created)
    BY <1>4 DEF ServiceCreate
  <2> HIDE DEF created
  <2>4. ServiceTypeOK'
    BY <2>1, <2>3, NextStepType, ZeroType
       DEF ServiceRetry, ServiceDone, ServiceContinue, ServiceTypeOK, ServiceSteps
  <2>5. fresh' \in [Services -> SUBSET Holders] /\ queue' \in SUBSET Services
    BY <2>1, <2>3, DropType DEF ServiceRetry, ServiceContinue, ClusterTypeOK
  <2>6. ClusterTypeOK'
    BY <1>4, <2>1, <2>2, <2>5 DEF ServiceCreate, createService, ClusterTypeOK,
                                           gitVars, projectVars, cacheVars
  <2> QED
    BY <1>4, <2>4, <2>6 DEF ServiceCreate, gitVars
<1>5. ASSUME NEW answer \in Answers, ServiceDeploy(answer), ProjectWaits PROVE TypeOK'
  <2> DEFINE sent == [svcCopy EXCEPT !.DeploymentPending = FALSE]
  <2>1. svcKey \in Services /\ sent \in KeptnService /\ EventOf(svcCopy) \in TriggerEvent
    BY <1>5, EventType DEF ServiceDeploy, ServiceTypeOK, KeptnService
  <2>2. faults' \in 0..MaxFaults
    BY <1>5, CallType DEF ServiceDeploy, triggerDeployment
  <2>3. ServiceRetry \/ ServiceContinue("deployed", sent)
    BY <1>5 DEF ServiceDeploy
  <2> HIDE DEF sent
  <2>4. ServiceTypeOK'
    BY <2>1, <2>3, ZeroType
       DEF ServiceRetry, ServiceDone, ServiceContinue, ServiceTypeOK, ServiceSteps
  <2>5. fresh' \in [Services -> SUBSET Holders] /\ queue' \in SUBSET Services
    BY <2>1, <2>3, DropType DEF ServiceRetry, ServiceContinue, ClusterTypeOK
  <2>6. accepted' \in [Services -> TriggerEvent]
    BY <1>5, <2>1 DEF ServiceDeploy, triggerDeployment, ClusterTypeOK
  <2>7. ClusterTypeOK'
    BY <1>5, <2>1, <2>2, <2>5, <2>6 DEF ServiceDeploy, triggerDeployment, ClusterTypeOK,
                                                 gitVars, projectVars, cacheVars
  <2> QED
    BY <1>5, <2>4, <2>7 DEF ServiceDeploy, gitVars
<1>6. ASSUME NEW answer \in Answers, ServiceDelete(answer), ProjectWaits PROVE TypeOK'
  <2> DEFINE safe == [svcCopy EXCEPT !.SafeToDelete = TRUE]
  <2>1. svcKey \in Services /\ safe \in KeptnService
    BY <1>6 DEF ServiceDelete, ServiceTypeOK, KeptnService
  <2>2. faults' \in 0..MaxFaults
    BY <1>6, CallType DEF ServiceDelete, deleteService
  <2>3. ServiceRetry \/ ServiceContinue("update", safe)
    BY <1>6 DEF ServiceDelete
  <2> HIDE DEF safe
  <2>4. ServiceTypeOK'
    BY <2>1, <2>3, ZeroType
       DEF ServiceRetry, ServiceDone, ServiceContinue, ServiceTypeOK, ServiceSteps
  <2>5. fresh' \in [Services -> SUBSET Holders] /\ queue' \in SUBSET Services
    BY <2>1, <2>3, DropType DEF ServiceRetry, ServiceContinue, ClusterTypeOK
  <2>6. ClusterTypeOK'
    BY <1>6, <2>1, <2>2, <2>5 DEF ServiceDelete, deleteService, ClusterTypeOK,
                                           gitVars, projectVars, cacheVars
  <2> QED
    BY <1>6, <2>4, <2>6 DEF ServiceDelete, gitVars
<1>7. ASSUME NEW result \in Results, ServiceUpdate(result), ProjectWaits PROVE TypeOK'
  <2>1. svcKey \in Services /\ svcCopy \in KeptnService
    BY <1>7 DEF ServiceUpdate, ServiceTypeOK
  <2>2. /\ cr' \in [Services -> KeptnService]
        /\ fresh' \in [Services -> SUBSET Holders]
        /\ deleted' \in SUBSET Services
        /\ faults' \in 0..MaxFaults
    BY <1>7, <2>1, UpdateType DEF ServiceUpdate
  <2>3. ServiceTypeOK'
    BY <1>7, ZeroType DEF ServiceUpdate, ServiceDone, ServiceTypeOK, ServiceSteps
  <2>4. ClusterTypeOK'
    BY <1>7, <2>1, <2>2 DEF ServiceUpdate, ClusterTypeOK, gitVars, projectVars, cacheVars, keptnVars
  <2> QED
    BY <1>7, <2>3, <2>4 DEF ServiceUpdate, gitVars
<1> QED
  BY <1>1, <1>2, <1>3, <1>4, <1>5, <1>6, <1>7 DEF ServiceController, ServiceRequest

(* The end of a reconciliation keeps the types. *)
LEMMA ProjectDoneType ==
  ASSUME TypeOK, ProjectDone
  PROVE  /\ projFresh' \in SUBSET {"cache", "project"}
         /\ pStep' = "idle" /\ pStep' \in ProjectSteps
         /\ mainHead' = 0 /\ lastMain' = 0 /\ config' = 0
         /\ todo' = {} /\ target' = NoTarget /\ pCopy' \in KeptnService
  BY ZeroType DEF ProjectDone, Forget, ProjectSteps, TypeOK, ClusterTypeOK

(* Every step of the KeptnProject controller keeps the types. *)
LEMMA ProjectTypePreserved ==
  ASSUME TypeOK, ProjectController
  PROVE  TypeOK'
<1> USE DEF TypeOK, ServiceWaits, serviceVars, ServiceTypeOK, gitVars
<1>0. Tip \in Nat \ {0} /\ 0 \in 0..Tip
  BY BranchType
<1>1. ASSUME ProjectStart, ServiceWaits PROVE TypeOK'
  <2>1. Tip' = Tip
    BY <1>1 DEF ProjectStart, Tip
  <2>2. ProjectTypeOK'
    BY <1>0, <1>1, <2>1 DEF ProjectStart, ProjectTypeOK, ProjectSteps, ClusterTypeOK
  <2>3. ClusterTypeOK'
    BY <1>1, <2>1 DEF ProjectStart, ClusterTypeOK, apiVars, cacheVars, keptnVars
  <2> QED
    BY <1>1, <2>2, <2>3
<1>2. ASSUME ProjectClone, ServiceWaits PROVE TypeOK'
  <2>1. Tip' = Tip
    BY <1>2 DEF ProjectClone, Tip
  <2>2. projFresh' \in SUBSET {"cache", "project"} /\ ProjectTypeOK'
    <3>1. CASE commits[Tip].configured
      <4>1. Tip \in 1..Tip /\ Tip \in 0..Tip /\ Tip # 0 /\ Listed(Tip) \subseteq Services
        BY <1>0 DEF Listed
      <4> QED
        BY <1>2, <2>1, <3>1, <4>1 DEF ProjectClone, ProjectTypeOK, ProjectSteps, ClusterTypeOK
    <3>2. CASE ~commits[Tip].configured
      BY <1>0, <1>2, <2>1, <3>2, ProjectDoneType DEF ProjectClone, ProjectTypeOK
    <3> QED
      BY <3>1, <3>2
  <2>3. ClusterTypeOK'
    BY <1>2, <2>1, <2>2 DEF ProjectClone, ClusterTypeOK, apiVars, cacheVars, keptnVars
  <2> QED
    BY <1>2, <2>2, <2>3
<1>3. ASSUME ProjectCloneFails, ServiceWaits PROVE TypeOK'
  <2>1. Tip' = Tip
    BY <1>3 DEF ProjectCloneFails, Tip
  <2>2. ProjectTypeOK'
    BY <1>0, <1>3, <2>1, ProjectDoneType DEF ProjectCloneFails, ProjectTypeOK
  <2>3. ClusterTypeOK'
    BY <1>3, <2>1, ProjectDoneType, FaultType
       DEF ProjectCloneFails, ClusterTypeOK, apiVars, cacheVars, keptnVars
  <2> QED
    BY <1>3, <2>2, <2>3
<1>4. ASSUME NEW s \in Services, NEW result \in Results,
             ProjectCreate(s, result), ServiceWaits
      PROVE  TypeOK'
  <2>1. Tip' = Tip
    BY <1>4 DEF ProjectCreate, Tip
  <2>2. projFresh' \in SUBSET {"cache", "project"} /\ ProjectTypeOK'
    <3>1. CASE result = "ok"
      BY <1>4, <2>1, <3>1 DEF ProjectCreate, ProjectTypeOK, ClusterTypeOK
    <3>2. CASE result # "ok"
      BY <1>0, <1>4, <2>1, <3>2, ProjectDoneType DEF ProjectCreate, ProjectTypeOK
    <3> QED
      BY <3>1, <3>2
  <2>3. /\ cr' \in [Services -> KeptnService]
        /\ fresh' \in [Services -> SUBSET Holders]
        /\ deleted' \in SUBSET Services
        /\ faults' \in 0..MaxFaults
    <3>1. CASE cached[s].exists
      BY <1>4, <3>1 DEF ProjectCreate, ClusterTypeOK, apiVars
    <3>2. CASE ~cached[s].exists
      BY <1>4, <3>2, ZeroType, CreateType DEF ProjectCreate
    <3> QED
      BY <3>1, <3>2
  <2>4. ClusterTypeOK'
    BY <1>4, <2>1, <2>2, <2>3 DEF ProjectCreate, ClusterTypeOK, cacheVars, keptnVars
  <2> QED
    BY <1>4, <2>2, <2>4
<1>5. ASSUME NEW s \in Services, NEW result \in Results,
             ProjectRemove(s, result), ServiceWaits
      PROVE  TypeOK'
  <2>1. Tip' = Tip
    BY <1>5 DEF ProjectRemove, Tip
  <2>2. ProjectTypeOK'
    BY <1>0, <1>5, <2>1, ProjectDoneType DEF ProjectRemove, ProjectTypeOK
  <2>3. [cached[s] EXCEPT !.DeletionPending = TRUE] \in KeptnService
    BY DEF ClusterTypeOK, KeptnService
  <2>4. /\ cr' \in [Services -> KeptnService]
        /\ fresh' \in [Services -> SUBSET Holders]
        /\ deleted' \in SUBSET Services
        /\ faults' \in 0..MaxFaults
    <3>1. CASE cached[s].SafeToDelete
      BY <1>5, <3>1, DeleteType DEF ProjectRemove
    <3>2. CASE ~cached[s].SafeToDelete
      BY <1>5, <2>3, <3>2, UpdateType DEF ProjectRemove
    <3> QED
      BY <3>1, <3>2
  <2>5. ClusterTypeOK'
    BY <1>5, <2>1, <2>4, ProjectDoneType DEF ProjectRemove, ClusterTypeOK, cacheVars, keptnVars
  <2> QED
    BY <1>5, <2>2, <2>5
<1>6. ASSUME ProjectCompare, ServiceWaits PROVE TypeOK'
  <2>1. UNCHANGED clusterVars /\ Tip' = Tip /\ Listed(config) \subseteq Services
    BY <1>6 DEF ProjectCompare, Tip, clusterVars, Listed
  <2>2. ProjectTypeOK'
    BY <1>6, <2>1 DEF ProjectCompare, ProjectTypeOK, ProjectSteps
  <2>3. ClusterTypeOK'
    BY <2>1 DEF clusterVars, ClusterTypeOK
  <2> QED
    BY <1>6, <2>2, <2>3
<1>7. ASSUME NEW s \in Services, NEW version \in Versions \union {NoVersion},
             ProjectGetVersion(s, version), ServiceWaits
      PROVE  TypeOK'
  <2> DEFINE wanted == Wanted(cached[s], version, commits[config].trigger[s])
  <2>1. Tip' = Tip
    BY <1>7 DEF ProjectGetVersion, Tip
  <2>2. config \in 1..Tip
    BY <1>0, <1>7 DEF ProjectGetVersion, ProjectTypeOK
  <2>3. wanted \in KeptnService
    BY <2>2, BranchType, WantedType DEF ClusterTypeOK
  <2>4. faults' \in 0..MaxFaults
    BY <1>7, FaultType DEF ProjectGetVersion, GetServiceVersion, ClusterTypeOK
  <2>5. \/ target' = s /\ pCopy' = wanted /\ Take("project", s)
        \/ UNCHANGED <<target, pCopy, fresh>>
    BY <1>7, Zenon DEF ProjectGetVersion, Wanted
  <2> HIDE DEF wanted
  <2>6. fresh' \in [Services -> SUBSET Holders]
    BY <2>5, TakeType DEF ClusterTypeOK, Holders
  <2>7. ProjectTypeOK'
    BY <1>7, <2>1, <2>3, <2>5 DEF ProjectGetVersion, ProjectTypeOK
  <2>8. ClusterTypeOK'
    BY <1>7, <2>1, <2>4, <2>6
       DEF ProjectGetVersion, ClusterTypeOK, cacheVars, projectVars, keptnVars
  <2> QED
    BY <1>7, <2>7, <2>8
<1>8. ASSUME NEW result \in Results, ProjectTrigger(result), ServiceWaits
      PROVE  TypeOK'
  <2>1. Tip' = Tip /\ target \in Services /\ pCopy \in KeptnService
    BY <1>8 DEF ProjectTrigger, ProjectTypeOK, Tip
  <2>2. projFresh' \in SUBSET {"cache", "project"} /\ ProjectTypeOK'
    <3>1. CASE result = "ok"
      BY <1>8, <2>1, <3>1, ZeroType DEF ProjectTrigger, ProjectTypeOK, ClusterTypeOK
    <3>2. CASE result # "ok"
      BY <1>0, <1>8, <2>1, <3>2, ProjectDoneType DEF ProjectTrigger, ProjectTypeOK
    <3> QED
      BY <3>1, <3>2
  <2>3. /\ cr' \in [Services -> KeptnService]
        /\ fresh' \in [Services -> SUBSET Holders]
        /\ deleted' \in SUBSET Services
        /\ faults' \in 0..MaxFaults
    BY <1>8, <2>1, UpdateType DEF ProjectTrigger
  <2>4. ClusterTypeOK'
    BY <1>8, <2>1, <2>2, <2>3 DEF ProjectTrigger, ClusterTypeOK, cacheVars, keptnVars
  <2> QED
    BY <1>8, <2>2, <2>4
<1>9. ASSUME NEW result \in Results, ProjectRecord(result), ServiceWaits
      PROVE  TypeOK'
  <2>1. Tip' = Tip
    BY <1>9 DEF ProjectRecord, Tip
  <2>2. faults' \in 0..MaxFaults
    BY <1>9, WriteType DEF ProjectRecord
  <2>3. /\ proj' \in 0..Tip
        /\ projFresh' \in SUBSET {"cache", "project"}
        /\ ProjectTypeOK'
    <3>1. CASE proj' = mainHead /\ projFresh' = {} /\ Forget
      BY <1>0, <2>1, <3>1, ZeroType DEF Forget, ProjectTypeOK, ProjectSteps
    <3>2. CASE UNCHANGED proj /\ ProjectDone
      BY <1>0, <2>1, <3>2, ProjectDoneType DEF ProjectTypeOK, ClusterTypeOK
    <3> QED
      BY <1>9, <3>1, <3>2 DEF ProjectRecord
  <2>4. ClusterTypeOK'
    BY <1>9, <2>1, <2>2, <2>3 DEF ProjectRecord, ClusterTypeOK, apiVars, cacheVars, keptnVars
  <2> QED
    BY <1>9, <2>3, <2>4
<1> QED
  BY <1>1, <1>2, <1>3, <1>4, <1>5, <1>6, <1>7, <1>8, <1>9
     DEF ProjectController, ProjectRequest

(* Watch events, pushes, edits and restarts keep the types. *)
LEMMA SurroundingsTypePreserved ==
  ASSUME TypeOK, Informers \/ Environment \/ Restart
  PROVE  TypeOK'
<1> USE DEF TypeOK, BothWait, ServiceWaits, ProjectWaits, serviceVars, reconcileVars
<1>0. Tip \in Nat \ {0} /\ 0 \in 0..Tip
  BY BranchType
<1>1. ASSUME NEW s \in Services, Sync(s), BothWait PROVE TypeOK'
  BY <1>1 DEF Sync, ClusterTypeOK, ServiceTypeOK, ProjectTypeOK, Tip, Holders,
              gitVars, projectVars, keptnVars
<1>2. ASSUME SyncProject, BothWait PROVE TypeOK'
  BY <1>2 DEF SyncProject, ClusterTypeOK, ServiceTypeOK, ProjectTypeOK, Tip,
              gitVars, apiVars, keptnVars
<1>3. ASSUME Push, BothWait PROVE TypeOK'
  <2>1. PICK h \in Histories : Tip < Len(h) /\ commits' = Append(commits, h[Tip + 1])
    BY <1>3 DEF Push
  <2>2. h \in Seq(Commit) /\ Tip \in Nat /\ h[Tip + 1] \in Commit
    BY <1>0, <2>1, ClusterAssumption DEF ClusterTypeOK, Tip
  <2>3. commits' \in Seq(Commit) /\ Tip' = Tip + 1
    BY <2>1, <2>2 DEF ClusterTypeOK, Tip
  <2>4. Tip' > 0 /\ \A i \in 0..Tip : i \in 0..Tip'
    BY <2>2, <2>3
  <2>5. ClusterTypeOK'
    BY <1>3, <2>3, <2>4 DEF Push, ClusterTypeOK, apiVars, cacheVars, projectVars, keptnVars
  <2> QED
    BY <1>3, <2>4, <2>5 DEF ServiceTypeOK, ProjectTypeOK
<1>4. ASSUME EditProject, BothWait PROVE TypeOK'
  BY <1>4, FaultType DEF EditProject, ClusterTypeOK, ServiceTypeOK, ProjectTypeOK, Tip,
                         gitVars, apiVars, cacheVars, keptnVars
<1>5. ASSUME Restart PROVE TypeOK'
  <2>1. Tip' = Tip
    BY <1>5 DEF Restart, RestartCluster, Tip, gitVars
  <2>2. ClusterTypeOK'
    BY <1>5, <2>1, FaultType
       DEF Restart, RestartCluster, ClusterTypeOK, Holders, gitVars, keptnVars
  <2> QED
    BY <1>0, <1>5, <2>1, <2>2, ZeroType
       DEF Restart, ServiceDone, Forget, ServiceTypeOK, ServiceSteps, ProjectTypeOK, ProjectSteps
<1> QED
  BY <1>1, <1>2, <1>3, <1>4, <1>5 DEF Informers, Environment

(* The initial state is well-typed. *)
LEMMA InitType == Init => TypeOK
<1> SUFFICES ASSUME Init PROVE TypeOK
  OBVIOUS
<1>1. PICK h \in Histories : commits = <<h[1]>>
  BY DEF Init, ClusterInit
<1>2. h[1] \in Commit
  BY <1>1, ClusterAssumption
<1>3. commits \in Seq(Commit) /\ Tip = 1
  BY <1>1, <1>2 DEF Tip
<1>4. NoEvent \in TriggerEvent
  BY DEF NoEvent, TriggerEvent
<1>5. ClusterTypeOK
  BY <1>2, <1>3, <1>4, ZeroType, ClusterAssumption
     DEF Init, ClusterInit, ClusterTypeOK, Holders, ClusterAssumption
<1> QED
  BY <1>3, <1>5, ZeroType
     DEF Init, ServiceInit, ProjectInit, TypeOK, ServiceTypeOK, ServiceSteps,
         ProjectTypeOK, ProjectSteps

(* Every reachable state is well-typed: in particular no version, trigger or *)
(* commit is read that the branch does not hold, and the fault budget keeps. *)
THEOREM TypeCorrect == Spec => []TypeOK
<1>1. TypeOK /\ [Next]_vars => TypeOK'
  <2> SUFFICES ASSUME TypeOK, [Next]_vars PROVE TypeOK'
    OBVIOUS
  <2>1. CASE Next
    BY <2>1, ServiceTypePreserved, ProjectTypePreserved, SurroundingsTypePreserved DEF Next
  <2>2. CASE UNCHANGED vars
    BY <2>2 DEF vars, clusterVars, serviceVars, reconcileVars, TypeOK, ClusterTypeOK,
                ServiceTypeOK, ProjectTypeOK, Tip
  <2> QED
    BY <2>1, <2>2
<1> QED
  BY <1>1, InitType, PTL DEF Spec

--------------------------------------------------------------------------------
(* What the three kinds of write leave behind. *)

(* An Update stores its object and outdates every copy, or leaves the resource. *)
LEMMA UpdateEffect ==
  ASSUME TypeOK, NEW s \in Services, NEW holder, NEW o \in KeptnService,
         NEW result, UpdateCR(holder, s, o, result)
  PROVE  /\ \A x \in Services \ {s} : cr'[x] = cr[x] /\ fresh'[x] = fresh[x]
         /\ \/ /\ cr'[s] = o /\ fresh'[s] = {}
               /\ holder \in fresh[s] /\ o.exists
            \/ /\ cr'[s] = cr[s] /\ fresh'[s] \subseteq fresh[s]
               /\ "cache" \in fresh[s] => "cache" \in fresh'[s]
               /\ holder # "cache" => holder \notin fresh'[s]
         /\ UNCHANGED deleted
<1> USE DEF TypeOK, ClusterTypeOK
<1>1. CASE Stored(result) /\ o # cr[s]
  BY <1>1 DEF UpdateCR, Write, Stored, Store
<1>2. CASE ~(Stored(result) /\ o # cr[s])
  BY <1>2 DEF UpdateCR, Drop
<1> QED
  BY <1>1, <1>2

(* A Create stores its object and outdates every copy, or does nothing. *)
LEMMA CreateEffect ==
  ASSUME TypeOK, NEW s \in Services, NEW o \in KeptnService,
         NEW result, CreateCR(s, o, result)
  PROVE  /\ \A x \in Services \ {s} : cr'[x] = cr[x] /\ fresh'[x] = fresh[x]
         /\ \/ cr'[s] = o /\ fresh'[s] = {} /\ deleted' = deleted \ {s}
            \/ UNCHANGED <<cr, fresh, deleted>>
  BY DEF TypeOK, ClusterTypeOK, CreateCR, Store

(* A Delete leaves no resource and outdates every copy, or does nothing. *)
LEMMA DeleteEffect ==
  ASSUME TypeOK, NEW s \in Services, NEW result, DeleteCR(s, result)
  PROVE  /\ \A x \in Services \ {s} : cr'[x] = cr[x] /\ fresh'[x] = fresh[x]
         /\ \/ cr'[s] = Zero /\ fresh'[s] = {}
            \/ UNCHANGED <<cr, fresh>>
         /\ UNCHANGED deleted
  BY DEF TypeOK, ClusterTypeOK, DeleteCR, Store

(* Dropping a copy changes nobody else's freshness. *)
LEMMA DropEffect ==
  ASSUME TypeOK, NEW s \in Services, Drop("service", s)
  PROVE  /\ \A x \in Services \ {s} : fresh'[x] = fresh[x]
         /\ fresh'[s] = fresh[s] \ {"service"}
  BY DEF TypeOK, ClusterTypeOK, Drop

--------------------------------------------------------------------------------
(* The trigger invariant, service by service. *)
TriggerInvOf(s) ==
  /\ "cache" \in fresh[s] => cached[s] = cr[s]
  /\ fresh[s] # {} => "cache" \in fresh[s]
  /\ "service" \in fresh[s] =>
       /\ svcKey = s
       /\ svcStep # "idle"
       /\ EventOf(svcCopy) = EventOf(cr[s])
       /\ svcStep # "deployed" => svcCopy.DeploymentPending = cr[s].DeploymentPending
  /\ Settled(s) =>
       /\ cached[s].DeploymentPending => EventOf(cached[s]) = EventOf(cr[s])
       /\ svcKey = s /\ svcCopy.DeploymentPending => EventOf(svcCopy) = EventOf(cr[s])
       /\ accepted[s] = EventOf(cr[s])

(* Unfolded in the state before and the state after a step alike. *)
LEMMA TriggerInvParts ==
  /\ TriggerInv => StepFitsCopy /\ \A s \in Services : TriggerInvOf(s)
  /\ StepFitsCopy' /\ (\A s \in Services : TriggerInvOf(s)') => TriggerInv'
<1> USE DEF TriggerInv, TriggerInvOf, CacheIsFresh, CopyIsFresh, NoStaleRequest,
            NoLostTrigger, Settled
<1>1. TriggerInv => StepFitsCopy /\ \A s \in Services : TriggerInvOf(s)
  OBVIOUS
<1>2. StepFitsCopy' /\ (\A s \in Services : TriggerInvOf(s)') => TriggerInv'
  OBVIOUS
<1> QED
  BY <1>1, <1>2

(* The worker of the KeptnServices goes on with a copy that asks for the *)
(* same, or gives up.                                                    *)
LEMMA WorkerMoves ==
  ASSUME TypeOK, TriggerInv, svcKey \in Services, svcStep # "deployed",
         UNCHANGED <<cr, cached, accepted>>,
         \/ /\ UNCHANGED <<svcKey, fresh>>
            /\ svcStep' \notin {"idle", "deployed"}
            /\ EventOf(svcCopy)' = EventOf(svcCopy)
            /\ svcCopy'.DeploymentPending = svcCopy.DeploymentPending
         \/ ServiceDone /\ Drop("service", svcKey)
  PROVE  \A s \in Services : TriggerInvOf(s)'
<1> SUFFICES ASSUME NEW s \in Services PROVE TriggerInvOf(s)'
  OBVIOUS
<1>1. TriggerInvOf(s)
  BY TriggerInvParts
<1>2. CASE /\ UNCHANGED <<svcKey, fresh>>
           /\ svcStep' \notin {"idle", "deployed"}
           /\ EventOf(svcCopy)' = EventOf(svcCopy)
           /\ svcCopy'.DeploymentPending = svcCopy.DeploymentPending
  BY <1>1, <1>2 DEF TriggerInvOf, Settled, EventOf
<1>3. CASE ServiceDone /\ Drop("service", svcKey)
  <2>1. fresh'[s] = fresh[s] \ (IF s = svcKey THEN {"service"} ELSE {})
    BY <1>3, DropEffect
  <2>2. "service" \notin fresh'[s]
    BY <1>1, <2>1 DEF TriggerInvOf
  <2>3. svcKey' # s
    BY <1>3, NoServiceAssumption DEF ServiceDone, NoServiceAssumption
  <2> QED
    BY <1>1, <2>1, <2>2, <2>3 DEF TriggerInvOf, Settled, EventOf
<1> QED
  BY <1>2, <1>3

(* The KeptnService worker's own steps keep TriggerInv. *)
LEMMA ServiceTriggerInv ==
  ASSUME "rejected" \notin FaultKinds, TypeOK, TypeOK', TriggerInv, ServiceController
  PROVE  TriggerInv'
<1> USE DEF ProjectWaits, reconcileVars
<1>0. StepFitsCopy /\ \A s \in Services : TriggerInvOf(s)
  BY TriggerInvParts
<1> SUFFICES StepFitsCopy' /\ \A s \in Services : TriggerInvOf(s)'
  BY TriggerInvParts
<1>1. ASSUME NEW k \in Services, ServiceGet(k), ProjectWaits
      PROVE  StepFitsCopy' /\ \A s \in Services : TriggerInvOf(s)'
  <2>1. StepFitsCopy'
    BY <1>0, <1>1 DEF StepFitsCopy, ServiceGet, NextStep, TypeOK, ClusterTypeOK, KeptnService
  <2>2. /\ \A s \in Services \ {k} : fresh'[s] = fresh[s]
        /\ fresh'[k] = IF "cache" \in fresh[k] THEN fresh[k] \union {"service"} ELSE fresh[k]
    BY <1>1 DEF ServiceGet, Take, TypeOK, ClusterTypeOK
  <2>3. /\ UNCHANGED <<cr, cached, accepted>>
        /\ svcStep = "idle" /\ svcKey' = k /\ svcCopy' = cached[k]
        /\ svcStep' \notin {"idle", "deployed"}
    BY <1>1 DEF ServiceGet, NextStep, cacheVars, keptnVars
  <2>4. ASSUME NEW s \in Services PROVE TriggerInvOf(s)'
    <3>1. TriggerInvOf(s) /\ TriggerInvOf(k)
      BY <1>0
    <3>2. CASE s = k
      BY <2>2, <2>3, <3>1, <3>2 DEF TriggerInvOf, Settled, EventOf
    <3>3. CASE s # k
      BY <2>2, <2>3, <3>1, <3>3 DEF TriggerInvOf, Settled, EventOf
    <3> QED
      BY <3>2, <3>3
  <2> QED
    BY <2>1, <2>4
<1>2. ASSUME NEW s \in Services, ServiceNotFound(s), ProjectWaits
      PROVE  StepFitsCopy' /\ \A x \in Services : TriggerInvOf(x)'
  BY <1>0, <1>2 DEF ServiceNotFound, clusterVars, serviceVars, StepFitsCopy,
                    TriggerInvOf, Settled, EventOf
<1>3. ASSUME ServiceCheck, ProjectWaits
      PROVE  StepFitsCopy' /\ \A s \in Services : TriggerInvOf(s)'
  <2>1. /\ UNCHANGED <<cr, cached, accepted, svcKey, fresh, svcCopy, target, pCopy>>
        /\ svcKey \in Services /\ svcStep = "check"
        /\ svcStep' = NextStep(svcCopy) \/ svcStep' = "create"
    BY <1>3 DEF ServiceCheck, ServiceContinue, cacheVars, keptnVars, TypeOK, ServiceTypeOK
  <2>2. StepFitsCopy' /\ svcStep' \notin {"idle", "deployed"}
    BY <1>0, <2>1 DEF StepFitsCopy, NextStep, EventOf
  <2> QED
    BY <2>1, <2>2, WorkerMoves DEF EventOf
<1>4. ASSUME NEW answer \in Answers, ServiceCreate(answer), ProjectWaits
      PROVE  StepFitsCopy' /\ \A s \in Services : TriggerInvOf(s)'
  <2> DEFINE created == [svcCopy EXCEPT !.CreationPending = FALSE]
  <2>1. /\ UNCHANGED <<cr, cached, accepted, target, pCopy>>
        /\ svcKey \in Services /\ svcStep = "create"
        /\ \/ ServiceRetry
           \/ ServiceContinue(NextStep(created), created)
    BY <1>4 DEF ServiceCreate, createService, cacheVars, TypeOK, ServiceTypeOK
  <2>2. /\ EventOf(created) = EventOf(svcCopy)
        /\ created.DeploymentPending = svcCopy.DeploymentPending
    BY DEF EventOf, TypeOK, ServiceTypeOK, KeptnService
  <2> HIDE DEF created
  <2>3. StepFitsCopy'
    BY <1>0, <2>1 DEF StepFitsCopy, NextStep, ServiceRetry, ServiceDone, ServiceContinue, EventOf
  <2>4. CASE ServiceRetry
    BY <2>1, <2>3, <2>4, WorkerMoves DEF ServiceRetry
  <2>5. CASE ServiceContinue(NextStep(created), created)
    <3>1. /\ svcStep' \notin {"idle", "deployed"} /\ svcCopy' = created
          /\ UNCHANGED <<svcKey, fresh>>
      BY <2>5 DEF ServiceContinue, NextStep
    <3>2. EventOf(svcCopy)' = EventOf(svcCopy)
      BY <2>2, <3>1 DEF EventOf
    <3> QED
      BY <2>1, <2>2, <2>3, <3>1, <3>2, WorkerMoves
  <2> QED
    BY <2>1, <2>4, <2>5
<1>5. ASSUME NEW answer \in Answers, ServiceDeploy(answer), ProjectWaits
      PROVE  StepFitsCopy' /\ \A s \in Services : TriggerInvOf(s)'
  <2> DEFINE sent == [svcCopy EXCEPT !.DeploymentPending = FALSE]
  <2>1. /\ UNCHANGED <<cr, cached, target, pCopy>>
        /\ svcKey \in Services /\ svcStep = "deploy" /\ svcCopy.DeploymentPending
        /\ \/ ServiceRetry
           \/ ServiceContinue("deployed", sent)
    BY <1>0, <1>5 DEF ServiceDeploy, triggerDeployment, cacheVars, TypeOK, ServiceTypeOK, StepFitsCopy
  <2>2. EventOf(sent) = EventOf(svcCopy) /\ ~sent.DeploymentPending
    BY DEF EventOf, TypeOK, ServiceTypeOK, KeptnService
  <2>3. /\ ServiceRetry => accepted' = accepted \/ accepted'[svcKey] = EventOf(svcCopy)
        /\ ServiceContinue("deployed", sent) => accepted'[svcKey] = EventOf(svcCopy)
        /\ \A s \in Services \ {svcKey} : accepted'[s] = accepted[s]
    <3>1. answer # "rejected"
      BY <1>5 DEF ServiceDeploy, triggerDeployment, CallKeptn, Fault
    <3>2. svcStep' = "deployed" => ~Errs(answer)
      BY <1>5 DEF ServiceDeploy, ServiceRetry, ServiceDone
    <3>3. ~Errs(answer) => Executed(answer)
      BY <3>1 DEF Answers, Errs, Executed
    <3> QED
      BY <1>5, <2>1, <3>2, <3>3
         DEF ServiceDeploy, triggerDeployment, ServiceContinue, TypeOK, ClusterTypeOK
  <2> HIDE DEF sent
  <2>4. StepFitsCopy'
    BY <1>0, <2>1, <2>2, <2>3
       DEF StepFitsCopy, ServiceRetry, ServiceDone, ServiceContinue, EventOf
  <2>5. ASSUME NEW s \in Services PROVE TriggerInvOf(s)'
    <3>1. TriggerInvOf(s)
      BY <1>0
    <3>2. Settled(s) => accepted'[s] = EventOf(cr[s])
      BY <2>1, <2>3, <3>1 DEF TriggerInvOf
    <3>3. CASE ServiceContinue("deployed", sent)
      BY <2>1, <2>2, <3>1, <3>2, <3>3 DEF ServiceContinue, TriggerInvOf, Settled, EventOf
    <3>4. CASE ServiceRetry
      <4>1. "service" \notin fresh'[s] /\ fresh'[s] \subseteq fresh[s] /\ svcKey' # s
            /\ ("cache" \in fresh[s] => "cache" \in fresh'[s])
        BY <2>1, <3>1, <3>4, DropEffect, NoServiceAssumption
           DEF ServiceRetry, ServiceDone, TriggerInvOf, NoServiceAssumption
      <4> QED
        BY <2>1, <3>1, <3>2, <4>1 DEF TriggerInvOf, Settled, EventOf
    <3> QED
      BY <2>1, <3>3, <3>4
  <2> QED
    BY <2>4, <2>5
<1>6. ASSUME NEW answer \in Answers, ServiceDelete(answer), ProjectWaits
      PROVE  StepFitsCopy' /\ \A s \in Services : TriggerInvOf(s)'
  <2> DEFINE safe == [svcCopy EXCEPT !.SafeToDelete = TRUE]
  <2>1. /\ UNCHANGED <<cr, cached, accepted, target, pCopy>>
        /\ svcKey \in Services /\ svcStep = "delete" /\ ~svcCopy.DeploymentPending
        /\ \/ ServiceRetry
           \/ ServiceContinue("update", safe)
    BY <1>0, <1>6 DEF ServiceDelete, deleteService, cacheVars, TypeOK, ServiceTypeOK, StepFitsCopy
  <2>2. /\ EventOf(safe) = EventOf(svcCopy)
        /\ safe.DeploymentPending = svcCopy.DeploymentPending
    BY DEF EventOf, TypeOK, ServiceTypeOK, KeptnService
  <2> HIDE DEF safe
  <2>3. StepFitsCopy'
    BY <1>0, <2>1, <2>2 DEF StepFitsCopy, ServiceRetry, ServiceDone, ServiceContinue, EventOf
  <2>4. CASE ServiceRetry
    BY <2>1, <2>3, <2>4, WorkerMoves DEF ServiceRetry
  <2>5. CASE ServiceContinue("update", safe)
    <3>1. /\ svcStep' = "update" /\ svcCopy' = safe
          /\ UNCHANGED <<svcKey, fresh>>
      BY <2>5 DEF ServiceContinue
    <3>2. EventOf(svcCopy)' = EventOf(svcCopy)
      BY <2>2, <3>1 DEF EventOf
    <3> QED
      BY <2>1, <2>2, <2>3, <3>1, <3>2, WorkerMoves
  <2> QED
    BY <2>1, <2>4, <2>5
<1>7. ASSUME NEW result \in Results, ServiceUpdate(result), ProjectWaits
      PROVE  StepFitsCopy' /\ \A s \in Services : TriggerInvOf(s)'
  <2>1. /\ UNCHANGED <<cached, accepted, target, pCopy>>
        /\ svcKey \in Services /\ svcStep \in {"deployed", "update"}
        /\ svcCopy \in KeptnService /\ ~svcCopy.DeploymentPending
        /\ UpdateCR("service", svcKey, svcCopy, result)
        /\ ServiceDone
    BY <1>0, <1>7 DEF ServiceUpdate, cacheVars, keptnVars, TypeOK, ServiceTypeOK, StepFitsCopy
  <2>2. StepFitsCopy' /\ svcKey' \notin Services
    BY <1>0, <2>1, NoServiceAssumption DEF StepFitsCopy, ServiceDone, NoServiceAssumption
  <2>3. ASSUME NEW s \in Services PROVE TriggerInvOf(s)'
    <3>1. TriggerInvOf(s)
      BY <1>0
    <3>2. CASE s # svcKey
      BY <2>1, <2>2, <3>1, <3>2, UpdateEffect DEF TriggerInvOf, Settled, EventOf
    <3>3. CASE s = svcKey /\ cr'[s] = svcCopy /\ fresh'[s] = {} /\ "service" \in fresh[s]
      <4>1. cached[s] = cr[s] /\ EventOf(svcCopy) = EventOf(cr[s])
        BY <3>1, <3>3 DEF TriggerInvOf
      <4>2. Settled(s)' => accepted[s] = EventOf(svcCopy)
        <5>1. CASE svcStep = "deployed"
          BY <1>0, <3>3, <5>1 DEF StepFitsCopy
        <5>2. CASE svcStep = "update"
          BY <3>1, <3>3, <4>1, <5>2 DEF TriggerInvOf, Settled, EventOf
        <5> QED
          BY <2>1, <5>1, <5>2
      <4> QED
        BY <2>1, <2>2, <3>3, <4>1, <4>2 DEF TriggerInvOf, Settled, EventOf
    <3>4. CASE s = svcKey /\ cr'[s] = cr[s] /\ fresh'[s] \subseteq fresh[s]
               /\ ("cache" \in fresh[s] => "cache" \in fresh'[s])
               /\ "service" \notin fresh'[s]
      BY <2>1, <2>2, <3>1, <3>4 DEF TriggerInvOf, Settled, EventOf
    <3> QED
      BY <2>1, <3>2, <3>3, <3>4, UpdateEffect
  <2> QED
    BY <2>2, <2>3
<1> QED
  BY <1>1, <1>2, <1>3, <1>4, <1>5, <1>6, <1>7 DEF ServiceController, ServiceRequest

(* A write of somebody else than the worker: the resource stays as it is, *)
(* or every copy of it is outdated and it does not settle on a new event. *)
LEMMA OthersWrite ==
  ASSUME NEW s \in Services, TriggerInvOf(s),
         UNCHANGED <<svcKey, svcStep, svcCopy, cached, accepted>>,
         \/ /\ cr'[s] = cr[s]
            /\ "service" \in fresh'[s] => "service" \in fresh[s]
            /\ "cache" \in fresh'[s] => "cache" \in fresh[s]
            /\ fresh'[s] # {} => "cache" \in fresh'[s]
         \/ /\ fresh'[s] = {}
            /\ Settled(s)' => Settled(s) /\ EventOf(cr'[s]) = EventOf(cr[s])
  PROVE  TriggerInvOf(s)'
<1>1. CASE /\ cr'[s] = cr[s]
           /\ "service" \in fresh'[s] => "service" \in fresh[s]
           /\ "cache" \in fresh'[s] => "cache" \in fresh[s]
           /\ fresh'[s] # {} => "cache" \in fresh'[s]
  BY <1>1 DEF TriggerInvOf, Settled, EventOf
<1>2. CASE /\ fresh'[s] = {}
           /\ Settled(s)' => Settled(s) /\ EventOf(cr'[s]) = EventOf(cr[s])
  BY <1>2 DEF TriggerInvOf, Settled, EventOf
<1> QED
  BY <1>1, <1>2

(* ... and while nothing is written at all. *)
LEMMA NothingWritten ==
  ASSUME NEW s \in Services, TriggerInvOf(s), UNCHANGED <<serviceVars, cr, fresh, cached, accepted>>
  PROVE  TriggerInvOf(s)'
  BY DEF TriggerInvOf, Settled, EventOf, serviceVars

(* The worker of the KeptnProject: createKeptnService makes a resource that *)
(* was never triggered, removeService writes back a copy that differs in    *)
(* DeletionPending only, or deletes; triggerDeployment makes it pending.    *)
LEMMA ProjectTriggerInv ==
  ASSUME TypeOK, TypeOK', TriggerInv, ProjectController
  PROVE  TriggerInv'
<1> USE DEF ServiceWaits, serviceVars
<1>0. StepFitsCopy /\ \A s \in Services : TriggerInvOf(s)
  BY TriggerInvParts
<1> SUFFICES StepFitsCopy' /\ \A s \in Services : TriggerInvOf(s)'
  BY TriggerInvParts
<1>1. ASSUME UNCHANGED <<serviceVars, cr, fresh, cached, accepted>>,
             target' = NoTarget \/ UNCHANGED <<target, pCopy>>
      PROVE  StepFitsCopy' /\ \A s \in Services : TriggerInvOf(s)'
  BY <1>0, <1>1, NothingWritten DEF StepFitsCopy, EventOf
<1>2. ASSUME ProjectStart \/ ProjectClone \/ ProjectCloneFails \/ ProjectCompare, ServiceWaits
      PROVE  StepFitsCopy' /\ \A s \in Services : TriggerInvOf(s)'
  <2>1. UNCHANGED <<serviceVars, cr, fresh, cached, accepted>>
    BY <1>2 DEF ProjectStart, ProjectClone, ProjectCloneFails, ProjectCompare,
                apiVars, cacheVars, keptnVars, clusterVars
  <2>2. target' = NoTarget \/ UNCHANGED <<target, pCopy>>
    BY <1>2 DEF ProjectStart, ProjectClone, ProjectCloneFails, ProjectCompare,
                ProjectDone, Forget
  <2> QED
    BY <1>1, <2>1, <2>2
<1>3. ASSUME NEW k \in Services, NEW result \in Results,
             ProjectCreate(k, result), ServiceWaits
      PROVE  StepFitsCopy' /\ \A s \in Services : TriggerInvOf(s)'
  <2>1. /\ UNCHANGED <<svcKey, svcStep, svcCopy, cached, accepted>>
        /\ target' = NoTarget \/ UNCHANGED <<target, pCopy>>
        /\ UNCHANGED <<cr, fresh>> \/ CreateCR(k, NewKeptnService, result)
    BY <1>3 DEF ProjectCreate, ProjectDone, Forget, apiVars, cacheVars, keptnVars
  <2>2. CASE UNCHANGED <<cr, fresh>>
    BY <1>1, <2>1, <2>2
  <2>3. CASE CreateCR(k, NewKeptnService, result)
    <3>1. StepFitsCopy'
      BY <1>0, <2>1 DEF StepFitsCopy, EventOf
    <3>2. NewKeptnService.trigger = NoTrigger
      BY DEF NewKeptnService, Zero
    <3>3. ASSUME NEW s \in Services PROVE TriggerInvOf(s)'
      <4>1. TriggerInvOf(s)
        BY <1>0
      <4>2. CASE cr'[s] = cr[s] /\ fresh'[s] = fresh[s]
        BY <2>1, <4>1, <4>2, OthersWrite DEF TriggerInvOf
      <4>3. CASE cr'[s] = NewKeptnService /\ fresh'[s] = {}
        BY <2>1, <3>2, <4>1, <4>3, OthersWrite DEF Settled
      <4> QED
        BY <2>3, <4>2, <4>3, CreateEffect, ZeroType
    <3> QED
      BY <3>1, <3>3
  <2> QED
    BY <2>1, <2>2, <2>3
<1>4. ASSUME NEW k \in Services, NEW result \in Results,
             ProjectRemove(k, result), ServiceWaits
      PROVE  StepFitsCopy' /\ \A s \in Services : TriggerInvOf(s)'
  <2> DEFINE marked == [cached[k] EXCEPT !.DeletionPending = TRUE]
  <2>1. /\ UNCHANGED <<svcKey, svcStep, svcCopy, cached, accepted>>
        /\ target' = NoTarget
        /\ DeleteCR(k, result) \/ UpdateCR("cache", k, marked, result)
    BY <1>4 DEF ProjectRemove, ProjectDone, Forget, cacheVars, keptnVars
  <2>2. /\ marked \in KeptnService
        /\ EventOf(marked) = EventOf(cached[k])
        /\ marked.trigger = cached[k].trigger
        /\ marked.DeploymentPending = cached[k].DeploymentPending
    <3>1. cached[k] \in KeptnService
      BY DEF TypeOK, ClusterTypeOK
    <3> QED
      BY <3>1 DEF KeptnService, EventOf
  <2> HIDE DEF marked
  <2>3. StepFitsCopy'
    BY <1>0, <2>1 DEF StepFitsCopy, EventOf
  <2>4. ASSUME NEW s \in Services PROVE TriggerInvOf(s)'
    <3>1. TriggerInvOf(s)
      BY <1>0
    <3>2. CASE DeleteCR(k, result)
      <4>1. CASE cr'[s] = cr[s] /\ fresh'[s] = fresh[s]
        BY <2>1, <3>1, <4>1, OthersWrite DEF TriggerInvOf
      <4>2. CASE cr'[s] = Zero /\ fresh'[s] = {}
        BY <2>1, <3>1, <4>2, OthersWrite DEF Settled, Zero
      <4> QED
        BY <3>2, <4>1, <4>2, DeleteEffect
    <3>3. CASE UpdateCR("cache", k, marked, result)
      <4>1. CASE cr'[s] = cr[s] /\ fresh'[s] = fresh[s]
        BY <2>1, <3>1, <4>1, OthersWrite DEF TriggerInvOf
      <4>2. CASE s = k /\ cr'[s] = marked /\ fresh'[s] = {} /\ "cache" \in fresh[s]
        BY <2>1, <2>2, <3>1, <4>2, OthersWrite DEF TriggerInvOf, Settled
      <4>3. CASE /\ cr'[s] = cr[s] /\ fresh'[s] \subseteq fresh[s]
                 /\ "cache" \in fresh[s] => "cache" \in fresh'[s]
        <5>1. fresh'[s] # {} => "cache" \in fresh'[s]
          BY <3>1, <4>3 DEF TriggerInvOf
        <5> QED
          BY <2>1, <3>1, <4>3, <5>1, OthersWrite
      <4>4. /\ \A x \in Services \ {k} : cr'[x] = cr[x] /\ fresh'[x] = fresh[x]
            /\ \/ cr'[k] = marked /\ fresh'[k] = {} /\ "cache" \in fresh[k]
               \/ /\ cr'[k] = cr[k] /\ fresh'[k] \subseteq fresh[k]
                  /\ "cache" \in fresh[k] => "cache" \in fresh'[k]
        BY <2>2, <3>3, UpdateEffect
      <4> QED
        BY <4>1, <4>2, <4>3, <4>4
    <3> QED
      BY <2>1, <3>2, <3>3
  <2> QED
    BY <2>3, <2>4
<1>5. ASSUME NEW k \in Services, NEW version \in Versions \union {NoVersion},
             ProjectGetVersion(k, version), ServiceWaits
      PROVE  StepFitsCopy' /\ \A s \in Services : TriggerInvOf(s)'
  <2> DEFINE wanted == Wanted(cached[k], version, commits[config].trigger[k])
  <2>1. /\ UNCHANGED <<svcKey, svcStep, svcCopy, cached, accepted, cr>>
        /\ \/ target' = k /\ pCopy' = wanted /\ Take("project", k)
           \/ UNCHANGED <<target, pCopy, fresh>>
    BY <1>5, Zenon DEF ProjectGetVersion, Wanted, cacheVars, keptnVars
  <2>2. wanted.DeploymentPending
    <3>1. config \in 1..Tip
      BY <1>5, BranchType DEF ProjectGetVersion, TypeOK, ProjectTypeOK
    <3>2. commits[config].trigger[k] \in Triggers \union {NoTrigger}
      BY <3>1, BranchType DEF TypeOK
    <3> QED
      BY <3>2, WantedType DEF TypeOK, ClusterTypeOK
  <2> HIDE DEF wanted
  <2>3. CASE UNCHANGED <<target, pCopy, fresh>>
    BY <1>1, <2>1, <2>3
  <2>4. CASE target' = k /\ pCopy' = wanted /\ Take("project", k)
    <3>1. StepFitsCopy'
      BY <1>0, <2>1, <2>2, <2>4 DEF StepFitsCopy, EventOf
    <3>2. ASSUME NEW s \in Services PROVE TriggerInvOf(s)'
      <4>1. TriggerInvOf(s)
        BY <1>0
      <4>2. fresh'[s] = IF s = k /\ "cache" \in fresh[s] THEN fresh[s] \union {"project"} ELSE fresh[s]
        BY <2>4 DEF Take, TypeOK, ClusterTypeOK
      <4>3. /\ "service" \in fresh'[s] => "service" \in fresh[s]
            /\ "cache" \in fresh'[s] => "cache" \in fresh[s]
            /\ fresh'[s] # {} => "cache" \in fresh'[s]
        BY <4>1, <4>2 DEF TriggerInvOf
      <4> QED
        BY <2>1, <4>1, <4>3, OthersWrite
    <3> QED
      BY <3>1, <3>2
  <2> QED
    BY <2>1, <2>3, <2>4
<1>6. ASSUME NEW result \in Results, ProjectTrigger(result), ServiceWaits
      PROVE  StepFitsCopy' /\ \A s \in Services : TriggerInvOf(s)'
  <2>1. /\ UNCHANGED <<svcKey, svcStep, svcCopy, cached, accepted>>
        /\ target \in Services /\ target' = NoTarget
        /\ pCopy \in KeptnService /\ pCopy.DeploymentPending
        /\ UpdateCR("project", target, pCopy, result)
    BY <1>0, <1>6 DEF ProjectTrigger, ProjectDone, Forget, StepFitsCopy, cacheVars,
                      keptnVars, TypeOK, ProjectTypeOK
  <2>2. StepFitsCopy'
    BY <1>0, <2>1 DEF StepFitsCopy, EventOf
  <2>3. ASSUME NEW s \in Services PROVE TriggerInvOf(s)'
    <3>1. TriggerInvOf(s)
      BY <1>0
    <3>2. CASE cr'[s] = cr[s] /\ fresh'[s] = fresh[s]
      BY <2>1, <3>1, <3>2, OthersWrite DEF TriggerInvOf
    <3>3. CASE cr'[s] = pCopy /\ fresh'[s] = {}
      BY <2>1, <3>1, <3>3, OthersWrite DEF Settled
    <3>4. CASE /\ cr'[s] = cr[s] /\ fresh'[s] \subseteq fresh[s]
               /\ "cache" \in fresh[s] => "cache" \in fresh'[s]
      <4>1. fresh'[s] # {} => "cache" \in fresh'[s]
        BY <3>1, <3>4 DEF TriggerInvOf
      <4> QED
        BY <2>1, <3>1, <3>4, <4>1, OthersWrite
    <3> QED
      BY <2>1, <3>2, <3>3, <3>4, UpdateEffect
  <2> QED
    BY <2>2, <2>3
<1>7. ASSUME NEW result \in Results, ProjectRecord(result), ServiceWaits
      PROVE  StepFitsCopy' /\ \A s \in Services : TriggerInvOf(s)'
  BY <1>1, <1>7 DEF ProjectRecord, ProjectDone, Forget, apiVars, cacheVars, keptnVars
<1> QED
  BY <1>2, <1>3, <1>4, <1>5, <1>6, <1>7 DEF ProjectController, ProjectRequest

(* A watch event brings the stored resource into the cache; a restart does *)
(* so for every resource and empties the workers' hands.                   *)
LEMMA SurroundingsTriggerInv ==
  ASSUME TypeOK, TypeOK', TriggerInv, Informers \/ Environment \/ Restart
  PROVE  TriggerInv'
<1>0. StepFitsCopy /\ \A s \in Services : TriggerInvOf(s)
  BY TriggerInvParts
<1> SUFFICES StepFitsCopy' /\ \A s \in Services : TriggerInvOf(s)'
  BY TriggerInvParts
<1>1. ASSUME NEW k \in Services, Sync(k), BothWait
      PROVE  StepFitsCopy' /\ \A s \in Services : TriggerInvOf(s)'
  <2>1. /\ UNCHANGED <<cr, accepted, svcKey, svcStep, svcCopy, target, pCopy>>
        /\ "cache" \notin fresh[k]
        /\ \A s \in Services \ {k} : cached'[s] = cached[s] /\ fresh'[s] = fresh[s]
        /\ cached'[k] = cr[k] /\ fresh'[k] = fresh[k] \union {"cache"}
    BY <1>1 DEF Sync, BothWait, ServiceWaits, ProjectWaits, serviceVars, reconcileVars,
                keptnVars, TypeOK, ClusterTypeOK
  <2>2. StepFitsCopy'
    BY <1>0, <2>1 DEF StepFitsCopy, EventOf
  <2>3. ASSUME NEW s \in Services PROVE TriggerInvOf(s)'
    <3>1. TriggerInvOf(s)
      BY <1>0
    <3>2. CASE s # k
      BY <2>1, <3>1, <3>2 DEF TriggerInvOf, Settled, EventOf
    <3>3. CASE s = k
      <4>1. fresh[s] = {} /\ fresh'[s] = {"cache"}
        BY <2>1, <3>1, <3>3 DEF TriggerInvOf
      <4> QED
        BY <2>1, <3>1, <3>3, <4>1 DEF TriggerInvOf, Settled, EventOf
    <3> QED
      BY <3>2, <3>3
  <2> QED
    BY <2>2, <2>3
<1>2. ASSUME SyncProject \/ Push \/ EditProject, BothWait
      PROVE  StepFitsCopy' /\ \A s \in Services : TriggerInvOf(s)'
  <2>1. UNCHANGED <<serviceVars, cr, fresh, cached, accepted, target, pCopy>>
    BY <1>2 DEF SyncProject, Push, EditProject, BothWait, ServiceWaits, ProjectWaits,
                reconcileVars, apiVars, cacheVars, keptnVars
  <2>2. StepFitsCopy'
    BY <1>0, <2>1 DEF StepFitsCopy, EventOf, serviceVars
  <2> QED
    BY <1>0, <2>1, <2>2, NothingWritten
<1>3. ASSUME Restart
      PROVE  StepFitsCopy' /\ \A s \in Services : TriggerInvOf(s)'
  <2>1. /\ UNCHANGED <<cr, accepted>> /\ cached' = cr
        /\ \A s \in Services : fresh'[s] = {"cache"}
        /\ svcStep' = "idle" /\ svcKey' \notin Services /\ target' = NoTarget
    BY <1>3, NoServiceAssumption
       DEF Restart, RestartCluster, ServiceDone, Forget, keptnVars, NoServiceAssumption
  <2>2. StepFitsCopy'
    BY <2>1 DEF StepFitsCopy
  <2>3. ASSUME NEW s \in Services PROVE TriggerInvOf(s)'
    <3>1. TriggerInvOf(s) /\ fresh'[s] = {"cache"}
      BY <1>0, <2>1
    <3> QED
      BY <2>1, <3>1 DEF TriggerInvOf, Settled, EventOf
  <2> QED
    BY <2>2, <2>3
<1> QED
  BY <1>1, <1>2, <1>3 DEF Informers, Environment

(* TriggerInv holds at the start. *)
LEMMA InitTriggerInv == Init => TriggerInv
<1> SUFFICES ASSUME Init PROVE TriggerInv
  OBVIOUS
<1>1. /\ \A s \in Services : cr[s] = Zero /\ cached[s] = Zero /\ fresh[s] = {"cache"}
      /\ svcStep = "idle" /\ target = NoTarget
  BY DEF Init, ClusterInit, ServiceInit, ProjectInit
<1>2. CacheIsFresh /\ CopyIsFresh /\ StepFitsCopy
  BY <1>1 DEF CacheIsFresh, CopyIsFresh, StepFitsCopy
<1>3. \A s \in Services : ~Settled(s)
  BY <1>1 DEF Settled, Zero
<1> QED
  BY <1>2, <1>3 DEF TriggerInv, NoStaleRequest, NoLostTrigger, Settled

(* TriggerInv is an invariant when Keptn does not answer with an error status. *)
THEOREM TriggerInvariant ==
  ASSUME "rejected" \notin FaultKinds
  PROVE  Spec => []TriggerInv
<1>1. TypeOK /\ TypeOK' /\ TriggerInv /\ [Next]_vars => TriggerInv'
  <2> SUFFICES ASSUME TypeOK, TypeOK', TriggerInv, [Next]_vars PROVE TriggerInv'
    OBVIOUS
  <2>1. CASE Next
    BY <2>1, ServiceTriggerInv, ProjectTriggerInv, SurroundingsTriggerInv DEF Next
  <2>2. CASE UNCHANGED vars
    <3>1. StepFitsCopy /\ \A s \in Services : TriggerInvOf(s)
      BY TriggerInvParts
    <3>2. UNCHANGED <<serviceVars, cr, fresh, cached, accepted, target, pCopy>>
      BY <2>2 DEF vars, clusterVars, reconcileVars
    <3>3. StepFitsCopy'
      BY <3>1, <3>2 DEF StepFitsCopy, EventOf, serviceVars
    <3> QED
      BY <3>1, <3>2, <3>3, NothingWritten, TriggerInvParts
  <2> QED
    BY <2>1, <2>2
<1> QED
  BY <1>1, InitTriggerInv, TypeCorrect, PTL DEF Spec

(* As long as Keptn never answers with an error status, a resource that was *)
(* triggered and is not pending is one whose event Keptn accepted last:     *)
(* neither controller can erase the other's request or send an old one,     *)
(* whatever fails and whenever the pod restarts.                            *)
THEOREM NoTriggerIsLost ==
  ASSUME "rejected" \notin FaultKinds
  PROVE  Spec => []NoLostTrigger
<1>1. TriggerInv => NoLostTrigger
  BY DEF TriggerInv
<1> QED
  BY <1>1, TriggerInvariant, PTL

--------------------------------------------------------------------------------
(* The invariant behind ResourceOutlivesService, service by service. *)
SafeOf(s) ==
  /\ ~cr[s].exists => cr[s] = Zero
  /\ ~cached[s].exists => cached[s] = Zero
  /\ target = s => pStep = "trigger"
  /\ cr[s].SafeToDelete => s \in deleted
  /\ cached[s].SafeToDelete => s \in deleted
  /\ "service" \in fresh[s] /\ svcCopy.SafeToDelete => s \in deleted
  /\ target = s /\ pCopy.SafeToDelete => s \in deleted

(* Unfolded in the state before and the state after a step alike. *)
LEMMA SafeParts ==
  /\ SafeMeansDeleted => \A s \in Services : SafeOf(s)
  /\ (\A s \in Services : SafeOf(s)') => SafeMeansDeleted'
<1>1. SafeMeansDeleted => \A s \in Services : SafeOf(s)
  BY DEF SafeMeansDeleted, SafeOf
<1>2. (\A s \in Services : SafeOf(s)') => SafeMeansDeleted'
  BY DEF SafeMeansDeleted, SafeOf
<1> QED
  BY <1>1, <1>2

(* A step keeps it for s when the cache stays, no DELETE is forgotten, and *)
(* neither the resource nor a copy becomes safe for another reason.        *)
LEMMA SafeKept ==
  ASSUME NEW s \in Services, SafeOf(s),
         cached'[s] = cached[s],
         s \in deleted => s \in deleted',
         cr'[s] = cr[s] \/ cr'[s] = Zero
           \/ (cr'[s].exists /\ (cr'[s].SafeToDelete => s \in deleted)),
         "service" \in fresh'[s] /\ svcCopy'.SafeToDelete => s \in deleted',
         target' = NoTarget \/ UNCHANGED <<target, pCopy, pStep>>
  PROVE  SafeOf(s)'
<1>1. target' = s => UNCHANGED <<target, pCopy, pStep>>
  BY NoTargetAssumption DEF NoTargetAssumption
<1>2. ~Zero.SafeToDelete
  BY DEF Zero
<1> QED
  BY <1>1, <1>2 DEF SafeOf

(* The KeptnService worker's steps keep SafeMeansDeleted. *)
LEMMA ServiceSafe ==
  ASSUME "rejected" \notin FaultKinds, TypeOK, TriggerInv, SafeMeansDeleted,
         ServiceController
  PROVE  SafeMeansDeleted'
<1> USE DEF ProjectWaits, reconcileVars
<1>0. \A s \in Services : SafeOf(s) /\ TriggerInvOf(s)
  BY SafeParts, TriggerInvParts
<1> SUFFICES ASSUME NEW s \in Services PROVE SafeOf(s)'
  BY SafeParts
<1>s. SafeOf(s) /\ TriggerInvOf(s)
  BY <1>0
<1>z. ~Zero.SafeToDelete
  BY DEF Zero
<1>1. ASSUME NEW k \in Services, ServiceGet(k), ProjectWaits PROVE SafeOf(s)'
  <2>1. /\ UNCHANGED <<cr, cached, deleted, target, pCopy, pStep>>
        /\ svcStep = "idle" /\ svcCopy' = cached[k]
    BY <1>1 DEF ServiceGet, cacheVars
  <2>2. "service" \in fresh'[s] => s = k
    BY <1>1, <1>s, <2>1 DEF ServiceGet, Take, TriggerInvOf, TypeOK, ClusterTypeOK
  <2> QED
    BY <1>s, <2>1, <2>2, SafeKept DEF SafeOf
<1>2. ASSUME NEW k \in Services, ServiceNotFound(k), ProjectWaits PROVE SafeOf(s)'
  BY <1>2, <1>s DEF ServiceNotFound, clusterVars, serviceVars, SafeOf
<1>3. ASSUME ServiceCheck, ProjectWaits PROVE SafeOf(s)'
  BY <1>3, <1>s DEF ServiceCheck, ServiceContinue, cacheVars, SafeOf
<1>4. ASSUME NEW answer \in Answers, ServiceCreate(answer), ProjectWaits PROVE SafeOf(s)'
  <2> DEFINE created == [svcCopy EXCEPT !.CreationPending = FALSE]
  <2>1. /\ UNCHANGED <<cr, cached, deleted, target, pCopy, pStep>>
        /\ ServiceRetry \/ ServiceContinue(NextStep(created), created)
    BY <1>4 DEF ServiceCreate, createService, cacheVars
  <2>2. created.SafeToDelete = svcCopy.SafeToDelete
    BY DEF TypeOK, ServiceTypeOK, KeptnService
  <2> HIDE DEF created
  <2>3. "service" \in fresh'[s] /\ svcCopy'.SafeToDelete => s \in deleted'
    BY <1>s, <1>z, <2>1, <2>2 DEF ServiceRetry, ServiceDone, ServiceContinue, SafeOf
  <2> QED
    BY <1>s, <2>1, <2>3, SafeKept
<1>5. ASSUME NEW answer \in Answers, ServiceDeploy(answer), ProjectWaits PROVE SafeOf(s)'
  <2> DEFINE sent == [svcCopy EXCEPT !.DeploymentPending = FALSE]
  <2>1. /\ UNCHANGED <<cr, cached, deleted, target, pCopy, pStep>>
        /\ ServiceRetry \/ ServiceContinue("deployed", sent)
    BY <1>5 DEF ServiceDeploy, triggerDeployment, cacheVars
  <2>2. sent.SafeToDelete = svcCopy.SafeToDelete
    BY DEF TypeOK, ServiceTypeOK, KeptnService
  <2> HIDE DEF sent
  <2>3. "service" \in fresh'[s] /\ svcCopy'.SafeToDelete => s \in deleted'
    BY <1>s, <1>z, <2>1, <2>2 DEF ServiceRetry, ServiceDone, ServiceContinue, SafeOf
  <2> QED
    BY <1>s, <2>1, <2>3, SafeKept
<1>6. ASSUME NEW answer \in Answers, ServiceDelete(answer), ProjectWaits PROVE SafeOf(s)'
  <2>1. /\ UNCHANGED <<cr, cached, target, pCopy, pStep>>
        /\ s \in deleted => s \in deleted'
    BY <1>6 DEF ServiceDelete, deleteService, cacheVars
  <2>2. CASE ServiceRetry
    BY <1>s, <1>z, <2>1, <2>2, SafeKept DEF ServiceRetry, ServiceDone
  <2>3. CASE ~Errs(answer)
    <3>1. Executed(answer)
      BY <1>6, <2>3 DEF ServiceDelete, deleteService, CallKeptn, Fault, Answers, Errs, Executed
    <3>2. svcKey \in deleted' /\ UNCHANGED fresh
      BY <1>6, <2>3, <3>1 DEF ServiceDelete, deleteService, ServiceContinue
    <3>3. "service" \in fresh'[s] => s \in deleted'
      BY <1>s, <3>2 DEF TriggerInvOf
    <3> QED
      BY <1>s, <2>1, <3>3, SafeKept
  <2> QED
    BY <1>6, <2>2, <2>3 DEF ServiceDelete
<1>7. ASSUME NEW result \in Results, ServiceUpdate(result), ProjectWaits PROVE SafeOf(s)'
  <2>1. /\ UNCHANGED <<cached, target, pCopy, pStep>>
        /\ svcKey \in Services /\ svcCopy \in KeptnService /\ svcCopy' = Zero
        /\ UpdateCR("service", svcKey, svcCopy, result)
    BY <1>7 DEF ServiceUpdate, ServiceDone, cacheVars, TypeOK, ServiceTypeOK
  <2>2. /\ UNCHANGED deleted
        /\ \/ cr'[s] = cr[s]
           \/ s = svcKey /\ cr'[s] = svcCopy /\ "service" \in fresh[s] /\ svcCopy.exists
    BY <2>1, UpdateEffect
  <2> QED
    BY <1>s, <1>z, <2>1, <2>2, SafeKept DEF SafeOf
<1> QED
  BY <1>1, <1>2, <1>3, <1>4, <1>5, <1>6, <1>7 DEF ServiceController, ServiceRequest

(* ... and so do the steps of the KeptnProject controller. *)
LEMMA ProjectSafe ==
  ASSUME TypeOK, SafeMeansDeleted, ProjectController
  PROVE  SafeMeansDeleted'
<1> USE DEF ServiceWaits, serviceVars
<1>0. \A s \in Services : SafeOf(s)
  BY SafeParts
<1> SUFFICES ASSUME NEW s \in Services PROVE SafeOf(s)'
  BY SafeParts
<1>s. SafeOf(s)
  BY <1>0
<1>1. ASSUME UNCHANGED <<apiVars, cached, svcCopy>>, target' = NoTarget
      PROVE  SafeOf(s)'
  BY <1>1, <1>s, SafeKept DEF apiVars, SafeOf
<1>2. ASSUME ProjectStart \/ ProjectClone \/ ProjectCloneFails \/ ProjectCompare, ServiceWaits
      PROVE  SafeOf(s)'
  <2>1. UNCHANGED <<apiVars, cached, svcCopy>>
    BY <1>2 DEF ProjectStart, ProjectClone, ProjectCloneFails, ProjectCompare,
                apiVars, cacheVars, clusterVars
  <2>2. target' = NoTarget \/ (UNCHANGED target /\ pStep # "trigger")
    BY <1>2 DEF ProjectStart, ProjectClone, ProjectCloneFails, ProjectCompare,
                ProjectDone, Forget
  <2> QED
    BY <1>1, <1>s, <2>1, <2>2, NoTargetAssumption DEF SafeOf, apiVars, NoTargetAssumption
<1>3. ASSUME NEW k \in Services, NEW result \in Results,
             ProjectCreate(k, result), ServiceWaits
      PROVE  SafeOf(s)'
  <2>1. /\ UNCHANGED <<cached, svcCopy>> /\ pStep = "create"
        /\ target' = NoTarget \/ UNCHANGED <<target, pCopy, pStep>>
        /\ UNCHANGED apiVars \/ (~cached[k].exists /\ CreateCR(k, NewKeptnService, result))
    BY <1>3 DEF ProjectCreate, ProjectDone, Forget, cacheVars
  <2>2. CASE UNCHANGED apiVars
    BY <1>s, <2>1, <2>2, SafeKept DEF apiVars, SafeOf
  <2>3. CASE ~cached[k].exists /\ CreateCR(k, NewKeptnService, result)
    <3>1. NewKeptnService.exists /\ ~NewKeptnService.SafeToDelete /\ ~Zero.SafeToDelete
      BY DEF NewKeptnService, Zero
    <3>2. CASE cr'[s] = cr[s] /\ fresh'[s] = fresh[s] /\ (s \in deleted' <=> s \in deleted)
      BY <1>s, <2>1, <3>2, SafeKept DEF SafeOf
    <3>3. CASE s = k /\ cr'[s] = NewKeptnService /\ fresh'[s] = {}
      <4>1. target' # s
        BY <1>s, <2>1, NoTargetAssumption DEF SafeOf, NoTargetAssumption
      <4> QED
        BY <1>s, <2>1, <2>3, <3>1, <3>3, <4>1 DEF SafeOf
    <3> QED
      BY <2>3, <3>2, <3>3, CreateEffect, ZeroType
  <2> QED
    BY <2>1, <2>2, <2>3
<1>4. ASSUME NEW k \in Services, NEW result \in Results,
             ProjectRemove(k, result), ServiceWaits
      PROVE  SafeOf(s)'
  <2> DEFINE marked == [cached[k] EXCEPT !.DeletionPending = TRUE]
  <2>1. /\ UNCHANGED <<cached, svcCopy>> /\ target' = NoTarget
        /\ DeleteCR(k, result) \/ UpdateCR("cache", k, marked, result)
    BY <1>4 DEF ProjectRemove, ProjectDone, Forget, cacheVars
  <2>2. marked \in KeptnService /\ marked.SafeToDelete = cached[k].SafeToDelete
    <3>1. cached[k] \in KeptnService
      BY DEF TypeOK, ClusterTypeOK
    <3> QED
      BY <3>1 DEF KeptnService
  <2> HIDE DEF marked
  <2>3. CASE DeleteCR(k, result)
    <3>1. /\ UNCHANGED deleted
          /\ \/ cr'[s] = cr[s] /\ fresh'[s] = fresh[s]
             \/ cr'[s] = Zero /\ fresh'[s] = {}
      BY <2>3, DeleteEffect
    <3> QED
      BY <1>s, <2>1, <3>1, SafeKept DEF SafeOf
  <2>4. CASE UpdateCR("cache", k, marked, result)
    <3>1. /\ UNCHANGED deleted /\ fresh'[s] \subseteq fresh[s]
          /\ \/ cr'[s] = cr[s]
             \/ s = k /\ cr'[s] = marked /\ marked.exists
      BY <2>2, <2>4, UpdateEffect
    <3> QED
      BY <1>s, <2>1, <2>2, <3>1, SafeKept DEF SafeOf
  <2> QED
    BY <2>1, <2>3, <2>4
<1>5. ASSUME NEW k \in Services, NEW version \in Versions \union {NoVersion},
             ProjectGetVersion(k, version), ServiceWaits
      PROVE  SafeOf(s)'
  <2> DEFINE wanted == Wanted(cached[k], version, commits[config].trigger[k])
  <2>1. /\ UNCHANGED <<cr, cached, deleted, svcCopy, pStep>> /\ pStep = "trigger"
        /\ \/ target' = k /\ pCopy' = wanted /\ Take("project", k)
           \/ UNCHANGED <<target, pCopy, fresh>>
    BY <1>5, Zenon DEF ProjectGetVersion, Wanted, cacheVars
  <2>2. wanted.SafeToDelete = cached[k].SafeToDelete
    <3>1. config \in 1..Tip
      BY <1>5, BranchType DEF ProjectGetVersion, TypeOK, ProjectTypeOK
    <3>2. commits[config].trigger[k] \in Triggers \union {NoTrigger}
      BY <3>1, BranchType DEF TypeOK
    <3> QED
      BY <3>2, WantedType DEF TypeOK, ClusterTypeOK
  <2> HIDE DEF wanted
  <2>3. "service" \in fresh'[s] => "service" \in fresh[s]
    BY <2>1 DEF Take, TypeOK, ClusterTypeOK
  <2> QED
    BY <1>s, <2>1, <2>2, <2>3 DEF SafeOf
<1>6. ASSUME NEW result \in Results, ProjectTrigger(result), ServiceWaits
      PROVE  SafeOf(s)'
  <2>1. /\ UNCHANGED <<cached, svcCopy>> /\ target' = NoTarget
        /\ target \in Services /\ pCopy \in KeptnService
        /\ UpdateCR("project", target, pCopy, result)
    BY <1>6 DEF ProjectTrigger, ProjectDone, Forget, cacheVars, TypeOK, ProjectTypeOK
  <2>2. /\ UNCHANGED deleted /\ fresh'[s] \subseteq fresh[s]
        /\ \/ cr'[s] = cr[s]
           \/ s = target /\ cr'[s] = pCopy /\ pCopy.exists
    BY <2>1, UpdateEffect
  <2> QED
    BY <1>s, <2>1, <2>2, SafeKept DEF SafeOf
<1>7. ASSUME NEW result \in Results, ProjectRecord(result), ServiceWaits
      PROVE  SafeOf(s)'
  BY <1>1, <1>7 DEF ProjectRecord, ProjectDone, Forget, cacheVars
<1> QED
  BY <1>2, <1>3, <1>4, <1>5, <1>6, <1>7 DEF ProjectController, ProjectRequest

(* ... and so do watch events, pushes, edits and restarts. *)
LEMMA SurroundingsSafe ==
  ASSUME TypeOK, SafeMeansDeleted, Informers \/ Environment \/ Restart
  PROVE  SafeMeansDeleted'
<1>0. \A s \in Services : SafeOf(s)
  BY SafeParts
<1> SUFFICES ASSUME NEW s \in Services PROVE SafeOf(s)'
  BY SafeParts
<1>s. SafeOf(s)
  BY <1>0
<1>1. ASSUME NEW k \in Services, Sync(k), BothWait PROVE SafeOf(s)'
  <2>1. /\ UNCHANGED <<cr, deleted, svcCopy, target, pCopy, pStep>>
        /\ cached'[s] = cached[s] \/ cached'[s] = cr[s]
        /\ "service" \in fresh'[s] => "service" \in fresh[s]
    BY <1>1 DEF Sync, BothWait, ServiceWaits, ProjectWaits, serviceVars, reconcileVars,
                TypeOK, ClusterTypeOK
  <2> QED
    BY <1>s, <2>1 DEF SafeOf
<1>2. ASSUME SyncProject \/ Push \/ EditProject, BothWait PROVE SafeOf(s)'
  BY <1>2, <1>s DEF SyncProject, Push, EditProject, BothWait, ServiceWaits, ProjectWaits,
                    serviceVars, reconcileVars, apiVars, cacheVars, SafeOf
<1>3. ASSUME Restart PROVE SafeOf(s)'
  <2>1. /\ UNCHANGED <<cr, deleted>> /\ cached' = cr
        /\ fresh'[s] = {"cache"} /\ target' = NoTarget
    BY <1>3 DEF Restart, RestartCluster, Forget
  <2> QED
    BY <1>s, <2>1, NoTargetAssumption DEF SafeOf, NoTargetAssumption
<1> QED
  BY <1>1, <1>2, <1>3 DEF Informers, Environment

(* SafeMeansDeleted holds at the start. *)
LEMMA InitSafe == Init => SafeMeansDeleted
  BY NoTargetAssumption
     DEF Init, ClusterInit, ServiceInit, ProjectInit, SafeMeansDeleted, Zero, NoTargetAssumption

(* The second inductive invariant: SafeToDelete is believed nowhere, in no *)
(* cache and no worker's hands, before Keptn executed a DELETE.            *)
THEOREM SafeMeansDeletedHolds ==
  ASSUME "rejected" \notin FaultKinds
  PROVE  Spec => []SafeMeansDeleted
<1>1. TypeOK /\ TriggerInv /\ SafeMeansDeleted /\ [Next]_vars => SafeMeansDeleted'
  <2> SUFFICES ASSUME TypeOK, TriggerInv, SafeMeansDeleted, [Next]_vars
               PROVE  SafeMeansDeleted'
    OBVIOUS
  <2>1. CASE Next
    BY <2>1, ServiceSafe, ProjectSafe, SurroundingsSafe DEF Next
  <2>2. CASE UNCHANGED vars
    BY <2>2 DEF vars, clusterVars, serviceVars, reconcileVars, SafeMeansDeleted
  <2> QED
    BY <2>1, <2>2
<1> QED
  BY <1>1, InitSafe, TypeCorrect, TriggerInvariant, PTL DEF Spec

(* Who makes a resource vanish: removeService alone. *)
LEMMA VanishingIsRemoval ==
  ASSUME TypeOK, [Next]_vars, NEW s \in Services, cr[s].exists, ~cr'[s].exists
  PROVE  cached[s].SafeToDelete
<1>1. CASE ServiceController
  <2>1. CASE UNCHANGED cr
    BY <2>1
  <2>2. ASSUME NEW result \in Results, ServiceUpdate(result)
        PROVE  FALSE
    <3>1. svcKey \in Services /\ svcCopy \in KeptnService
      BY <2>2 DEF ServiceUpdate, TypeOK, ServiceTypeOK
    <3>2. UpdateCR("service", svcKey, svcCopy, result)
      BY <2>2 DEF ServiceUpdate
    <3> QED
      BY <3>1, <3>2, UpdateEffect
  <2> QED
    BY <1>1, <2>1, <2>2
       DEF ServiceController, ServiceRequest, ServiceGet, ServiceNotFound, ServiceCheck,
           ServiceCreate, ServiceDeploy, ServiceDelete, clusterVars
<1>2. CASE ProjectController
  <2>1. CASE UNCHANGED cr
    BY <2>1
  <2>2. ASSUME NEW k \in Services, NEW result \in Results, ProjectCreate(k, result)
        PROVE  FALSE
    <3>1. CASE UNCHANGED cr
      BY <3>1
    <3>2. CASE CreateCR(k, NewKeptnService, result)
      <4>1. NewKeptnService.exists
        BY DEF NewKeptnService, Zero
      <4> QED
        BY <3>2, <4>1, CreateEffect, ZeroType
    <3> QED
      BY <2>2, <3>1, <3>2 DEF ProjectCreate, apiVars
  <2>3. ASSUME NEW k \in Services, NEW result \in Results, ProjectRemove(k, result)
        PROVE  cached[s].SafeToDelete
    <3> DEFINE marked == [cached[k] EXCEPT !.DeletionPending = TRUE]
    <3>1. \/ cached[k].SafeToDelete /\ DeleteCR(k, result)
          \/ UpdateCR("cache", k, marked, result)
      BY <2>3 DEF ProjectRemove
    <3>2. cached[k] \in KeptnService
      BY DEF TypeOK, ClusterTypeOK
    <3>3. marked \in KeptnService
      BY <3>2 DEF KeptnService
    <3> HIDE DEF marked
    <3>4. CASE cached[k].SafeToDelete /\ DeleteCR(k, result)
      BY <3>4, DeleteEffect
    <3>5. CASE UpdateCR("cache", k, marked, result)
      BY <3>3, <3>5, UpdateEffect
    <3> QED
      BY <3>1, <3>4, <3>5
  <2>4. ASSUME NEW result \in Results, ProjectTrigger(result)
        PROVE  FALSE
    <3>1. target \in Services /\ pCopy \in KeptnService
      BY <2>4 DEF ProjectTrigger, TypeOK, ProjectTypeOK
    <3>2. UpdateCR("project", target, pCopy, result)
      BY <2>4 DEF ProjectTrigger
    <3> QED
      BY <3>1, <3>2, UpdateEffect
  <2> QED
    BY <1>2, <2>1, <2>2, <2>3, <2>4
       DEF ProjectController, ProjectRequest, ProjectStart, ProjectClone,
           ProjectCloneFails, ProjectCompare, ProjectGetVersion, ProjectRecord,
           apiVars, clusterVars
<1>3. CASE Informers \/ Environment \/ Restart \/ UNCHANGED vars
  BY <1>3 DEF Informers, Environment, Restart, Sync, SyncProject, Push, EditProject,
              RestartCluster, apiVars, vars, clusterVars
<1> QED
  BY <1>1, <1>2, <1>3 DEF Next

(* As long as Keptn never answers with an error status, a KeptnService       *)
(* resource, the operator's only memory of a service in Keptn, is removed    *)
(* only when Keptn has deleted the service during the resource's lifetime:   *)
(* removeService never acts on a SafeToDelete of an earlier life.            *)
THEOREM NoResourceIsLost ==
  ASSUME "rejected" \notin FaultKinds
  PROVE  Spec => ResourceOutlivesService
<1> DEFINE Removal == \A s \in Services :
                        cr[s].exists /\ ~cr'[s].exists => s \in deleted
<1>1. TypeOK /\ SafeMeansDeleted /\ [Next]_vars => [Removal]_vars
  BY VanishingIsRemoval DEF SafeMeansDeleted
<1> HIDE DEF Removal
<1>2. Spec => [][Removal]_vars
  BY <1>1, TypeCorrect, SafeMeansDeletedHolds, PTL DEF Spec
<1> QED
  BY <1>2 DEF Removal, ResourceOutlivesService
================================================================================
