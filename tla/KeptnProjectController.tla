------------------------ MODULE KeptnProjectController ------------------------
(***************************************************************************)
(* KeptnProjectReconciler.Reconcile for one KeptnProject.  Every path      *)
(* through it ends with the project queued again (an error, RequeueAfter   *)
(* or Requeue), so an idle worker may always start.  The branch is cloned  *)
(* again for each thing read from it: the commit hash, the configuration,  *)
(* and the version of every service.                                       *)
(***************************************************************************)
EXTENDS OperatorCluster

CONSTANT NoTarget        \* no KeptnService is being triggered

ASSUME NoTargetAssumption == NoTarget \notin Services

VARIABLES
  pStep,        \* where the reconciliation stands
  mainHead,     \* the commit getCommitHash saw
  lastMain,     \* LastMainCommit in the worker's copy of the KeptnProject
  config,       \* the commit whose config.yaml was read
  todo,         \* services the loop under way has not visited
  target,       \* the service whose KeptnService is about to be updated
  pCopy         \* the worker's copy of that KeptnService

reconcileVars == <<pStep, mainHead, lastMain, config, todo, target, pCopy>>

ProjectSteps == {"idle", "clone", "create", "trigger"}

ProjectTypeOK ==
  /\ pStep \in ProjectSteps
  /\ mainHead \in 0..Tip
  /\ lastMain \in 0..Tip
  /\ config \in 0..Tip
  /\ pStep \in {"create", "trigger"} => config # 0
  /\ todo \in SUBSET Services
  /\ target \in Services \union {NoTarget}
  /\ pCopy \in KeptnService

ProjectInit ==
  /\ pStep = "idle"
  /\ mainHead = 0
  /\ lastMain = 0
  /\ config = 0
  /\ todo = {}
  /\ target = NoTarget
  /\ pCopy = Zero

(* The reconciliation ends and forgets what it read. *)
Forget ==
  /\ pStep' = "idle"
  /\ mainHead' = 0
  /\ lastMain' = 0
  /\ config' = 0
  /\ todo' = {}
  /\ target' = NoTarget
  /\ pCopy' = Zero

ProjectDone == Forget /\ projFresh' = projFresh \ {"project"}

--------------------------------------------------------------------------------
(* Get the KeptnProject, then getCommitHash. *)
ProjectStart ==
  /\ pStep = "idle"
  /\ pStep' = "clone"
  /\ lastMain' = projCached
  /\ projFresh' = IF "cache" \in projFresh THEN projFresh \union {"project"}
                                           ELSE projFresh
  /\ mainHead' = Tip
  /\ UNCHANGED <<config, todo, target, pCopy>>
  /\ UNCHANGED <<gitVars, apiVars, cacheVars, proj, queue, keptnVars, faults>>

ProjectClone_ReadsAsEmpty ==
  /\ pStep = "clone"
  /\ pStep' = "create"
  /\ config' = Tip
  /\ todo' = Listed(Tip)
  /\ UNCHANGED <<mainHead, lastMain, target, pCopy, projFresh>>
  /\ UNCHANGED <<gitVars, apiVars, cacheVars, proj, queue, keptnVars, faults>>

(* Clone the branch and read .keptn/config.yaml; without a readable one the *)
(* reconciliation ends.                                                     *)
ProjectClone ==
  /\ pStep = "clone"
  /\ IF commits[Tip].configured
       THEN /\ pStep' = "create"
            /\ config' = Tip
            /\ todo' = Listed(Tip)
            /\ UNCHANGED <<mainHead, lastMain, target, pCopy, projFresh>>
       ELSE ProjectDone
  /\ UNCHANGED <<gitVars, apiVars, cacheVars, proj, queue, keptnVars, faults>>

ProjectCloneFails ==
  /\ pStep = "clone"
  /\ Fault("clone")
  /\ ProjectDone
  /\ UNCHANGED <<gitVars, apiVars, cacheVars, proj, queue, keptnVars>>

(* createKeptnService, called for every listed service. *)
NewKeptnService == [Zero EXCEPT !.exists = TRUE, !.CreationPending = TRUE]

ProjectCreate(s, result) ==
  /\ pStep = "create"
  /\ s \in todo
  /\ IF cached[s].exists
       THEN result = "ok" /\ UNCHANGED <<apiVars, faults>>
       ELSE CreateCR(s, NewKeptnService, result)
  /\ IF result = "ok"
       THEN /\ todo' = todo \ {s}
            /\ UNCHANGED <<pStep, mainHead, lastMain, config, target, pCopy, projFresh>>
       ELSE ProjectDone
  /\ UNCHANGED <<gitVars, cacheVars, proj, queue, keptnVars>>

(* The KeptnServices in the cache that config.yaml no longer lists. *)
Unlisted == {s \in Services : cached[s].exists} \ Listed(config)

ProjectRemove_WithoutWaiting(s, result) ==
  /\ pStep = "create"
  /\ todo = {}
  /\ s \in Unlisted
  /\ IF cached[s].DeletionPending
       THEN DeleteCR(s, result)
       ELSE UpdateCR("cache", s, [cached[s] EXCEPT !.DeletionPending = TRUE], result)
  /\ ProjectDone
  /\ UNCHANGED <<gitVars, cacheVars, proj, queue, keptnVars>>

(* removeService for the first of them; the reconciliation ends there, even *)
(* when there is more to do.                                                *)
ProjectRemove(s, result) ==
  /\ pStep = "create"
  /\ todo = {}
  /\ s \in Unlisted
  /\ IF cached[s].SafeToDelete
       THEN DeleteCR(s, result)
       ELSE UpdateCR("cache", s, [cached[s] EXCEPT !.DeletionPending = TRUE], result)
  /\ ProjectDone
  /\ UNCHANGED <<gitVars, cacheVars, proj, queue, keptnVars>>

(* Nothing to remove: deploy if the branch has moved since LastMainCommit. *)
ProjectCompare ==
  /\ pStep = "create"
  /\ todo = {}
  /\ Unlisted = {}
  /\ pStep' = "trigger"
  /\ todo' = IF lastMain # mainHead THEN Listed(config) ELSE {}
  /\ UNCHANGED <<mainHead, lastMain, config, target, pCopy>>
  /\ UNCHANGED <<clusterVars>>

(* triggerDeployment, first half: Get the KeptnService (a failed Get leaves *)
(* the zero value) and getServiceVersion.  A failed clone reads as the      *)
(* empty version.                                                           *)
GetServiceVersion_LaggingMirror(s, version) ==
  /\ \E i \in 1..Tip : version = commits[i].version[s]
  /\ UNCHANGED faults

GetServiceVersion(s, version) ==
  \/ version = commits[Tip].version[s] /\ UNCHANGED faults
  \/ version = NoVersion /\ Fault("version")

ProjectGetVersion(s, version) ==
  LET wanted == [cached[s] EXCEPT !.DesiredVersion = version,
                                  !.trigger = commits[config].trigger[s],
                                  !.DeploymentPending = TRUE]
  IN  /\ pStep = "trigger"
      /\ target = NoTarget
      /\ s \in todo
      /\ GetServiceVersion(s, version)
      /\ todo' = todo \ {s}
      /\ IF version # cached[s].DesiredVersion
           THEN target' = s /\ pCopy' = wanted /\ Take("project", s)
           ELSE UNCHANGED <<target, pCopy, fresh>>
      /\ UNCHANGED <<pStep, mainHead, lastMain, config>>
      /\ UNCHANGED <<gitVars, cr, deleted, cacheVars, projectVars, queue, keptnVars>>

(* Its second half: the Update. *)
ProjectTrigger_IgnoresErrors(result) ==
  /\ target # NoTarget
  /\ UpdateCR("project", target, pCopy, result)
  /\ target' = NoTarget
  /\ pCopy' = Zero
  /\ UNCHANGED <<pStep, mainHead, lastMain, config, todo, projFresh>>
  /\ UNCHANGED <<gitVars, cacheVars, proj, queue, keptnVars>>

ProjectTrigger_FirstOnly(result) ==
  /\ target # NoTarget
  /\ UpdateCR("project", target, pCopy, result)
  /\ IF result = "ok"
       THEN /\ target' = NoTarget
            /\ pCopy' = Zero
            /\ todo' = {}
            /\ UNCHANGED <<pStep, mainHead, lastMain, config, projFresh>>
       ELSE ProjectDone
  /\ UNCHANGED <<gitVars, cacheVars, proj, queue, keptnVars>>

ProjectTrigger(result) ==
  /\ target # NoTarget
  /\ UpdateCR("project", target, pCopy, result)
  /\ IF result = "ok"
       THEN /\ target' = NoTarget
            /\ pCopy' = Zero
            /\ UNCHANGED <<pStep, mainHead, lastMain, config, todo, projFresh>>
       ELSE ProjectDone
  /\ UNCHANGED <<gitVars, cacheVars, proj, queue, keptnVars>>

(* Record the commit: the Update of the KeptnProject. *)
ProjectRecord(result) ==
  /\ pStep = "trigger"
  /\ todo = {}
  /\ target = NoTarget
  /\ Write(result, "project" \in projFresh)
  /\ IF Stored(result) /\ proj # mainHead
       THEN proj' = mainHead /\ projFresh' = {} /\ Forget
       ELSE UNCHANGED proj /\ ProjectDone
  /\ UNCHANGED <<gitVars, apiVars, cacheVars, queue, keptnVars>>
================================================================================
