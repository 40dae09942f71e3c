------------------------ MODULE KeptnServiceController ------------------------
(***************************************************************************)
(* KeptnServiceReconciler.Reconcile, run by one worker over the keys of    *)
(* its work queue.  One step per request it makes; the copy of the         *)
(* resource it fetched first lives across all of them, and is written back *)
(* by one Update at the end.                                               *)
(***************************************************************************)
EXTENDS OperatorCluster

CONSTANT NoService       \* the worker holds no key

ASSUME NoServiceAssumption == NoService \notin Services

VARIABLES
  svcKey,       \* the key being reconciled
  svcStep,      \* the request to make next
  svcCopy       \* the worker's copy of the KeptnService

serviceVars == <<svcKey, svcStep, svcCopy>>

ServiceSteps ==
  {"idle", "check", "create", "deploy", "deployed", "delete", "update"}

ServiceTypeOK ==
  /\ svcKey \in Services \union {NoService}
  /\ svcStep \in ServiceSteps
  /\ svcStep # "idle" => svcKey \in Services
  /\ svcCopy \in KeptnService

ServiceInit ==
  /\ svcKey = NoService
  /\ svcStep = "idle"
  /\ svcCopy = Zero

(* The reconciliation ends; its copy is garbage. *)
ServiceDone ==
  /\ svcKey' = NoService
  /\ svcStep' = "idle"
  /\ svcCopy' = Zero

(* It ends with an error before the Update and is retried. *)
ServiceRetry_Forgotten ==
  /\ ServiceDone
  /\ UNCHANGED queue
  /\ Drop("service", svcKey)

ServiceRetry ==
  /\ ServiceDone
  /\ queue' = queue \union {svcKey}
  /\ Drop("service", svcKey)

NextStep_DeploymentOnly(service) ==
  IF service.DeploymentPending THEN "deploy" ELSE "update"

NextStep(service) ==
  IF service.DeploymentPending THEN "deploy"
  ELSE IF service.DeletionPending /\ ~service.SafeToDelete THEN "delete"
  ELSE "update"

(* The worker goes on to the next request with its copy changed. *)
ServiceContinue(step, service) ==
  /\ svcStep' = step
  /\ svcCopy' = service
  /\ UNCHANGED <<svcKey, queue, fresh>>

--------------------------------------------------------------------------------
ServiceGet(s) ==
  /\ svcStep = "idle"
  /\ s \in queue
  /\ cached[s].exists
  /\ queue' = queue \ {s}
  /\ svcKey' = s
  /\ svcCopy' = cached[s]
  /\ svcStep' = IF cached[s].CreationPending THEN "check" ELSE NextStep(cached[s])
  /\ Take("service", s)
  /\ UNCHANGED <<gitVars, cr, deleted, projectVars, cacheVars, keptnVars, faults>>

(* A key without a resource: the NotFound error itself is returned, so the *)
(* key goes straight back into the queue.                                  *)
ServiceNotFound(s) ==
  /\ svcStep = "idle"
  /\ s \in queue
  /\ ~cached[s].exists
  /\ UNCHANGED <<clusterVars, serviceVars>>

(* checkKeptnServiceExists asks for the service in its start stage; every *)
(* failure to find out counts as "does not exist".  CreationPending stays *)
(* set when it does exist.                                                *)
ServiceCheck ==
  LET known == svcKey \in keptn /\ svcCopy.trigger \in Staged
  IN  /\ svcStep = "check"
      /\ \/ known /\ ServiceContinue(NextStep(svcCopy), svcCopy) /\ UNCHANGED faults
         \/ ~known /\ ServiceContinue("create", svcCopy) /\ UNCHANGED faults
         \/ known /\ ServiceContinue("create", svcCopy) /\ Fault("check")
      /\ UNCHANGED <<gitVars, cr, deleted, projectVars, cacheVars, keptnVars>>

(* The requests that change Keptn, for the service being reconciled. *)
createService(answer) ==
  /\ CallKeptn(answer)
  /\ keptn' = IF Executed(answer) THEN keptn \union {svcKey} ELSE keptn
  /\ UNCHANGED <<accepted, deleted>>

triggerDeployment(answer) ==
  /\ CallKeptn(answer)
  /\ accepted' = IF Executed(answer)
                   THEN [accepted EXCEPT ![svcKey] = EventOf(svcCopy)]
                   ELSE accepted
  /\ UNCHANGED <<keptn, deleted>>

deleteService(answer) ==
  /\ CallKeptn(answer)
  /\ IF Executed(answer)
       THEN keptn' = keptn \ {svcKey} /\ deleted' = deleted \union {svcKey}
       ELSE UNCHANGED <<keptn, deleted>>
  /\ UNCHANGED accepted

(* Any status counts as created, 409 for a service that is there as well. *)
ServiceCreate(answer) ==
  LET created == [svcCopy EXCEPT !.CreationPending = FALSE]
  IN  /\ svcStep = "create"
      /\ createService(answer)
      /\ IF Errs(answer) THEN ServiceRetry
                         ELSE ServiceContinue(NextStep(created), created)
      /\ UNCHANGED <<gitVars, cr, projectVars, cacheVars>>

ServiceDeploy(answer) ==
  LET sent == [svcCopy EXCEPT !.DeploymentPending = FALSE]
  IN  /\ svcStep = "deploy"
      /\ triggerDeployment(answer)
      /\ IF Errs(answer) THEN ServiceRetry ELSE ServiceContinue("deployed", sent)
      /\ UNCHANGED <<gitVars, cr, projectVars, cacheVars>>

ServiceDelete(answer) ==
  LET safe == [svcCopy EXCEPT !.SafeToDelete = TRUE]
  IN  /\ svcStep = "delete"
      /\ deleteService(answer)
      /\ IF Errs(answer) THEN ServiceRetry ELSE ServiceContinue("update", safe)
      /\ UNCHANGED <<gitVars, cr, projectVars, cacheVars>>

ServiceUpdate_RefetchFirst(result) ==
  LET merged == [cr[svcKey] EXCEPT !.CreationPending = svcCopy.CreationPending,
                                   !.DeploymentPending = svcCopy.DeploymentPending,
                                   !.SafeToDelete = svcCopy.SafeToDelete]
  IN  /\ svcStep \in {"deployed", "update"}
      /\ Write(result, cr[svcKey].exists)
      /\ IF Stored(result) THEN Store(svcKey, merged) ELSE UNCHANGED cr /\ Drop("service", svcKey)
      /\ queue' = queue \union {svcKey}
      /\ ServiceDone
      /\ UNCHANGED <<gitVars, deleted, projectVars, cacheVars, keptnVars>>

(* The Update that ends a reconciliation.  After a trigger the result is  *)
(* Result{}, and the key is not queued again; otherwise it comes back, in *)
(* 180 s or as a retry of the error.                                      *)
ServiceUpdate(result) ==
  /\ svcStep \in {"deployed", "update"}
  /\ UpdateCR("service", svcKey, svcCopy, result)
  /\ queue' = IF svcStep = "deployed" /\ result = "ok"
                THEN queue
                ELSE queue \union {svcKey}
  /\ ServiceDone
  /\ UNCHANGED <<gitVars, projectVars, cacheVars, keptnVars>>
================================================================================
