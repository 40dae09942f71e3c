------------------------------ MODULE GitOperator ------------------------------
(***************************************************************************)
(* The operator process: both controllers, their informers, and the world  *)
(* around them (pushes, edits of the KeptnProject, restarts of the pod).   *)
(***************************************************************************)
EXTENDS KeptnServiceController, KeptnProjectController

vars == <<clusterVars, serviceVars, reconcileVars>>

TypeOK == ClusterTypeOK /\ ServiceTypeOK /\ ProjectTypeOK

Init == ClusterInit /\ ServiceInit /\ ProjectInit

ServiceWaits == UNCHANGED serviceVars
ProjectWaits == UNCHANGED reconcileVars
BothWait     == ServiceWaits /\ ProjectWaits

ServiceRequest ==
  \/ ServiceCheck /\ ProjectWaits
  \/ \E answer \in Answers : ServiceCreate(answer) /\ ProjectWaits
  \/ \E answer \in Answers : ServiceDeploy(answer) /\ ProjectWaits
  \/ \E answer \in Answers : ServiceDelete(answer) /\ ProjectWaits
  \/ \E result \in Results : ServiceUpdate(result) /\ ProjectWaits

ServiceController ==
  \/ \E s \in Services : ServiceGet(s) /\ ProjectWaits
  \/ \E s \in Services : ServiceNotFound(s) /\ ProjectWaits
  \/ ServiceRequest

ProjectRequest ==
  \/ ProjectStart /\ ServiceWaits
  \/ ProjectClone /\ ServiceWaits
  \/ \E s \in Services, result \in Results : ProjectCreate(s, result) /\ ServiceWaits
  \/ \E s \in Services, result \in Results : ProjectRemove(s, result) /\ ServiceWaits
  \/ ProjectCompare /\ ServiceWaits
  \/ \E s \in Services, version \in Versions \union {NoVersion} :
       ProjectGetVersion(s, version) /\ ServiceWaits
  \/ \E result \in Results : ProjectTrigger(result) /\ ServiceWaits
  \/ \E result \in Results : ProjectRecord(result) /\ ServiceWaits

ProjectController == ProjectRequest \/ (ProjectCloneFails /\ ServiceWaits)

Informers ==
  \/ \E s \in Services : Sync(s) /\ BothWait
  \/ SyncProject /\ BothWait

Environment ==
  \/ Push /\ BothWait
  \/ EditProject /\ BothWait

(* main.go sets both controllers up again; what they were doing is lost. *)
Restart ==
  /\ RestartCluster
  /\ ServiceDone
  /\ Forget

Next ==
  \/ ServiceController
  \/ ProjectController
  \/ Informers
  \/ Environment
  \/ Restart

Spec == Init /\ [][Next]_vars

(***************************************************************************)
(* Fairness.  Each controller has a running worker, the watches deliver,   *)
(* and the work queue is first in, first out, so a key that keeps coming   *)
(* back is taken again and again.  Nothing makes faults or pushes happen.  *)
(***************************************************************************)
Fairness ==
  /\ WF_vars(ServiceRequest)
  /\ \A s \in Services : SF_vars(ServiceGet(s) /\ ProjectWaits)
  /\ WF_vars(ProjectRequest)
  /\ \A s \in Services : WF_vars(Sync(s) /\ BothWait)
  /\ WF_vars(SyncProject /\ BothWait)

FairSpec == Spec /\ Fairness

--------------------------------------------------------------------------------
(* Once the Update that clears DeploymentPending is stored, the last event *)
(* Keptn accepted for the service is the one the resource asks for: no     *)
(* Update of the KeptnProject worker is overwritten, and no stale copy is  *)
(* deployed after it (keptnservice_controller.go:87-100).                  *)
NoLostTrigger ==
  \A s \in Services :
    cr[s].trigger # NoTrigger /\ ~cr[s].DeploymentPending
      => accepted[s] = EventOf(cr[s])

Lifecycle == INSTANCE ServiceLifecycle

(* Whichever caches, copies and clones it passes through, every request that *)
(* Keptn executes follows from the branch: a service is created when a commit *)
(* lists it, deleted only after a commit dropped it, not because config.yaml  *)
(* could not be read, and deployed with an event of one commit and the version *)
(* which that commit or a later one names.  The empty version is one of them   *)
(* only where a commit has it (keptnproject_controller.go:97-171).             *)
KeptnFollowsGit == Lifecycle!LifecycleSpec

(* The version that commit i names for s is named by no other commit. *)
NamedOnce(i, s) ==
  \A k \in 1..Tip : commits[k].version[s] = commits[i].version[s] => k = i

(* Keptn is never told to deploy a version of an older commit than it was    *)
(* told just before, where both versions were named once and do not return.  *)
(* A version that no commit names, the empty one of a failed clone, is not   *)
(* compared.                                                                 *)
DeploymentsMoveForward ==
  [][\A s \in Services : \A i, j \in 1..Tip' :
       /\ accepted'[s] # accepted[s]
       /\ accepted[s].trigger # NoTrigger
       /\ accepted[s].version = commits'[i].version[s]
       /\ accepted'[s].version = commits'[j].version[s]
       /\ NamedOnce(i, s)' /\ NamedOnce(j, s)'
       => i <= j]_vars

(* A KeptnService resource is removed only after Keptn has executed a DELETE *)
(* of the service during its lifetime (keptnproject_controller.go:256).      *)
ResourceOutlivesService ==
  [][\A s \in Services :
       cr[s].exists /\ ~cr'[s].exists => s \in deleted]_vars

(* Keptn is sent a deployment only for a service it knows, or one that was   *)
(* deleted on behalf of this resource; unless the worker's copy is outdated, *)
(* perhaps a copy of an earlier resource of that name                        *)
(* (keptnservice_controller.go:78-94).                                       *)
CreatedBeforeDeployed ==
  [][\A s \in Services :
       accepted'[s] # accepted[s] /\ "service" \in fresh[s]
         => s \in keptn \union deleted]_vars

(* The version that commit i names was there before, and then the service  *)
(* was not listed or another version was named.  Every new resource begins *)
(* with NoVersion.                                                         *)
Returns(i, s) ==
  \E between \in 1..i :
    /\ s \notin Listed(between) \/ commits[between].version[s] # commits[i].version[s]
    /\ \/ commits[i].version[s] = NoVersion
       \/ \E earlier \in 1..between :
            commits[earlier].version[s] = commits[i].version[s]

(* LastMainCommit promises that the commit was acted upon: every service it *)
(* lists has a resource that asks for the version it names, although the    *)
(* project worker decided from cached copies.  A version that returns may   *)
(* be taken for the one that is still in the cache                          *)
(* (keptnproject_controller.go:152-171, 224).                               *)
RecordedCommitIsDesired ==
  proj = Tip => \A s \in Listed(Tip) :
    \/ cr[s].exists /\ cr[s].DesiredVersion = commits[Tip].version[s]
    \/ Returns(Tip, s)

(* When the branch stops moving, Keptn ends up with the version of its last *)
(* commit for every listed service (README.md:62 of git-operator).          *)
EventuallyDeployed ==
  <>[](\A s \in Listed(Tip) : accepted[s].version = commits[Tip].version[s])

(* ... and the resources of the services it does not list are gone. *)
EventuallyRemoved ==
  <>[](commits[Tip].configured =>
         \A s \in Services \ Listed(Tip) : ~cr[s].exists)

(* Once the resource of a deleted service is gone, from the cache too, and *)
(* the worker is not at it, the service is gone from Keptn (README.md:63:  *)
(* services are "created (and deleted) in keptn").                         *)
NoOrphans ==
  \A s \in Services :
    ~cr[s].exists /\ ~cached[s].exists /\ svcKey # s /\ s \in deleted
      => s \notin keptn

(* A deployment is only ever requested for a service that exists in Keptn *)
(* (README.md:63).                                                        *)
DeployedIsCreated ==
  [][\A s \in Services : accepted'[s] # accepted[s] => s \in keptn]_vars

--------------------------------------------------------------------------------
(* The inductive invariants behind NoLostTrigger and ResourceOutlivesService. *)

(* Freshness means what it says for the cache, and comes from the cache. *)
CacheIsFresh ==
  \A s \in Services :
    /\ "cache" \in fresh[s] => cached[s] = cr[s]
    /\ fresh[s] # {} => "cache" \in fresh[s]

(* A worker's fresh copy asks for what the stored resource asks for, until *)
(* the worker has sent it.                                                 *)
CopyIsFresh ==
  \A s \in Services : "service" \in fresh[s] =>
    /\ svcKey = s
    /\ svcStep # "idle"
    /\ EventOf(svcCopy) = EventOf(cr[s])
    /\ svcStep # "deployed" => svcCopy.DeploymentPending = cr[s].DeploymentPending

(* Where the KeptnService worker stands fits its copy. *)
StepFitsCopy ==
  /\ svcStep = "deploy" => svcCopy.DeploymentPending
  /\ svcStep \in {"deployed", "delete", "update"} => ~svcCopy.DeploymentPending
  /\ svcStep = "deployed" => accepted[svcKey] = EventOf(svcCopy)
  /\ target # NoTarget => pCopy.DeploymentPending

Settled(s) == cr[s].trigger # NoTrigger /\ ~cr[s].DeploymentPending

(* Nobody still holds a different request for a service that is settled. *)
NoStaleRequest ==
  \A s \in Services : Settled(s) =>
    /\ cached[s].DeploymentPending => EventOf(cached[s]) = EventOf(cr[s])
    /\ svcKey = s /\ svcCopy.DeploymentPending => EventOf(svcCopy) = EventOf(cr[s])

TriggerInv ==
  CacheIsFresh /\ CopyIsFresh /\ StepFitsCopy /\ NoStaleRequest /\ NoLostTrigger

(* A resource that is safe to delete, stored, cached or in the hand of a worker *)
(* whose Update would be accepted, was marked after a DELETE of its own life;   *)
(* none is left from before it was created again.  A worker's outdated copy may *)
(* be, and its Update is refused.                                               *)
SafeMeansDeleted ==
  \A s \in Services :
    /\ ~cr[s].exists => cr[s] = Zero
    /\ ~cached[s].exists => cached[s] = Zero
    /\ target = s => pStep = "trigger"
    /\ cr[s].SafeToDelete => s \in deleted
    /\ cached[s].SafeToDelete => s \in deleted
    /\ "service" \in fresh[s] /\ svcCopy.SafeToDelete => s \in deleted
    /\ target = s /\ pCopy.SafeToDelete => s \in deleted
================================================================================
