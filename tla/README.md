# A formal model of keptn-git-toolbox

TLA+ specifications of the programs in this repository, TLC configurations
that check them on small instances, and TLAPS proofs for every size.

Run in this directory:

    tlc -config operator_visible_faults.cfg MCGitOperator
    tlapm GitOperatorProofs.tla
    tlapm LifecycleProofs.tla
    tlapm CreationProofs.tla
    tlapm VersionProofs.tla
    tlc -config ci_jobs.cfg MCCIConnect
    tlapm CIConnectProofs.tla
    tlc -config promotion.cfg MCPromotion
    tlapm PromotionProofs.tla
    tlapm FileProofs.tla
    tlapm StageProofs.tla

## 1. Inventory

The repository holds three programs that together deploy a service by git.
A CI job runs **ci-connect-cli**, which pushes the service's chart, its version
and an entry of `.keptn/config.yaml` to a deployment repository.
**git-operator** watches that repository from a Kubernetes cluster and tells
Keptn to create, deploy and delete services. While a deployment goes from
stage to stage, Keptn asks **promotion-service** to copy the version to the
branch of the next stage.

| part | state | operations | talks to | hard |
|---|---|---|---|---|
| KeptnProject controller (`git-operator/controllers/keptnproject`) | `LastMainCommit` of the resource; what it read during a reconciliation | `Reconcile`: `getCommitHash`, clone, `createKeptnService`, `removeService`, `triggerDeployment`, `getServiceVersion`, record | git remote, API server (through the cache) | separate clones, stale reads, writes refused, loops ended early |
| KeptnService controller (`git-operator/controllers/keptnservice`) | `CreationPending`, `DeploymentPending`, `DeletionPending`, `SafeToDelete`, `DesiredVersion` of the resource; its copy | `Reconcile`: `checkKeptnServiceExists`, `createService`, `triggerDeployment`, `deleteService`, Update | Keptn (HTTP, 30 s timeout), API server | both controllers write one resource; answers lost; retries |
| operator process (`git-operator/main.go`) | caches, queues | start, restart | | everything in memory is lost |
| deployment run (`ci-connect-cli/cmd/triggerDeploy.go`, `gitutils.go`) | two clones; the remote's heads and tags | `RunDeployment`, `CommitAndPushGitRepo`, the retry loop | git remote | concurrent jobs, heads and tags pushed apart, bounded retries |
| configuration (`keptnciutils.go`, `shipyard.go`) | files of the clone | `getStageAndSequence`, `modifyOperatorConfig`, `deleteServiceFromOperatorConfig`, `copyBase`, `copyStages` | | boundaries, fields lost on rewriting |
| promotion handler (`promotion-service/eventhandler`) | none | `HandlePromotionTriggeredEvent` | Keptn events, git handler | started/finished pairing, redelivered events |
| files (`fileutils.go`, `helmUtils.go`) | directories of the clone | `CopyDir`, `RemoveDir`, `copyHelmChart`, the chart's versions | | what is there already, what is missing |
| git handler (`promotion-service/git`) | two clones; the stage branch | `UpdateGitRepo`, `mergeHelmValues`, `performFileMove`, `MergeValues` | git remote | errors swallowed, concurrent pushes |

What makes each correct:

* **the two controllers together**: Keptn is told to deploy what the branch
  says, with nothing lost, nothing invented and nothing older than before; a
  service exists in Keptn before it is deployed; a resource goes only after its
  service; a recorded commit has been acted upon; when the branch rests, Keptn
  catches up.
* **deployment run**: exit status 0 means that the commit and its tag are on
  the remote; no other job's commit is overwritten; a version's tag points at a
  commit that holds that version.
* **configuration and files**: the entry of the service is what the shipyard
  says; its files are those of its repository, with nothing left of the version
  before; entries and files of others are untouched.
* **promotion**: each started event is answered by a finished one; a failure
  leaves no trace; a success means that the stage branch holds the release,
  merged and moved, and nothing else has changed.

## 2. Modules

    OperatorCluster            what both controllers share
      KeptnServiceController   EXTENDS OperatorCluster
      KeptnProjectController   EXTENDS OperatorCluster
        GitOperator            EXTENDS both: Next, Spec, fairness, properties
          MCGitOperator        EXTENDS GitOperator: branch contents for TLC
          GitOperatorProofs    EXTENDS GitOperator, TLAPS
            LifecycleProofs    EXTENDS GitOperatorProofs
            CreationProofs     EXTENDS GitOperatorProofs
            VersionProofs      EXTENDS GitOperatorProofs
    ServiceLifecycle           the abstract specification GitOperator implements

    DeploymentRepo             the git remote of ci-connect-cli
      CIConnect                EXTENDS DeploymentRepo; INSTANCE ConfigurationLog
        MCCIConnect            EXTENDS CIConnect: settings and edits for TLC
        CIConnectProofs        EXTENDS CIConnect, TLAPS
    ConfigurationLog           the abstract specification CIConnect implements

    FileTree                   directories and what the programs do to them
      ConfigurationFiles       EXTENDS FileTree: the file operations of ci-connect-cli
    YamlValues                 decoded YAML, and what a merge should yield
      HelmValues               EXTENDS YamlValues: merge, as the code does it
      PromotionFiles           EXTENDS FileTree, YamlValues: moving and merging
        PromotionService       EXTENDS ConfigurationFiles, PromotionFiles;
                               INSTANCE StageLog, ConfigurationLog
          MCPromotion          EXTENDS PromotionService, HelmValues: files for TLC
          PromotionProofs      EXTENDS PromotionService, TLAPS
            FileProofs         EXTENDS PromotionProofs
              StageProofs      EXTENDS FileProofs
    StageLog                   the abstract specification of the stage branches

**OperatorCluster** holds the world: the commits of the branch (`commits`),
the KeptnService resources (`cr`) and the informer's copy of them (`cached`),
`LastMainCommit` (`proj`, `projCached`), the work queue, the services Keptn has
(`keptn`) and the last event it accepted for each (`accepted`).
`CallKeptn`, `Write` and `Fault` say what can become of a request.

A *resourceVersion* is not a number in the model. `fresh[s]` is the set of
holders, the cache, the KeptnService worker, the KeptnProject worker, whose
copy of `s` carries the version stored now. A stored write empties it, a watch
event puts the cache into it, and a Get gives its reader the cache's
freshness. That is all an Update's check against the resourceVersion can see,
and the state space stays finite.

**KeptnServiceController** follows `Reconcile`
(`keptnservice_controller.go:60`) request by request:

| action | code |
|---|---|
| `ServiceGet`, `ServiceNotFound` | Get (71-76) and the decision at 78 |
| `ServiceCheck` | `checkKeptnServiceExists` (240-261) |
| `ServiceCreate` / `createService` | 78-85 / 131-157 |
| `ServiceDeploy` / `triggerDeployment` | 87-93 / 182-238 |
| `ServiceDelete` / `deleteService` | 102-110 / 159-180 |
| `ServiceUpdate` | the Update at 94 (step "deployed") or 112 (step "update") |

**KeptnProjectController** follows `Reconcile`
(`keptnproject_controller.go:58`):

| action | code |
|---|---|
| `ProjectStart` | Get (63) and `getCommitHash` (85, 278-310) |
| `ProjectClone`, `ProjectCloneFails` | 94-131; every early return up to there |
| `ProjectCreate` | `createKeptnService` for one service (121-127, 181-213) |
| `ProjectRemove` | `removeService` (135-149, 248-276) |
| `ProjectCompare` | 152 |
| `ProjectGetVersion` | `triggerDeployment` up to the Update (215-235) with `getServiceVersion` (312-353) |
| `ProjectTrigger` | its Update (236-246) |
| `ProjectRecord` | 161-171 |

A local step (a decision, an assignment) is part of the action of the request
before it. A read of the cache is part of the action that uses it: only watch
events change the cache, and each of the merged reads is followed by nothing
another process can see.

**DeploymentRepo** is one branch (a sequence of commits, each a whole
configuration with its author) and the release tags. A push of the branch
succeeds only on top of the head the clone was made from, a push of a tag only
if the remote has none of that name; either may fail, or be carried out while
the answer is lost.

**CIConnect** has one record per job, `job[j]`: where it is, how often it has
repeated, and its clones.

| action | code (`ci-connect-cli/cmd`) |
|---|---|
| `CloneMain` | the first clone (`triggerDeploy.go:114`), read at 126 |
| `CloneDeploy` | the second clone (119) and all that needs no remote: `UpdateRepository` (`keptnciutils.go:16-70`), commit and tag (`gitutils.go:92-114`), or `--dry-run` |
| `PushHeads`, `PushTags` | `gitutils.go:116-125`, `127-140` |
| `PushError`, `OtherError` (outcomes) | the loop in `RunE` (`triggerDeploy.go:182-193`) |
| `RunFails` | every `log.Fatal` in `RunDeployment` |
| `Rerun` | the pipeline is killed, or has failed, and runs the job again |
| `Edit` | a developer's push |

**ConfigurationLog** is what a reader of the repository may count on: a log in
which every configuration is the one before it with one service deployed (or a
developer's edit), and releases that are set once, each to a commit that holds
its version. It knows no jobs, clones or retries.

**ServiceLifecycle** is what Keptn may be asked to do, given the commits of the
branch and nothing else. A service is created because a commit lists it,
deleted because a later commit with a readable config.yaml does not, and
deployed with the event of a commit and the version of that commit or of a later
one. There are no controllers, resources or caches in it. `GitOperator` has the
same variables `commits`, `keptn` and `accepted`, so the refinement mapping is
the identity on them, and all else is hidden.

**FileTree** has a directory as a function from paths (sequences of names) to
contents. An operation returns the tree it leaves; when it would return an error
is said by a predicate of its own (`CanCopyDir`), which its callers ask.

**ConfigurationFiles** is `getStageAndSequence` (`shipyard.go:10-57`) with all
its flags and defaults, `UpdateRepository` (`keptnciutils.go:16-110`) with its
steps in their order (the chart, the base, the stages, config.yaml, the
metadata), and `DeleteConfiguration` (252-323), which no command calls. The
clone and the workspace are two trees: files are copied from one to the other.
The loops over stages treat each stage's directory by itself, so they are one
operation on all of them (`Over`, `Within`, `Without`).

**HelmValues** is `MergeValues` (`githandler.go:260-288`) down to `merge` (326-353),
the only recursive operator of the project. `Manipulate` drops what `merge` returns and
relies on what it writes into its first argument, so at the top level only maps are
merged. **YamlValues** says what the result should be, path by path and
without going down two maps at once.

**PromotionFiles** is what `UpdateGitRepo` does to its clones:
`mergeHelmValues` (156-175), `performFileMove` and `moveFiles` (177-243) with
the search for the service's name in whole paths, `ReplaceInFile` (245-258).

**PromotionService** runs jobs and handlers on one repository, whose commits
hold files.

| action | code |
|---|---|
| `Deploy`, `Tag` | a run of ci-connect-cli: its commit, its tag |
| `Receive` | `main.go:42-66`, `HandlePromotionTriggeredEvent` up to the label (`eventhandlers.go:26-54`) |
| `GetGitSecret` | `githandler.go:42-59` |
| `CloneRelease` | the clone of the release's tag (93-97) |
| `CloneStage` | the clone of the stage branch, the files, add and commit (99-141) |
| `Push` | 143-153 |
| `Finish` | `eventhandlers.go:66-84` |
| `Restart` | the pod forgets what it was at |

**StageLog** is what somebody who deploys from a stage branch may count on:
each commit changes the directory of at most one service, and puts there a
release of it, rendered for that stage, whole and with nothing left of the release
before.

Abstractions of `GitOperator`:

* `Trigger` stands for the pair of event type and start stage, which
  `triggerDeployment` writes together (233-234); `Staged` are those whose stage
  is not empty. Author and source commit follow the version and are left out.
* An informer may skip states of an object: `Sync` jumps to the latest. A
  behaviour that shows an intermediate state to the cache is one in which the
  next write comes after `Sync`.
* Time is abstract: a key that is requeued after 30, 60 or 180 s is due at any
  time. `queue` holds the keys due now or later.
* The order of the services in config.yaml is any order.
* A call that times out was executed by Keptn before the worker goes on.
* `DeploymentBranch` is the default branch of the remote, and `getServiceVersion`
  (325) reads the same branch as the other clones.
* One KeptnProject, which exists and is not deleted.
* One operator process. `deleted` is a history variable and guards nothing.

Abstractions of `CIConnect`:

* A configuration holds, for each service, the version (all files below
  `base/<service>` and `stages/*/<service>`) and the entry of config.yaml, and
  what `getStageAndSequence` finds in its shipyard. The empty entry of a
  service whose name is not listed is `NoTrigger`.
* The branch is linear, as only one job's commit at a time is pushed on its
  head. Both clones are of the default branch (`deployment_branch` is empty).
* go-git clones all tags by default, so `CreateTag` fails for a release that
  was on the remote at the time of the clone.
* Errors of the file system count as `RunFails`.

Abstractions of `PromotionService` and of the files:

* A job's clones, commit and push of the branch are one step, its tag another.
  `ci_jobs` and the proofs about `CIConnect` show that jobs that interleave come to
  the same. That the two levels agree on what a job writes is itself checked
  (`FilesFollowTheLog`).
* A tree has no empty directories, as git has none. Modes and symbolic links
  are left out. The file system of a job does not fail; that of the promotion
  service fails in `performFileMove` (fault "move") and in git (clone, add,
  commit). A write of merged values always succeeds.
* A file is a model value, or what the programs look at in it: entries of
  config.yaml, stages of shipyard.yaml, versions of a chart, decoded values. The
  placeholder `{{ keptn/ImageVersion }}` is the field `version` of a values file.
* `NoVersion` stands for an event without a version label, which is answered with
  an error (`eventhandlers.go:44`). A label that is there and empty is left out.
* Each event is delivered once: nothing in the service acknowledges or repeats
  one. Each kind of fault happens once at most.
* Secrets and the directories in /tmp are left out, but for the name of the
  latter, in which `moveFiles` may find the service's.

## 3. Properties and runs

Deadlock is checked in every `operator` run: the KeptnProject worker can always
start. The jobs and handlers of the other runs really end, so there it is not.
Each property has a mutant (an operator `X_Y` beside the operator `X` it
replaces, and the project manifest names the pair): with it, the property
fails in the same run.

| run | bounds | checks |
|---|---|---|
| `operator_visible_faults` | 1 service, 3 commits, versions that return, any 1 fault the operator notices | `TypeOK`, `KeptnFollowsGit` (the refinement of `ServiceLifecycle`), `DeploymentsMoveForward`, `NoLostTrigger`, `RecordedCommitIsDesired`, `ResourceOutlivesService`, `CreatedBeforeDeployed`, and the inductive `TriggerInv`, `SafeMeansDeleted` |
| `operator_converges` | 2 services, one replacing the other or both at first; a restart, a timeout or a failed write | `RecordedCommitIsDesired`, `EventuallyDeployed`, `EventuallyRemoved` |
| `operator_orphan` | 1 service, 2 commits, no fault | `NoOrphans` is violated |
| `operator_relisted` | 1 service, 3 commits, no fault | `DeployedIsCreated` is violated |
| `operator_rejected` | 1 service, 2 commits, one error status | `EventuallyDeployed` is violated |
| `operator_rollback` | 1 service, versions v1, v2, v1, no fault | `EventuallyDeployed` is violated |
| `operator_empty_version` | 1 service, 2 commits, one fault "version" | `KeptnFollowsGit` is violated |
| `ci_jobs` | 3 jobs, 2 services, 2 repetitions, any 1 fault | `TypeOK`, `SuccessIsPublished`, `RepetitionsAreEarned`, `PublishesAtomically`, `JobsEnd`, and the inductive `WorkFitsBranch` |
| `ci_gives_up` | 1 job, 10 repetitions, 11 failed pushes | `CommandPublishes` is violated |
| `promotion` | 2 jobs called in 11 ways, or 2 promotions; 2 services, 3 stages, any 1 fault | `TypeOK`; of the files `ValuesAreOverlaid`, `DeletionUndoesDeployment`, `DeploymentsAreWhole`, `FilesFollowTheLog` (a refinement of `ConfigurationLog`), `StagesAreLogs` (of `StageLog`); of the handlers `FailureLeavesNoTrace`, `LostPromotionsAreExcused`, `StartedIsFinished`, and the inductive `WorkFitsStage` |
| `promotion_lost_push` | 2 services promoted to one stage, no fault | `PassMeansPromoted` is violated |
| `promotion_foreign_sequence` | 2 jobs called with `--stage` alone, no fault | `SequenceOfItsStage` is violated |

*Why these bounds.* Services interact only through the loops of the project
controller and the single worker of each controller, so one service suffices
for the protocol on a resource and two for the loops. Three commits are the
least with which a service is listed, dropped and listed again, and with which
an old request, a current one and a newer one exist at the same time. The
hardest interleavings need no fault at all; one fault puts a crash, a lost
answer or a refused write at any point of them. The theorems hold without
these bounds. In `operator_visible_faults` the
service stays listed while version and event change, is dropped, or is dropped and listed
again; versions return, or only the event changes, or the commit that drops a service
changes its version, or the version's file is missing, or config.yaml cannot be
read. `DeploymentsMoveForward` compares versions that one commit only names
(`NamedOnce`): it could not tell two commits with one version apart. Two faults that the
operator does not notice are left out, as most of these properties fail with them
(`operator_rejected`, `operator_empty_version`); which of them hold all the same is proved
(section 4). Five commits (a service listed, dropped,
listed, dropped, listed) without faults were tried too, with the same results;
they are what a worker needs to hold a copy of an earlier resource of the same
name, which `CreatedBeforeDeployed` therefore excepts.

Three jobs are the least with which one job loses against two others, of its
own service and of another; between them the settings have a given and a chosen
version, one release twice, a duplicate tag that is ignored, a dry run and a
service that ci_config.yaml does not list. With two repetitions some behaviours
use all of them and others do not (the code has ten, and `ci_gives_up` has ten).
Of a job that ignores duplicates `SuccessIsPublished` speaks here only as long as there
was no fault; the theorem adds the other faults.

In `promotion` the two jobs are called in all 121 pairs of ways, one after the
other or both failing, and each pair leaves other files: a chart that is
copied or already there, a stage's directory or none, a stage the shipyard does
not have, a broken values file. Two promotions are enough for the handlers,
as they meet only at the push to one branch. The values files of one release put each
kind of value (nothing, null, scalar, list, map) against each, at the top, below it
and below that; further down `merge` does the same again. TLC merges each two of
the values files once and looks the result up (`MergeOnce`).

*What the passing runs show.* The resourceVersion check makes the split of
work sound. The KeptnService worker may hold a copy across three requests of up
to 30 s each, and the other controller may write meanwhile; then its own Update
is refused, the key is retried, and the newer request is still pending.
`RecordedCommitIsDesired` is the same argument for the other side: every error
ends the reconciliation before the commit is recorded.
`PublishesAtomically` says that jobs need no lock: each works on two clones for
minutes, but a push goes only on top of the commit that was cloned, and after a
rejected push everything is read again. `RepetitionsAreEarned` bounds what that
costs: a job repeats only when somebody else got a commit or a tag onto the
remote, or a push failed, so that it needs more than ten such events to give up.

*What the violations show.*

1. `operator_orphan`. `CreationPending` is cleared only when `createService`
   was called. If the check at line 78 finds the service, the flag stays. Drop
   the service from config.yaml: the worker deletes it in Keptn and stores
   `SafeToDelete`; at the next reconciliation the service is missing, so the
   worker creates it again; then the resource is removed. The service stays in
   Keptn with nothing left to delete it.
2. `operator_relisted`. A service that comes back before its resource is gone
   keeps the resource, with `DeletionPending` and `SafeToDelete` set. It is
   deployed, but never created again.
3. `operator_rollback`. Whether a version is new is decided from the cache
   (`keptnproject_controller.go:218-224`). If the branch goes from v1 to v2 and
   back while the cache still says v1, nothing is updated, the commit is recorded, and nothing
   compares again: v2 stays deployed. `RecordedCommitIsDesired` is the
   promise that does hold: it leaves out versions that return (`Returns`). Finding
   its proof showed two more ways to return than a rollback: a version first named by the
   commit that drops the service, which a loop that still has the config.yaml of the
   commit before asks for already (versions are read from a later clone); and the
   empty version, with which every resource begins.
4. `operator_rejected`. An HTTP error status is not an error of
   `http.Client.Do`, so a rejected event counts as sent.
5. `ci_gives_up`. After the tenth repetition the loop ends whatever the error,
   and the command returns success. `SuccessIsPublished` is the promise that
   does hold: it leaves out that exit, and jobs that ignore duplicate tags once a push
   can have failed (see below).
6. `operator_empty_version`. When the clone for the version fails,
   `getServiceVersion` returns "" and no error (`keptnproject_controller.go:331-334`). That
   is not the deployed version, so it is deployed. `KeptnFollowsGit` says that nothing
   else does this: with every other fault a version comes from a commit.
7. `promotion_foreign_sequence`. With `--stage` and no `--sequence` the sequence is the
   first stage's (`shipyard.go:50`): the trigger joins a stage with a sequence it may
   not have.
8. `promotion_lost_push`. `UpdateGitRepo` logs the errors of commit and push
   (`githandler.go:138-149`) and returns nil. Of two promotions to one stage the
   second push is rejected, nobody repeats it, and Keptn is told that it passed.
   `LostPromotionsAreExcused` says that there are no other such cases.

The separate clones of config.yaml and of the versions can be seen in
`ServiceLifecycle`: a push in between sends a new version with an
older event (`i <= j` in `FromGit`), and the new event is never sent.

A job may also fail although everything is on the remote: the answer to the push
of the tags is lost, the job repeats, and `CreateTag` meets the job's own tag. No
document promises otherwise.

Three more things the model of the jobs shows, which no run reports. `ignoreDuplicateGitTag`
drops every error of the push of the tags (`gitutils.go:134-139`), not only a duplicate: if
it fails, the command exits with status 0, the commit is on the branch without its tag,
and no promotion will find the release; `triggerDeploy.go:172` says that the commit will be
tagged. `SuccessIsPublished` therefore excuses a tag that is on another commit, which is what
the flag is for, and no missing one, and has the hypothesis `NoFailedPush`. `KeptnService` of ci-connect-cli
(`triggerDeploy.go:95-98`) lacks the `stage` that git-operator reads from the same file
(git-operator/README.md:55-60): deploying a new service, or one with a changed event,
removes the start stages of all (`staged` in `modifyOperatorConfig`), and
`ConfigurationLog` allows it. A service that ci_config.yaml does not list is passed over without an
error (`keptnciutils.go:22-23`): an empty commit is pushed and tagged, as in the example
of ci-connect-cli/README.md, where lines 15 and 25 name different services.

Found by reading and not given a run: a removed KeptnService's key is retried
for ever (`keptnservice_controller.go:75`); clones leak before the `defer`
(`keptnproject_controller.go:133`); credentials are shared between projects
(line 79).

### Fairness

`FairSpec` assumes that each controller's worker keeps running
(`WF` on its requests), that watches deliver (`WF` on `Sync`), and that a key
that comes back to the work queue again and again is taken again and again
(`SF` on `ServiceGet(s)`): the queue is first in, first out, and a retried or
requeued key is added again when its delay is over. Faults, pushes and restarts
are not assumed to happen. `ProjectRequest` needs only weak fairness: an idle
worker can always start, since every path of `Reconcile` for an existing
project is queued again.

For `CIConnect`, `FairSpec` says that a job keeps running until it ends, and
that git answers each of its requests, if only with an error: `WF` on
`RunDeployment(j)`. Nothing makes a pipeline run a job again.

For `PromotionService` it says that a handler that has sent `started` goes on
until it returns, as a goroutine does when git and Keptn answer each request, if
only with an error: `WF` on `Handle(p)`. Nothing makes Keptn send an event, and
nothing takes up again what a restart has ended.

## 4. Proofs

`GitOperatorProofs` proves, for any set of services, any branch and any number
of faults:

| theorem | statement |
|---|---|
| `TypeCorrect` | `Spec => []TypeOK` |
| `TriggerInvariant` | `Spec => []TriggerInv` |
| `NoTriggerIsLost` | `Spec => []NoLostTrigger` |
| `SafeMeansDeletedHolds` | `Spec => []SafeMeansDeleted` |
| `NoResourceIsLost` | `Spec => ResourceOutlivesService` |

Assumptions: the constants' (`ClusterAssumption`, `NoServiceAssumption`,
`NoTargetAssumption`), and for the last four `"rejected" \notin FaultKinds`:
Keptn never answers a request with an error status. That hypothesis is needed:
`operator_rejected` shows what happens without it.

`NoLostTrigger` is not inductive: whether an Update that clears
`DeploymentPending` is right depends on the copy it was made from. `TriggerInv`
adds what the code relies on without saying so:

* `CacheIsFresh`: whoever holds the current resourceVersion got it from the
  cache, and the cache with the current version equals the stored resource;
* `CopyIsFresh`: a worker with the current version asks for what the resource
  asks for, until it has sent it;
* `StepFitsCopy`: where the worker stands fits its copy; the copy the project
  controller is about to write is pending;
* `NoStaleRequest`: no cache and no worker holds a different pending request for
  a resource that is settled. This one is the point: a stale copy of an
  older request exists only while the newer one is itself pending.

Every write is one of three effects (`UpdateEffect`, `CreateEffect`,
`DeleteEffect`), and every step that is not the worker's own satisfies one
lemma (`OthersWrite`): it leaves the resource as it is, or outdates every copy
and does not settle on a new event.

`ResourceOutlivesService` follows from `SafeMeansDeleted`, which speaks of all
copies, since removeService believes the cache: a `SafeToDelete` from an earlier
life of the resource would be fatal. It is inductive relative to `TypeOK` and
`TriggerInv` because a resource is created only when the cache holds none, and
creating it outdates the worker's copy.

`CIConnectProofs` proves, for any jobs, settings, edits, faults and bound on
repetitions, from the constants' assumptions alone (`RepoAssumption`,
`JobAssumption`):

| theorem | statement |
|---|---|
| `JobsTypeCorrect` | `Spec => []TypeOK` |
| `WorkAlwaysFits` | `Spec => []WorkFitsBranch` |
| `SuccessMeansPublished` | `Spec => []SuccessIsPublished` |
| `AtomicPublication` | `Spec => PublishesAtomically` |
| `NothingRepeatsUnearned` | `Spec => []RepetitionsAreEarned` |

The inductive invariant is `TypeOK`, `WorkFitsBranch` and `SuccessIsPublished`
together (`CIInv`). `SuccessIsPublished` has a hypothesis of its own for jobs that
ignore duplicate tags, that no push can have failed (`NoFailedPush`: no fault yet, or
`"failed" \notin FaultKinds`): then an error of the push of the tags means that the tag
is there (`TagIsThere`). `WorkFitsBranch` says of a job what its program counter does
not: its commit is its own change of the commit it cloned, and that commit is
still where it was. A step of another job keeps it because the remote only
`Advances`: the branch grows and no tag moves (`OthersAdvance`). The refinement
needs nothing more: a stored push appends the change of the head (`base =
Height` then), and the tag goes to the commit after `base`.

`NothingRepeatsUnearned` needs an invariant of its own. The sum on the right of
`RepetitionsAreEarned` does not say which contribution a repetition is charged to.
`Unspent` does: an attempt with a clone is within what the clone showed. Commits of
others beyond its base, and a tag of its own release that others have set since, are
still unspent; a refused push means that there is one (`RefusalIsPaid`), and a failed
push pays with the fault. None of what refuses it is the job's own, because it was
not there when the clone was made and the job pushes nothing in between. The sums are
finite although the constants may not be: `FinitelyTagged`.

`PromotionProofs` proves, for any jobs, promotions, files, scenarios, merge
function and faults, from `ServiceAssumption` and `NamesAssumption`:

| theorem | statement |
|---|---|
| `PromotionTypeCorrect` | `Spec => []TypeOK` |
| `FailuresLeaveNoTrace` | `Spec => []FailureLeavesNoTrace` |
| `WorkAlwaysFitsStage` | `Spec => []WorkFitsStage` |
| `OnlyExcusedPromotionsAreLost` | `Spec => []LostPromotionsAreExcused` |

The inductive invariant `PromotionInv` is the shape of the state (`ShapeOK`) and,
for each promotion, `HandlerOK(p)`: where its handler stands says what Keptn has
been told (`AnswerFits`) and that the release it cloned exists (`ReleaseExists`);
what it is about to push is its release put on a commit that is still there
(`WorkFits`); once it is past the push, its commit is on the branch, or one of the
excuses holds (`ResultFits`). A step of anybody else keeps all this because the
branches and the releases only grow (`Grows`) and nobody makes a commit in another
promotion's name (`NotByOf`). What the files hold plays no part, so `Merged` may
be any operator: these proofs are about who pushes what upon what.

`FileProofs` is about what it holds: what jobs leave in the default branch, for
any jobs, workspaces, flags and shipyards.

| theorem | statement |
|---|---|
| `DeletionAlwaysUndoes` | `Spec => []DeletionUndoesDeployment` |
| `DeploymentsAreAlwaysWhole` | `Spec => DeploymentsAreWhole` |
| `FilesAlwaysFollowTheLog` | `Spec => FilesFollowTheLog` |

Two more assumptions are needed, both about what users have in their files.
`FilesAssumption`: a path is a sequence of names. `ContentsAssumption`: at first
the deployment repository is one that jobs could have left (its shipyard.yaml and config.yaml
are lists of what they should be, and no service has two entries), and a chart has its
two versions, either of which may be empty. The invariant `MasterInv`
says that every commit is such a repository (`IsRepository`). That each service has one
entry (`Distinct`) is what deletion relies on: `deleteServiceFromOperatorConfig` takes
out the first entry and stops.

Each operation gets a lemma that says path by path what it leaves (`CopyByPath`,
`ChartedByPath`, `BasedByPath`, `StagedByPath`), on the ground that different
directories of a service do not contain each other (`InBase`, `InStage`,
`ChartsApart`). `IsUpdated` sums them up: a run of `UpdateRepository` puts the workspace's
files, with the chart in its place and the metadata written last, below the
service's directories, and leaves every other path but config.yaml as it was.
`FilesAlwaysFollowTheLog` adds the invariant `TagInv` (what a job is about
to tag holds its version, or changed nothing) and makes of each commit a deployment of
`ConfigurationLog` (`DeploymentIsAbstract`). With `AtomicPublication` it closes the
gap between the two models of a job: both implement the same specification. Where an induction
over data would be natural (the first entry of a service, the entries without it) the
proofs take the least element of a set of numbers instead (`LeastOf`), or show that two
functions that obey the same equation are the same (`FilterIsUnique`).

`StageProofs` is about the files of the stage branches, for any promotions,
releases, stage branches and faults:

| theorem | statement |
|---|---|
| `StagesAreAlwaysLogs` | `Spec => StagesAreLogs` |
| `ValuesAreAlwaysOverlaid` | `Spec => ValuesAreOverlaid` |

`StageInv` adds three things to the invariants above. `FilesFit`: what a handler is
about to push holds the files of the commit it cloned, or those with its release in
them (`WorkFits` says so only while "add" has not failed). `TreesArePaths`: what a stage
branch holds lies at paths of names. `GivenInv`: a chart's values.yaml on the default
branch is a file of some workspace, whichever directory it was copied from
(`UpdatesHaveGivenValues`). Then, path by path, as for the jobs: where `moveFiles` puts a
directory (`TargetOf`: below the service's own whatever its name, and exactly there
for a clear service), what the merge changes (`MergedByPath`: one file at most), what
is moved (`MovedByPath`), and all of it with the label (`PromotedByPath`). For a clear
service that is `Rendered` (`ReleaseIsRendered`), for any it leaves other services'
directories alone (`OthersKept`). A push that is stored is then a step of `StageLog`
(`PushRefines`), and so is a tag (`TagMakesRelease`).

The merge itself is a constant there, `Merged`, because its definition in `HelmValues`
recurs over the values. Two assumptions say of it what the proofs need, about the
values.yaml files that workspaces hold (`ValuesGiven`): one that is merged with none
stays as it is or cannot be parsed (`MergeAssumption`), and of two that can be read the
merged one overlays the base by the stage (`OverlayAssumption`). TLC evaluates both with
the real `merge`, on each two of the files of `MCPromotion`, in either order. So what is
proved of `ValuesAreOverlaid` is everything but the recursion: that a push brings the merge of the
release's own two files, where Helm will look for it, after two copies and an
edit, while jobs, tags and other handlers go on.

`LifecycleProofs` proves `LifecycleRefined`: `Spec => KeptnFollowsGit`, the
refinement of `ServiceLifecycle`, for any services, branch and number of faults,
from `"version" \notin FaultKinds` alone (it does without the assumption about
"rejected"). That one is needed: `operator_empty_version`. Its inductive
invariant `Traced` follows each copy of a resource, stored, cached or held by either
worker, back to the branch: it exists because a commit lists the service, it is
marked for deletion because a later commit with a readable config.yaml drops it, and it
is pending with an event of the branch. The first needs a bound, `Seen`: the
commit the project worker acts upon, if any. Whatever that worker finds
unlisted in a commit was listed by an earlier one, which is what makes it `Dropped`.
A longer branch says all that a shorter one does (`BackedKept`, `LogGrows`), so
that only the copies a step writes need an argument.

`CreationProofs` proves `DeploymentFollowsCreation`: `Spec =>
CreatedBeforeDeployed`, from `"rejected" \notin FaultKinds`. An error status is
taken for success (`operator_rejected`), so without that hypothesis the worker
clears `CreationPending` of a service that Keptn has refused. The invariant
`Created` says of the stored resource, and of both workers' copies as long as
they are up to date, that one that exists and is not pending creation is of a
service that Keptn knows or has deleted. Copies that are not up to date may say
anything: their Update is refused.

`VersionProofs` proves what becomes of versions:

| theorem | statement | hypothesis |
|---|---|---|
| `RecordIsTrue` | `Spec => []RecordedCommitIsDesired` | `"version" \notin FaultKinds` |
| `NoDeploymentGoesBack` | `Spec => DeploymentsMoveForward` | every commit of every history names a version of its own (`EachNew`) |

`RecordIsTrue` leaves out one fault, a failed clone that is read as the empty
version (`keptnproject_controller.go:334`): the empty version is then asked for
and the commit recorded. `RecordInv` has four parts. `HashesFit`: no hash
is of a commit still to come, and the one recorded is the last one the worker compared.
`CopiesFit`: a copy that is up to date is in the hand of the worker that is at
that service. `VersionsFit`: every stored, cached or held version was named by a
commit that has been read; and the cache agrees with the stored resource, or
holds a version that has since been replaced. That last part is the reason for `Returns`: the
loop skips a service whose cached version equals the branch's, so a stale
cache does harm exactly when the branch comes back to what the cache still says.
`AchievedOf`: a service the loop is done with has what the commit wants.

`NoDeploymentGoesBack` needs no assumption about faults. Versions are ordered by the
commits that name them; the property compares those that one commit only names, and the
theorem asks it of all. `Forward` follows a version on its way from the branch to
the project worker's copy, the stored resource, the cache, the other worker's copy and
Keptn, and says that at no place on the way it is newer than at the one before
(`InOrder`), up to date or not. A step moves a version by one place at most
(`Moves`). Only one of them could break the order, an Update with an old
copy, and that one is refused (`FreshFits`).

Only model-checked: that `merge` overlays (`OverlayAssumption`), which is an induction
over nested values and out of the prover's reach; and the liveness properties, which are beyond
the proof system. The violated properties have no theorem, but for `KeptnFollowsGit`, which
holds without the fault of its violation. No property of a passing run that is an invariant or an action
property is left without a theorem.

## 5. Plan

What a next version would look at:

1. one specification for `CIConnect` and `PromotionService`, now that both models of a
   job are proved to implement `ConfigurationLog`;
2. the leaf proofs of `FileProofs` and `StageProofs` about single paths, which a library
   of facts about trees could shorten.

## 6. Not modelled

* The credentials that reconcilers of several KeptnProjects share
  (`keptnproject_controller.go:79`): a field missing in one secret keeps another
  project's value. What credentials do is decide whether git and Keptn accept a
  request, which the model leaves open at each request.
* Deletion of a KeptnProject. The code has no step of its own for it (63-66);
  Kubernetes collects the KeptnServices by their owner references, after which
  nothing is left in Keptn's cluster to reconcile.
* The empty `DeploymentBranch`, for which the code has two defaults (70 and
  325): whichever branch is read, the model has one.
* Helm's downloader (`helmUtils.go`: `DependencyUpdate`), modes and symbolic
  links (`fileutils.go:39-77`), flags and HTTP plumbing, generated code, mocks,
  charts, Dockerfiles and manifests.
* Disk use: clones that leak (`keptnproject_controller.go:133`,
  `githandler.go:150`).
