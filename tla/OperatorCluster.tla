---------------------------- MODULE OperatorCluster ----------------------------
(***************************************************************************)
(* What the two reconcilers of git-operator share and act upon: the branch *)
(* they watch, the custom resources on the API server, the informer cache  *)
(* they read through, the work queue of the KeptnService controller and    *)
(* Keptn's control plane.                                                  *)
(*                                                                         *)
(* controller-runtime (go.mod: v0.8.3) is modelled from its use.  A Get is *)
(* answered from a cache that lags behind the API server; an Update        *)
(* carries the resourceVersion of the copy it was made from, and the       *)
(* server refuses it when the object was written since; an Update that     *)
(* changes nothing leaves the resourceVersion as it is; a Delete carries   *)
(* no precondition.                                                        *)
(*                                                                         *)
(* resourceVersions are not counted.  fresh[s] holds those of the cache    *)
(* and the two workers whose copy of s carries the version now stored: a   *)
(* write empties it, the watch event puts the cache back, a Get passes the *)
(* cache's freshness on.                                                   *)
(*                                                                         *)
(* An operator named X_Y is X with the mistake Y in it.  No specification  *)
(* uses one: a run's properties are tested against them.                   *)
(***************************************************************************)
EXTENDS Integers, Sequences, FiniteSets

CONSTANTS
  Services,     \* names a config.yaml may list
  Versions,     \* image versions that deployment.yaml files name
  NoVersion,    \* the empty version: no file, or not deployed yet
  Triggers,     \* (triggerevent, start stage) pairs of a config.yaml
  NoTrigger,    \* not listed in config.yaml, or never triggered
  Staged,       \* the triggers whose start stage is not empty
  Histories,    \* what the branch may become, commit by commit
  FaultKinds,   \* the faults a run lets happen
  MaxFaults     \* the bound on how many of them happen

Commit ==
  [configured : BOOLEAN,         \* .keptn/config.yaml is there and readable
   trigger    : [Services -> Triggers \union {NoTrigger}],
   version    : [Services -> Versions \union {NoVersion}]]

ASSUME ClusterAssumption ==
  /\ NoVersion \notin Versions
  /\ NoTrigger \notin Triggers
  /\ Staged \subseteq Triggers
  /\ Histories \subseteq Seq(Commit)
  /\ \A h \in Histories : Len(h) > 0
  /\ MaxFaults \in Nat

VARIABLES
  commits,      \* the deployment branch on the git remote
  cr,           \* cr[s]: the KeptnService resource on the API server
  cached,       \* cached[s]: the same in the informer cache
  fresh,        \* fresh[s]: whose copy of s carries the stored version
  proj,         \* LastMainCommit of the KeptnProject on the API server
  projCached,   \* the same in the informer cache
  projFresh,    \* whose copy of the KeptnProject carries the stored version
  queue,        \* keys due, now or later, in the KeptnService work queue
  keptn,        \* the services Keptn knows
  accepted,     \* accepted[s]: the last trigger event Keptn accepted for s
  deleted,      \* history: Keptn executed a DELETE since cr[s] was created
  faults        \* how many faults have happened

gitVars     == commits
apiVars     == <<cr, fresh, deleted>>
cacheVars   == <<cached, projCached>>
projectVars == <<proj, projFresh>>
keptnVars   == <<keptn, accepted>>
clusterVars == <<commits, cr, cached, fresh, proj, projCached, projFresh,
                 queue, keptn, accepted, deleted, faults>>

Holders == {"cache", "service", "project"}

KeptnService ==
  [exists            : BOOLEAN,
   CreationPending   : BOOLEAN,
   DeploymentPending : BOOLEAN,
   DeletionPending   : BOOLEAN,
   SafeToDelete      : BOOLEAN,
   DesiredVersion    : Versions \union {NoVersion},
   trigger           : Triggers \union {NoTrigger}]   \* TriggerCommand, StartStage

(* The zero value a Go variable keeps when the Get that should fill it fails. *)
Zero ==
  [exists |-> FALSE, CreationPending |-> FALSE, DeploymentPending |-> FALSE,
   DeletionPending |-> FALSE, SafeToDelete |-> FALSE,
   DesiredVersion |-> NoVersion, trigger |-> NoTrigger]

(* What triggerDeployment sends for a service, apart from its name. *)
TriggerEvent ==
  [version : Versions \union {NoVersion},
   trigger : Triggers \union {NoTrigger}]

NoEvent == [version |-> NoVersion, trigger |-> NoTrigger]

EventOf_Swapped(service) ==
  [version |-> service.trigger, trigger |-> service.DesiredVersion]
EventOf(service) ==
  [version |-> service.DesiredVersion, trigger |-> service.trigger]

Tip      == Len(commits)
Listed(i) == {s \in Services : commits[i].trigger[s] # NoTrigger}

Fault(kind) ==
  /\ kind \in FaultKinds
  /\ faults < MaxFaults
  /\ faults' = faults + 1

--------------------------------------------------------------------------------
(* Keptn's HTTP API.  A request is executed and answered ("ok"), answered with *)
(* an error status and not executed ("rejected"), never arrives ("refused"),   *)
(* or is executed while the 30 s timeout of the client hides the answer        *)
(* ("timeout").  http.Client.Do returns an error in the last two cases only.   *)

Answers           == {"ok", "rejected", "refused", "timeout"}
CallKeptn(answer) == IF answer = "ok" THEN UNCHANGED faults ELSE Fault(answer)
Executed(answer)  == answer \in {"ok", "timeout"}
Errs_Ignored(answer) == FALSE
Errs(answer)      == answer \in {"refused", "timeout"}

--------------------------------------------------------------------------------
(* The API server.  Besides "ok" and "conflict" (a stale copy, an object that *)
(* is already there, or not there any more), a write may fail ("failed") or   *)
(* be stored and its answer lost ("lost").                                    *)

Results == {"ok", "conflict", "failed", "lost"}

Write(result, allowed) ==
  \/ result = "ok" /\ allowed /\ UNCHANGED faults
  \/ result = "conflict" /\ ~allowed /\ UNCHANGED faults
  \/ result = "failed" /\ Fault("failed")
  \/ result = "lost" /\ allowed /\ Fault("lost")

Stored(result) == result \in {"ok", "lost"}

Store(s, object) ==
  /\ cr' = [cr EXCEPT ![s] = object]
  /\ fresh' = [fresh EXCEPT ![s] = {}]

(* Whoever finishes with its copy drops it; the cache keeps its own. *)
Drop(holder, s) ==
  fresh' = [fresh EXCEPT ![s] = IF holder = "cache" THEN @ ELSE @ \ {holder}]

Take(holder, s) ==
  fresh' = [fresh EXCEPT ![s] = IF "cache" \in @ THEN @ \union {holder} ELSE @]

UpdateCR(holder, s, object, result) ==
  /\ Write(result, holder \in fresh[s] /\ object.exists)
  /\ IF Stored(result) /\ object # cr[s]
       THEN Store(s, object)
       ELSE UNCHANGED cr /\ Drop(holder, s)
  /\ UNCHANGED deleted

CreateCR(s, object, result) ==
  /\ Write(result, ~cr[s].exists)
  /\ IF Stored(result)
       THEN Store(s, object) /\ deleted' = deleted \ {s}
       ELSE UNCHANGED <<cr, fresh, deleted>>

DeleteCR(s, result) ==
  /\ Write(result, cr[s].exists)
  /\ IF Stored(result) THEN Store(s, Zero) ELSE UNCHANGED <<cr, fresh>>
  /\ UNCHANGED deleted

--------------------------------------------------------------------------------
(* The informer: a watch event brings the cache up to date and, for a *)
(* KeptnService, puts its key into the work queue.                    *)

Sync(s) ==
  /\ "cache" \notin fresh[s]
  /\ cached' = [cached EXCEPT ![s] = cr[s]]
  /\ fresh' = [fresh EXCEPT ![s] = @ \union {"cache"}]
  /\ queue' = queue \union {s}
  /\ UNCHANGED <<gitVars, cr, deleted, projectVars, projCached,
                 keptnVars, faults>>

SyncProject ==
  /\ "cache" \notin projFresh
  /\ projCached' = proj
  /\ projFresh' = projFresh \union {"cache"}
  /\ UNCHANGED <<gitVars, apiVars, proj, cached, queue, keptnVars, faults>>

(* A developer or ci-connect pushes the next commit of the branch. *)
Push ==
  /\ \E h \in Histories :
       /\ Tip < Len(h)
       /\ commits = SubSeq(h, 1, Tip)
       /\ commits' = Append(commits, h[Tip + 1])
  /\ UNCHANGED <<apiVars, cacheVars, projectVars, queue, keptnVars, faults>>

(* A user edits the KeptnProject: nothing modelled here changes but its *)
(* resourceVersion.                                                     *)
EditProject ==
  /\ Fault("edit")
  /\ projFresh' = {}
  /\ UNCHANGED <<gitVars, apiVars, cacheVars, proj, queue, keptnVars>>

(* The operator pod restarts: new informers list every object, and every *)
(* KeptnService found is queued.                                         *)
RestartCluster ==
  /\ Fault("restart")
  /\ cached' = cr
  /\ fresh' = [s \in Services |-> {"cache"}]
  /\ projCached' = proj
  /\ projFresh' = {"cache"}
  /\ queue' = {s \in Services : cr[s].exists}
  /\ UNCHANGED <<gitVars, cr, deleted, proj, keptnVars>>

ClusterInit ==
  /\ \E h \in Histories : commits = <<h[1]>>
  /\ cr = [s \in Services |-> Zero]
  /\ cached = cr
  /\ fresh = [s \in Services |-> {"cache"}]
  /\ proj = 0
  /\ projCached = 0
  /\ projFresh = {"cache"}
  /\ queue = {}
  /\ keptn \in SUBSET Services      \* some may have been created by hand
  /\ accepted = [s \in Services |-> NoEvent]
  /\ deleted = {}
  /\ faults = 0

ClusterTypeOK ==
  /\ commits \in Seq(Commit)
  /\ Tip > 0
  /\ cr \in [Services -> KeptnService]
  /\ cached \in [Services -> KeptnService]
  /\ fresh \in [Services -> SUBSET Holders]
  /\ proj \in 0..Tip
  /\ projCached \in 0..Tip
  /\ projFresh \in SUBSET {"cache", "project"}
  /\ queue \in SUBSET Services
  /\ keptn \in SUBSET Services
  /\ accepted \in [Services -> TriggerEvent]
  /\ deleted \in SUBSET Services
  /\ faults \in 0..MaxFaults
================================================================================
