---------------------------- MODULE LifecycleProofs ----------------------------
(***************************************************************************)
(* GitOperator implements ServiceLifecycle, for any services, branch       *)
(* contents and faults, but for a failed clone that getServiceVersion      *)
(* reads as the empty version (keptnproject_controller.go:331-334).        *)
(***************************************************************************)
EXTENDS GitOperatorProofs

--------------------------------------------------------------------------------
(* What the first n commits of a log, or all of them, say of a service.  The *)
(* log is a parameter, so that a step's old and new branch can be compared.  *)
HasLister(log, n, s) == \E i \in 1..n : log[i].trigger[s] # NoTrigger

HasDropper(log, s) ==
  \E i, j \in 1..Len(log) :
    /\ i < j
    /\ log[i].trigger[s] # NoTrigger
    /\ log[j].configured
    /\ log[j].trigger[s] = NoTrigger

HasEvent(log, s, event) ==
  \E i, j \in 1..Len(log) :
    /\ i <= j
    /\ log[i].trigger[s] # NoTrigger
    /\ event.trigger = log[i].trigger[s]
    /\ event.version = log[j].version[s]

(* A copy of the resource of s asks for nothing that the log does not say, *)
(* and is there because one of the first n commits lists s.                *)
Backed(log, n, s, r) ==
  /\ r.exists => HasLister(log, n, s)
  /\ r.DeletionPending => HasDropper(log, s)
  /\ r.DeploymentPending => HasEvent(log, s, EventOf(r))

(* The commits that may have made resources: those up to the one the project *)
(* worker acts upon, or all while it acts upon none.                         *)
Seen == IF config = 0 THEN Tip ELSE config

TracedOf(s) ==
  /\ Backed(commits, Seen, s, cr[s])
  /\ Backed(commits, Seen, s, cached[s])
  /\ svcKey = s => Backed(commits, Seen, s, svcCopy)
  /\ target = s => Backed(commits, Seen, s, pCopy)

WorkersFit ==
  /\ svcStep # "idle" => svcCopy.exists
  /\ svcStep = "deploy" => svcCopy.DeploymentPending
  /\ svcStep = "delete" => svcCopy.DeletionPending
  /\ pStep \in {"idle", "clone"} => config = 0
  /\ pStep \in {"create", "trigger"} =>
       todo \subseteq Listed(config) /\ commits[config].configured

Traced == WorkersFit /\ \A s \in Services : TracedOf(s)

--------------------------------------------------------------------------------
(* What a log says it goes on saying when it grows. *)
LEMMA BackedKept ==
  ASSUME NEW log, NEW longer, NEW n \in Nat, NEW m \in Nat, NEW s, NEW r,
         Len(log) \in Nat, Len(longer) \in Nat, n <= Len(log),
         n <= m, Len(log) <= Len(longer),
         \A i \in 1..Len(log) : longer[i] = log[i],
         Backed(log, n, s, r)
  PROVE  Backed(longer, m, s, r)
<1>1. ASSUME HasLister(log, n, s) PROVE HasLister(longer, m, s)
  BY <1>1 DEF HasLister
<1>2. ASSUME HasDropper(log, s) PROVE HasDropper(longer, s)
  <2>1. PICK i, j \in 1..Len(log) :
          /\ i < j
          /\ log[i].trigger[s] # NoTrigger
          /\ log[j].configured
          /\ log[j].trigger[s] = NoTrigger
    BY <1>2 DEF HasDropper
  <2>2. /\ i \in 1..Len(longer) /\ j \in 1..Len(longer)
        /\ longer[i] = log[i] /\ longer[j] = log[j]
    OBVIOUS
  <2> QED
    BY <2>1, <2>2 DEF HasDropper
<1>3. ASSUME NEW event, HasEvent(log, s, event) PROVE HasEvent(longer, s, event)
  <2>1. PICK i, j \in 1..Len(log) :
          /\ i <= j
          /\ log[i].trigger[s] # NoTrigger
          /\ event.trigger = log[i].trigger[s]
          /\ event.version = log[j].version[s]
    BY <1>3 DEF HasEvent
  <2>2. /\ i \in 1..Len(longer) /\ j \in 1..Len(longer)
        /\ longer[i] = log[i] /\ longer[j] = log[j]
    OBVIOUS
  <2> QED
    BY <2>1, <2>2 DEF HasEvent
<1> QED
  BY <1>1, <1>2, <1>3 DEF Backed

(* q asks for no more than r, and for the same event if for any. *)
Asks(q, r) ==
  /\ q.exists => r.exists
  /\ q.DeletionPending => r.DeletionPending
  /\ q.DeploymentPending => r.DeploymentPending /\ EventOf(q) = EventOf(r)

(* A copy that asks for less than a backed one is backed too. *)
LEMMA LessIsBacked ==
  ASSUME NEW log, NEW n, NEW s, NEW r, NEW q, Backed(log, n, s, r), Asks(q, r)
  PROVE  Backed(log, n, s, q)
  BY DEF Backed, Asks

(* The zero value asks for nothing. *)
LEMMA ZeroIsBacked ==
  ASSUME NEW log, NEW n, NEW s PROVE Backed(log, n, s, Zero)
  BY DEF Backed, Zero

(* The commits that may have made resources are commits of the branch. *)
LEMMA SeenType ==
  ASSUME TypeOK PROVE Seen \in 1..Len(commits) /\ Len(commits) = Tip /\ Len(commits) \in Nat
<1>1. Tip \in Nat \ {0} /\ Len(commits) = Tip
  BY BranchType DEF TypeOK, Tip
<1>2. config \in 0..Tip
  BY DEF TypeOK, ProjectTypeOK
<1> QED
  BY <1>1, <1>2 DEF Seen

(* The branch and what was seen of it are longer than before. *)
LogGrows ==
  /\ Seen <= Seen'
  /\ Len(commits) <= Len(commits')
  /\ \A i \in 1..Len(commits) : commits'[i] = commits[i]

(* After a step, it is enough that the copies are backed by the old branch. *)
LEMMA TracedNext ==
  ASSUME TypeOK, TypeOK', LogGrows, NEW s \in Services,
         Backed(commits, Seen, s, cr'[s]),
         Backed(commits, Seen, s, cached'[s]),
         svcKey' = s => Backed(commits, Seen, s, svcCopy'),
         target' = s => Backed(commits, Seen, s, pCopy')
  PROVE  TracedOf(s)'
<1>0. /\ Seen \in Nat /\ Seen <= Len(commits) /\ Len(commits) \in Nat
  BY SeenType
<1>1. Seen' \in Nat /\ Len(commits') \in Nat
  <2>1. commits' \in Seq(Commit) /\ config' \in 0..Len(commits')
    BY DEF TypeOK, ClusterTypeOK, ProjectTypeOK, Tip
  <2> QED
    BY <2>1 DEF Seen, Tip
<1>2. ASSUME NEW r, Backed(commits, Seen, s, r) PROVE Backed(commits', Seen', s, r)
  BY <1>0, <1>1, <1>2, BackedKept DEF LogGrows
<1>3. /\ Backed(commits', Seen', s, cr'[s])
      /\ Backed(commits', Seen', s, cached'[s])
      /\ svcKey' = s => Backed(commits', Seen', s, svcCopy')
      /\ target' = s => Backed(commits', Seen', s, pCopy')
  BY <1>2
<1> QED
  BY <1>3 DEF TracedOf

--------------------------------------------------------------------------------
(* The branch is only ever appended to, and what was seen of it is what the *)
(* project worker reads, or all.                                            *)
LEMMA Grows ==
  ASSUME TypeOK, TypeOK', WorkersFit, [Next]_vars
  PROVE  LogGrows
<1>1. Seen \in 1..Len(commits) /\ Len(commits) = Tip /\ Len(commits) \in Nat
  BY SeenType
<1>2. ASSUME UNCHANGED commits, config' = 0 \/ config' = config
      PROVE  LogGrows
  <2>1. Seen' = Tip \/ Seen' = Seen
    BY <1>2 DEF Seen, Tip
  <2> QED
    BY <1>1, <1>2, <2>1 DEF LogGrows
<1>3. ASSUME Push, UNCHANGED config PROVE LogGrows
  <2>1. PICK c : commits' = Append(commits, c)
    BY <1>3 DEF Push
  <2>2. Len(commits') = Len(commits) + 1 /\ \A i \in 1..Len(commits) : commits'[i] = commits[i]
    BY <2>1 DEF TypeOK, ClusterTypeOK
  <2>3. Seen' = Seen \/ Seen' = Len(commits) + 1
    BY <1>3, <2>2 DEF Seen, Tip
  <2> QED
    BY <1>1, <2>2, <2>3 DEF LogGrows
<1>4. ASSUME ProjectClone PROVE LogGrows
  <2>1. UNCHANGED commits /\ config = 0 /\ (config' = Tip \/ config' = 0)
    BY <1>4 DEF ProjectClone, WorkersFit, gitVars, ProjectDone, Forget
  <2>2. Seen' = Tip
    BY <2>1 DEF Seen, Tip
  <2> QED
    BY <1>1, <2>1, <2>2 DEF LogGrows
<1>5. ASSUME ServiceController PROVE UNCHANGED <<commits, config>>
  BY <1>5 DEF ServiceController, ServiceRequest, ServiceGet, ServiceNotFound, ServiceCheck,
              ServiceCreate, ServiceDeploy, ServiceDelete, ServiceUpdate, gitVars,
              clusterVars, ProjectWaits, reconcileVars
<1>6. ASSUME ProjectController, ~ProjectClone
      PROVE  UNCHANGED commits /\ (config' = 0 \/ config' = config)
  <2>1. ASSUME ProjectDone \/ Forget PROVE config' = 0
    BY <2>1 DEF ProjectDone, Forget
  <2> QED
    BY <1>6, <2>1 DEF ProjectController, ProjectRequest, ProjectStart, ProjectCloneFails,
                      ProjectCreate, ProjectRemove, ProjectCompare, ProjectGetVersion,
                      ProjectTrigger, ProjectRecord, gitVars, clusterVars
<1>7. ASSUME Informers \/ (EditProject /\ BothWait) \/ Restart
      PROVE  UNCHANGED commits /\ (config' = 0 \/ config' = config)
  BY <1>7 DEF Informers, Sync, SyncProject, EditProject, Restart, RestartCluster, Forget,
              BothWait, ProjectWaits, reconcileVars, gitVars
<1>8. CASE UNCHANGED vars
  BY <1>2, <1>8 DEF vars, clusterVars, reconcileVars
<1>9. ASSUME Environment PROVE LogGrows
  BY <1>2, <1>3, <1>7, <1>9 DEF Environment, BothWait, ProjectWaits, reconcileVars
<1>10. ASSUME Informers \/ Restart \/ ServiceController PROVE LogGrows
  BY <1>2, <1>5, <1>7, <1>10
<1>11. ASSUME ProjectController PROVE LogGrows
  BY <1>2, <1>4, <1>6, <1>11
<1> QED
  BY <1>8, <1>9, <1>10, <1>11 DEF Next

--------------------------------------------------------------------------------
(* The worker of the KeptnServices changes its copy only by asking for less, *)
(* and writes nothing but its copy.                                          *)
LEMMA CopyIsTraced ==
  ASSUME TypeOK, TypeOK', LogGrows, Traced, NEW s \in Services,
         UNCHANGED <<cached, target, pCopy>>,
         cr'[s] = cr[s] \/ (svcKey = s /\ cr'[s] = svcCopy),
         svcKey' = s => \/ svcKey = s /\ Asks(svcCopy', svcCopy)
                        \/ svcCopy' = cached[s]
  PROVE  TracedOf(s)'
<1>1. TracedOf(s)
  BY DEF Traced
<1>2. Backed(commits, Seen, s, cr'[s])
  BY <1>1 DEF TracedOf
<1>3. svcKey' = s => Backed(commits, Seen, s, svcCopy')
  BY <1>1, LessIsBacked DEF TracedOf
<1>4. Backed(commits, Seen, s, cached'[s]) /\ (target' = s => Backed(commits, Seen, s, pCopy'))
  BY <1>1 DEF TracedOf
<1> QED
  BY <1>2, <1>3, <1>4, TracedNext

(* Every step of the KeptnService controller keeps Traced. *)
LEMMA ServiceTraced ==
  ASSUME TypeOK, TypeOK', LogGrows, Traced, ServiceController
  PROVE  Traced'
<1> USE DEF ProjectWaits, reconcileVars
<1>0. WorkersFit
  BY DEF Traced
<1>1. ASSUME UNCHANGED <<commits, pStep, todo, config>>,
             \/ svcStep' = "idle"
             \/ /\ svcCopy'.exists
                /\ svcStep' = "deploy" => svcCopy'.DeploymentPending
                /\ svcStep' = "delete" => svcCopy'.DeletionPending
      PROVE  WorkersFit'
  BY <1>0, <1>1 DEF WorkersFit, Listed
<1>2. \A o : \/ NextStep(o) = "deploy" /\ o.DeploymentPending
             \/ NextStep(o) = "delete" /\ o.DeletionPending
             \/ NextStep(o) = "update"
  BY DEF NextStep
<1>3. ASSUME NEW k \in Services, ServiceGet(k), ProjectWaits PROVE Traced'
  <2>1. /\ UNCHANGED <<commits, cr, cached>>
        /\ svcKey' = k /\ svcCopy' = cached[k] /\ cached[k].exists
        /\ svcStep' = "check" \/ svcStep' = NextStep(cached[k])
    BY <1>3 DEF ServiceGet, gitVars, cacheVars
  <2>2. WorkersFit'
    BY <1>1, <1>2, <1>3, <2>1
  <2>3. ASSUME NEW s \in Services PROVE TracedOf(s)'
    <3>1. cr'[s] = cr[s] /\ UNCHANGED <<cached, target, pCopy>> /\ (svcKey' = s => svcCopy' = cached[s])
      BY <1>3, <2>1
    <3> QED
      BY <3>1, CopyIsTraced
  <2> QED
    BY <2>2, <2>3 DEF Traced
<1>4. ASSUME NEW k \in Services, ServiceNotFound(k), ProjectWaits PROVE Traced'
  BY <1>4 DEF ServiceNotFound, clusterVars, serviceVars, Traced, WorkersFit, TracedOf, Seen, Tip, Listed
<1>5. ASSUME NEW q, svcKey \in Services, svcStep # "idle", Asks(q, svcCopy),
             q.exists, UNCHANGED <<commits, cr, cached, pStep, todo, config, target, pCopy>>,
             \/ ServiceDone
             \/ svcKey' = svcKey /\ svcCopy' = q /\ svcStep' \in {NextStep(q), "create", "deployed", "update"}
      PROVE  Traced'
  <2>1. WorkersFit'
    BY <1>1, <1>2, <1>5 DEF ServiceDone
  <2>2. \A s \in Services : svcKey' = s => svcKey = s /\ Asks(svcCopy', svcCopy)
    BY <1>5, NoServiceAssumption DEF ServiceDone, NoServiceAssumption
  <2>3. ASSUME NEW s \in Services PROVE TracedOf(s)'
    <3>1. cr'[s] = cr[s] /\ UNCHANGED <<cached, target, pCopy>>
      BY <1>5
    <3> QED
      BY <2>2, <3>1, CopyIsTraced
  <2> QED
    BY <2>1, <2>3 DEF Traced
<1>6. svcStep # "idle" => svcCopy \in KeptnService /\ svcKey \in Services /\ svcCopy.exists
  BY <1>0 DEF WorkersFit, TypeOK, ServiceTypeOK
<1>7. ASSUME ServiceCheck, ProjectWaits PROVE Traced'
  <2>1. /\ svcStep = "check"
        /\ UNCHANGED <<commits, cr, cached, svcKey, svcCopy>>
        /\ svcStep' \in {NextStep(svcCopy), "create"}
    BY <1>7 DEF ServiceCheck, ServiceContinue, gitVars, cacheVars
  <2> QED
    BY <1>5, <1>6, <1>7, <2>1 DEF Asks
<1>8. ASSUME NEW answer \in Answers, ServiceCreate(answer), ProjectWaits PROVE Traced'
  <2> DEFINE created == [svcCopy EXCEPT !.CreationPending = FALSE]
  <2>1. /\ svcStep = "create" /\ UNCHANGED <<commits, cr, cached>>
        /\ ServiceRetry \/ ServiceContinue(NextStep(created), created)
    BY <1>8 DEF ServiceCreate, gitVars, cacheVars
  <2>2. Asks(created, svcCopy) /\ created.exists
    BY <1>6, <2>1 DEF Asks, KeptnService, EventOf
  <2> HIDE DEF created
  <2> QED
    BY <1>5, <1>6, <1>8, <2>1, <2>2 DEF ServiceRetry, ServiceContinue
<1>9. ASSUME NEW answer \in Answers, ServiceDeploy(answer), ProjectWaits PROVE Traced'
  <2> DEFINE sent == [svcCopy EXCEPT !.DeploymentPending = FALSE]
  <2>1. /\ svcStep = "deploy" /\ UNCHANGED <<commits, cr, cached>>
        /\ ServiceRetry \/ ServiceContinue("deployed", sent)
    BY <1>9 DEF ServiceDeploy, gitVars, cacheVars
  <2>2. Asks(sent, svcCopy) /\ sent.exists
    BY <1>6, <2>1 DEF Asks, KeptnService, EventOf
  <2> HIDE DEF sent
  <2> QED
    BY <1>5, <1>6, <1>9, <2>1, <2>2 DEF ServiceRetry, ServiceContinue
<1>10. ASSUME NEW answer \in Answers, ServiceDelete(answer), ProjectWaits PROVE Traced'
  <2> DEFINE safe == [svcCopy EXCEPT !.SafeToDelete = TRUE]
  <2>1. /\ svcStep = "delete" /\ UNCHANGED <<commits, cr, cached>>
        /\ ServiceRetry \/ ServiceContinue("update", safe)
    BY <1>10 DEF ServiceDelete, gitVars, cacheVars
  <2>2. Asks(safe, svcCopy) /\ safe.exists
    BY <1>6, <2>1 DEF Asks, KeptnService, EventOf
  <2> HIDE DEF safe
  <2> QED
    BY <1>5, <1>6, <1>10, <2>1, <2>2 DEF ServiceRetry, ServiceContinue
<1>11. ASSUME NEW result \in Results, ServiceUpdate(result), ProjectWaits PROVE Traced'
  <2>1. /\ svcStep # "idle" /\ ServiceDone
        /\ UNCHANGED <<commits, cached>>
        /\ UpdateCR("service", svcKey, svcCopy, result)
    BY <1>11 DEF ServiceUpdate, gitVars, cacheVars
  <2>2. WorkersFit'
    BY <1>1, <1>11, <2>1 DEF ServiceDone
  <2>3. ASSUME NEW s \in Services PROVE TracedOf(s)'
    <3>1. cr'[s] = cr[s] \/ (svcKey = s /\ cr'[s] = svcCopy)
      <4>1. svcKey \in Services /\ svcCopy \in KeptnService
        BY <1>6, <2>1
      <4>2. /\ \A x \in Services \ {svcKey} : cr'[x] = cr[x]
            /\ cr'[svcKey] = cr[svcKey] \/ cr'[svcKey] = svcCopy
        BY <2>1, <4>1, UpdateEffect
      <4> QED
        BY <4>2
    <3>2. svcKey' # s
      BY <2>1, NoServiceAssumption DEF ServiceDone, NoServiceAssumption
    <3> QED
      BY <1>11, <2>1, <3>1, <3>2, CopyIsTraced
  <2> QED
    BY <2>2, <2>3 DEF Traced
<1> QED
  BY <1>3, <1>4, <1>7, <1>8, <1>9, <1>10, <1>11 DEF ServiceController, ServiceRequest

(* When the worker of the KeptnServices rests, the copies of a service are     *)
(* backed if what is new among them is.                                        *)
LEMMA OthersTraced ==
  ASSUME TypeOK, TypeOK', LogGrows, Traced, NEW s \in Services,
         UNCHANGED serviceVars,
         cr'[s] = cr[s] \/ Backed(commits, Seen, s, cr'[s]),
         cached'[s] \in {cached[s], cr[s]},
         target' = s => \/ UNCHANGED <<target, pCopy>>
                        \/ Backed(commits, Seen, s, pCopy')
  PROVE  TracedOf(s)'
<1>1. TracedOf(s)
  BY DEF Traced
<1>2. Backed(commits, Seen, s, cr'[s]) /\ Backed(commits, Seen, s, cached'[s])
  BY <1>1 DEF TracedOf
<1>3. /\ svcKey' = s => Backed(commits, Seen, s, svcCopy')
      /\ target' = s => Backed(commits, Seen, s, pCopy')
  BY <1>1 DEF TracedOf, serviceVars
<1> QED
  BY <1>2, <1>3, TracedNext

(* Every step of the KeptnProject controller keeps Traced: a resource is made  *)
(* for a listed service, marked for deletion when the configuration read does  *)
(* not list it, and triggered with its entry there and a version of the branch.*)
LEMMA ProjectTraced ==
  ASSUME "version" \notin FaultKinds,
         TypeOK, TypeOK', LogGrows, Traced, ProjectController
  PROVE  Traced'
<1> USE DEF ServiceWaits
<1>0. /\ WorkersFit /\ \A s \in Services : TracedOf(s)
      /\ Tip \in Nat \ {0} /\ Len(commits) = Tip
  BY BranchType DEF Traced, TypeOK, Tip
<1>1. ASSUME UNCHANGED <<commits, serviceVars>>,
             \/ pStep' = "idle" /\ config' = 0
             \/ /\ UNCHANGED config
                /\ \/ UNCHANGED pStep
                   \/ pStep \in {"idle", "clone"} /\ pStep' \in {"idle", "clone"}
                   \/ pStep = "create" /\ pStep' = "trigger"
                /\ todo' \subseteq todo \/ todo' \subseteq Listed(config)
             \/ pStep' = "create" /\ todo' \subseteq Listed(config') /\ commits[config'].configured
      PROVE  WorkersFit'
  BY <1>0, <1>1 DEF WorkersFit, Listed, serviceVars
<1>2. ASSUME UNCHANGED <<serviceVars, cr, cached>>,
             target' = NoTarget \/ UNCHANGED <<target, pCopy>>
      PROVE  \A s \in Services : TracedOf(s)'
  <2> SUFFICES ASSUME NEW s \in Services PROVE TracedOf(s)'
    OBVIOUS
  <2>1. target' = s => UNCHANGED <<target, pCopy>>
    BY <1>2, NoTargetAssumption DEF NoTargetAssumption
  <2> QED
    BY <1>2, <2>1, OthersTraced
<1>3. ASSUME Forget PROVE pStep' = "idle" /\ config' = 0 /\ target' = NoTarget
  BY <1>3 DEF Forget
<1>4. ASSUME ProjectStart \/ ProjectClone \/ ProjectCloneFails \/ ProjectCompare, ServiceWaits
      PROVE  Traced'
  <2>1. UNCHANGED <<commits, serviceVars, cr, cached>>
    BY <1>4 DEF ProjectStart, ProjectClone, ProjectCloneFails, ProjectCompare,
                gitVars, apiVars, cacheVars, clusterVars
  <2>2. target' = NoTarget \/ UNCHANGED <<target, pCopy>>
    BY <1>3, <1>4 DEF ProjectStart, ProjectClone, ProjectCloneFails, ProjectCompare, ProjectDone
  <2>3. CASE ProjectStart
    BY <1>1, <1>2, <2>1, <2>2, <2>3 DEF ProjectStart, Traced
  <2>4. CASE ProjectClone
    BY <1>1, <1>2, <1>3, <2>1, <2>2, <2>4 DEF ProjectClone, ProjectDone, Traced
  <2>5. CASE ProjectCloneFails
    BY <1>1, <1>2, <1>3, <2>1, <2>2, <2>5 DEF ProjectCloneFails, ProjectDone, Traced
  <2>6. CASE ProjectCompare
    BY <1>1, <1>2, <2>1, <2>2, <2>6 DEF ProjectCompare, Traced
  <2> QED
    BY <1>4, <2>3, <2>4, <2>5, <2>6
<1>5. ASSUME NEW k \in Services, NEW result \in Results,
             ProjectCreate(k, result), ServiceWaits
      PROVE  Traced'
  <2>1. /\ pStep = "create" /\ k \in todo
        /\ UNCHANGED <<commits, serviceVars, cached>>
        /\ \/ todo' = todo \ {k} /\ UNCHANGED <<pStep, config, target, pCopy>>
           \/ Forget
        /\ UNCHANGED <<cr, fresh>> \/ CreateCR(k, NewKeptnService, result)
    BY <1>5 DEF ProjectCreate, ProjectDone, gitVars, apiVars, cacheVars
  <2>2. WorkersFit'
    BY <1>1, <1>3, <2>1
  <2>3. Backed(commits, Seen, k, NewKeptnService)
    <3>1. config \in 1..Tip /\ Seen = config /\ commits[config].trigger[k] # NoTrigger
      BY <1>0, <2>1 DEF WorkersFit, Seen, Listed, TypeOK, ProjectTypeOK
    <3>2. ~NewKeptnService.DeletionPending /\ ~NewKeptnService.DeploymentPending
      BY DEF NewKeptnService, Zero
    <3> QED
      BY <3>1, <3>2 DEF Backed, HasLister
  <2>4. ASSUME NEW s \in Services PROVE TracedOf(s)'
    <3>1. cr'[s] = cr[s] \/ (s = k /\ cr'[s] = NewKeptnService)
      BY <2>1, CreateEffect, ZeroType
    <3>2. target' = s => UNCHANGED <<target, pCopy>>
      BY <1>3, <2>1, NoTargetAssumption DEF NoTargetAssumption
    <3> QED
      BY <2>1, <2>3, <3>1, <3>2, OthersTraced
  <2> QED
    BY <2>2, <2>4 DEF Traced
<1>6. ASSUME NEW k \in Services, NEW result \in Results,
             ProjectRemove(k, result), ServiceWaits
      PROVE  Traced'
  <2> DEFINE marked == [cached[k] EXCEPT !.DeletionPending = TRUE]
  <2>1. /\ pStep = "create" /\ cached[k].exists /\ k \notin Listed(config)
        /\ UNCHANGED <<commits, serviceVars, cached>>
        /\ Forget
        /\ DeleteCR(k, result) \/ UpdateCR("cache", k, marked, result)
    BY <1>6 DEF ProjectRemove, ProjectDone, Unlisted, gitVars, cacheVars
  <2>2. WorkersFit'
    BY <1>1, <1>3, <2>1
  <2>3. /\ marked \in KeptnService
        /\ marked.exists = cached[k].exists
        /\ marked.DeploymentPending = cached[k].DeploymentPending
        /\ EventOf(marked) = EventOf(cached[k])
    <3>1. cached[k] \in KeptnService
      BY DEF TypeOK, ClusterTypeOK
    <3> QED
      BY <3>1 DEF KeptnService, EventOf
  <2> HIDE DEF marked
  <2>4. Backed(commits, Seen, k, marked)
    <3>1. Backed(commits, Seen, k, cached[k])
      BY <1>0 DEF TracedOf
    <3>2. config \in 1..Tip /\ Seen = config
          /\ commits[config].trigger[k] = NoTrigger /\ commits[config].configured
      BY <1>0, <2>1 DEF WorkersFit, Seen, Listed, TypeOK, ProjectTypeOK
    <3>3. PICK i \in 1..config : commits[i].trigger[k] # NoTrigger
      BY <2>1, <3>1, <3>2 DEF Backed, HasLister
    <3>4. i \in 1..Len(commits) /\ config \in 1..Len(commits) /\ i < config
      BY <1>0, <3>2, <3>3
    <3>5. HasDropper(commits, k)
      BY <3>2, <3>3, <3>4 DEF HasDropper
    <3> QED
      BY <2>3, <3>1, <3>5 DEF Backed
  <2>5. ASSUME NEW s \in Services PROVE TracedOf(s)'
    <3>1. cr'[s] = cr[s] \/ (s = k /\ cr'[s] \in {marked, Zero})
      <4>1. CASE DeleteCR(k, result)
        BY <4>1, DeleteEffect
      <4>2. CASE UpdateCR("cache", k, marked, result)
        BY <2>3, <4>2, UpdateEffect
      <4> QED
        BY <2>1, <4>1, <4>2
    <3>2. cr'[s] = cr[s] \/ Backed(commits, Seen, s, cr'[s])
      BY <2>4, <3>1, ZeroIsBacked
    <3>3. target' # s
      BY <1>3, <2>1, NoTargetAssumption DEF NoTargetAssumption
    <3> QED
      BY <2>1, <3>2, <3>3, OthersTraced
  <2> QED
    BY <2>2, <2>5 DEF Traced
<1>7. ASSUME NEW k \in Services, NEW version \in Versions \union {NoVersion},
             ProjectGetVersion(k, version), ServiceWaits
      PROVE  Traced'
  <2> DEFINE trigger == commits[config].trigger[k]
             wanted == Wanted(cached[k], version, trigger)
  <2>1. /\ pStep = "trigger" /\ k \in todo
        /\ version = commits[Tip].version[k]
        /\ UNCHANGED <<commits, serviceVars, cr, cached, pStep, config>>
        /\ todo' = todo \ {k}
    BY <1>7 DEF ProjectGetVersion, GetServiceVersion, Fault, gitVars, cacheVars
  <2>2. (target' = k /\ pCopy' = wanted) \/ UNCHANGED <<target, pCopy>>
    BY <1>7, Zenon DEF ProjectGetVersion, Wanted
  <2>3. config \in 1..Len(commits) /\ Tip \in 1..Len(commits) /\ trigger # NoTrigger
    BY <1>0, <2>1 DEF WorkersFit, Listed, TypeOK, ProjectTypeOK
  <2>4. /\ wanted.exists = cached[k].exists
        /\ wanted.DeletionPending = cached[k].DeletionPending
        /\ EventOf(wanted) = [version |-> version, trigger |-> trigger]
    <3>1. cached[k] \in KeptnService
      BY DEF TypeOK, ClusterTypeOK
    <3> HIDE DEF trigger
    <3> QED
      BY <3>1 DEF KeptnService, EventOf, Wanted
  <2>5. HasEvent(commits, k, EventOf(wanted))
    <3> HIDE DEF wanted
    <3> QED
      BY <1>0, <2>1, <2>3, <2>4 DEF HasEvent
  <2>6. Backed(commits, Seen, k, wanted)
    <3>1. Backed(commits, Seen, k, cached[k])
      BY <1>0 DEF TracedOf
    <3> HIDE DEF wanted
    <3> QED
      BY <2>4, <2>5, <3>1 DEF Backed
  <2> HIDE DEF wanted
  <2>7. WorkersFit'
    BY <1>1, <2>1
  <2>8. ASSUME NEW s \in Services PROVE TracedOf(s)'
    <3>1. target' = s => UNCHANGED <<target, pCopy>> \/ Backed(commits, Seen, s, pCopy')
      BY <2>2, <2>6
    <3> QED
      BY <2>1, <3>1, OthersTraced
  <2> QED
    BY <2>7, <2>8 DEF Traced
<1>8. ASSUME NEW result \in Results, ProjectTrigger(result), ServiceWaits
      PROVE  Traced'
  <2>1. /\ target \in Services /\ pCopy \in KeptnService
        /\ UNCHANGED <<commits, serviceVars, cached>>
        /\ UpdateCR("project", target, pCopy, result)
        /\ \/ target' = NoTarget /\ UNCHANGED <<pStep, config, todo>>
           \/ Forget
    BY <1>8 DEF ProjectTrigger, ProjectDone, gitVars, cacheVars, TypeOK, ProjectTypeOK
  <2>2. WorkersFit'
    BY <1>1, <1>3, <2>1
  <2>3. ASSUME NEW s \in Services PROVE TracedOf(s)'
    <3>1. /\ \A x \in Services \ {target} : cr'[x] = cr[x]
          /\ cr'[target] = cr[target] \/ cr'[target] = pCopy
      BY <2>1, UpdateEffect
    <3>2. cr'[s] = cr[s] \/ Backed(commits, Seen, s, cr'[s])
      BY <1>0, <3>1 DEF TracedOf
    <3>3. target' # s
      BY <1>3, <2>1, NoTargetAssumption DEF NoTargetAssumption
    <3> QED
      BY <2>1, <3>2, <3>3, OthersTraced
  <2> QED
    BY <2>2, <2>3 DEF Traced
<1>9. ASSUME NEW result \in Results, ProjectRecord(result), ServiceWaits
      PROVE  Traced'
  <2>1. UNCHANGED <<commits, serviceVars, cr, cached>> /\ Forget
    BY <1>9 DEF ProjectRecord, ProjectDone, gitVars, apiVars, cacheVars
  <2> QED
    BY <1>1, <1>2, <1>3, <2>1 DEF Traced
<1> QED
  BY <1>4, <1>5, <1>6, <1>7, <1>8, <1>9 DEF ProjectController, ProjectRequest

(* Watch events and restarts copy what is stored; pushes lengthen the branch. *)
LEMMA SurroundingsTraced ==
  ASSUME TypeOK, TypeOK', LogGrows, Traced, Informers \/ Environment \/ Restart
  PROVE  Traced'
<1>0. WorkersFit /\ \A s \in Services : TracedOf(s)
  BY DEF Traced
<1>1. ASSUME BothWait, UNCHANGED cr,
             \A s \in Services : cached'[s] \in {cached[s], cr[s]}
      PROVE  Traced'
  <2>1. UNCHANGED serviceVars /\ UNCHANGED reconcileVars
    BY <1>1 DEF BothWait, ServiceWaits, ProjectWaits
  <2>2. config # 0 => commits'[config] = commits[config]
    BY SeenType DEF LogGrows, TypeOK, ProjectTypeOK
  <2>3. WorkersFit'
    BY <1>0, <2>1, <2>2 DEF WorkersFit, Listed, serviceVars, reconcileVars, TypeOK, ProjectTypeOK
  <2>4. ASSUME NEW s \in Services PROVE TracedOf(s)'
    BY <1>1, <2>1, OthersTraced DEF reconcileVars
  <2> QED
    BY <2>3, <2>4 DEF Traced
<1>2. ASSUME NEW k \in Services, Sync(k), BothWait PROVE Traced'
  <2>1. UNCHANGED cr /\ \A s \in Services : cached'[s] \in {cached[s], cr[s]}
    BY <1>2 DEF Sync, TypeOK, ClusterTypeOK
  <2> QED
    BY <1>1, <1>2, <2>1
<1>3. ASSUME SyncProject \/ Push \/ EditProject, BothWait PROVE Traced'
  <2>1. UNCHANGED <<cr, cached>>
    BY <1>3 DEF SyncProject, Push, EditProject, apiVars, cacheVars
  <2> QED
    BY <1>1, <1>3, <2>1
<1>4. ASSUME Restart PROVE Traced'
  <2>1. /\ UNCHANGED <<commits, cr>> /\ cached' = cr
        /\ svcStep' = "idle" /\ svcKey' \notin Services
        /\ pStep' = "idle" /\ config' = 0 /\ target' \notin Services
    BY <1>4, NoServiceAssumption, NoTargetAssumption
       DEF Restart, RestartCluster, ServiceDone, Forget, gitVars,
           NoServiceAssumption, NoTargetAssumption
  <2>2. WorkersFit'
    BY <2>1 DEF WorkersFit
  <2>3. ASSUME NEW s \in Services PROVE TracedOf(s)'
    <3>1. Backed(commits, Seen, s, cr'[s]) /\ Backed(commits, Seen, s, cached'[s])
      BY <1>0, <2>1 DEF TracedOf
    <3> QED
      BY <2>1, <3>1, TracedNext
  <2> QED
    BY <2>2, <2>3 DEF Traced
<1> QED
  BY <1>2, <1>3, <1>4 DEF Informers, Environment

(* At the start there is no resource and no work. *)
LEMMA InitTraced == Init => Traced
<1> SUFFICES ASSUME Init PROVE Traced
  OBVIOUS
<1>1. /\ \A s \in Services : cr[s] = Zero /\ cached[s] = Zero
      /\ svcStep = "idle" /\ svcCopy = Zero /\ pStep = "idle" /\ config = 0 /\ pCopy = Zero
  BY DEF Init, ClusterInit, ServiceInit, ProjectInit
<1>2. WorkersFit
  BY <1>1 DEF WorkersFit
<1>3. ASSUME NEW s \in Services PROVE TracedOf(s)
  BY <1>1, ZeroIsBacked DEF TracedOf
<1> QED
  BY <1>2, <1>3 DEF Traced

(* Every step keeps Traced. *)
LEMMA NextTraced ==
  ASSUME "version" \notin FaultKinds, TypeOK, TypeOK', Traced, [Next]_vars
  PROVE  Traced'
<1>1. LogGrows
  BY Grows DEF Traced
<1>2. CASE Next
  BY <1>1, <1>2, ServiceTraced, ProjectTraced, SurroundingsTraced DEF Next
<1>3. CASE UNCHANGED vars
  <2>1. UNCHANGED <<commits, cr, cached, svcKey, svcStep, svcCopy, pStep, config, todo, target, pCopy>>
    BY <1>3 DEF vars, clusterVars, serviceVars, reconcileVars
  <2>2. WorkersFit'
    BY <2>1 DEF WorkersFit, Traced, Listed
  <2>3. ASSUME NEW s \in Services PROVE TracedOf(s)'
    BY <1>1, <2>1, OthersTraced DEF serviceVars
  <2> QED
    BY <2>2, <2>3 DEF Traced
<1> QED
  BY <1>2, <1>3

--------------------------------------------------------------------------------
(* What a copy asks for may be asked of Keptn. *)
LEMMA BackedMeans ==
  ASSUME TypeOK, NEW s \in Services, NEW r, Backed(commits, Seen, s, r)
  PROVE  /\ r.exists => Lifecycle!Wanted(s)
         /\ r.DeletionPending => Lifecycle!Dropped(s)
         /\ r.DeploymentPending => Lifecycle!FromGit(s, EventOf(r))
<1>1. Seen \in 1..Len(commits)
  BY SeenType
<1>2. r.exists => Lifecycle!Wanted(s)
  BY <1>1, SeenType DEF Backed, HasLister, Lifecycle!Wanted, Lifecycle!Lists
<1>3. r.DeletionPending => Lifecycle!Dropped(s)
  BY DEF Backed, HasDropper, Lifecycle!Dropped, Lifecycle!Drops, Lifecycle!Lists
<1>4. r.DeploymentPending => Lifecycle!FromGit(s, EventOf(r))
  BY DEF Backed, HasEvent, Lifecycle!FromGit, Lifecycle!Lists
<1> QED
  BY <1>2, <1>3, <1>4

(* The first commit, services created by hand, and no deployment. *)
LEMMA InitLifecycle == Init => Lifecycle!LifecycleInit
<1> SUFFICES ASSUME Init PROVE Lifecycle!LifecycleInit
  OBVIOUS
<1>1. Len(commits) = 1
  BY DEF Init, ClusterInit
<1>2. keptn \subseteq Services /\ \A s \in Services : accepted[s].trigger = NoTrigger
  BY DEF Init, ClusterInit, NoEvent
<1> QED
  BY <1>1, <1>2 DEF Lifecycle!LifecycleInit

(* A request of the KeptnService worker maps to what Keptn does with it, if  *)
(* anything, a push to a push, and every other step to nothing.              *)
LEMMA NextLifecycle ==
  ASSUME TypeOK, Traced, [Next]_vars
  PROVE  [Lifecycle!LifecycleNext]_<<commits, keptn, accepted>>
<1>0. WorkersFit /\ \A s \in Services : TracedOf(s)
  BY DEF Traced
<1>1. ASSUME svcStep # "idle"
      PROVE  /\ svcKey \in Services
             /\ Lifecycle!Wanted(svcKey)
             /\ svcStep = "deploy" => Lifecycle!FromGit(svcKey, EventOf(svcCopy))
             /\ svcStep = "delete" => Lifecycle!Dropped(svcKey)
  <2>1. svcKey \in Services /\ svcCopy.exists
    BY <1>0, <1>1 DEF WorkersFit, TypeOK, ServiceTypeOK
  <2>2. Backed(commits, Seen, svcKey, svcCopy)
    BY <1>0, <2>1 DEF TracedOf
  <2> QED
    BY <1>0, <2>1, <2>2, BackedMeans DEF WorkersFit
<1>2. ASSUME NEW answer \in Answers, ServiceCreate(answer)
      PROVE  [Lifecycle!LifecycleNext]_<<commits, keptn, accepted>>
  <2>1. /\ svcStep = "create" /\ UNCHANGED <<commits, accepted>>
        /\ keptn' = keptn \union {svcKey} \/ keptn' = keptn
    BY <1>2 DEF ServiceCreate, createService, gitVars
  <2> QED
    BY <1>1, <2>1 DEF Lifecycle!LifecycleNext, Lifecycle!Create
<1>3. ASSUME NEW answer \in Answers, ServiceDeploy(answer)
      PROVE  [Lifecycle!LifecycleNext]_<<commits, keptn, accepted>>
  <2>1. /\ svcStep = "deploy" /\ UNCHANGED <<commits, keptn>>
        /\ \/ accepted' = [accepted EXCEPT ![svcKey] = EventOf(svcCopy)]
           \/ accepted' = accepted
    BY <1>3 DEF ServiceDeploy, triggerDeployment, gitVars
  <2>2. svcKey \in Services /\ Lifecycle!FromGit(svcKey, EventOf(svcCopy))
    BY <1>1, <2>1
  <2>3. CASE accepted' = [accepted EXCEPT ![svcKey] = EventOf(svcCopy)]
    <3>1. accepted'[svcKey] = EventOf(svcCopy)
      BY <2>2, <2>3 DEF TypeOK, ClusterTypeOK
    <3> QED
      BY <2>1, <2>2, <2>3, <3>1 DEF Lifecycle!LifecycleNext, Lifecycle!Deploy
  <2> QED
    BY <2>1, <2>3
<1>4. ASSUME NEW answer \in Answers, ServiceDelete(answer)
      PROVE  [Lifecycle!LifecycleNext]_<<commits, keptn, accepted>>
  <2>1. /\ svcStep = "delete" /\ UNCHANGED <<commits, accepted>>
        /\ keptn' = keptn \ {svcKey} \/ keptn' = keptn
    BY <1>4 DEF ServiceDelete, deleteService, gitVars
  <2> QED
    BY <1>1, <2>1 DEF Lifecycle!LifecycleNext, Lifecycle!Delete
<1>5. ASSUME Push PROVE Lifecycle!LifecycleNext
  <2>1. UNCHANGED <<keptn, accepted>> /\ \E c : commits' = Append(commits, c)
    BY <1>5 DEF Push, keptnVars
  <2>2. /\ Len(commits') = Len(commits) + 1
        /\ \A i \in 1..Len(commits) : commits'[i] = commits[i]
    BY <2>1 DEF TypeOK, ClusterTypeOK
  <2> QED
    BY <2>1, <2>2 DEF Lifecycle!LifecycleNext, Lifecycle!Push
<1>6. ASSUME NEW s \in Services, ServiceGet(s) \/ ServiceNotFound(s)
      PROVE  UNCHANGED <<commits, keptn, accepted>>
  BY <1>6 DEF ServiceGet, ServiceNotFound, gitVars, keptnVars, clusterVars
<1>7. ASSUME NEW result, ServiceCheck \/ ServiceUpdate(result)
      PROVE  UNCHANGED <<commits, keptn, accepted>>
  BY <1>7 DEF ServiceCheck, ServiceUpdate, gitVars, keptnVars
<1>8. ASSUME ProjectController PROVE UNCHANGED <<commits, keptn, accepted>>
  BY <1>8 DEF ProjectController, ProjectRequest, ProjectStart, ProjectClone, ProjectCloneFails,
              ProjectCreate, ProjectRemove, ProjectCompare, ProjectGetVersion,
              ProjectTrigger, ProjectRecord, gitVars, keptnVars, clusterVars
<1>9. ASSUME Informers \/ EditProject \/ Restart PROVE UNCHANGED <<commits, keptn, accepted>>
  BY <1>9 DEF Informers, Sync, SyncProject, EditProject, Restart, RestartCluster, gitVars, keptnVars
<1>10. ASSUME ServiceController PROVE [Lifecycle!LifecycleNext]_<<commits, keptn, accepted>>
  BY <1>2, <1>3, <1>4, <1>6, <1>7, <1>10 DEF ServiceController, ServiceRequest
<1>11. ASSUME UNCHANGED vars PROVE UNCHANGED <<commits, keptn, accepted>>
  BY <1>11 DEF vars, clusterVars
<1> QED
  BY <1>5, <1>8, <1>9, <1>10, <1>11 DEF Next, Environment

(* Whatever Keptn executes follows from the branch: through stale caches,     *)
(* copies held over requests, lost answers and restarts, no service is        *)
(* created, deleted or deployed that commits do not say should be, and none   *)
(* at another version than they name.  It needs a version read from a clone:  *)
(* getServiceVersion returns the empty one when its clone fails               *)
(* (keptnproject_controller.go:331-334, run operator_empty_version).          *)
THEOREM LifecycleRefined ==
  ASSUME "version" \notin FaultKinds PROVE Spec => KeptnFollowsGit
<1>1. TypeOK /\ TypeOK' /\ Traced /\ [Next]_vars => Traced'
  BY NextTraced
<1>2. TypeOK /\ Traced /\ [Next]_vars =>
        [Lifecycle!LifecycleNext]_<<commits, keptn, accepted>>
  BY NextLifecycle
<1> QED
  BY <1>1, <1>2, InitTraced, InitLifecycle, TypeCorrect, PTL
     DEF Spec, KeptnFollowsGit, Lifecycle!LifecycleSpec
================================================================================
