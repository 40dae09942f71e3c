----------------------------- MODULE VersionProofs -----------------------------
(***************************************************************************)
(* Which versions reach the resources and Keptn: what LastMainCommit       *)
(* promises, and the order of the deployments, for any services, branch    *)
(* contents and number of faults.                                          *)
(***************************************************************************)
EXTENDS GitOperatorProofs

--------------------------------------------------------------------------------
(* The log is a parameter, so that a step's old and new branch can be *)
(* compared.                                                          *)

(* One of the first n commits names v, or every new resource has it. *)
NamedBy(log, n, s, v) == v = NoVersion \/ \E e \in 1..n : log[e].version[s] = v

(* v was there, and at that commit or later s was not listed, or another *)
(* version named.                                                        *)
Replaced(log, s, v) ==
  \E b \in 1..Len(log) :
    /\ log[b].trigger[s] = NoTrigger \/ log[b].version[s] # v
    /\ NamedBy(log, b, s, v)

(* One log is the beginning of another. *)
Begins(log, longer) ==
  /\ Len(log) \in Nat /\ Len(longer) \in Nat /\ Len(log) <= Len(longer)
  /\ \A i \in 1..Len(log) : longer[i] = log[i]

(* What a log names it goes on naming when it grows. *)
LEMMA NamedKept ==
  ASSUME NEW log, NEW longer, Begins(log, longer), NEW n \in Nat, NEW m \in Nat,
         n <= Len(log), n <= m, NEW s, NEW v, NamedBy(log, n, s, v)
  PROVE  NamedBy(longer, m, s, v)
  BY DEF Begins, NamedBy

(* What was replaced stays so. *)
LEMMA ReplacedKept ==
  ASSUME NEW log, NEW longer, Begins(log, longer), NEW s, NEW v, Replaced(log, s, v)
  PROVE  Replaced(longer, s, v)
<1>1. PICK b \in 1..Len(log) : /\ log[b].trigger[s] = NoTrigger \/ log[b].version[s] # v
                               /\ NamedBy(log, b, s, v)
  BY DEF Replaced
<1>2. b \in 1..Len(longer) /\ longer[b] = log[b] /\ b \in Nat
  BY DEF Begins
<1>3. NamedBy(longer, b, s, v)
  BY <1>1, <1>2, NamedKept DEF Begins
<1> QED
  BY <1>1, <1>2, <1>3 DEF Replaced

(* Where any version was replaced, the first one was. *)
LEMMA FirstIsReplaced ==
  ASSUME NEW log, Len(log) \in Nat, NEW s, NEW v, Replaced(log, s, v)
  PROVE  Replaced(log, s, NoVersion)
<1>1. PICK b \in 1..Len(log) : /\ log[b].trigger[s] = NoTrigger \/ log[b].version[s] # v
                               /\ NamedBy(log, b, s, v)
  BY DEF Replaced
<1>2. CASE log[b].trigger[s] = NoTrigger \/ log[b].version[s] # NoVersion
  BY <1>2 DEF Replaced, NamedBy
<1>3. CASE log[b].version[s] = NoVersion /\ log[b].version[s] # v
  <2>1. PICK e \in 1..b : log[e].version[s] = v
    BY <1>1, <1>3 DEF NamedBy
  <2>2. e \in 1..Len(log) /\ log[e].version[s] # NoVersion
    BY <1>3, <2>1
  <2> QED
    BY <2>2 DEF Replaced, NamedBy
<1> QED
  BY <1>1, <1>2, <1>3

(* A version that the last commit does not name is replaced. *)
LEMMA LastReplaces ==
  ASSUME NEW log, Len(log) \in Nat \ {0}, NEW s, NEW v,
         NamedBy(log, Len(log), s, v), log[Len(log)].version[s] # v
  PROVE  Replaced(log, s, v)
  BY DEF Replaced

(* The version of the last commit was replaced exactly when it returns. *)
LEMMA ReturnsIsReplaced ==
  ASSUME TypeOK, NEW s \in Services
  PROVE  Returns(Tip, s) <=> Replaced(commits, s, commits[Tip].version[s])
<1>1. \A b \in 1..Tip : s \notin Listed(b) <=> commits[b].trigger[s] = NoTrigger
  BY DEF Listed
<1> QED
  BY <1>1 DEF Returns, Replaced, NamedBy, Tip

--------------------------------------------------------------------------------
(* The inductive invariant behind RecordedCommitIsDesired. *)

(* The commits whose versions may have been read: while KeptnServices are    *)
(* made and removed, none after the one whose configuration is acted upon.   *)
ReadSoFar == IF pStep = "create" THEN config ELSE Tip

Desired(s) ==
  \/ cr[s].exists /\ cr[s].DesiredVersion = commits[Tip].version[s]
  \/ Replaced(commits, s, commits[Tip].version[s])

(* A fresh copy is a copy of what is stored; what the project worker holds *)
(* replaces it.                                                            *)
CopiesFit(s) ==
  /\ "cache" \in fresh[s] => cached[s] = cr[s]
  /\ fresh[s] # {} => "cache" \in fresh[s]
  /\ "service" \in fresh[s] =>
       /\ svcKey = s
       /\ svcStep # "idle"
       /\ svcCopy.DesiredVersion = cr[s].DesiredVersion
  /\ "project" \in fresh[s] =>
       target = s /\ Replaced(commits, s, cr[s].DesiredVersion)
  /\ ~cr[s].exists => cr[s] = Zero
  /\ ~cached[s].exists => cached[s] = Zero

(* Versions come from the branch.  A cached one that is not the stored one, *)
(* or is of a resource that is gone, has been replaced.                     *)
VersionsFit(s) ==
  /\ NamedBy(commits, ReadSoFar, s, cr[s].DesiredVersion)
  /\ NamedBy(commits, ReadSoFar, s, cached[s].DesiredVersion)
  /\ target = s => /\ pStep = "trigger"
                   /\ NamedBy(commits, Tip, s, pCopy.DesiredVersion)
                   /\ mainHead = Tip => pCopy.DesiredVersion = commits[Tip].version[s]
  /\ \/ /\ cached[s].DesiredVersion = cr[s].DesiredVersion
        /\ cached[s].exists => cr[s].exists
     \/ Replaced(commits, s, cached[s].DesiredVersion)

(* What the reconciliation under way has achieved, and the last one that was *)
(* recorded.                                                                 *)
AchievedOf(s) ==
  /\ \/ pStep = "create" /\ s \in Listed(config) \ todo
     \/ pStep = "trigger" /\ s \in Listed(config)
     => cr[s].exists \/ Replaced(commits, s, NoVersion)
  /\ /\ pStep = "trigger" /\ lastMain # mainHead /\ mainHead = Tip
     /\ s \in Listed(config) \ todo /\ s # target
     => Desired(s)
  /\ proj = Tip /\ s \in Listed(Tip) => Desired(s)

RecordOf(s) == CopiesFit(s) /\ VersionsFit(s) /\ AchievedOf(s)

(* The hashes that the project worker compares. *)
HashesFit ==
  /\ "cache" \in projFresh => projCached = proj
  /\ "project" \in projFresh => pStep # "idle" /\ lastMain = proj
  /\ pStep # "idle" => proj <= mainHead
  /\ pStep \in {"create", "trigger"} => mainHead <= config

RecordInv == HashesFit /\ \A s \in Services : RecordOf(s)

--------------------------------------------------------------------------------
(* The hashes keep fitting. *)
LEMMA HashesKept ==
  ASSUME TypeOK, TypeOK', HashesFit, [Next]_vars
  PROVE  HashesFit'
<1> USE DEF HashesFit
<1>t. /\ Tip \in Nat /\ proj \in 0..Tip /\ projCached \in 0..Tip /\ mainHead \in 0..Tip
      /\ lastMain \in 0..Tip /\ config \in 0..Tip
  BY BranchType DEF TypeOK, ClusterTypeOK, ProjectTypeOK
<1>1. CASE UNCHANGED <<proj, projCached, projFresh, pStep, mainHead, lastMain, config>>
  BY <1>1
<1>2. ASSUME ServiceController
      PROVE  UNCHANGED <<proj, projCached, projFresh, pStep, mainHead, lastMain, config>>
  BY <1>2 DEF ServiceController, ServiceRequest, ServiceGet, ServiceNotFound, ServiceCheck,
              ServiceCreate, ServiceDeploy, ServiceDelete, ServiceUpdate, projectVars,
              cacheVars, clusterVars, ProjectWaits, reconcileVars
<1>3. ASSUME ProjectDone, UNCHANGED <<proj, projCached>> PROVE HashesFit'
  BY <1>3 DEF ProjectDone, Forget
<1>4. CASE ProjectStart
  BY <1>4, <1>t DEF ProjectStart, cacheVars, TypeOK, ClusterTypeOK
<1>5. CASE ProjectClone
  <2>1. UNCHANGED <<proj, projCached>>
    BY <1>5 DEF ProjectClone, cacheVars
  <2>2. CASE ProjectDone
    BY <1>3, <2>1, <2>2
  <2>3. CASE pStep = "clone" /\ config' = Tip /\ pStep' = "create"
             /\ UNCHANGED <<mainHead, lastMain, projFresh>>
    BY <1>t, <2>1, <2>3
  <2> QED
    BY <1>5, <2>2, <2>3 DEF ProjectClone
<1>6. ASSUME NEW result,
             \/ ProjectCloneFails
             \/ \E s \in Services : ProjectCreate(s, result) \/ ProjectRemove(s, result)
             \/ ProjectTrigger(result)
      PROVE  HashesFit'
  <2>1. /\ UNCHANGED <<proj, projCached>>
        /\ ProjectDone \/ UNCHANGED <<pStep, mainHead, lastMain, config, projFresh>>
    BY <1>6 DEF ProjectCreate, ProjectRemove, ProjectTrigger, ProjectCloneFails, cacheVars
  <2> QED
    BY <1>3, <2>1
<1>7. CASE ProjectCompare
  BY <1>7 DEF ProjectCompare, clusterVars
<1>8. ASSUME NEW s \in Services, NEW version \in Versions \union {NoVersion},
             ProjectGetVersion(s, version)
      PROVE  HashesFit'
  BY <1>8 DEF ProjectGetVersion, projectVars, cacheVars
<1>9. ASSUME NEW result \in Results, ProjectRecord(result) PROVE HashesFit'
  <2>1. UNCHANGED projCached
    BY <1>9 DEF ProjectRecord, cacheVars
  <2>2. CASE projFresh' = {} /\ Forget
    BY <2>2 DEF Forget
  <2>3. CASE UNCHANGED proj /\ ProjectDone
    BY <1>3, <2>1, <2>3
  <2> QED
    BY <1>9, <2>2, <2>3 DEF ProjectRecord
<1>10. CASE ProjectController
  BY <1>4, <1>5, <1>6, <1>7, <1>8, <1>9, <1>10 DEF ProjectController, ProjectRequest
<1>11. CASE Restart
  BY <1>11 DEF Restart, RestartCluster, Forget
<1>12. CASE Informers \/ Environment
  BY <1>12 DEF Informers, Environment, Sync, SyncProject, Push, EditProject, BothWait,
               ProjectWaits, reconcileVars, projectVars, cacheVars
<1>13. CASE UNCHANGED vars
  BY <1>1, <1>13 DEF vars, clusterVars, reconcileVars
<1> QED
  BY <1>1, <1>2, <1>10, <1>11, <1>12, <1>13 DEF Next

--------------------------------------------------------------------------------
(* The branch is only ever appended to, and by pushes alone. *)
LEMMA BranchGrows ==
  ASSUME TypeOK, Push
  PROVE  /\ Begins(commits, commits')
         /\ Len(commits) = Tip /\ Tip' = Tip + 1
<1>1. commits \in Seq(Commit) /\ Len(commits) \in Nat
  BY DEF TypeOK, ClusterTypeOK
<1>2. PICK c : commits' = Append(commits, c)
  BY DEF Push
<1>3. Len(commits') = Len(commits) + 1 /\ \A i \in 1..Len(commits) : commits'[i] = commits[i]
  BY <1>1, <1>2
<1> QED
  BY <1>1, <1>3 DEF Begins, Tip

(* What was named by n commits is named by more of the same branch. *)
LEMMA NamedMore ==
  ASSUME TypeOK, NEW n \in 0..Tip, NEW s, NEW v, NamedBy(commits, n, s, v)
  PROVE  NamedBy(commits, Tip, s, v)
<1>1. Begins(commits, commits) /\ Len(commits) = Tip /\ Tip \in Nat
  BY BranchType DEF Begins, TypeOK, Tip
<1> QED
  BY <1>1, NamedKept

(* The last step or two of a reconciliation: the worker forgets what it read *)
(* while the resource stays, or is written without changing its version.     *)
LEMMA RecordEnds ==
  ASSUME TypeOK, NEW s \in Services, RecordOf(s), Forget,
         UNCHANGED <<commits, serviceVars>>, UNCHANGED cached[s],
         proj' = proj \/ (proj' = Tip /\ s \in Listed(Tip) => Desired(s)),
         \/ /\ cr'[s] = cr[s]
            /\ fresh'[s] \subseteq fresh[s] /\ "project" \notin fresh'[s]
            /\ fresh'[s] # {} => "cache" \in fresh'[s]
         \/ /\ fresh'[s] = {} /\ cr'[s].exists
            /\ cr'[s].DesiredVersion = cr[s].DesiredVersion
  PROVE  RecordOf(s)'
<1> USE DEF Forget, Tip, Listed, serviceVars
<1>t. ReadSoFar \in 0..Tip /\ ReadSoFar' = Tip
  BY BranchType DEF ReadSoFar, TypeOK, ProjectTypeOK
<1>1. CopiesFit(s)'
  BY NoTargetAssumption DEF RecordOf, CopiesFit, NoTargetAssumption
<1>2. VersionsFit(s)'
  <2>1. \A v : NamedBy(commits, ReadSoFar, s, v) => NamedBy(commits, Tip, s, v)
    BY <1>t, NamedMore
  <2> QED
    BY <1>t, <2>1, NoTargetAssumption DEF RecordOf, VersionsFit, NoTargetAssumption
<1>3. AchievedOf(s)'
  BY DEF RecordOf, AchievedOf, Desired
<1> QED
  BY <1>1, <1>2, <1>3 DEF RecordOf

(* A step of the KeptnService controller: the version that the resource asks *)
(* for stays, and the resource.                                              *)
LEMMA RecordKept ==
  ASSUME TypeOK, NEW s \in Services, RecordOf(s),
         UNCHANGED <<commits, proj, reconcileVars>>, UNCHANGED cached[s],
         \/ cr'[s] = cr[s]
         \/ /\ fresh'[s] = {} /\ cr'[s].exists
            /\ cr'[s].DesiredVersion = cr[s].DesiredVersion,
         fresh'[s] # {} => "cache" \in fresh'[s],
         fresh'[s] \subseteq fresh[s] \union {"service"},
         "service" \in fresh'[s] =>
           /\ svcKey' = s
           /\ svcStep' # "idle"
           /\ svcCopy'.DesiredVersion = cr[s].DesiredVersion
  PROVE  RecordOf(s)'
<1> USE DEF reconcileVars, Tip, Listed
<1>1. CopiesFit(s)'
  BY DEF RecordOf, CopiesFit
<1>2. VersionsFit(s)'
  BY DEF RecordOf, VersionsFit, ReadSoFar
<1>3. AchievedOf(s)'
  BY DEF RecordOf, AchievedOf, Desired
<1> QED
  BY <1>1, <1>2, <1>3 DEF RecordOf

(* The KeptnService controller asks for no version of its own. *)
LEMMA ServiceKeepsRecord ==
  ASSUME TypeOK, ServiceController, NEW s \in Services, RecordOf(s)
  PROVE  RecordOf(s)'
<1> USE DEF ProjectWaits
<1>s. CopiesFit(s)
  BY DEF RecordOf
<1>t. /\ cached[s] \in KeptnService /\ svcCopy \in KeptnService
      /\ svcStep # "idle" => svcKey \in Services
      /\ fresh \in [Services -> SUBSET Holders]
  BY DEF TypeOK, ClusterTypeOK, ServiceTypeOK
<1>1. ASSUME NEW k \in Services, ServiceGet(k), ProjectWaits PROVE RecordOf(s)'
  <2>1. /\ UNCHANGED <<commits, proj, cr, cached>>
        /\ svcStep' # "idle" /\ svcKey' = k /\ svcCopy' = cached[k]
        /\ Take("service", k) /\ svcStep = "idle"
    BY <1>1, <1>t DEF ServiceGet, NextStep, gitVars, projectVars, cacheVars
  <2>2. /\ s # k => fresh'[s] = fresh[s]
        /\ fresh'[s] \subseteq fresh[s] \union {"service"}
        /\ fresh'[s] # {} => "cache" \in fresh'[s] \/ fresh'[s] = fresh[s]
        /\ "service" \in fresh'[s] => "cache" \in fresh[s] \/ "service" \in fresh[s]
    BY <1>t, <2>1 DEF Take
  <2>3. "service" \in fresh'[s] => s = k /\ cached[k] = cr[s]
    BY <1>s, <2>1, <2>2 DEF CopiesFit
  <2> QED
    BY <1>1, <1>s, <2>1, <2>2, <2>3, RecordKept DEF CopiesFit
<1>2. ASSUME NEW k \in Services, ServiceNotFound(k), ProjectWaits PROVE RecordOf(s)'
  BY <1>2, <1>s, <1>t, RecordKept DEF ServiceNotFound, clusterVars, serviceVars, CopiesFit
<1>3. ASSUME UNCHANGED <<commits, proj, cr, cached, svcKey, fresh>>, ProjectWaits,
             svcStep' # "idle", svcCopy'.DesiredVersion = svcCopy.DesiredVersion
      PROVE  RecordOf(s)'
  BY <1>3, <1>s, RecordKept DEF CopiesFit
<1>4. ASSUME UNCHANGED <<commits, proj, cr, cached>>, ProjectWaits, ServiceRetry,
             svcKey \in Services
      PROVE  RecordOf(s)'
  <2>1. fresh'[s] = fresh[s] \ (IF s = svcKey THEN {"service"} ELSE {})
    BY <1>4, DropEffect DEF ServiceRetry
  <2>2. "service" \notin fresh'[s]
    BY <1>s, <2>1 DEF CopiesFit
  <2> QED
    BY <1>4, <1>s, <2>1, <2>2, RecordKept DEF CopiesFit
<1>5. ASSUME ServiceCheck, ProjectWaits PROVE RecordOf(s)'
  <2>1. /\ UNCHANGED <<commits, proj, cr, cached, svcKey, fresh>>
        /\ svcStep' # "idle" /\ svcCopy' = svcCopy
    BY <1>5, <1>t DEF ServiceCheck, ServiceContinue, NextStep, gitVars, projectVars, cacheVars
  <2> QED
    BY <1>3, <1>5, <2>1
<1>6. ASSUME NEW answer \in Answers, ServiceCreate(answer), ProjectWaits PROVE RecordOf(s)'
  <2> DEFINE created == [svcCopy EXCEPT !.CreationPending = FALSE]
  <2>1. /\ UNCHANGED <<commits, proj, cr, cached>> /\ svcKey \in Services
        /\ ServiceRetry \/ ServiceContinue(NextStep(created), created)
    BY <1>6, <1>t DEF ServiceCreate, gitVars, projectVars, cacheVars
  <2>2. created.DesiredVersion = svcCopy.DesiredVersion
    <3>1. svcCopy \in KeptnService
      BY <1>t
    <3> QED
      BY <3>1 DEF KeptnService
  <2> HIDE DEF created
  <2>3. CASE ServiceContinue(NextStep(created), created)
    BY <1>3, <1>6, <2>1, <2>2, <2>3 DEF ServiceContinue, NextStep
  <2> QED
    BY <1>4, <1>6, <2>1, <2>3
<1>7. ASSUME NEW answer \in Answers, ServiceDeploy(answer), ProjectWaits PROVE RecordOf(s)'
  <2> DEFINE sent == [svcCopy EXCEPT !.DeploymentPending = FALSE]
  <2>1. /\ UNCHANGED <<commits, proj, cr, cached>> /\ svcKey \in Services
        /\ ServiceRetry \/ ServiceContinue("deployed", sent)
    BY <1>7, <1>t DEF ServiceDeploy, gitVars, projectVars, cacheVars
  <2>2. sent.DesiredVersion = svcCopy.DesiredVersion
    <3>1. svcCopy \in KeptnService
      BY <1>t
    <3> QED
      BY <3>1 DEF KeptnService
  <2> HIDE DEF sent
  <2>3. CASE ServiceContinue("deployed", sent)
    BY <1>3, <1>7, <2>1, <2>2, <2>3 DEF ServiceContinue
  <2> QED
    BY <1>4, <1>7, <2>1, <2>3
<1>8. ASSUME NEW answer \in Answers, ServiceDelete(answer), ProjectWaits PROVE RecordOf(s)'
  <2> DEFINE safe == [svcCopy EXCEPT !.SafeToDelete = TRUE]
  <2>1. /\ UNCHANGED <<commits, proj, cr, cached>> /\ svcKey \in Services
        /\ ServiceRetry \/ ServiceContinue("update", safe)
    BY <1>8, <1>t DEF ServiceDelete, gitVars, projectVars, cacheVars
  <2>2. safe.DesiredVersion = svcCopy.DesiredVersion
    <3>1. svcCopy \in KeptnService
      BY <1>t
    <3> QED
      BY <3>1 DEF KeptnService
  <2> HIDE DEF safe
  <2>3. CASE ServiceContinue("update", safe)
    BY <1>3, <1>8, <2>1, <2>2, <2>3 DEF ServiceContinue
  <2> QED
    BY <1>4, <1>8, <2>1, <2>3
<1>9. ASSUME NEW result \in Results, ServiceUpdate(result), ProjectWaits PROVE RecordOf(s)'
  <2>1. /\ UNCHANGED <<commits, proj, cached>> /\ svcKey \in Services
        /\ UpdateCR("service", svcKey, svcCopy, result)
    BY <1>9, <1>t DEF ServiceUpdate, gitVars, projectVars, cacheVars
  <2>2. /\ fresh'[s] \subseteq fresh[s]
        /\ "cache" \in fresh[s] => "cache" \in fresh'[s] \/ fresh'[s] = {}
        /\ s = svcKey => "service" \notin fresh'[s]
        /\ \/ cr'[s] = cr[s]
           \/ /\ s = svcKey /\ cr'[s] = svcCopy /\ fresh'[s] = {}
              /\ "service" \in fresh[s] /\ svcCopy.exists
    BY <1>t, <2>1, UpdateEffect
  <2>3. "service" \notin fresh'[s]
    BY <1>s, <2>2 DEF CopiesFit
  <2>4. cr'[s] = cr[s] \/ ( /\ fresh'[s] = {} /\ cr'[s].exists
                            /\ cr'[s].DesiredVersion = cr[s].DesiredVersion )
    BY <1>s, <2>2 DEF CopiesFit
  <2>5. fresh'[s] # {} => "cache" \in fresh'[s]
    BY <1>s, <2>2 DEF CopiesFit
  <2> QED
    BY <1>9, <2>1, <2>2, <2>3, <2>4, <2>5, RecordKept
<1> QED
  BY <1>1, <1>2, <1>5, <1>6, <1>7, <1>8, <1>9 DEF ServiceController, ServiceRequest

(* What a write leaves behind, as far as the version goes. *)

(* A Create that is stored found no resource; one that succeeds is stored. *)
LEMMA CreateVersion ==
  ASSUME TypeOK, NEW k \in Services, NEW o \in KeptnService, o.exists,
         NEW result, CreateCR(k, o, result)
  PROVE  /\ UNCHANGED <<cr, fresh>> \/ ~cr[k].exists
         /\ result = "ok" => cr'[k] = o
  BY DEF CreateCR, Write, Stored, Store, TypeOK, ClusterTypeOK

(* An Update that succeeds leaves its object, which is there. *)
LEMMA UpdateVersion ==
  ASSUME TypeOK, NEW k \in Services, NEW holder, NEW o \in KeptnService,
         UpdateCR(holder, k, o, "ok")
  PROVE  cr'[k] = o /\ o.exists
  BY DEF UpdateCR, Write, Stored, Store, Fault, TypeOK, ClusterTypeOK

(* The project worker keeps the record true: it acts upon a commit that is  *)
(* not older than the recorded one, and what it takes from the cache is, or *)
(* was replaced by, what is stored.                                         *)
LEMMA ProjectKeepsRecord ==
  ASSUME "version" \notin FaultKinds, TypeOK, HashesFit, ProjectController,
         NEW s \in Services, RecordOf(s)
  PROVE  RecordOf(s)'
<1> USE DEF ServiceWaits
<1>s. CopiesFit(s) /\ VersionsFit(s) /\ AchievedOf(s)
  BY DEF RecordOf
<1>t. /\ Tip \in Nat \ {0} /\ Len(commits) = Tip
      /\ proj \in 0..Tip /\ mainHead \in 0..Tip /\ config \in 0..Tip
      /\ cached \in [Services -> KeptnService] /\ cr \in [Services -> KeptnService]
      /\ fresh \in [Services -> SUBSET Holders]
      /\ pStep \in {"create", "trigger"} => config # 0
  BY BranchType DEF TypeOK, ClusterTypeOK, ProjectTypeOK, Tip
<1>h. pStep \in {"create", "trigger"} => proj <= mainHead /\ mainHead <= config
  BY DEF HashesFit
<1>n. \A v : NamedBy(commits, ReadSoFar, s, v) => NamedBy(commits, Tip, s, v)
  BY <1>t, NamedMore DEF ReadSoFar
<1>r. \A v : Replaced(commits, s, v) => Replaced(commits, s, NoVersion)
  BY <1>t, FirstIsReplaced
<1>e. ASSUME Forget, ServiceWaits, UNCHANGED <<commits, proj, cr, cached, fresh>>,
             target = NoTarget \/ pStep # "trigger"
      PROVE  RecordOf(s)'
  <2>1. "project" \notin fresh[s]
    BY <1>s, <1>e, NoTargetAssumption DEF CopiesFit, VersionsFit, NoTargetAssumption
  <2> QED
    BY <1>e, <1>s, <2>1, RecordEnds DEF CopiesFit
<1>1. ASSUME ProjectStart, ServiceWaits PROVE RecordOf(s)'
  <2>1. /\ UNCHANGED <<commits, proj, cr, cached, fresh, config, todo, target, pCopy>>
        /\ pStep = "idle" /\ pStep' = "clone"
    BY <1>1 DEF ProjectStart, gitVars, apiVars, cacheVars
  <2>2. CopiesFit(s)'
    BY <1>1, <1>s, <2>1 DEF CopiesFit, serviceVars
  <2>3. VersionsFit(s)' /\ AchievedOf(s)'
    BY <1>s, <2>1 DEF VersionsFit, AchievedOf, ReadSoFar, Desired, Tip, Listed
  <2> QED
    BY <2>2, <2>3 DEF RecordOf
<1>2. ASSUME ProjectClone \/ ProjectCloneFails, ServiceWaits PROVE RecordOf(s)'
  <2>1. UNCHANGED <<commits, proj, cr, cached, fresh>> /\ pStep = "clone"
    BY <1>2 DEF ProjectClone, ProjectCloneFails, gitVars, apiVars, cacheVars
  <2>2. CASE ProjectDone
    BY <1>e, <1>2, <2>1, <2>2 DEF ProjectDone
  <2>3. CASE /\ pStep' = "create" /\ config' = Tip /\ todo' = Listed(Tip)
             /\ UNCHANGED <<mainHead, lastMain, target, pCopy>>
    <3>1. CopiesFit(s)'
      BY <1>2, <1>s, <2>1, <2>3 DEF CopiesFit, serviceVars
    <3>2. VersionsFit(s)'
      BY <1>s, <2>1, <2>3 DEF VersionsFit, ReadSoFar, Tip
    <3>3. AchievedOf(s)'
      BY <1>s, <2>1, <2>3 DEF AchievedOf, Desired, Tip, Listed
    <3> QED
      BY <3>1, <3>2, <3>3 DEF RecordOf
  <2> QED
    BY <1>2, <2>2, <2>3 DEF ProjectClone, ProjectCloneFails
<1>3. ASSUME NEW k \in Services, NEW result \in Results,
             ProjectCreate(k, result), ServiceWaits
      PROVE  RecordOf(s)'
  <2>1. /\ UNCHANGED <<commits, proj, cached>> /\ pStep = "create"
        /\ \/ /\ result = "ok" /\ todo' = todo \ {k}
              /\ UNCHANGED <<pStep, mainHead, lastMain, config, target, pCopy>>
           \/ result # "ok" /\ Forget
        /\ \/ cached[k].exists /\ UNCHANGED apiVars
           \/ CreateCR(k, NewKeptnService, result)
    BY <1>3 DEF ProjectCreate, ProjectDone, gitVars, cacheVars
  <2>2. target # s /\ "project" \notin fresh[s]
    BY <1>s, <2>1 DEF CopiesFit, VersionsFit
  <2>3. NewKeptnService.exists /\ NewKeptnService.DesiredVersion = NoVersion
    BY DEF NewKeptnService, Zero
  <2>4. /\ \/ cr'[s] = cr[s] /\ fresh'[s] = fresh[s]
           \/ /\ s = k /\ ~cr[s].exists /\ fresh'[s] = {}
              /\ cr'[s] = NewKeptnService
        /\ s = k /\ result = "ok" => cr'[s].exists \/ (cached[s].exists /\ cr'[s] = cr[s])
    BY <2>1, <2>3, CreateEffect, CreateVersion, ZeroType DEF apiVars
  <2>5. ~cr[s].exists => cr[s].DesiredVersion = NoVersion
    BY <1>s DEF CopiesFit, Zero
  <2>6. CASE Forget
    BY <1>s, <1>3, <2>1, <2>2, <2>3, <2>4, <2>5, <2>6, RecordEnds DEF CopiesFit
  <2>7. CASE /\ result = "ok" /\ todo' = todo \ {k}
             /\ UNCHANGED <<pStep, mainHead, lastMain, config, target, pCopy>>
    <3>1. CopiesFit(s)'
      BY <1>s, <1>3, <2>1, <2>2, <2>3, <2>4, <2>7 DEF CopiesFit, serviceVars
    <3>2. VersionsFit(s)'
      BY <1>s, <2>1, <2>2, <2>3, <2>4, <2>5, <2>7
         DEF VersionsFit, ReadSoFar, Tip, NamedBy
    <3>3. s = k => cr'[s].exists \/ Replaced(commits, s, NoVersion)
      BY <1>s, <1>r, <2>4, <2>7 DEF VersionsFit
    <3>4. AchievedOf(s)'
      BY <1>s, <2>1, <2>3, <2>4, <2>7, <3>3 DEF AchievedOf, Desired, Tip, Listed
    <3> QED
      BY <3>1, <3>2, <3>4 DEF RecordOf
  <2> QED
    BY <2>1, <2>6, <2>7
<1>4. ASSUME NEW k \in Services, NEW result \in Results,
             ProjectRemove(k, result), ServiceWaits
      PROVE  RecordOf(s)'
  <2> DEFINE marked == [cached[k] EXCEPT !.DeletionPending = TRUE]
  <2>1. /\ UNCHANGED <<commits, proj, cached>> /\ pStep = "create" /\ Forget
        /\ k \notin Listed(config)
        /\ DeleteCR(k, result) \/ UpdateCR("cache", k, marked, result)
    BY <1>4 DEF ProjectRemove, ProjectDone, Unlisted, gitVars, cacheVars
  <2>2. marked \in KeptnService /\ marked.DesiredVersion = cached[k].DesiredVersion
    <3>1. cached[k] \in KeptnService
      BY <1>t
    <3> QED
      BY <3>1 DEF KeptnService
  <2> HIDE DEF marked
  <2>3. "project" \notin fresh[s]
    BY <1>s, <2>1 DEF CopiesFit, VersionsFit
  <2>4. CASE UpdateCR("cache", k, marked, result)
    <3>1. /\ fresh'[s] \subseteq fresh[s]
          /\ "cache" \in fresh[s] => "cache" \in fresh'[s] \/ fresh'[s] = {}
          /\ \/ cr'[s] = cr[s]
             \/ /\ s = k /\ cr'[s] = marked /\ fresh'[s] = {}
                /\ "cache" \in fresh[s] /\ marked.exists
      BY <2>2, <2>4, UpdateEffect
    <3>2. fresh'[s] # {} => "cache" \in fresh'[s]
      BY <1>s, <3>1 DEF CopiesFit
    <3>3. cr'[s] = cr[s] \/ ( /\ fresh'[s] = {} /\ cr'[s].exists
                              /\ cr'[s].DesiredVersion = cr[s].DesiredVersion )
      BY <1>s, <2>2, <3>1 DEF CopiesFit
    <3> QED
      BY <1>4, <2>1, <2>3, <3>1, <3>2, <3>3, RecordEnds
  <2>5. CASE DeleteCR(k, result)
    <3>1. \/ cr'[s] = cr[s] /\ fresh'[s] = fresh[s]
          \/ s = k /\ cr'[s] = Zero /\ fresh'[s] = {}
      BY <2>5, DeleteEffect
    <3>2. CASE cr'[s] = cr[s] /\ fresh'[s] = fresh[s]
      BY <1>s, <1>4, <2>1, <2>3, <3>2, RecordEnds DEF CopiesFit
    <3>3. CASE s = k /\ cr'[s] = Zero /\ fresh'[s] = {}
      <4>1. ~Zero.exists /\ Zero.DesiredVersion = NoVersion /\ target' # s
        BY <2>1, NoTargetAssumption DEF Zero, Forget, NoTargetAssumption
      <4>2. Replaced(commits, s, cached[s].DesiredVersion)
        <5>1. NamedBy(commits, config, s, cached[s].DesiredVersion)
          BY <1>s, <2>1 DEF VersionsFit, ReadSoFar
        <5>2. config \in 1..Len(commits) /\ commits[config].trigger[s] = NoTrigger
          BY <1>t, <2>1, <3>3 DEF Listed
        <5> QED
          BY <5>1, <5>2 DEF Replaced
      <4>3. proj = Tip => s \notin Listed(Tip)
        BY <1>t, <1>h, <2>1, <3>3
      <4>4. CopiesFit(s)'
        BY <1>s, <2>1, <3>3, <4>1 DEF CopiesFit
      <4>5. VersionsFit(s)'
        BY <1>s, <1>n, <2>1, <3>3, <4>1, <4>2 DEF VersionsFit, ReadSoFar, NamedBy, Tip, Forget
      <4>6. AchievedOf(s)'
        BY <2>1, <4>3 DEF AchievedOf, Tip, Listed, Forget
      <4> QED
        BY <4>4, <4>5, <4>6 DEF RecordOf
    <3> QED
      BY <3>1, <3>2, <3>3
  <2> QED
    BY <2>1, <2>4, <2>5
<1>5. ASSUME ProjectCompare, ServiceWaits PROVE RecordOf(s)'
  <2>1. /\ UNCHANGED <<commits, proj, cr, cached, fresh, mainHead, lastMain, config,
                       target, pCopy>>
        /\ pStep = "create" /\ pStep' = "trigger" /\ todo = {}
        /\ lastMain # mainHead => todo' = Listed(config)
    BY <1>5 DEF ProjectCompare, clusterVars
  <2>2. CopiesFit(s)'
    BY <1>5, <1>s, <2>1 DEF CopiesFit, serviceVars
  <2>3. VersionsFit(s)'
    BY <1>s, <1>n, <2>1 DEF VersionsFit, ReadSoFar, Tip
  <2>4. AchievedOf(s)'
    BY <1>s, <2>1 DEF AchievedOf, Desired, Tip, Listed
  <2> QED
    BY <2>2, <2>3, <2>4 DEF RecordOf
<1>6. ASSUME NEW k \in Services, NEW version \in Versions \union {NoVersion},
             ProjectGetVersion(k, version), ServiceWaits
      PROVE  RecordOf(s)'
  <2> DEFINE wanted == Wanted(cached[k], version, commits[config].trigger[k])
  <2>1. /\ UNCHANGED <<commits, proj, cr, cached, pStep, mainHead, lastMain, config>>
        /\ pStep = "trigger" /\ target = NoTarget /\ todo' = todo \ {k}
        /\ version = commits[Tip].version[k]
        /\ \/ /\ version # cached[k].DesiredVersion
              /\ target' = k /\ pCopy' = wanted /\ Take("project", k)
           \/ /\ version = cached[k].DesiredVersion
              /\ UNCHANGED <<target, pCopy, fresh>>
    BY <1>6, Zenon DEF ProjectGetVersion, GetServiceVersion, Fault, Wanted, gitVars,
                       cacheVars, projectVars
  <2>2. wanted.DesiredVersion = version
    <3>1. cached[k] \in KeptnService
      BY <1>t
    <3> QED
      BY <3>1 DEF Wanted, KeptnService
  <2> HIDE DEF wanted
  <2>3. target # s /\ "project" \notin fresh[s]
    BY <1>s, <2>1, NoTargetAssumption DEF CopiesFit, NoTargetAssumption
  <2>4. \A v : NamedBy(commits, Tip, s, v) /\ commits[Tip].version[s] # v
               => Replaced(commits, s, v)
    BY <1>t, LastReplaces
  <2>5. CASE UNCHANGED <<target, pCopy, fresh>> /\ version = cached[k].DesiredVersion
    <3>1. CopiesFit(s)'
      BY <1>6, <1>s, <2>1, <2>5 DEF CopiesFit, serviceVars
    <3>2. VersionsFit(s)'
      BY <1>s, <2>1, <2>3, <2>5 DEF VersionsFit, ReadSoFar, Tip
    <3>3. s = k /\ s \in Listed(config) => Desired(s)
      <4>1. ~cached[s].exists => cached[s].DesiredVersion = NoVersion
        BY <1>s DEF CopiesFit, Zero
      <4> QED
        BY <1>s, <2>1, <2>5, <4>1 DEF VersionsFit, AchievedOf, Desired
    <3>4. AchievedOf(s)'
      BY <1>s, <2>1, <2>5, <3>3 DEF AchievedOf, Desired, Tip, Listed
    <3> QED
      BY <3>1, <3>2, <3>4 DEF RecordOf
  <2>6. CASE /\ version # cached[k].DesiredVersion
             /\ target' = k /\ pCopy' = wanted /\ Take("project", k)
    <3>1. /\ s # k => fresh'[s] = fresh[s]
          /\ fresh'[s] \subseteq fresh[s] \union {"project"}
          /\ "cache" \in fresh'[s] <=> "cache" \in fresh[s]
          /\ "project" \in fresh'[s] => s = k /\ "cache" \in fresh[s]
      BY <1>t, <2>3, <2>6 DEF Take
    <3>2. "project" \in fresh'[s] => Replaced(commits, s, cr[s].DesiredVersion)
      BY <1>s, <1>n, <2>1, <2>4, <2>6, <3>1 DEF CopiesFit, VersionsFit
    <3>3. CopiesFit(s)'
      BY <1>6, <1>s, <2>1, <2>6, <3>1, <3>2 DEF CopiesFit, serviceVars
    <3>4. NamedBy(commits, Tip, k, version)
      BY <1>t, <2>1 DEF NamedBy
    <3>5. VersionsFit(s)'
      BY <1>s, <2>1, <2>2, <2>6, <3>4 DEF VersionsFit, ReadSoFar, Tip
    <3>6. AchievedOf(s)'
      BY <1>s, <2>1, <2>3, <2>6 DEF AchievedOf, Desired, Tip, Listed
    <3> QED
      BY <3>3, <3>5, <3>6 DEF RecordOf
  <2> QED
    BY <2>1, <2>5, <2>6
<1>7. ASSUME NEW result \in Results, ProjectTrigger(result), ServiceWaits
      PROVE  RecordOf(s)'
  <2>1. /\ UNCHANGED <<commits, proj, cached>>
        /\ target \in Services /\ pCopy \in KeptnService
        /\ UpdateCR("project", target, pCopy, result)
        /\ \/ /\ result = "ok" /\ target' = NoTarget
              /\ UNCHANGED <<pStep, mainHead, lastMain, config, todo>>
           \/ Forget
    BY <1>7 DEF ProjectTrigger, ProjectDone, gitVars, cacheVars, TypeOK, ProjectTypeOK
  <2>2. /\ fresh'[s] \subseteq fresh[s]
        /\ "cache" \in fresh[s] => "cache" \in fresh'[s] \/ fresh'[s] = {}
        /\ s = target => "project" \notin fresh'[s]
        /\ \/ cr'[s] = cr[s]
           \/ /\ s = target /\ cr'[s] = pCopy /\ fresh'[s] = {}
              /\ "project" \in fresh[s] /\ pCopy.exists
    BY <2>1, UpdateEffect
  <2>3. result = "ok" /\ s = target => cr'[s] = pCopy /\ pCopy.exists
    BY <2>1, UpdateVersion
  <2>4. "project" \notin fresh'[s] /\ target' # s
    BY <1>s, <2>1, <2>2, NoTargetAssumption DEF CopiesFit, Forget, NoTargetAssumption
  <2>5. CopiesFit(s)'
    BY <1>7, <1>s, <2>1, <2>2, <2>4 DEF CopiesFit, serviceVars
  <2>6. target = s => pStep = "trigger"
    BY <1>s DEF VersionsFit
  <2>7. /\ NamedBy(commits, Tip, s, cr'[s].DesiredVersion)
        /\ NamedBy(commits, Tip, s, cached[s].DesiredVersion)
    BY <1>s, <1>n, <2>2 DEF VersionsFit
  <2>8. VersionsFit(s)'
    <3>1. ReadSoFar' = Tip \/ UNCHANGED ReadSoFar
      BY <2>1 DEF ReadSoFar, Forget, Tip
    <3>2. /\ NamedBy(commits, ReadSoFar', s, cr'[s].DesiredVersion)
          /\ NamedBy(commits, ReadSoFar', s, cached[s].DesiredVersion)
      BY <1>s, <2>2, <2>6, <2>7, <3>1 DEF VersionsFit, ReadSoFar
    <3>3. \/ /\ cached[s].DesiredVersion = cr'[s].DesiredVersion
             /\ cached[s].exists => cr'[s].exists
          \/ Replaced(commits, s, cached[s].DesiredVersion)
      BY <1>s, <2>2 DEF VersionsFit, CopiesFit
    <3> QED
      BY <2>1, <2>4, <3>2, <3>3 DEF VersionsFit
  <2>9. s = target /\ mainHead = Tip => pCopy.DesiredVersion = commits[Tip].version[s]
    BY <1>s DEF VersionsFit
  <2>10. proj = Tip /\ s = target => mainHead = Tip
    BY <1>t, <1>h, <2>6
  <2>11. Desired(s) /\ (proj = Tip \/ mainHead = Tip) => Desired(s)'
    BY <2>1, <2>2, <2>9, <2>10 DEF Desired, Tip
  <2>12. AchievedOf(s)'
    BY <1>s, <2>1, <2>2, <2>3, <2>9, <2>11 DEF AchievedOf, Desired, Tip, Listed, Forget
  <2> QED
    BY <2>5, <2>8, <2>12 DEF RecordOf
<1>8. ASSUME NEW result \in Results, ProjectRecord(result), ServiceWaits
      PROVE  RecordOf(s)'
  <2>1. /\ UNCHANGED <<commits, cr, cached, fresh>> /\ Forget
        /\ pStep = "trigger" /\ todo = {} /\ target = NoTarget
        /\ \/ proj' = proj
           \/ proj' = mainHead /\ proj # mainHead /\ "project" \in projFresh
    BY <1>8 DEF ProjectRecord, ProjectDone, Write, Stored, Fault, gitVars, apiVars, cacheVars
  <2>2. "project" \notin fresh[s]
    BY <1>s, <2>1, NoTargetAssumption DEF CopiesFit, NoTargetAssumption
  <2>3. proj' = proj \/ (proj' = Tip /\ s \in Listed(Tip) => Desired(s))
    <3>1. CASE proj' = mainHead /\ proj # mainHead /\ "project" \in projFresh
      <4>1. lastMain # mainHead
        BY <3>1 DEF HashesFit
      <4>2. proj' = Tip => config = Tip /\ mainHead = Tip
        BY <1>t, <1>h, <2>1, <3>1
      <4>3. s # target
        BY <2>1, NoTargetAssumption DEF NoTargetAssumption
      <4> QED
        BY <1>s, <2>1, <3>1, <4>1, <4>2, <4>3 DEF AchievedOf
    <3> QED
      BY <2>1, <3>1
  <2> QED
    BY <1>8, <1>s, <2>1, <2>2, <2>3, RecordEnds DEF CopiesFit
<1> QED
  BY <1>1, <1>2, <1>3, <1>4, <1>5, <1>6, <1>7, <1>8 DEF ProjectController, ProjectRequest

(* Watch events bring the cache closer, pushes outdate what was read, and a *)
(* restart begins again.                                                    *)
LEMMA SurroundingsKeepRecord ==
  ASSUME TypeOK, TypeOK', Informers \/ Environment \/ Restart,
         NEW s \in Services, RecordOf(s)
  PROVE  RecordOf(s)'
<1> USE DEF BothWait, ServiceWaits, ProjectWaits, serviceVars, reconcileVars
<1>s. CopiesFit(s) /\ VersionsFit(s) /\ AchievedOf(s)
  BY DEF RecordOf
<1>t. /\ Tip \in Nat \ {0} /\ Len(commits) = Tip
      /\ proj \in 0..Tip /\ mainHead \in 0..Tip /\ config \in 0..Tip
      /\ pStep \in {"create", "trigger"} => config # 0
      /\ fresh \in [Services -> SUBSET Holders]
      /\ cached \in [Services -> KeptnService]
  BY BranchType DEF TypeOK, ClusterTypeOK, ProjectTypeOK, Tip
<1>1. ASSUME NEW k \in Services, Sync(k), BothWait PROVE RecordOf(s)'
  <2>1. /\ UNCHANGED <<commits, proj, cr>>
        /\ \/ cached'[s] = cached[s] /\ fresh'[s] = fresh[s]
           \/ cached'[s] = cr[s] /\ fresh'[s] = fresh[s] \union {"cache"}
    BY <1>1, <1>t DEF Sync, gitVars, projectVars
  <2>2. CopiesFit(s)'
    BY <1>1, <1>s, <2>1 DEF CopiesFit
  <2>3. VersionsFit(s)'
    BY <1>1, <1>s, <2>1 DEF VersionsFit, ReadSoFar, Tip
  <2>4. AchievedOf(s)'
    BY <1>1, <1>s, <2>1 DEF AchievedOf, Desired, Tip, Listed
  <2> QED
    BY <2>2, <2>3, <2>4 DEF RecordOf
<1>2. ASSUME SyncProject \/ EditProject, BothWait PROVE RecordOf(s)'
  <2>1. UNCHANGED <<commits, proj, cr, cached, fresh>>
    BY <1>2 DEF SyncProject, EditProject, gitVars, apiVars, cacheVars
  <2>2. CopiesFit(s)'
    BY <1>2, <1>s, <2>1 DEF CopiesFit
  <2>3. VersionsFit(s)' /\ AchievedOf(s)'
    BY <1>2, <1>s, <2>1 DEF VersionsFit, AchievedOf, ReadSoFar, Desired, Tip, Listed
  <2> QED
    BY <2>2, <2>3 DEF RecordOf
<1>3. ASSUME Push, BothWait PROVE RecordOf(s)'
  <2>1. UNCHANGED <<proj, cr, cached, fresh>>
    BY <1>3 DEF Push, apiVars, cacheVars, projectVars
  <2>2. Begins(commits, commits') /\ Tip' = Tip + 1
    BY <1>3, BranchGrows
  <2>3. \A v : Replaced(commits, s, v) => Replaced(commits', s, v)
    BY <2>2, ReplacedKept
  <2>4. CopiesFit(s)'
    BY <1>3, <1>s, <2>1, <2>3 DEF CopiesFit
  <2>5. ReadSoFar \in 0..Tip /\ ReadSoFar' \in Nat /\ ReadSoFar <= ReadSoFar'
    BY <1>3, <1>t, <2>2 DEF ReadSoFar
  <2>6. \A v : /\ NamedBy(commits, ReadSoFar, s, v) => NamedBy(commits', ReadSoFar', s, v)
               /\ NamedBy(commits, Tip, s, v) => NamedBy(commits', Tip', s, v)
    BY <1>t, <2>2, <2>5, NamedKept
  <2>7. VersionsFit(s)'
    BY <1>3, <1>s, <1>t, <2>1, <2>2, <2>3, <2>6 DEF VersionsFit
  <2>8. pStep \in {"create", "trigger"} => (s \in Listed(config)' <=> s \in Listed(config))
    <3>1. pStep \in {"create", "trigger"} => commits'[config] = commits[config]
      BY <1>t, <2>2 DEF Begins
    <3> QED
      BY <1>3, <3>1 DEF Listed
  <2>9. AchievedOf(s)'
    BY <1>3, <1>s, <1>t, <2>1, <2>2, <2>3, <2>8 DEF AchievedOf
  <2> QED
    BY <2>4, <2>7, <2>9 DEF RecordOf
<1>4. ASSUME Restart PROVE RecordOf(s)'
  <2>1. /\ UNCHANGED <<commits, proj, cr>> /\ Forget /\ cached' = cr
        /\ fresh'[s] = {"cache"}
    BY <1>4 DEF Restart, RestartCluster, gitVars
  <2>2. CopiesFit(s)'
    BY <1>s, <2>1 DEF CopiesFit
  <2>3. NamedBy(commits, Tip, s, cr[s].DesiredVersion)
    BY <1>s, <1>t, NamedMore DEF VersionsFit, ReadSoFar
  <2>4. VersionsFit(s)'
    BY <2>1, <2>3, NoTargetAssumption DEF VersionsFit, ReadSoFar, Forget, Tip, NoTargetAssumption
  <2>5. AchievedOf(s)'
    BY <1>s, <2>1 DEF AchievedOf, Desired, Tip, Listed, Forget
  <2> QED
    BY <2>2, <2>4, <2>5 DEF RecordOf
<1> QED
  BY <1>1, <1>2, <1>3, <1>4 DEF Informers, Environment

(* At the start there is neither a resource nor a recorded commit. *)
LEMMA InitRecord == Init => RecordInv
<1> SUFFICES ASSUME Init PROVE RecordInv
  OBVIOUS
<1>1. TypeOK
  BY InitType
<1>2. HashesFit
  BY DEF Init, ClusterInit, ProjectInit, HashesFit
<1>3. Tip \in Nat \ {0}
  BY <1>1, BranchType DEF TypeOK
<1>4. ASSUME NEW s \in Services PROVE RecordOf(s)
  <2>1. /\ cr[s] = Zero /\ cached[s] = Zero /\ fresh[s] = {"cache"} /\ proj = 0
        /\ pStep = "idle" /\ target = NoTarget
    BY DEF Init, ClusterInit, ProjectInit
  <2>2. Zero.DesiredVersion = NoVersion /\ ~Zero.exists
    BY DEF Zero
  <2> QED
    BY <1>3, <2>1, <2>2, NoTargetAssumption
       DEF RecordOf, CopiesFit, VersionsFit, AchievedOf, NamedBy, NoTargetAssumption
<1> QED
  BY <1>2, <1>4 DEF RecordInv

(* The invariant behind RecordedCommitIsDesired holds throughout. *)
LEMMA RecordInvariant ==
  ASSUME "version" \notin FaultKinds
  PROVE  Spec => []RecordInv
<1>1. TypeOK /\ TypeOK' /\ RecordInv /\ [Next]_vars => RecordInv'
  <2> SUFFICES ASSUME TypeOK, TypeOK', RecordInv, [Next]_vars PROVE RecordInv'
    OBVIOUS
  <2>1. HashesFit'
    BY HashesKept DEF RecordInv
  <2>2. ASSUME NEW s \in Services PROVE RecordOf(s)'
    <3>1. RecordOf(s) /\ HashesFit
      BY DEF RecordInv
    <3>2. CASE Next
      BY <3>1, <3>2, ServiceKeepsRecord, ProjectKeepsRecord, SurroundingsKeepRecord DEF Next
    <3>3. CASE UNCHANGED vars
      BY <3>1, <3>3 DEF vars, clusterVars, serviceVars, reconcileVars, RecordOf, CopiesFit,
                        VersionsFit, AchievedOf, ReadSoFar, Desired, Tip, Listed
    <3> QED
      BY <3>2, <3>3
  <2> QED
    BY <2>1, <2>2 DEF RecordInv
<1> QED
  BY <1>1, InitRecord, TypeCorrect, PTL DEF Spec

(* As long as no version is read from a clone that failed, LastMainCommit is *)
(* never ahead of the resources: when it is the last commit, every service   *)
(* that commit lists has a resource that asks for the version it names, or   *)
(* the version is one that returns.  Keptn's answers do not matter, nor do   *)
(* stale caches, refused and lost writes, edits of the project or restarts.  *)
THEOREM RecordIsTrue ==
  ASSUME "version" \notin FaultKinds
  PROVE  Spec => []RecordedCommitIsDesired
<1>1. TypeOK /\ RecordInv => RecordedCommitIsDesired
  <2> SUFFICES ASSUME TypeOK, RecordInv, proj = Tip, NEW s \in Listed(Tip)
               PROVE  \/ cr[s].exists /\ cr[s].DesiredVersion = commits[Tip].version[s]
                      \/ Returns(Tip, s)
    BY DEF RecordedCommitIsDesired
  <2>1. s \in Services
    BY DEF Listed
  <2>2. Desired(s)
    BY <2>1 DEF RecordInv, RecordOf, AchievedOf
  <2> QED
    BY <2>1, <2>2, ReturnsIsReplaced DEF Desired
<1> QED
  BY <1>1, TypeCorrect, RecordInvariant, PTL

--------------------------------------------------------------------------------
(* The inductive invariant behind DeploymentsMoveForward. *)

(* Every commit names a version of its own for every service. *)
EachNew(log) ==
  \A s \in Services : \A i, j \in 1..Len(log) :
    /\ log[i].version[s] # NoVersion
    /\ log[i].version[s] = log[j].version[s] => i = j

(* No commit that names v comes after one that names w. *)
NotAfter(log, s, v, w) ==
  \A i, j \in 1..Len(log) :
    log[i].version[s] = v /\ log[j].version[s] = w => i <= j

(* Versions travel from the project worker's copy to the resource, from there *)
(* to the cache, to the other worker's copy and to Keptn: nowhere is one that *)
(* is newer than where it came from.                                          *)
InOrder(s) ==
  LET Before(v, w) == NotAfter(commits, s, v, w)
      deployed == accepted[s].version
      held     == svcCopy.DesiredVersion
      seen     == cached[s].DesiredVersion
      stored   == cr[s].DesiredVersion
      next     == pCopy.DesiredVersion
  IN  /\ Before(deployed, seen) /\ Before(deployed, stored) /\ Before(seen, stored)
      /\ svcKey = s => Before(deployed, held) /\ Before(held, seen) /\ Before(held, stored)
      /\ target = s => Before(deployed, next) /\ Before(seen, next) /\ Before(stored, next)
      /\ svcKey = s /\ target = s => Before(held, next)

(* ... and all of them are from the branch. *)
AllNamed(s) ==
  LET OfBranch(v) == NamedBy(commits, Tip, s, v)
  IN  /\ OfBranch(accepted[s].version)
      /\ OfBranch(cached[s].DesiredVersion)
      /\ OfBranch(cr[s].DesiredVersion)
      /\ svcKey = s => OfBranch(svcCopy.DesiredVersion)
      /\ target = s => OfBranch(pCopy.DesiredVersion)

(* A fresh copy has the stored version. *)
FreshFits(s) ==
  /\ "cache" \in fresh[s] => cached[s] = cr[s]
  /\ fresh[s] # {} => "cache" \in fresh[s]
  /\ "service" \in fresh[s] =>
       /\ svcKey = s
       /\ svcStep # "idle"
       /\ svcCopy.DesiredVersion = cr[s].DesiredVersion

ForwardOf(s) == FreshFits(s) /\ InOrder(s) /\ AllNamed(s)

Forward == EachNew(commits) /\ \A s \in Services : ForwardOf(s)

(* Where each copy of s may have its version from after a step. *)
Moves(s) ==
  LET now == commits[Tip].version[s]
  IN  /\ UNCHANGED commits
      /\ \/ accepted'[s].version = accepted[s].version
         \/ svcKey = s /\ accepted'[s].version = svcCopy.DesiredVersion
      /\ cached'[s].DesiredVersion \in {cached[s].DesiredVersion, cr[s].DesiredVersion}
      /\ \/ cr'[s].DesiredVersion \in {cr[s].DesiredVersion, NoVersion}
         \/ target = s /\ cr'[s].DesiredVersion = pCopy.DesiredVersion
      /\ svcKey' = s => \/ svcCopy'.DesiredVersion = cached[s].DesiredVersion
                        \/ svcKey = s /\ UNCHANGED svcCopy.DesiredVersion
      /\ target' = s => \/ pCopy'.DesiredVersion \in {now, NoVersion}
                        \/ target = s /\ UNCHANGED pCopy.DesiredVersion

(* When every commit names a version of its own, "not after" is reflexive, *)
(* says nothing of NoVersion, and every version is not after the last.     *)
LEMMA OrderFacts ==
  ASSUME TypeOK, EachNew(commits), NEW s \in Services, NEW v
  PROVE  /\ NotAfter(commits, s, v, v)
         /\ NotAfter(commits, s, NoVersion, v) /\ NotAfter(commits, s, v, NoVersion)
         /\ NotAfter(commits, s, v, commits[Tip].version[s])
<1>1. Len(commits) = Tip /\ Tip \in Nat \ {0}
  BY BranchType DEF TypeOK, Tip
<1> QED
  BY <1>1 DEF EachNew, NotAfter

(* A step that moves versions that way keeps them in order. *)
LEMMA OrderKept ==
  ASSUME TypeOK, EachNew(commits), NEW s \in Services, InOrder(s), AllNamed(s), Moves(s)
  PROVE  InOrder(s)' /\ AllNamed(s)'
<1> DEFINE Before(v, w) == NotAfter(commits, s, v, w)
           now == commits[Tip].version[s]
<1>1. \A v : Before(v, v) /\ Before(NoVersion, v) /\ Before(v, NoVersion) /\ Before(v, now)
  BY OrderFacts
<1>2. NamedBy(commits, Tip, s, NoVersion) /\ NamedBy(commits, Tip, s, now)
  BY BranchType DEF NamedBy, TypeOK
<1>3. InOrder(s)'
  BY <1>1 DEF InOrder, Moves
<1>4. AllNamed(s)'
  BY <1>2 DEF AllNamed, Moves, Tip
<1> QED
  BY <1>3, <1>4

(* A push adds a version that no copy has yet. *)
LEMMA OrderPushed ==
  ASSUME TypeOK, Push, \A h \in Histories : EachNew(h), NEW s \in Services,
         UNCHANGED <<accepted, cached, cr, svcKey, svcCopy, target, pCopy>>,
         InOrder(s), AllNamed(s)
  PROVE  EachNew(commits)' /\ InOrder(s)' /\ AllNamed(s)'
<1>1. Begins(commits, commits') /\ Len(commits) = Tip /\ Tip' = Tip + 1 /\ Tip \in Nat
  BY BranchGrows DEF Begins
<1>2. EachNew(commits)'
  <2>1. PICK h \in Histories : /\ Tip < Len(h)
                               /\ commits = SubSeq(h, 1, Tip)
                               /\ commits' = Append(commits, h[Tip + 1])
    BY DEF Push
  <2>2. h \in Seq(Commit) /\ commits \in Seq(Commit)
    BY <2>1, ClusterAssumption DEF ClusterAssumption, TypeOK, ClusterTypeOK
  <2>3. Len(h) \in Nat /\ Len(commits') = Tip + 1
    BY <1>1, <2>1, <2>2
  <2>4. \A i \in 1..Tip : commits[i] = h[i]
    BY <1>1, <2>1, <2>2, <2>3
  <2>5. commits'[Tip + 1] = h[Tip + 1]
    BY <1>1, <2>1, <2>2
  <2>6. \A i \in 1..(Tip + 1) : commits'[i] = h[i]
    BY <1>1, <2>4, <2>5 DEF Begins
  <2>7. \A i \in 1..(Tip + 1) : i \in 1..Len(h)
    BY <1>1, <2>1, <2>3
  <2>8. EachNew(h)
    BY <2>1
  <2>9. EachNew(commits')
    <3> SUFFICES ASSUME NEW x \in Services, NEW i \in 1..Len(commits'), NEW j \in 1..Len(commits')
                 PROVE  /\ commits'[i].version[x] # NoVersion
                        /\ commits'[i].version[x] = commits'[j].version[x] => i = j
      BY DEF EachNew
    <3>1. /\ commits'[i] = h[i] /\ i \in 1..Len(h)
          /\ commits'[j] = h[j] /\ j \in 1..Len(h)
      BY <2>3, <2>6, <2>7
    <3> QED
      BY <2>8, <3>1 DEF EachNew
  <2> QED
    BY <2>9
<1>3. \A v, w : /\ NamedBy(commits, Tip, s, v) /\ NamedBy(commits, Tip, s, w)
                /\ NotAfter(commits, s, v, w)
                => NotAfter(commits', s, v, w)
  <2> SUFFICES ASSUME NEW v, NEW w, NamedBy(commits, Tip, s, v), NotAfter(commits, s, v, w),
                      NEW i \in 1..Len(commits'), NEW j \in 1..Len(commits'),
                      commits'[i].version[s] = v, commits'[j].version[s] = w
               PROVE  i <= j
    BY DEF NotAfter
  <2>1. v # NoVersion
    BY <1>2 DEF EachNew
  <2>2. PICK e \in 1..Tip : commits[e].version[s] = v
    BY <2>1 DEF NamedBy
  <2>3. e \in 1..Len(commits') /\ commits'[e].version[s] = v
    BY <1>1, <2>2 DEF Begins
  <2>4. i = e
    BY <1>2, <2>3 DEF EachNew
  <2>5. CASE j \in 1..Tip
    BY <1>1, <2>2, <2>4, <2>5 DEF NotAfter, Begins
  <2>6. CASE j \notin 1..Tip
    BY <1>1, <2>4, <2>6 DEF Begins
  <2> QED
    BY <2>5, <2>6
<1>4. \A v : NamedBy(commits, Tip, s, v) => NamedBy(commits', Tip', s, v)
  BY <1>1, NamedKept
<1>5. AllNamed(s)'
  BY <1>4 DEF AllNamed
<1>6. InOrder(s)'
  BY <1>3 DEF InOrder, AllNamed
<1> QED
  BY <1>2, <1>5, <1>6

(* The KeptnService controller moves versions from the cache to Keptn. *)
LEMMA ServiceMoves ==
  ASSUME TypeOK, ServiceController, NEW s \in Services, FreshFits(s)
  PROVE  FreshFits(s)' /\ Moves(s)
<1> USE DEF ProjectWaits, reconcileVars
<1>t. /\ cached[s] \in KeptnService /\ svcCopy \in KeptnService
      /\ svcStep # "idle" => svcKey \in Services
      /\ fresh \in [Services -> SUBSET Holders]
      /\ accepted \in [Services -> TriggerEvent]
  BY DEF TypeOK, ClusterTypeOK, ServiceTypeOK
<1>1. ASSUME NEW k \in Services, ServiceGet(k), ProjectWaits
      PROVE  FreshFits(s)' /\ Moves(s)
  <2>1. /\ UNCHANGED <<commits, cr, cached, accepted>>
        /\ svcStep' # "idle" /\ svcKey' = k /\ svcCopy' = cached[k]
        /\ Take("service", k) /\ svcStep = "idle"
    BY <1>1, <1>t DEF ServiceGet, NextStep, gitVars, keptnVars, cacheVars
  <2>2. /\ s # k => fresh'[s] = fresh[s]
        /\ fresh'[s] \subseteq fresh[s] \union {"service"}
        /\ fresh'[s] # {} => "cache" \in fresh'[s] \/ fresh'[s] = fresh[s]
        /\ "service" \in fresh'[s] => "cache" \in fresh[s] \/ "service" \in fresh[s]
    BY <1>t, <2>1 DEF Take
  <2>3. "service" \in fresh'[s] => s = k /\ cached[k] = cr[s]
    BY <2>1, <2>2 DEF FreshFits
  <2>4. FreshFits(s)'
    BY <2>1, <2>2, <2>3 DEF FreshFits
  <2> QED
    BY <1>1, <2>1, <2>4 DEF Moves
<1>2. ASSUME NEW k \in Services, ServiceNotFound(k), ProjectWaits
      PROVE  FreshFits(s)' /\ Moves(s)
  BY <1>2 DEF ServiceNotFound, clusterVars, serviceVars, FreshFits, Moves
<1>3. ASSUME UNCHANGED <<commits, cr, cached, svcKey, fresh>>, ProjectWaits,
             svcStep' # "idle", svcCopy'.DesiredVersion = svcCopy.DesiredVersion,
             \/ accepted'[s].version = accepted[s].version
             \/ svcKey = s /\ accepted'[s].version = svcCopy.DesiredVersion
      PROVE  FreshFits(s)' /\ Moves(s)
  BY <1>3 DEF FreshFits, Moves
<1>4. ASSUME UNCHANGED <<commits, cr, cached>>, ProjectWaits, ServiceRetry, svcKey \in Services,
             \/ accepted'[s].version = accepted[s].version
             \/ svcKey = s /\ accepted'[s].version = svcCopy.DesiredVersion
      PROVE  FreshFits(s)' /\ Moves(s)
  <2>1. fresh'[s] = fresh[s] \ (IF s = svcKey THEN {"service"} ELSE {})
    BY <1>4, DropEffect DEF ServiceRetry
  <2>2. svcKey' # s
    BY <1>4, NoServiceAssumption DEF ServiceRetry, ServiceDone, NoServiceAssumption
  <2>3. FreshFits(s)'
    BY <1>4, <2>1 DEF FreshFits
  <2> QED
    BY <1>4, <2>2, <2>3 DEF Moves
<1>5. ASSUME ServiceCheck, ProjectWaits PROVE FreshFits(s)' /\ Moves(s)
  <2>1. /\ UNCHANGED <<commits, cr, cached, accepted, svcKey, fresh>>
        /\ svcStep' # "idle" /\ svcCopy' = svcCopy
    BY <1>5, <1>t DEF ServiceCheck, ServiceContinue, NextStep, gitVars, keptnVars, cacheVars
  <2> QED
    BY <1>3, <1>5, <2>1
<1>6. ASSUME NEW answer \in Answers, ServiceCreate(answer), ProjectWaits
      PROVE  FreshFits(s)' /\ Moves(s)
  <2> DEFINE created == [svcCopy EXCEPT !.CreationPending = FALSE]
  <2>1. /\ UNCHANGED <<commits, cr, cached, accepted>> /\ svcKey \in Services
        /\ ServiceRetry \/ ServiceContinue(NextStep(created), created)
    BY <1>6, <1>t DEF ServiceCreate, createService, gitVars, cacheVars
  <2>2. created.DesiredVersion = svcCopy.DesiredVersion
    <3>1. svcCopy \in KeptnService
      BY <1>t
    <3> QED
      BY <3>1 DEF KeptnService
  <2> HIDE DEF created
  <2>3. CASE ServiceContinue(NextStep(created), created)
    BY <1>3, <1>6, <2>1, <2>2, <2>3 DEF ServiceContinue, NextStep
  <2> QED
    BY <1>4, <1>6, <2>1, <2>3
<1>7. ASSUME NEW answer \in Answers, ServiceDeploy(answer), ProjectWaits
      PROVE  FreshFits(s)' /\ Moves(s)
  <2> DEFINE sent == [svcCopy EXCEPT !.DeploymentPending = FALSE]
  <2>1. /\ UNCHANGED <<commits, cr, cached>> /\ svcKey \in Services
        /\ ServiceRetry \/ ServiceContinue("deployed", sent)
    BY <1>7, <1>t DEF ServiceDeploy, gitVars, cacheVars
  <2>2. sent.DesiredVersion = svcCopy.DesiredVersion
    <3>1. svcCopy \in KeptnService
      BY <1>t
    <3> QED
      BY <3>1 DEF KeptnService
  <2>3. \/ accepted'[s].version = accepted[s].version
        \/ svcKey = s /\ accepted'[s].version = svcCopy.DesiredVersion
    BY <1>7, <1>t DEF ServiceDeploy, triggerDeployment, EventOf
  <2> HIDE DEF sent
  <2>4. CASE ServiceContinue("deployed", sent)
    BY <1>3, <1>7, <2>1, <2>2, <2>3, <2>4 DEF ServiceContinue
  <2> QED
    BY <1>4, <1>7, <2>1, <2>3, <2>4
<1>8. ASSUME NEW answer \in Answers, ServiceDelete(answer), ProjectWaits
      PROVE  FreshFits(s)' /\ Moves(s)
  <2> DEFINE safe == [svcCopy EXCEPT !.SafeToDelete = TRUE]
  <2>1. /\ UNCHANGED <<commits, cr, cached, accepted>> /\ svcKey \in Services
        /\ ServiceRetry \/ ServiceContinue("update", safe)
    BY <1>8, <1>t DEF ServiceDelete, deleteService, gitVars, cacheVars
  <2>2. safe.DesiredVersion = svcCopy.DesiredVersion
    <3>1. svcCopy \in KeptnService
      BY <1>t
    <3> QED
      BY <3>1 DEF KeptnService
  <2> HIDE DEF safe
  <2>3. CASE ServiceContinue("update", safe)
    BY <1>3, <1>8, <2>1, <2>2, <2>3 DEF ServiceContinue
  <2> QED
    BY <1>4, <1>8, <2>1, <2>3
<1>9. ASSUME NEW result \in Results, ServiceUpdate(result), ProjectWaits
      PROVE  FreshFits(s)' /\ Moves(s)
  <2>1. /\ UNCHANGED <<commits, cached, accepted>> /\ svcKey \in Services
        /\ svcKey' # s
        /\ UpdateCR("service", svcKey, svcCopy, result)
    BY <1>9, <1>t, NoServiceAssumption
       DEF ServiceUpdate, ServiceDone, gitVars, keptnVars, cacheVars, NoServiceAssumption
  <2>2. /\ fresh'[s] \subseteq fresh[s]
        /\ "cache" \in fresh[s] => "cache" \in fresh'[s] \/ fresh'[s] = {}
        /\ s = svcKey => "service" \notin fresh'[s]
        /\ \/ cr'[s] = cr[s]
           \/ /\ s = svcKey /\ cr'[s] = svcCopy /\ fresh'[s] = {}
              /\ "service" \in fresh[s]
    BY <1>t, <2>1, UpdateEffect
  <2>3. cr'[s].DesiredVersion = cr[s].DesiredVersion
    BY <2>2 DEF FreshFits
  <2>4. FreshFits(s)'
    BY <2>1, <2>2 DEF FreshFits
  <2> QED
    BY <1>9, <2>1, <2>3, <2>4 DEF Moves
<1> QED
  BY <1>1, <1>2, <1>5, <1>6, <1>7, <1>8, <1>9 DEF ServiceController, ServiceRequest

(* The KeptnProject controller moves them from the branch to the resources, *)
(* watch events to the cache.                                               *)
LEMMA OthersMove ==
  ASSUME TypeOK, ProjectController \/ Informers \/ (EditProject /\ BothWait) \/ Restart,
         NEW s \in Services, FreshFits(s)
  PROVE  FreshFits(s)' /\ Moves(s)
<1> USE DEF ServiceWaits, serviceVars
<1>t. /\ cached \in [Services -> KeptnService] /\ cr \in [Services -> KeptnService]
      /\ fresh \in [Services -> SUBSET Holders]
  BY DEF TypeOK, ClusterTypeOK
<1>n. target' = s => target' # NoTarget
  BY NoTargetAssumption DEF NoTargetAssumption
<1>1. ASSUME UNCHANGED <<commits, accepted, cr, cached, fresh>>, ServiceWaits,
             target' = NoTarget \/ UNCHANGED <<target, pCopy>>
      PROVE  FreshFits(s)' /\ Moves(s)
  BY <1>1, <1>n DEF FreshFits, Moves
<1>2. ASSUME NEW result,
             \/ ProjectStart \/ ProjectClone \/ ProjectCloneFails
             \/ ProjectCompare \/ ProjectRecord(result),
             ServiceWaits
      PROVE  FreshFits(s)' /\ Moves(s)
  <2>1. UNCHANGED <<commits, accepted, cr, cached, fresh>>
    BY <1>2 DEF ProjectStart, ProjectClone, ProjectCloneFails, ProjectCompare, ProjectRecord,
                gitVars, apiVars, cacheVars, keptnVars, clusterVars
  <2>2. target' = NoTarget \/ UNCHANGED <<target, pCopy>>
    BY <1>2 DEF ProjectStart, ProjectClone, ProjectCloneFails, ProjectCompare, ProjectRecord,
                ProjectDone, Forget
  <2> QED
    BY <1>1, <1>2, <2>1, <2>2
<1>3. ASSUME NEW k \in Services, NEW result \in Results,
             ProjectCreate(k, result), ServiceWaits
      PROVE  FreshFits(s)' /\ Moves(s)
  <2>1. /\ UNCHANGED <<commits, accepted, cached>>
        /\ target' = NoTarget \/ UNCHANGED <<target, pCopy>>
        /\ UNCHANGED <<cr, fresh>> \/ CreateCR(k, NewKeptnService, result)
    BY <1>3 DEF ProjectCreate, ProjectDone, Forget, gitVars, apiVars, cacheVars, keptnVars
  <2>2. CASE UNCHANGED <<cr, fresh>>
    BY <1>1, <1>3, <2>1, <2>2
  <2>3. CASE CreateCR(k, NewKeptnService, result)
    <3>1. \/ cr'[s] = cr[s] /\ fresh'[s] = fresh[s]
          \/ cr'[s] = NewKeptnService /\ fresh'[s] = {}
      BY <2>3, CreateEffect, ZeroType
    <3>2. NewKeptnService.DesiredVersion = NoVersion
      BY DEF NewKeptnService, Zero
    <3> QED
      BY <1>3, <1>n, <2>1, <3>1, <3>2 DEF FreshFits, Moves
  <2> QED
    BY <2>1, <2>2, <2>3
<1>4. ASSUME NEW k \in Services, NEW result \in Results,
             ProjectRemove(k, result), ServiceWaits
      PROVE  FreshFits(s)' /\ Moves(s)
  <2> DEFINE marked == [cached[k] EXCEPT !.DeletionPending = TRUE]
  <2>1. DeleteCR(k, result) \/ UpdateCR("cache", k, marked, result)
    BY <1>4 DEF ProjectRemove
  <2>2. marked \in KeptnService /\ marked.DesiredVersion = cached[k].DesiredVersion
    <3>1. cached[k] \in KeptnService
      BY <1>t
    <3> QED
      BY <3>1 DEF KeptnService
  <2> HIDE DEF marked
  <2>3. UNCHANGED <<commits, accepted, cached>> /\ target' = NoTarget
    <3>1. UNCHANGED <<gitVars, cacheVars, keptnVars>> /\ ProjectDone
      BY <1>4 DEF ProjectRemove
    <3> QED
      BY <3>1 DEF ProjectDone, Forget, gitVars, cacheVars, keptnVars
  <2>4. CASE DeleteCR(k, result)
    <3>1. \/ cr'[s] = cr[s] /\ fresh'[s] = fresh[s]
          \/ cr'[s] = Zero /\ fresh'[s] = {}
      BY <2>4, DeleteEffect
    <3>2. Zero.DesiredVersion = NoVersion
      BY DEF Zero
    <3> QED
      BY <1>4, <1>n, <2>3, <3>1, <3>2 DEF FreshFits, Moves
  <2>5. CASE UpdateCR("cache", k, marked, result)
    <3>1. /\ fresh'[s] \subseteq fresh[s]
          /\ "cache" \in fresh[s] => "cache" \in fresh'[s] \/ fresh'[s] = {}
          /\ \/ cr'[s] = cr[s]
             \/ s = k /\ cr'[s] = marked /\ fresh'[s] = {} /\ "cache" \in fresh[s]
      BY <2>2, <2>5, UpdateEffect
    <3>2. cr'[s].DesiredVersion = cr[s].DesiredVersion
      BY <2>2, <3>1 DEF FreshFits
    <3>3. FreshFits(s)'
      BY <1>4, <2>3, <3>1 DEF FreshFits
    <3> QED
      BY <1>4, <1>n, <2>3, <3>2, <3>3 DEF Moves
  <2> QED
    BY <2>1, <2>4, <2>5
<1>5. ASSUME NEW k \in Services, NEW version \in Versions \union {NoVersion},
             ProjectGetVersion(k, version), ServiceWaits
      PROVE  FreshFits(s)' /\ Moves(s)
  <2> DEFINE wanted == Wanted(cached[k], version, commits[config].trigger[k])
  <2>1. /\ UNCHANGED <<commits, accepted, cr, cached>>
        /\ version = commits[Tip].version[k] \/ version = NoVersion
        /\ \/ target' = k /\ pCopy' = wanted /\ Take("project", k)
           \/ UNCHANGED <<target, pCopy, fresh>>
    BY <1>5, Zenon DEF ProjectGetVersion, GetServiceVersion, Wanted, gitVars, cacheVars, keptnVars
  <2>2. wanted.DesiredVersion = version
    <3>1. cached[k] \in KeptnService
      BY <1>t
    <3> QED
      BY <3>1 DEF Wanted, KeptnService
  <2> HIDE DEF wanted
  <2>3. CASE UNCHANGED <<target, pCopy, fresh>>
    BY <1>1, <1>5, <2>1, <2>3
  <2>4. CASE target' = k /\ pCopy' = wanted /\ Take("project", k)
    <3>1. /\ "cache" \in fresh'[s] <=> "cache" \in fresh[s]
          /\ "service" \in fresh'[s] <=> "service" \in fresh[s]
          /\ fresh'[s] # {} => "cache" \in fresh[s] \/ fresh'[s] = fresh[s]
      BY <1>t, <2>4 DEF Take
    <3>2. FreshFits(s)'
      BY <1>5, <2>1, <3>1 DEF FreshFits
    <3> QED
      BY <1>5, <2>1, <2>2, <2>4, <3>2 DEF Moves
  <2> QED
    BY <2>1, <2>3, <2>4
<1>6. ASSUME NEW result \in Results, ProjectTrigger(result), ServiceWaits
      PROVE  FreshFits(s)' /\ Moves(s)
  <2>1. /\ UNCHANGED <<commits, accepted, cached>> /\ target' = NoTarget
        /\ target \in Services /\ pCopy \in KeptnService
        /\ UpdateCR("project", target, pCopy, result)
    BY <1>6 DEF ProjectTrigger, ProjectDone, Forget, gitVars, cacheVars, keptnVars,
                TypeOK, ProjectTypeOK
  <2>2. /\ fresh'[s] \subseteq fresh[s]
        /\ "cache" \in fresh[s] => "cache" \in fresh'[s] \/ fresh'[s] = {}
        /\ cr'[s] = cr[s] \/ (s = target /\ cr'[s] = pCopy /\ fresh'[s] = {})
    BY <2>1, UpdateEffect
  <2>3. FreshFits(s)'
    BY <1>6, <2>1, <2>2 DEF FreshFits
  <2> QED
    BY <1>6, <1>n, <2>1, <2>2, <2>3 DEF Moves
<1>7. ASSUME NEW k \in Services, Sync(k), BothWait PROVE FreshFits(s)' /\ Moves(s)
  <2>1. /\ UNCHANGED <<commits, accepted, cr, svcKey, svcStep, svcCopy, target, pCopy>>
        /\ \/ cached'[s] = cached[s] /\ fresh'[s] = fresh[s]
           \/ cached'[s] = cr[s] /\ fresh'[s] = fresh[s] \union {"cache"}
    BY <1>7, <1>t DEF Sync, BothWait, ProjectWaits, reconcileVars, gitVars, keptnVars
  <2> QED
    BY <2>1 DEF FreshFits, Moves
<1>8. ASSUME SyncProject \/ EditProject, BothWait PROVE FreshFits(s)' /\ Moves(s)
  BY <1>1, <1>8 DEF SyncProject, EditProject, BothWait, ProjectWaits, reconcileVars,
                    gitVars, apiVars, cacheVars, keptnVars
<1>9. ASSUME Restart PROVE FreshFits(s)' /\ Moves(s)
  <2>1. /\ UNCHANGED <<commits, accepted, cr>> /\ cached' = cr /\ fresh'[s] = {"cache"}
        /\ svcKey' # s /\ target' # s
    BY <1>9, NoServiceAssumption, NoTargetAssumption
       DEF Restart, RestartCluster, ServiceDone, Forget, gitVars, keptnVars,
           NoServiceAssumption, NoTargetAssumption
  <2> QED
    BY <2>1 DEF FreshFits, Moves
<1> QED
  BY <1>2, <1>3, <1>4, <1>5, <1>6, <1>7, <1>8, <1>9
     DEF ProjectController, ProjectRequest, Informers

(* At the start no copy has a version. *)
LEMMA InitForward ==
  ASSUME \A h \in Histories : EachNew(h)
  PROVE  Init => Forward
<1> SUFFICES ASSUME Init PROVE Forward
  OBVIOUS
<1>1. TypeOK
  BY InitType
<1>2. EachNew(commits)
  <2>1. PICK h \in Histories : commits = <<h[1]>>
    BY DEF Init, ClusterInit
  <2>2. h \in Seq(Commit) /\ Len(h) > 0
    BY ClusterAssumption DEF ClusterAssumption
  <2>3. 1 \in 1..Len(h) /\ Len(commits) = 1 /\ commits[1] = h[1]
    BY <2>1, <2>2
  <2>4. EachNew(h)
    OBVIOUS
  <2> QED
    BY <2>3, <2>4 DEF EachNew
<1>3. ASSUME NEW s \in Services PROVE ForwardOf(s)
  <2>1. /\ cr[s] = Zero /\ cached[s] = Zero /\ fresh[s] = {"cache"}
        /\ accepted[s].version = NoVersion /\ svcKey # s /\ target # s
    BY NoServiceAssumption, NoTargetAssumption
       DEF Init, ClusterInit, ServiceInit, ProjectInit, NoEvent,
           NoServiceAssumption, NoTargetAssumption
  <2>2. Zero.DesiredVersion = NoVersion
    BY DEF Zero
  <2>3. NotAfter(commits, s, NoVersion, NoVersion)
    BY <1>1, <1>2, OrderFacts
  <2> QED
    BY <2>1, <2>2, <2>3 DEF ForwardOf, FreshFits, InOrder, AllNamed, NamedBy
<1> QED
  BY <1>2, <1>3 DEF Forward

(* A step keeps the versions in order. *)
LEMMA NextForward ==
  ASSUME \A h \in Histories : EachNew(h), TypeOK, Forward, [Next]_vars
  PROVE  Forward'
<1>1. ASSUME NEW s \in Services, FreshFits(s)', Moves(s) PROVE ForwardOf(s)' /\ EachNew(commits)'
  <2>1. EachNew(commits) /\ InOrder(s) /\ AllNamed(s)
    BY DEF Forward, ForwardOf
  <2>2. InOrder(s)' /\ AllNamed(s)'
    BY <1>1, <2>1, OrderKept
  <2>3. commits' = commits
    BY <1>1 DEF Moves
  <2> QED
    BY <1>1, <2>1, <2>2, <2>3 DEF ForwardOf
<1>2. CASE Push /\ BothWait
  <2>1. UNCHANGED <<accepted, cached, cr, fresh, svcKey, svcStep, svcCopy, target, pCopy>>
    BY <1>2 DEF Push, BothWait, ServiceWaits, ProjectWaits, serviceVars, reconcileVars,
                apiVars, cacheVars, keptnVars
  <2>2. ASSUME NEW s \in Services PROVE ForwardOf(s)' /\ EachNew(commits)'
    <3>1. FreshFits(s) /\ InOrder(s) /\ AllNamed(s)
      BY DEF Forward, ForwardOf
    <3>2. EachNew(commits)' /\ InOrder(s)' /\ AllNamed(s)'
      BY <1>2, <2>1, <3>1, OrderPushed
    <3>3. FreshFits(s)'
      BY <2>1, <3>1 DEF FreshFits
    <3> QED
      BY <3>2, <3>3 DEF ForwardOf
  <2> QED
    BY <2>2 DEF Forward, EachNew
<1>3. CASE \/ ServiceController \/ ProjectController \/ Informers
           \/ (EditProject /\ BothWait) \/ Restart \/ UNCHANGED vars
  <2>1. ASSUME NEW s \in Services PROVE ForwardOf(s)' /\ EachNew(commits)'
    <3>1. FreshFits(s)
      BY DEF Forward, ForwardOf
    <3>2. CASE UNCHANGED vars
      BY <1>1, <3>1, <3>2 DEF vars, clusterVars, serviceVars, reconcileVars, FreshFits, Moves
    <3>3. CASE ~UNCHANGED vars
      BY <1>1, <1>3, <3>1, <3>3, ServiceMoves, OthersMove
    <3> QED
      BY <3>2, <3>3
  <2> QED
    BY <2>1 DEF Forward, EachNew
<1> QED
  BY <1>2, <1>3 DEF Next, Environment

(* What Keptn accepts is not older than what it accepted before. *)
LEMMA AcceptedMovesForward ==
  ASSUME TypeOK, Forward, [Next]_vars, NEW s \in Services, accepted'[s] # accepted[s]
  PROVE  /\ UNCHANGED commits
         /\ NotAfter(commits, s, accepted[s].version, accepted'[s].version)
<1>1. EachNew(commits) /\ FreshFits(s) /\ InOrder(s)
  BY DEF Forward, ForwardOf
<1>2. ~UNCHANGED vars /\ ~Push
  BY DEF vars, clusterVars, Push, keptnVars
<1>3. Moves(s)
  BY <1>1, <1>2, ServiceMoves, OthersMove DEF Next, Environment
<1>4. NotAfter(commits, s, accepted[s].version, accepted[s].version)
  BY <1>1, OrderFacts
<1> QED
  BY <1>1, <1>3, <1>4 DEF Moves, InOrder

(* When every commit names a version of its own, Keptn is never told to      *)
(* deploy the version of an older commit than before: whatever the caches,   *)
(* copies and retries it passes through, no version overtakes a newer one,   *)
(* with faults of every kind and any number of restarts.                     *)
THEOREM NoDeploymentGoesBack ==
  ASSUME \A h \in Histories : EachNew(h)
  PROVE  Spec => DeploymentsMoveForward
<1> DEFINE Ahead == \A s \in Services : \A i, j \in 1..Tip' :
             /\ accepted'[s] # accepted[s]
             /\ accepted[s].trigger # NoTrigger
             /\ accepted[s].version = commits'[i].version[s]
             /\ accepted'[s].version = commits'[j].version[s]
             /\ NamedOnce(i, s)' /\ NamedOnce(j, s)'
             => i <= j
<1>1. TypeOK /\ Forward /\ [Next]_vars => [Ahead]_vars
  <2> SUFFICES ASSUME TypeOK, Forward, [Next]_vars,
                      NEW s \in Services, accepted'[s] # accepted[s],
                      NEW i \in 1..Tip', NEW j \in 1..Tip',
                      accepted[s].version = commits'[i].version[s],
                      accepted'[s].version = commits'[j].version[s]
               PROVE  i <= j
    OBVIOUS
  <2>1. /\ UNCHANGED commits
        /\ NotAfter(commits, s, accepted[s].version, accepted'[s].version)
    BY AcceptedMovesForward
  <2> QED
    BY <2>1 DEF NotAfter, Tip
<1>2. TypeOK /\ TypeOK' /\ Forward /\ [Next]_vars => Forward'
  BY NextForward
<1> HIDE DEF Ahead
<1>3. Spec => []Forward
  BY <1>2, InitForward, TypeCorrect, PTL DEF Spec
<1>4. Spec => [][Ahead]_vars
  BY <1>1, <1>3, TypeCorrect, PTL DEF Spec
<1> QED
  BY <1>4 DEF Ahead, DeploymentsMoveForward
================================================================================
