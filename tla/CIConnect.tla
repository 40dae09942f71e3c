------------------------------- MODULE CIConnect -------------------------------
(***************************************************************************)
(* Concurrent runs of `ci-connect-cli trigger-deployment`                  *)
(* (ci-connect-cli/cmd/triggerDeploy.go, gitutils.go, keptnciutils.go).    *)
(* A job clones the repository twice, writes its service into the second   *)
(* clone, commits, tags, and pushes first the branch and then the tags.    *)
(* A push error makes it start again from new clones, a bounded number of  *)
(* times; any other error ends it.                                         *)
(***************************************************************************)
EXTENDS DeploymentRepo

CONSTANTS
  Settings,         \* how pipelines may call their jobs
  MaxRepetitions    \* MaxDeploymentRepetitionsOnGitPushError, 10 in the code

Setting ==
  [service          : Services,                        \* --service
   version          : Versions \union {NoVersion},     \* --version
   listed           : BOOLEAN,      \* ci_config.yaml has the service
   ignoreDuplicates : BOOLEAN,      \* its ignoreDuplicateGitTag
   dryRun           : BOOLEAN]      \* --dry-run

ASSUME JobAssumption ==
  /\ Settings \subseteq [Jobs -> Setting]
  /\ MaxRepetitions \in Nat

VARIABLES
  setting,      \* setting[j]: the flags and ci_config.yaml of job j
  job           \* job[j]: where job j is, and its memory

vars == <<repoVars, setting, job>>

Steps == {"main", "deploy", "branch", "tags", "exit0", "exit1"}

Memory ==
  [step        : Steps,
   repetitions : 0..MaxRepetitions,
   version     : Versions \union {NoVersion},     \* triggerDeployParams.Version
   trigger     : Triggers \union {NoTrigger},     \* from the main clone
   base        : Nat,         \* commits in the deploy clone before its own
   content     : Content]     \* its own commit

Nothing ==
  [version |-> [s \in Services |-> NoVersion],
   trigger |-> [s \in Services |-> NoTrigger],
   staged |-> {}, shipyard |-> NoTrigger]

(* The clones and everything read from them die with the attempt; the *)
(* version, once chosen, and the count live as long as the process.   *)
Attempt(step, repetitions, version) ==
  [step |-> step, repetitions |-> repetitions, version |-> version,
   trigger |-> NoTrigger, base |-> 0, content |-> Nothing]

Exit0(m) == Attempt("exit0", m.repetitions, m.version)
Exit1(m) == Attempt("exit1", m.repetitions, m.version)

(* RunDeployment returned an error.  The loop in RunE looks at the kind of *)
(* the error only while repetitions are left; then the command succeeds.   *)
PushError_PushAgain(m) ==
  IF m.repetitions < MaxRepetitions THEN m ELSE Exit0(m)
PushError_KeepClone(m) ==
  IF m.repetitions < MaxRepetitions
    THEN [m EXCEPT !.repetitions = @ + 1] ELSE Exit0(m)
PushError_OneMore(m) ==
  IF m.repetitions <= MaxRepetitions
    THEN Attempt("main", m.repetitions + 1, m.version) ELSE Exit0(m)
PushError_Succeeds(m) == Exit0(m)
PushError(m) ==
  IF m.repetitions < MaxRepetitions
    THEN Attempt("main", m.repetitions + 1, m.version)
    ELSE Exit0(m)

OtherError(m) ==
  IF m.repetitions < MaxRepetitions THEN Exit1(m) ELSE Exit0(m)

Becomes(j, m) ==
  /\ job' = [job EXCEPT ![j] = m]
  /\ UNCHANGED setting

--------------------------------------------------------------------------------
(* The first clone, of which only shipyard.yaml is read. *)
CloneMain(j) ==
  /\ job[j].step = "main"
  /\ Becomes(j, [job[j] EXCEPT !.step = "deploy", !.trigger = Tip.shipyard])
  /\ UNCHANGED repoVars

(* Whatever RunDeployment answers with log.Fatal. *)
RunFails(j) ==
  /\ job[j].step \in {"main", "deploy"}
  /\ Fault("clone")
  /\ Becomes(j, Exit1(job[j]))
  /\ UNCHANGED <<branch, tags>>

(* modifyOperatorConfig writes config.yaml only if it changes the entry, and *)
(* what it writes has no start stages: its KeptnService has no such field.   *)
modifyOperatorConfig(content, s, t) ==
  [content EXCEPT !.trigger[s] = t,
                  !.staged = IF content.trigger[s] = t THEN @ ELSE {}]

UpdateRepository_Overwrites(content, s, v, t) ==
  [Nothing EXCEPT !.trigger[s] = t, !.version[s] = v, !.shipyard = content.shipyard]
UpdateRepository(content, s, v, t) ==
  [modifyOperatorConfig(content, s, t) EXCEPT !.version[s] = v]

(* The version is that of the flag, or of an earlier attempt, or is found  *)
(* now: in Chart.yaml, which may lack the field, and then it is empty and  *)
(* no error (helmUtils.go:48-72), or from the clock.                       *)
VersionsFor(m) ==
  IF m.version = NoVersion THEN Versions \union {NoVersion} ELSE {m.version}

(* The second clone and what is done in it, up to the tag.  Without a      *)
(* ci_config.yaml entry UpdateRepository does nothing and the commit is    *)
(* empty.  The clone has the remote's tags, so a second tag of one release *)
(* is an error here already.                                               *)
CloneDeploy(j) ==
  LET s == setting[j].service  m == job[j] IN
  /\ m.step = "deploy"
  /\ \/ m.trigger = NoTrigger /\ Becomes(j, OtherError(m))
     \/ /\ m.trigger # NoTrigger
        /\ \E v \in IF setting[j].listed THEN VersionsFor(m) ELSE {m.version} :
             LET run == [m EXCEPT
                           !.step = "branch", !.version = v, !.base = Height,
                           !.content = IF setting[j].listed
                             THEN UpdateRepository(Tip, s, v, m.trigger) ELSE Tip]
             IN  Becomes(j, IF setting[j].dryRun THEN Exit0(run)
                            ELSE IF tags[<<s, v>>] # 0 THEN OtherError(run)
                            ELSE run)
  /\ UNCHANGED repoVars

CommitOf(j) == [author |-> j, content |-> job[j].content]

PushHeads_IgnoresErrors(j, result) ==
  /\ job[j].step = "branch"
  /\ PushBranch(job[j].base, CommitOf(j), result)
  /\ Becomes(j, [job[j] EXCEPT !.step = "tags"])
PushHeads(j, result) ==
  /\ job[j].step = "branch"
  /\ PushBranch(job[j].base, CommitOf(j), result)
  /\ Becomes(j, IF result = "ok" THEN [job[j] EXCEPT !.step = "tags"]
                ELSE PushError(job[j]))

ReleaseOf(j) == <<setting[j].service, job[j].version>>

PushTags(j, result) ==
  /\ job[j].step = "tags"
  /\ PushTag(ReleaseOf(j), job[j].base + 1, result)
  /\ Becomes(j, IF result = "ok" \/ setting[j].ignoreDuplicates
                  THEN Exit0(job[j]) ELSE PushError(job[j]))

(* The job is killed, or has failed, and the pipeline runs it again. *)
Rerun(j) ==
  /\ job[j].step # "exit0"
  /\ Fault("rerun")
  /\ Becomes(j, Attempt("main", 0, setting[j].version))
  /\ UNCHANGED <<branch, tags>>

--------------------------------------------------------------------------------
Init ==
  /\ RepoInit
  /\ setting \in Settings
  /\ job = [j \in Jobs |-> Attempt("main", 0, setting[j].version)]

RunDeployment(j) ==
  \/ CloneMain(j)
  \/ CloneDeploy(j)
  \/ \E result \in Results : PushHeads(j, result)
  \/ \E result \in Results : PushTags(j, result)

Next ==
  \/ \E j \in Jobs : RunDeployment(j) \/ RunFails(j) \/ Rerun(j)
  \/ Edit /\ UNCHANGED <<setting, job>>

Spec == Init /\ [][Next]_vars

(* A job runs until it ends: git answers every request. *)
FairSpec == Spec /\ \A j \in Jobs : WF_vars(RunDeployment(j))

TypeOK ==
  /\ RepoTypeOK
  /\ setting \in [Jobs -> Setting]
  /\ job \in [Jobs -> Memory]

--------------------------------------------------------------------------------
(* The branch is a log of whole configurations and a tag describes its       *)
(* commit, however many jobs clone, push and retry at once: the entry that a *)
(* clone was made from is never written back over a newer one                *)
(* (gitutils.go:116, keptnciutils.go:112).                                   *)
Log ==
  INSTANCE ConfigurationLog WITH
    log <- [i \in 1..Len(branch) |-> branch[i].content], releases <- tags

PublishesAtomically == Log!LogSpec

(* The commit of j is on the branch, and so is its tag: on that commit, or, *)
(* if j ignores duplicates, on a commit that had the tag before.            *)
Published(j) ==
  \E i \in 1..Height :
    /\ branch[i].author = j
    /\ setting[j].listed
         => branch[i].content.version[setting[j].service] = job[j].version
    /\ \/ tags[ReleaseOf(j)] = i
       \/ setting[j].ignoreDuplicates /\ tags[ReleaseOf(j)] # 0

NoFailedPush == faults = 0 \/ "failed" \notin FaultKinds

(* A job that succeeds before its repetitions are used up has published,      *)
(* whatever was lost or pushed meanwhile (triggerDeploy.go:182-193).  With    *)
(* ignoreDuplicateGitTag every error of the push of the tags is ignored, not  *)
(* only a duplicate (gitutils.go:134-139): of such a job it is said only as   *)
(* long as no push can have failed.                                           *)
SuccessIsPublished ==
  \A j \in Jobs :
    /\ job[j].step = "exit0"
    /\ job[j].repetitions < MaxRepetitions
    /\ ~setting[j].dryRun
    /\ setting[j].ignoreDuplicates => NoFailedPush
    => Published(j)

(* A job repeats only because another job or a developer got something onto *)
(* the remote, or a push failed: it never loses against itself              *)
(* (triggerDeploy.go:184-188).                                              *)
RepetitionsAreEarned ==
  \A j \in Jobs :
    LET others == {i \in 2..Height : branch[i].author # j}
        tagged == {r \in Release : tags[r] # 0 /\ branch[tags[r]].author # j}
    IN  job[j].repetitions <= Cardinality(others) + Cardinality(tagged) + faults

(* Every job comes to an end (triggerDeploy.go:183). *)
JobsEnd == <>[](\A j \in Jobs : job[j].step \in {"exit0", "exit1"})

(* The command pushes and tags what it was called for ("commits and pushes *)
(* the changes. The commit will be tagged", triggerDeploy.go:171-172).     *)
CommandPublishes ==
  \A j \in Jobs :
    job[j].step = "exit0" /\ ~setting[j].dryRun => Published(j)

--------------------------------------------------------------------------------
(* The inductive invariant behind PublishesAtomically and SuccessIsPublished. *)

(* The commit of job j, made from the first base commits of the branch. *)
Work(j) ==
  LET old == branch[job[j].base].content IN
  IF setting[j].listed
    THEN /\ job[j].trigger \in Triggers
         /\ job[j].content = UpdateRepository(old, setting[j].service,
                                              job[j].version, job[j].trigger)
    ELSE job[j].content = old

(* What a job has in its clone is its own change of a commit that is still on *)
(* the branch, and when it comes to the tags that change is the next commit.  *)
WorkFitsBranch ==
  \A j \in Jobs :
    /\ job[j].step \in {"branch", "tags"} => job[j].base \in 1..Height /\ Work(j)
    /\ job[j].step = "tags" =>
         job[j].base < Height /\ branch[job[j].base + 1] = CommitOf(j)
================================================================================
