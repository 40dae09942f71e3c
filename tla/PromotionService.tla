--------------------------- MODULE PromotionService ---------------------------
(***************************************************************************)
(* promotion-service (main.go, eventhandler/eventhandlers.go,              *)
(* git/githandler.go) at work on the deployment repository: for each       *)
(* promotion.triggered event a handler clones a release and a stage        *)
(* branch, replaces the service's directory, pushes, and answers Keptn.    *)
(* The handlers run at once, each event in a goroutine of the receiver.    *)
(*                                                                         *)
(* The releases come from jobs of ci-connect-cli, with the files they      *)
(* write.  Here a job pushes its commit in one step, and later its tag: it *)
(* is shown with CIConnect that concurrent jobs come to the same.          *)
(*                                                                         *)
(* An operator named X_Y is X with the mistake Y in it; no specification   *)
(* uses one.                                                               *)
(***************************************************************************)
EXTENDS ConfigurationFiles, PromotionFiles

CONSTANTS
  Jobs,           \* runs of trigger-deployment
  Initial,        \* the files of the deployment repository at first
  StageBranches,  \* the trees of the stage branches that exist
  Promotions,     \* promotion.triggered events that Keptn sends
  Scenarios,      \* how the jobs may be called, and what the events may be
  Nobody,         \* the author of the first commits
  FaultKinds,     \* the faults a run lets happen, each once
  MaxFaults       \* how many of them

Release == Services \X (Versions \union {NoVersion})

Request ==
  [understood : BOOLEAN,                    \* a promotion.triggered event, readable
   service    : Services,
   stage      : Stages,
   version    : Versions \union {NoVersion}]      \* its label, if it has one

ASSUME ServiceAssumption ==
  /\ Scenarios \subseteq [call : [Jobs -> Deployment], request : [Promotions -> Request]]
  /\ DOMAIN StageBranches \subseteq Stages
  /\ Nobody \notin Promotions

(* A path is a sequence of names: the program's, and what else there may be. *)
Given ==
  DOMAIN Initial
    \union (UNION {DOMAIN Workspaces[w] : w \in DOMAIN Workspaces})
    \union (UNION {DOMAIN StageBranches[st] : st \in DOMAIN StageBranches})
Names ==
  {"base", "stages", "helm", "values.yaml", "Chart.yaml", "metadata", "deployment.yaml",
   ".keptn", "config.yaml", "shipyard.yaml", "chart", "temp_dir_master"}
    \union Services \union Stages \union {Rest} \union UNION {ToSet(path) : path \in Given}
Paths == Seq(Names)

ASSUME FilesAssumption == Given \subseteq Paths

(* The values.yaml files of releases.  One that is merged with none stays as *)
(* it is, or cannot be parsed (MergeValues, githandler.go:260-281).          *)
ValuesOf(tree) == {tree[path] : path \in {x \in DOMAIN tree : Last(x) = "values.yaml"}}
ValuesGiven == ValuesOf(Initial) \union UNION {ValuesOf(Workspaces[w]) : w \in DOMAIN Workspaces}

ASSUME MergeAssumption ==
  \A file \in ValuesGiven \union {NoFile} : Merged(file, NoFile) \in {file, NoFile}

(* Of two that can be read, the stage's overlays the base's path by path.    *)
ASSUME OverlayAssumption ==
  \A base, stage \in ValuesGiven :
    "values" \in DOMAIN base \intersect DOMAIN stage =>
      LET merged == Merged(base, stage) IN
      "values" \in DOMAIN merged /\ IsOverlay(merged.values, stage.values, base.values)

VARIABLES
  master,      \* the trees of the default branch, oldest first
  tags,        \* tags[r]: the commit the tag of release r names, or 0
  call,        \* call[j]: how job j is called
  job,         \* job[j]: how far job j is, its version and its commit
  branch,      \* branch[st]: the commits of the stage branch, oldest first
  request,     \* request[p]: the event p
  handler,     \* handler[p]: where the handler of p is, and its memory
  sent,        \* sent[p]: what Keptn was told about p
  faults       \* the faults that have happened

jobVars     == <<master, tags, call, job>>
handlerVars == <<branch, request, handler, sent>>
vars        == <<jobVars, handlerVars, faults>>

Fault(kind) ==
  /\ kind \in FaultKinds \ faults
  /\ Cardinality(faults) < MaxFaults
  /\ faults' = faults \union {kind}

--------------------------------------------------------------------------------
(* ci-connect-cli. *)

Deploy(j) ==
  LET tree    == Last(master)
      trigger == getStageAndSequence(tree, call[j])
      updated == IF trigger = NoTrigger THEN {}
                 ELSE UpdateRepository(tree, Workspaces[call[j].workspace], call[j], trigger)
      fresh   == {u \in updated : tags[<<call[j].service, u.version>>] = 0}
  IN  /\ job[j].step = "start"
      /\ \/ /\ fresh # updated \/ updated = {}
            /\ job' = [job EXCEPT ![j].step = "failed"]
            /\ UNCHANGED master
         \/ \E u \in fresh :
              /\ master' = Append(master, u.tree)
              /\ job' = [job EXCEPT ![j] = [step |-> "tag", version |-> u.version,
                                            commit |-> Len(master) + 1]]
      /\ UNCHANGED <<tags, call, handlerVars, faults>>

Tag_Next(j) ==
  LET r == <<call[j].service, job[j].version>> IN
  /\ job[j].step = "tag"
  /\ tags' = IF tags[r] = 0 THEN [tags EXCEPT ![r] = job[j].commit + 1] ELSE tags
  /\ job' = [job EXCEPT ![j].step = "end"]
  /\ UNCHANGED <<master, call, handlerVars, faults>>
Tag(j) ==
  LET r == <<call[j].service, job[j].version>> IN
  /\ job[j].step = "tag"
  /\ tags' = IF tags[r] = 0 THEN [tags EXCEPT ![r] = job[j].commit] ELSE tags
  /\ job' = [job EXCEPT ![j].step = "end"]
  /\ UNCHANGED <<master, call, handlerVars, faults>>

--------------------------------------------------------------------------------
(* The handler of one event. *)

Steps == {"waiting", "secret", "release", "stage", "push", "finish", "errored", "done"}

NoFiles == <<>>

(* base: the height of the stage branch when it was cloned.  files: what the *)
(* commit made on top of it holds, if there is one.                          *)
Memory(step) == [step |-> step, base |-> 0, committed |-> FALSE, files |-> NoFiles]

(* What the handler remembers goes with it; base stays for the properties. *)
Moved(p, step) == [handler EXCEPT ![p] = [Memory(step) EXCEPT !.base = handler[p].base]]

Goes(p, step) == handler' = Moved(p, step) /\ UNCHANGED <<branch, request>>

Height(st) == Len(branch[st])

(* An event is sent ("ok"), is not ("failed"), or is sent and an error comes *)
(* back all the same ("lost").                                               *)
Answers == {"ok", "failed", "lost"}
Send(p, event, answer) ==
  /\ \/ answer = "ok" /\ UNCHANGED faults
     \/ answer = "failed" /\ Fault("send failed")
     \/ answer = "lost" /\ Fault("send lost")
  /\ sent' = IF answer = "failed" THEN sent ELSE [sent EXCEPT ![p] = @ \union {event}]

(* Events of another type, and data that cannot be read, get no answer.  An *)
(* event without a version label is answered with an error.                 *)
Receive(p) ==
  /\ handler[p].step = "waiting"
  /\ \/ ~request[p].understood /\ Goes(p, "done") /\ UNCHANGED <<sent, faults>>
     \/ /\ request[p].understood
        /\ \E answer \in Answers :
             /\ Send(p, "started", answer)
             /\ Goes(p, IF answer # "ok" THEN "done"
                        ELSE IF request[p].version = NoVersion THEN "errored"
                        ELSE "secret")
  /\ UNCHANGED jobVars

GetGitSecret(p) ==
  /\ handler[p].step = "secret"
  /\ \/ Goes(p, "release") /\ UNCHANGED faults
     \/ Goes(p, "errored") /\ Fault("secret")
  /\ UNCHANGED <<jobVars, sent>>

ReleaseOf(p) == <<request[p].service, request[p].version>>

CloneRelease_Ignored(p) ==
  /\ handler[p].step = "release"
  /\ Goes(p, IF tags[ReleaseOf(p)] # 0 THEN "stage" ELSE "finish")
  /\ UNCHANGED <<jobVars, sent, faults>>
CloneRelease(p) ==
  /\ handler[p].step = "release"
  /\ \/ Goes(p, IF tags[ReleaseOf(p)] # 0 THEN "stage" ELSE "errored") /\ UNCHANGED faults
     \/ Goes(p, "errored") /\ Fault("clone")
  /\ UNCHANGED <<jobVars, sent>>

(* What the commit of p holds if made on top of these files: those in its     *)
(* clone of the stage branch.  "add" and "commit" failing is only logged:     *)
(* then the commit changes nothing, or there is none.                         *)
Promoted(p, files) ==
  UpdateFiles(master[tags[ReleaseOf(p)]], files,
              request[p].service, request[p].stage, request[p].version)

Edited(p) == Promoted(p, Last(branch[request[p].stage]).files)

Commits_SharedDirectory(p, committed, files) ==
  /\ handler' = [q \in Promotions |->
       IF q = p THEN [step |-> "push", committed |-> committed,
                      base |-> Height(request[p].stage), files |-> files]
       ELSE IF handler[q].step = "push" THEN [handler[q] EXCEPT !.files = files]
       ELSE handler[q]]
  /\ UNCHANGED <<branch, request>>
Commits(p, committed, files) ==
  /\ handler' = [handler EXCEPT ![p] = [step |-> "push", committed |-> committed,
                   base |-> Height(request[p].stage), files |-> files]]
  /\ UNCHANGED <<branch, request>>

CloneStage(p) ==
  LET commits == branch[request[p].stage] IN
  /\ handler[p].step = "stage"
  /\ \/ commits = <<>> /\ Goes(p, "errored") /\ UNCHANGED faults
     \/ commits # <<>> /\ Commits(p, TRUE, Edited(p)) /\ UNCHANGED faults
     \/ commits # <<>> /\ Commits(p, TRUE, Last(commits).files) /\ Fault("add")
     \/ commits # <<>> /\ Commits(p, FALSE, NoFiles) /\ Fault("commit")
     \/ Goes(p, "errored") /\ (Fault("clone") \/ Fault("move"))
  /\ UNCHANGED <<jobVars, sent>>

(* The push goes through on top of the commit that was cloned, and a failure *)
(* of any kind is only logged.                                               *)
Pushed(p) ==
  LET st == request[p].stage IN
  branch' = [branch EXCEPT ![st] =
               Append(@, [by |-> p, files |-> handler[p].files])]

Push_Reported(p) ==
  LET allowed == handler[p].committed /\ handler[p].base = Height(request[p].stage) IN
  /\ handler[p].step = "push"
  /\ \/ allowed /\ Pushed(p) /\ handler' = Moved(p, "finish") /\ UNCHANGED faults
     \/ allowed /\ Pushed(p) /\ handler' = Moved(p, "errored") /\ Fault("push lost")
     \/ ~allowed /\ handler' = Moved(p, "errored") /\ UNCHANGED <<branch, faults>>
     \/ handler' = Moved(p, "errored") /\ UNCHANGED branch /\ Fault("push failed")
  /\ UNCHANGED <<jobVars, request, sent>>
Push_Forced(p) ==
  LET st == request[p].stage IN
  /\ handler[p].step = "push"
  /\ branch' = [branch EXCEPT ![st] = Append(SubSeq(@, 1, handler[p].base),
                                             [by |-> p, files |-> handler[p].files])]
  /\ handler' = Moved(p, "finish")
  /\ UNCHANGED <<jobVars, request, sent, faults>>
Push(p) ==
  LET allowed == handler[p].committed /\ handler[p].base = Height(request[p].stage) IN
  /\ handler[p].step = "push"
  /\ handler' = Moved(p, "finish")
  /\ \/ allowed /\ Pushed(p) /\ UNCHANGED faults
     \/ allowed /\ Pushed(p) /\ Fault("push lost")
     \/ ~allowed /\ UNCHANGED <<branch, faults>>
     \/ UNCHANGED branch /\ Fault("push failed")
  /\ UNCHANGED <<jobVars, request, sent>>

Finish_OnlyPass(p) ==
  /\ handler[p].step = "finish"
  /\ \E answer \in Answers : Send(p, "pass", answer)
  /\ Goes(p, "done")
  /\ UNCHANGED jobVars
Finish(p) ==
  /\ \E answer \in Answers :
       \/ handler[p].step = "finish"  /\ Send(p, "pass", answer)
       \/ handler[p].step = "errored" /\ Send(p, "fail", answer)
  /\ Goes(p, "done")
  /\ UNCHANGED jobVars

(* The pod restarts; the events it was at are not sent again. *)
Restart ==
  /\ Fault("restart")
  /\ handler' = [p \in Promotions |->
       IF handler[p].step = "waiting" THEN handler[p]
       ELSE [Memory("done") EXCEPT !.base = handler[p].base]]
  /\ UNCHANGED <<jobVars, branch, request, sent>>

--------------------------------------------------------------------------------
Init ==
  /\ master = <<Initial>>
  /\ tags = [r \in Release |-> 0]
  /\ \E scenario \in Scenarios : call = scenario.call /\ request = scenario.request
  /\ job = [j \in Jobs |-> [step |-> "start", version |-> NoVersion, commit |-> 0]]
  /\ branch = [st \in Stages |->
       IF st \in DOMAIN StageBranches
         THEN <<[by |-> Nobody, files |-> StageBranches[st]]>> ELSE <<>>]
  /\ handler = [p \in Promotions |-> Memory("waiting")]
  /\ sent = [p \in Promotions |-> {}]
  /\ faults = {}

(* HandlePromotionTriggeredEvent after promotion.started. *)
Handle(p) ==
  \/ GetGitSecret(p)
  \/ CloneRelease(p)
  \/ CloneStage(p)
  \/ Push(p)
  \/ Finish(p)

Next ==
  \/ \E j \in Jobs : Deploy(j) \/ Tag(j)
  \/ \E p \in Promotions : Receive(p) \/ Handle(p)
  \/ Restart

Spec == Init /\ [][Next]_vars

(* A goroutine runs on, and git and Keptn answer. *)
FairSpec == Spec /\ \A p \in Promotions : WF_vars(Handle(p))

TypeOK ==
  /\ tags \in [Release -> 0..Len(master)]
  /\ [call |-> call, request |-> request] \in Scenarios
  /\ \A j \in Jobs :
       /\ job[j].step \in {"start", "tag", "end", "failed"}
       /\ job[j].commit \in 0..Len(master)
  /\ \A st \in Stages : \A i \in 1..Height(st) : branch[st][i].by \in Promotions \union {Nobody}
  /\ \A p \in Promotions :
       /\ handler[p].step \in Steps
       /\ handler[p].base \in 0..Height(request[p].stage)
       /\ sent[p] \subseteq {"started", "pass", "fail"}
  /\ faults \subseteq FaultKinds

--------------------------------------------------------------------------------
(* What the branches of the repository promise. *)

(* A service's files in a stage can be told by name: no directory on the way *)
(* to them has a name in which the service's occurs.                         *)
IsClear(s, st) ==
  \A dir \in {Base(s), StageOf(st, s)} :
    \A i \in 1..(Len(Temp \o dir) - 1) : ~Named((Temp \o dir)[i], s)

Clear == {pair \in Services \X Stages : IsClear(pair[1], pair[2])}

Branches ==
  INSTANCE StageLog WITH
    log <- [st \in Stages |-> [i \in 1..Height(st) |-> branch[st][i].files]],
    released <- [r \in {x \in Release : tags[x] # 0} |-> master[tags[r]]]

(* However many promotions clone, move files and push at once, a stage branch *)
(* grows by whole releases of single services: nobody's commit is lost, no    *)
(* file of the release before stays, and no other service is touched          *)
(* (githandler.go:98-149).                                                    *)
StagesAreLogs == Branches!LogSpec

(* The values.yaml that a push brings to a stage branch overlays the release's *)
(* base values with its values for the stage, path by path, if both can be     *)
(* read: though merge goes down both at once, returns to no one at the top,    *)
(* and the file is moved and edited afterwards (githandler.go:111-130,260-353).*)
ValuesAreOverlaid ==
  [][\A p \in Promotions :
       LET s  == request[p].service
           st == request[p].stage
           tree  == master[tags[ReleaseOf(p)]]
           base  == FileAt(tree, ValuesFile(Base(s), s))
           stage == FileAt(tree, ValuesFile(StageOf(st, s), s))
           files == Last(branch'[st]).files
       IN  /\ Len(branch'[st]) > Height(st)
           /\ Last(branch'[st]).by = p
           /\ files # Last(branch[st]).files
           /\ <<s, st>> \in Clear
           /\ "values" \in DOMAIN base \intersect DOMAIN stage
           => IsOverlay(files[ValuesFile(<<s>>, s)].values, stage.values, base.values)]_vars

(* What CIConnect's configurations are to these files. *)
Abstract(tree) ==
  LET config == readKeptnOperatorConfig(tree)
      flags  == [stage |-> NoName, sequence |-> NoName]
  IN  [version |-> [s \in Services |->
         IF Metadata(s) \in DOMAIN tree THEN tree[Metadata(s)].metadata ELSE NoVersion],
       trigger |-> [s \in Services |->
         LET i == EntryAt(config, s) IN
         IF i = 0 THEN NoTrigger ELSE config[i].DeploymentTrigger],
       staged |-> {},
       shipyard |-> getStageAndSequence(tree, flags)]

Log ==
  INSTANCE ConfigurationLog WITH
    log <- [i \in 1..Len(master) |-> Abstract(master[i])], releases <- tags,
    Triggers <- Stages \X SequenceNames, Edits <- {Abstract(Initial)}

(* Copying, editing and the metadata come to what CIConnect says of them: one *)
(* service gets a version and an entry, the others keep theirs, and a tag is  *)
(* put on a commit whose metadata has its version (keptnciutils.go:16-148).   *)
FilesFollowTheLog == Log!LogSpec

--------------------------------------------------------------------------------
(* What jobs do to the files. *)

OwnDirs(s) == {Base(s)} \union StageDirs(s)

Others(tree, s) ==
  Restrict(Without(tree, OwnDirs(s)), DOMAIN Without(tree, OwnDirs(s)) \ {Config})

(* The first i entries without those of s, and the entries of a tree. *)
EntriesWithout(config, s) ==
  LET first[i \in 0..Len(config)] ==
        IF i = 0 THEN <<>>
        ELSE IF config[i].Name = s THEN first[i - 1] ELSE Append(first[i - 1], config[i])
  IN  first[Len(config)]
OtherEntries(tree, s) == EntriesWithout(readKeptnOperatorConfig(tree), s)

(* A new commit holds the service as its repository has it, with the chart    *)
(* from where it is kept and nothing of the version before, and all the rest  *)
(* of the commit before; but a stage the repository has no directory for      *)
(* keeps what it had (keptnciutils.go:28-45, 150-197, fileutils.go:79-136).   *)
IsDeployment(old, new, workspace, d) ==
  LET s == d.service
      helm == ChartIn(<<>>, s)
      base == Contents(workspace, Base(s))
      Plain(files) == Restrict(files, {path \in DOMAIN files : path # <<"metadata", "deployment.yaml">>})
      chart == Contents(workspace, d.chart_base)
  IN  /\ Others(new, s) = Others(old, s)
      /\ OtherEntries(new, s) = OtherEntries(old, s)
      /\ Plain(Contents(new, Base(s))) = Plain(
           IF d.chart_base = <<>> THEN base
           ELSE [path \in {x \in DOMAIN base : ~IsPrefix(helm, x)}
                            \union {helm \o x : x \in DOMAIN chart} |->
                   IF IsPrefix(helm, path) THEN chart[Inside(path, helm)] ELSE base[path]])
      /\ \A st \in Stages :
           LET dir == StageOf(st, s) IN
           Contents(new, dir) = Contents(IF Exists(workspace, dir) THEN workspace ELSE old, dir)

DeploymentsAreWhole ==
  [][\A j \in Jobs :
       job[j].step = "start" /\ job'[j].step = "tag" =>
         IF call[j].listed
           THEN IsDeployment(Last(master), Last(master'), Workspaces[call[j].workspace], call[j])
           ELSE Last(master') = Last(master)]_vars

(* The trigger of an entry is a sequence that the shipyard defines in its      *)
(* stage ("No sequence defined in stage '%v' in shipyard.yaml", shipyard.go:53 *)
(* says of the sequence that is taken without a flag).                         *)
TriggersFit(tree) ==
  LET stages == readShipyard(tree)
      config == readKeptnOperatorConfig(tree)
  IN  \A k \in DOMAIN config :
        LET trigger == config[k].DeploymentTrigger IN
        \E n \in DOMAIN stages :
          /\ stages[n].name = trigger[1]
          /\ trigger[2] \in ToSet(stages[n].sequences)

SequenceOfItsStage == \A i \in DOMAIN master : TriggersFit(master[i])

(* DeleteConfiguration takes away all that deployments of a service put there, *)
(* its entry too, and nothing else (keptnciutils.go:252-323).                  *)
DeletionUndoesDeployment ==
  LET tree == Last(master) IN
  \A s \in Services :
    LET left == DeleteConfiguration(tree, s) IN
    /\ \A dir \in OwnDirs(s) : ~Exists(left, dir)
    /\ Others(left, s) = Others(tree, s)
    /\ readKeptnOperatorConfig(left) = OtherEntries(tree, s)

--------------------------------------------------------------------------------
(* What users have in their files: a configuration that jobs may have left, *)
(* and charts with versions, or without.                                    *)
ASSUME ContentsAssumption ==
  LET config == readKeptnOperatorConfig(Initial) IN
  /\ readShipyard(Initial) \in Seq(ShipyardStage)
  /\ config \in Seq(ConfigEntry)
  /\ \A i, k \in DOMAIN config : config[i].Name = config[k].Name => i = k
  /\ \A w \in DOMAIN Workspaces : \A path \in DOMAIN Workspaces[w] :
       Last(path) = "Chart.yaml" =>
         Workspaces[w][path].chart \in [version    : Versions \union {NoVersion},
                                        appVersion : Versions \union {NoVersion}]

--------------------------------------------------------------------------------
(* What Keptn is told. *)

(* A promotion that is answered with a failure has changed nothing: Keptn may *)
(* send it again, or something else (eventhandlers.go:66-76).                 *)
FailureLeavesNoTrace ==
  \A p \in Promotions :
    "fail" \in sent[p] => \A st \in Stages : \A i \in 1..Height(st) : branch[st][i].by # p

WorkFits(p) ==
  LET commits == branch[request[p].stage]  m == handler[p] IN
  /\ m.step \in {"stage", "push"} => tags[ReleaseOf(p)] # 0
  /\ m.step = "push" =>
       /\ m.base \in 1..Len(commits)
       /\ m.committed /\ "add" \notin faults =>
            m.files = Promoted(p, commits[m.base].files)

(* What a handler is about to push is its release put on a commit that is     *)
(* still on the stage branch where it was cloned, whatever jobs and other     *)
(* handlers pushed meanwhile (githandler.go:98-141).                          *)
WorkFitsStage == \A p \in Promotions : WorkFits(p)

IsOn(p, i) ==
  LET commits == branch[request[p].stage] IN
  commits[i].by = p /\ commits[i].files = Promoted(p, commits[i - 1].files)

Excused(p) ==
  LET commits == branch[request[p].stage]  base == handler[p].base IN
  \/ \E i \in 2..Len(commits) : IsOn(p, i)
  \/ base \in 1..(Len(commits) - 1) /\ commits[base + 1].by # p
  \/ faults \intersect {"add", "commit", "push failed"} # {}

(* A promotion answered with success is on its stage branch, unless another   *)
(* one was pushed between its clone and its push, or git failed, for this or  *)
(* another promotion: these are the cases that are logged only                *)
(* (githandler.go:131-147).                                                   *)
LostPromotionsAreExcused ==
  \A p \in Promotions : "pass" \in sent[p] => Excused(p)

(* A promotion reported as started is reported as finished, unless the pod is *)
(* restarted or an event cannot be sent: Keptn waits for it otherwise         *)
(* (eventhandlers.go:37-83).                                                  *)
StartedIsFinished ==
  \A p \in Promotions :
    "started" \in sent[p] ~>
      \/ {"pass", "fail"} \intersect sent[p] # {}
      \/ faults \intersect {"restart", "send failed", "send lost"} # {}

(* Success means that the promotion is on its branch: a "git push error" is   *)
(* answered with a failure (eventhandlers_test.go:195).                       *)
PassMeansPromoted ==
  \A p \in Promotions :
    "pass" \in sent[p] => \E i \in 1..Height(request[p].stage) :
                            branch[request[p].stage][i].by = p
================================================================================
