-------------------------- MODULE ConfigurationFiles --------------------------
(***************************************************************************)
(* What one run of trigger-deployment does to the files of the deployment  *)
(* repository (ci-connect-cli/cmd/keptnciutils.go, shipyard.go,            *)
(* helmUtils.go): it copies directories from the service's own repository, *)
(* its workspace, to the clone of the deployment repository.               *)
(*                                                                         *)
(* A deployment is a record of flags and of the service's ci_config.yaml   *)
(* entry, see Deployment.  NoName is a flag that was not given.            *)
(*                                                                         *)
(* Files hold records told apart by their field: [config], [shipyard],     *)
(* [chart], [metadata], or whatever else the program only copies.          *)
(***************************************************************************)
EXTENDS FileTree

CONSTANTS
  Services,     \* names of services
  Stages,       \* names of stages
  SequenceNames, \* names of sequences
  Versions,     \* image versions
  Workspaces,   \* Workspaces[w]: the files of a service's repository
  NoVersion,    \* the empty version
  NoName,       \* the empty stage or sequence
  NoTrigger     \* no stage or no sequence was found

ASSUME NamesAssumption ==
  /\ NoName \notin Stages \union SequenceNames
  /\ NoVersion \notin Versions
  /\ NoTrigger \notin Stages \X SequenceNames

(* Files of the deployment repository. *)
Config    == <<".keptn", "config.yaml">>
Shipyard  == <<"shipyard.yaml">>
Metadata(s) == Base(s) \o <<"metadata", "deployment.yaml">>

Deployment ==
  [service    : Services,                              \* --service
   workspace  : DOMAIN Workspaces,                     \* --workspace
   version    : Versions \union {NoVersion},           \* --version
   stage      : Stages \union {NoName},                \* --stage
   sequence   : SequenceNames \union {NoName},         \* --sequence
   listed     : BOOLEAN,                     \* ci_config.yaml has the service
   chart_base : {<<>>, <<"chart">>} \union {ChartIn(Base(s), s) : s \in Services},
   useChart   : {"appVersion", "version", "neither"}]   \* its useChart...Version

--------------------------------------------------------------------------------
(* shipyard.yaml lists stages, each with the names of its sequences. *)

ShipyardStage == [name : Stages, sequences : Seq(SequenceNames)]

readShipyard(tree) == IF Shipyard \in DOMAIN tree THEN tree[Shipyard].shipyard ELSE <<>>

StageFor(stages, flag) ==
  IF flag # NoName
    THEN IF \E i \in DOMAIN stages : stages[i].name = flag THEN flag ELSE NoName
    ELSE IF stages # <<>> THEN stages[1].name ELSE NoName

(* Without a flag it is the first sequence of the first stage, whatever the *)
(* stage is.                                                                *)
SequenceFor(stages, stage, flag) ==
  IF flag # NoName
    THEN IF \E i \in DOMAIN stages :
              stages[i].name = stage /\ flag \in ToSet(stages[i].sequences)
           THEN flag ELSE NoName
    ELSE IF stages[1].sequences # <<>> THEN stages[1].sequences[1] ELSE NoName

getStageAndSequence(tree, d) ==
  LET stages   == readShipyard(tree)
      stage    == StageFor(stages, d.stage)
      sequence == SequenceFor(stages, stage, d.sequence)
  IN  IF stage = NoName THEN NoTrigger
      ELSE IF sequence = NoName THEN NoTrigger ELSE <<stage, sequence>>

--------------------------------------------------------------------------------
(* config.yaml lists services in order; a missing file is an empty list. *)

ConfigEntry == [Name : Services, DeploymentTrigger : Stages \X SequenceNames]

readKeptnOperatorConfig(tree) ==
  IF Config \in DOMAIN tree THEN tree[Config].config ELSE <<>>

EntryAt(config, s) == SelectInSeq(config, LAMBDA entry : entry.Name = s)

modifyOperatorConfig_Appends(tree, s, trigger) ==
  Write(tree, Config,
    [config |-> Append(readKeptnOperatorConfig(tree),
                       [Name |-> s, DeploymentTrigger |-> trigger])])
modifyOperatorConfig(tree, s, trigger) ==
  LET config == readKeptnOperatorConfig(tree)
      entry  == [Name |-> s, DeploymentTrigger |-> trigger]
      i      == EntryAt(config, s)
  IN  Write(tree, Config,
        [config |-> IF i = 0 THEN Append(config, entry)
                    ELSE ReplaceAt(config, i, entry)])

deleteServiceFromOperatorConfig(tree, s) ==
  LET config == readKeptnOperatorConfig(tree)
      i      == EntryAt(config, s)
  IN  IF i = 0 THEN tree
      ELSE Write(tree, Config, [config |-> RemoveAt(config, i)])

--------------------------------------------------------------------------------
(* The steps of UpdateRepository. *)

(* chart_base names a chart of the workspace, copied to where Keptn wants it. *)
copyHelmChart(workspace, d) ==
  LET helm == ChartIn(Base(d.service), d.service)
      left == RemoveAll(workspace, helm)
  IN  IF d.chart_base = <<>> THEN workspace ELSE CopyDir(left, d.chart_base, left, helm)

copyBase_Overlays(tree, workspace, s) == CopyDir(workspace, Base(s), tree, Base(s))
copyBase(tree, workspace, s) ==
  CopyDir(workspace, Base(s), RemoveAll(tree, Base(s)), Base(s))

(* Only the stages that the workspace has files for are replaced. *)
StageDirs(s) == {StageOf(st, s) : st \in Stages}
copyStages(tree, workspace, s) ==
  LET brought == {dir \in StageDirs(s) : Exists(workspace, dir)}
  IN  Over(Within(workspace, brought), Without(tree, brought))

(* The versions it may choose: the flag's, the chart's, which is empty if the *)
(* field is missing, or the clock's.                                          *)
getImageVersion(workspace, d) ==
  LET chart == ChartIn(Base(d.service), d.service) \o <<"Chart.yaml">> IN
  IF d.version # NoVersion THEN {d.version}
  ELSE IF d.useChart = "neither" THEN Versions
  ELSE {workspace[path].chart[d.useChart] : path \in {chart} \intersect DOMAIN workspace}

createDeploymentMetadata(tree, s, version) ==
  Write(tree, Metadata(s), [metadata |-> version])

(* The copies that may fail: no chart at chart_base, which is looked for when *)
(* the old chart is gone already, or nothing below the workspace's base.       *)
CanUpdate(tree, workspace, d) ==
  LET s == d.service
      helm == ChartIn(Base(s), s)
      left == RemoveAll(workspace, helm)
  IN  /\ d.chart_base # <<>> => CanCopyDir(left, d.chart_base, left, helm)
      /\ CanCopyDir(copyHelmChart(workspace, d), Base(s),
                    RemoveAll(tree, Base(s)), Base(s))

UpdateRepository_MetadataFirst(tree, workspace, d, trigger) ==
  LET s == d.service
      charted == copyHelmChart(workspace, d)
      copied(v) ==
        copyStages(copyBase(createDeploymentMetadata(tree, s, v), charted, s), charted, s)
  IN  IF ~d.listed THEN {[tree |-> tree, version |-> d.version]}
      ELSE IF ~CanUpdate(tree, workspace, d) THEN {}
      ELSE {[tree |-> modifyOperatorConfig(copied(v), s, trigger), version |-> v] :
              v \in getImageVersion(charted, d)}

(* The trees it may leave in the clone, each with its version.  A service *)
(* that ci_config.yaml does not list changes nothing and is no error.     *)
UpdateRepository(tree, workspace, d, trigger) ==
  LET s == d.service
      charted == copyHelmChart(workspace, d)
      copied == copyStages(copyBase(tree, charted, s), charted, s)
      result(v) == createDeploymentMetadata(copied, s, v)
  IN  IF ~d.listed THEN {[tree |-> tree, version |-> d.version]}
      ELSE IF ~CanUpdate(tree, workspace, d) THEN {}
      ELSE {[tree |-> modifyOperatorConfig(result(v), s, trigger), version |-> v] :
              v \in getImageVersion(charted, d)}

--------------------------------------------------------------------------------
(* DeleteConfiguration, which is exported and which no command calls. *)

deleteBase(tree, s) ==
  IF Exists(tree, Base(s)) THEN RemoveDir(tree, Base(s)) ELSE tree

deleteStages(tree, s) == Without(tree, {dir \in StageDirs(s) : Exists(tree, dir)})

DeleteConfiguration(tree, s) ==
  deleteServiceFromOperatorConfig(deleteStages(deleteBase(tree, s), s), s)
================================================================================
