---------------------------- MODULE PromotionFiles ----------------------------
(***************************************************************************)
(* What UpdateGitRepo does to the files of its two clones, that of a       *)
(* release and that of a stage branch (promotion-service/git/githandler.go).*)
(*                                                                         *)
(* A values.yaml holds the decoded values and, as `version`, what its      *)
(* {{ keptn/ImageVersion }} was replaced by; one that cannot be parsed has *)
(* no `values`.                                                            *)
(***************************************************************************)
EXTENDS FileTree, YamlValues

CONSTANTS
  Merged(_, _),   \* what merging two values.yaml files yields, or NoFile
  Occurs,         \* <<name, service>>: the name contains the service's
  Rest            \* what follows it there

FileAt(tree, path) == IF path \in DOMAIN tree THEN tree[path] ELSE NoFile

(* The release's clone lies in a temporary directory, which has a name too. *)
Temp == <<"temp_dir_master">>
ValuesFile(dir, s) == ChartIn(dir, s) \o <<"values.yaml">>

(* The merged values replace the stage's, if the stage has a chart directory; *)
(* if not, the base's will be moved as they are.                              *)
mergeHelmValues_Swapped(source, s, st) ==
  LET merged == Merged(FileAt(source, ValuesFile(StageOf(st, s), s)),
                       FileAt(source, ValuesFile(Base(s), s)))
  IN  IF merged # NoFile /\ Exists(source, ChartIn(StageOf(st, s), s))
        THEN Write(source, ValuesFile(StageOf(st, s), s), merged)
        ELSE source
mergeHelmValues(source, s, st) ==
  LET merged == Merged(FileAt(source, ValuesFile(Base(s), s)),
                       FileAt(source, ValuesFile(StageOf(st, s), s)))
  IN  IF merged # NoFile /\ Exists(source, ChartIn(StageOf(st, s), s))
        THEN Write(source, ValuesFile(StageOf(st, s), s), merged)
        ELSE source

(* The first name on the way to a directory in which the service's occurs. *)
(* What follows the occurrence is kept as the path below the destination.  *)
Named(name, s) == name = s \/ <<name, s>> \in Occurs
Landing(path, s) ==
  LET i == SelectInSeq(path, LAMBDA name : Named(name, s))
  IN  (IF path[i] = s THEN <<>> ELSE <<Rest>>) \o SubSeq(path, i + 1, Len(path))

moveFiles(source, dir, target, s) ==
  CopyDir(source, dir, target, <<s>> \o Landing(Temp \o dir, s))

performFileMove(source, target, s, st) ==
  moveFiles(source, StageOf(st, s), moveFiles(source, Base(s), target, s), s)

ReplaceInFile(tree, path, version) ==
  IF path \in DOMAIN tree THEN [tree EXCEPT ![path].version = version] ELSE tree

(* The service's directory of the stage branch, made anew from the release. *)
UpdateFiles(source, target, s, st, version) ==
  ReplaceInFile(
    performFileMove(mergeHelmValues(source, s, st), RemoveAll(target, <<s>>), s, st),
    ValuesFile(<<s>>, s), version)
================================================================================
