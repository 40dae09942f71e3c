------------------------------- MODULE StageLog -------------------------------
(***************************************************************************)
(* What the stage branches promise whoever deploys from them.  A branch is *)
(* a log of directory trees.  Each is the one before it, or differs from   *)
(* it in the directory of one service, which holds a release of it for     *)
(* that stage: whole, with nothing left of the release before.  A release, *)
(* once made, is never another one.                                        *)
(***************************************************************************)
EXTENDS FileTree, YamlValues

CONSTANTS
  Services, Stages, Release,
  Merged(_, _),   \* what merging two values.yaml files yields, or NoFile
  Clear           \* the <<service, stage>> whose files can be told by name

VARIABLES
  log,            \* log[st]: the trees of stage branch st, oldest first
  released        \* released[r]: the tree of release r, if it was made

LogInit ==
  /\ DOMAIN log = Stages
  /\ \A st \in Stages : Len(log[st]) <= 1
  /\ DOMAIN released = {}

(* The files of a service in a stage: the base's and, over them, the stage's, *)
(* with one values.yaml made of both, in which the version is put.            *)
Rendered(tree, s, st, version) ==
  LET base   == Contents(tree, Base(s))
      stage  == Contents(tree, StageOf(st, s))
      values == ChartIn(<<>>, s) \o <<"values.yaml">>
      file(files, path) == IF path \in DOMAIN files THEN files[path] ELSE NoFile
      over(path) == IF path \in DOMAIN stage THEN stage[path] ELSE base[path]
      merged     == Merged(file(base, values), file(stage, values))
  IN  [path \in DOMAIN base \union DOMAIN stage |->
         IF path # values THEN over(path)
         ELSE [(IF merged = NoFile THEN over(path) ELSE merged)
                 EXCEPT !.version = version]]

IsPromotion(old, new, r, st) ==
  LET s == r[1] IN
  /\ RemoveAll(new, <<s>>) = RemoveAll(old, <<s>>)
  /\ <<s, st>> \in Clear =>
       Contents(new, <<s>>) = Rendered(released[r], s, st, r[2])

Promote(st) ==
  LET old == Last(log[st])  new == Last(log'[st]) IN
  /\ log[st] # <<>>
  /\ Len(log'[st]) = Len(log[st]) + 1
  /\ log' = [log EXCEPT ![st] = Append(@, new)]
  /\ new = old \/ \E r \in DOMAIN released : IsPromotion(old, new, r, st)
  /\ UNCHANGED released

Publish ==
  /\ \E r \in Release \ DOMAIN released :
       /\ DOMAIN released' = DOMAIN released \union {r}
       /\ Restrict(released', DOMAIN released) = released
  /\ UNCHANGED log

LogNext == Publish \/ \E st \in Stages : Promote(st)

LogSpec == LogInit /\ [][LogNext]_<<log, released>>
================================================================================
