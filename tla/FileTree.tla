------------------------------- MODULE FileTree -------------------------------
(***************************************************************************)
(* A directory tree as git and ci-connect-cli's file helpers see it        *)
(* (ci-connect-cli/cmd/fileutils.go): a function from the paths of its     *)
(* files to what they hold.  A path is a sequence of names.  A directory   *)
(* is there when a file is below it; empty ones do not survive a commit.   *)
(* Modes, symbolic links and input/output errors are left out.             *)
(***************************************************************************)
EXTENDS Integers, Sequences, SequencesExt, TLC

Below(tree, dir)  == {path \in DOMAIN tree : IsStrictPrefix(dir, path)}
Exists(tree, dir) == Below(tree, dir) # {}

(* These files and, where there is none of them, those of the tree. *)
Over(added, tree) ==
  [path \in DOMAIN added \union DOMAIN tree |->
     IF path \in DOMAIN added THEN added[path] ELSE tree[path]]

Write(tree, path, file) ==
  [p \in DOMAIN tree \union {path} |-> IF p = path THEN file ELSE tree[p]]

Without(tree, dirs) ==
  Restrict(tree, {path \in DOMAIN tree : \A dir \in dirs : ~IsPrefix(dir, path)})
Within(tree, dirs) == Restrict(tree, UNION {Below(tree, dir) : dir \in dirs})

RemoveAll(tree, dir) == Without(tree, {dir})

(* What is left of a path inside a directory, and the files a directory holds. *)
Inside(path, dir) == SubSeq(path, Len(dir) + 1, Len(path))
Contents(tree, dir) ==
  [path \in {Inside(p, dir) : p \in Below(tree, dir)} |-> tree[dir \o path]]

(* From one tree to another: the source must be a directory, and the *)
(* destination not be there.                                         *)
CanCopyDir(from, src, to, dst) == Exists(from, src) /\ ~Exists(to, dst)
CopyDir(from, src, to, dst) ==
  [path \in {dst \o Inside(p, src) : p \in Below(from, src)} \union DOMAIN to |->
     LET origin == src \o Inside(path, dst) IN
     IF IsStrictPrefix(dst, path) /\ origin \in DOMAIN from THEN from[origin] ELSE to[path]]

RemoveDir(tree, dir) == IF Exists(tree, dir) THEN RemoveAll(tree, dir) ELSE tree
--------------------------------------------------------------------------------
(* Where the deployment repository keeps the files of a service. *)
Base(s)        == <<"base", s>>
StageOf(st, s) == <<"stages", st, s>>
ChartIn(dir, s) == dir \o <<"helm", s>>
================================================================================
