---------------------------- MODULE DeploymentRepo ----------------------------
(***************************************************************************)
(* The git remote that ci-connect-cli writes and the other programs read:  *)
(* one branch, the default one, and the release tags.                      *)
(*                                                                         *)
(* git is modelled from its use through go-git.  A clone copies the branch *)
(* and all tags.  A push of a branch is refused unless the remote's head   *)
(* is the commit the clone was made from, a push of tags when the remote   *)
(* has another tag of the same name; none of the refspecs forces.          *)
(*                                                                         *)
(* An operator named X_Y is X with the mistake Y in it; no specification   *)
(* uses one.                                                               *)
(***************************************************************************)
EXTENDS Integers, Sequences, FiniteSets

CONSTANTS
  Services,     \* names a config.yaml may list
  Versions,     \* image versions
  NoVersion,    \* the empty version: never deployed, no flag given, or a
                \* chart that names none
  Triggers,     \* stage and sequence, the parts of a triggerevent
  NoTrigger,    \* no entry, or no stage or sequence in the shipyard
  Edits,        \* configurations that developers push
  Jobs,         \* runs of ci-connect-cli, one per pipeline
  Developer,    \* the author of everybody else's commits
  FaultKinds,   \* the faults a run lets happen
  MaxFaults     \* the bound on how many of them happen

Content ==
  [version  : [Services -> Versions \union {NoVersion}],   \* base/<service>
   trigger  : [Services -> Triggers \union {NoTrigger}],   \* .keptn/config.yaml
   staged   : SUBSET Services,         \* entries of it that name a start stage
   shipyard : Triggers \union {NoTrigger}]    \* what getStageAndSequence finds

Commit  == [author : Jobs \union {Developer}, content : Content]

(* The tag of a release is <service>-<version>. *)
Release == Services \X (Versions \union {NoVersion})

ASSUME RepoAssumption ==
  /\ NoVersion \notin Versions
  /\ NoTrigger \notin Triggers
  /\ Edits \subseteq Content
  /\ Developer \notin Jobs
  /\ MaxFaults \in Nat

VARIABLES
  branch,       \* the commits of the default branch, oldest first
  tags,         \* tags[r]: the commit that the tag of release r names, or 0
  faults        \* how many faults have happened

repoVars == <<branch, tags, faults>>

Height == Len(branch)
Tip  == branch[Height].content

Fault(kind) ==
  /\ kind \in FaultKinds
  /\ faults < MaxFaults
  /\ faults' = faults + 1

(* What a push returns: besides "ok" and "rejected" it may not get through   *)
(* ("failed"), or be carried out while the answer is lost ("lost").          *)
Results      == {"ok", "rejected", "failed", "lost"}
Done(result) == result \in {"ok", "lost"}

Push(result, allowed) ==
  \/ result = "ok" /\ allowed /\ UNCHANGED faults
  \/ result = "rejected" /\ ~allowed /\ UNCHANGED faults
  \/ result = "failed" /\ Fault("failed")
  \/ result = "lost" /\ allowed /\ Fault("lost")

(* A commit made on top of the first base commits of the branch. *)
PushBranch(base, commit, result) ==
  /\ Push(result, base = Height)
  /\ branch' = IF Done(result)
                 THEN Append(SubSeq(branch, 1, base), commit) ELSE branch
  /\ UNCHANGED tags

PushTag(r, commit, result) ==
  /\ Push(result, tags[r] = 0)
  /\ tags' = IF Done(result) THEN [tags EXCEPT ![r] = commit] ELSE tags
  /\ UNCHANGED branch

Edit ==
  /\ Fault("edit")
  /\ \E content \in Edits :
       branch' = Append(branch, [author |-> Developer, content |-> content])
  /\ UNCHANGED tags

RepoInit ==
  /\ \E content \in Edits : branch = <<[author |-> Developer, content |-> content]>>
  /\ tags = [r \in Release |-> 0]
  /\ faults = 0

RepoTypeOK ==
  /\ branch \in Seq(Commit)
  /\ Height > 0
  /\ tags \in [Release -> 0..Height]
  /\ faults \in 0..MaxFaults
================================================================================
