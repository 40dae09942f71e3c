----------------------------- MODULE MCGitOperator -----------------------------
EXTENDS GitOperator, TLC

CONSTANTS s1, s2, v1, v2, v3, t1, t2

(* A commit that lists the services of `on` with one trigger, each at the *)
(* given version.                                                         *)
Lists(on, trigger, version) ==
  [configured |-> TRUE,
   trigger    |-> [s \in Services |-> IF s \in on THEN trigger ELSE NoTrigger],
   version    |-> [s \in Services |-> version]]

(* A commit without a config.yaml that can be read. *)
Unreadable(version) == [Lists({}, t1, version) EXCEPT !.configured = FALSE]

(* Every commit changes the version.  A service stays listed while its      *)
(* trigger changes, is dropped, or is dropped and listed again.             *)
ThreeCommits ==
  {<<Lists({s1}, t1, v1), Lists({s1}, t2, v2), Lists({s1}, t1, v3)>>,
   <<Lists({s1}, t1, v1), Lists({s1}, t2, v2), Lists({}, t1, v3)>>,
   <<Lists({s1}, t1, v1), Lists({}, t1, v2), Lists({s1}, t1, v3)>>}
TwoCommits == {SubSeq(h, 1, 2) : h \in ThreeCommits}

(* A rollback: the version is changed and changed back. *)
Rollback == {<<Lists({s1}, t1, v1), Lists({s1}, t1, v2), Lists({s1}, t1, v1)>>}

(* ... or it stays the same, while the service is dropped or the event        *)
(* changes; or it changes in the commit that drops the service; or there is   *)
(* no deployment.yaml any more to read it from.  Or config.yaml cannot be     *)
(* read in between, and then drops the service.                               *)
WithReturns ==
  ThreeCommits \union Rollback \union
    {<<Lists({s1}, t1, v1), second, Lists({s1}, t1, v1)>> :
       second \in {Lists({}, t1, v1), Lists({s1}, t2, v1)}} \union
    {<<Lists({s1}, t1, v1), Lists({}, t1, v2), Lists({s1}, t1, v2)>>,
     <<Lists({s1}, t1, v1), Unreadable(v2), Lists({}, t1, v3)>>,
     <<Lists({s1}, t1, v1), Lists({s1}, t1, NoVersion)>>}

(* One service replaces the other, or both are there from the beginning. *)
TwoServices ==
  {<<Lists({s1}, t1, v1), Lists({s2}, t2, v2)>>, <<Lists({s1, s2}, t1, v1)>>}

(* Everything that fails visibly: the worker sees an error, or restarts. *)
VisibleFaults ==
  {"refused", "timeout", "failed", "lost", "check", "clone", "edit", "restart"}
================================================================================
