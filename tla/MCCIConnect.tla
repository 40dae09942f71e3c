------------------------------ MODULE MCCIConnect ------------------------------
EXTENDS CIConnect, TLC

CONSTANTS j1, j2, j3, s1, s2, v1, v2, t1, t2

Call(s, v, listed, ignoreDuplicates, dryRun) ==
  [service |-> s, version |-> v, listed |-> listed,
   ignoreDuplicates |-> ignoreDuplicates, dryRun |-> dryRun]

(* Two pipelines of one service, perhaps with one version, with that of the *)
(* chart, or for show; a third of another service.                          *)
ThreePipelines ==
  {[j \in Jobs |-> CASE j = j1 -> Call(s1, v1, TRUE, FALSE, FALSE)
                     [] j = j2 -> second
                     [] j = j3 -> third] :
     second \in {Call(s1, v1, TRUE, TRUE, FALSE),
                 Call(s1, NoVersion, TRUE, FALSE, FALSE)},
     third \in {Call(s2, v2, TRUE, FALSE, TRUE),
                Call(s2, v1, FALSE, FALSE, FALSE)}}

OnePipeline == {[j \in Jobs |-> Call(s1, v1, TRUE, FALSE, FALSE)]}

(* A new repository with a shipyard, and one in which developers maintain s2 *)
(* and have changed, or broken, the shipyard.                                *)
Fresh == [Nothing EXCEPT !.shipyard = t1]
Maintained(shipyard) ==
  [Nothing EXCEPT !.shipyard = shipyard, !.trigger[s2] = t1,
                  !.version[s2] = v1, !.staged = {s2}]
SomeEdits == {Fresh, Maintained(t2), Maintained(NoTrigger)}

AllFaults == {"failed", "lost", "clone", "rerun", "edit"}
================================================================================
