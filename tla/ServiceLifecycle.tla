--------------------------- MODULE ServiceLifecycle ---------------------------
(***************************************************************************)
(* What Keptn may be asked to do, given what the deployment branch says    *)
(* and nothing else: no controllers, resources, caches or retries.  A      *)
(* service is created because a commit lists it, deleted because a later   *)
(* commit with a readable config.yaml does not, and deployed with what its *)
(* commits say.                                                            *)
(***************************************************************************)
EXTENDS Integers, Sequences

CONSTANTS Services, NoTrigger

VARIABLES
  commits,      \* the deployment branch
  keptn,        \* the services Keptn knows
  accepted      \* accepted[s]: the last trigger event Keptn accepted for s

Lists(i, s) == commits[i].trigger[s] # NoTrigger
Drops(i, s) == commits[i].configured /\ ~Lists(i, s)

(* The trigger may be older than the version: they are read one after the *)
(* other, each from the newest commit.                                    *)
FromGit(s, event) ==
  \E i, j \in 1..Len(commits) :
    /\ i <= j
    /\ Lists(i, s)
    /\ event.trigger = commits[i].trigger[s]
    /\ event.version = commits[j].version[s]

Wanted(s)  == \E i \in 1..Len(commits) : Lists(i, s)
Dropped(s) == \E i, j \in 1..Len(commits) : i < j /\ Lists(i, s) /\ Drops(j, s)

LifecycleInit ==
  /\ Len(commits) = 1
  /\ keptn \subseteq Services
  /\ \A s \in Services : accepted[s].trigger = NoTrigger

Push ==
  /\ Len(commits') = Len(commits) + 1
  /\ \A i \in 1..Len(commits) : commits'[i] = commits[i]
  /\ UNCHANGED <<keptn, accepted>>

Create(s) ==
  /\ Wanted(s)
  /\ keptn' = keptn \union {s}
  /\ UNCHANGED <<commits, accepted>>

Delete(s) ==
  /\ Dropped(s)
  /\ keptn' = keptn \ {s}
  /\ UNCHANGED <<commits, accepted>>

Deploy(s) ==
  /\ FromGit(s, accepted'[s])
  /\ accepted' = [accepted EXCEPT ![s] = accepted'[s]]
  /\ UNCHANGED <<commits, keptn>>

LifecycleNext ==
  \/ Push
  \/ \E s \in Services : Create(s) \/ Delete(s) \/ Deploy(s)

LifecycleSpec == LifecycleInit /\ [][LifecycleNext]_<<commits, keptn, accepted>>
================================================================================
