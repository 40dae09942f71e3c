--------------------------- MODULE ConfigurationLog ---------------------------
(***************************************************************************)
(* What a deployment repository promises whoever reads it: its branch is a *)
(* log of configurations, and each is the one before it with one service   *)
(* deployed, whole and untorn, or a developer's edit of it.  A release     *)
(* names a service and a version, and a commit that holds that version of  *)
(* the service; it never names another one.                                *)
(***************************************************************************)
EXTENDS Integers, Sequences

CONSTANTS
  Services, Versions, NoVersion, Triggers, NoTrigger,
  Edits         \* the configurations a developer may push

Content ==
  [version  : [Services -> Versions \union {NoVersion}],   \* base/<service>
   trigger  : [Services -> Triggers \union {NoTrigger}],   \* .keptn/config.yaml
   staged   : SUBSET Services,         \* entries of it that name a start stage
   shipyard : Triggers \union {NoTrigger}]     \* the default stage and sequence

Release == Services \X (Versions \union {NoVersion})

VARIABLES
  log,          \* the configurations, oldest first
  releases      \* releases[r]: where r is in the log, 0 if nowhere

LogInit ==
  /\ \E content \in Edits : log = <<content>>
  /\ releases = [r \in Release |-> 0]

Newest == log[Len(log)]

(* Deploying a service writes its version and its entry, and keeps the start *)
(* stages of some entries.                                                   *)
Deployed(old, s, v, t, kept) ==
  [old EXCEPT !.version[s] = v, !.trigger[s] = t, !.staged = kept]

Deployments(old) ==
  {Deployed(old, s, v, t, kept) :
     s \in Services, v \in Versions \union {NoVersion}, t \in Triggers,
     kept \in SUBSET old.staged}

Extend ==
  /\ Len(log') = Len(log) + 1
  /\ \E content \in {Newest} \union Edits \union Deployments(Newest) :
       log' = Append(log, content)
  /\ UNCHANGED releases

(* The commit holds the version, or it changed nothing (the service was not *)
(* in the job's ci_config.yaml).                                            *)
Describes(i, r) ==
  log[i].version[r[1]] = r[2] \/ (i > 1 /\ log[i] = log[i - 1])

Publish ==
  /\ \E r \in Release, i \in 1..Len(log) :
       /\ releases[r] = 0
       /\ Describes(i, r)
       /\ releases' = [releases EXCEPT ![r] = i]
  /\ UNCHANGED log

LogNext == Extend \/ Publish

LogSpec == LogInit /\ [][LogNext]_<<log, releases>>
================================================================================
