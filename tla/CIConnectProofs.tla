---------------------------- MODULE CIConnectProofs ----------------------------
(***************************************************************************)
(* Theorems about CIConnect, for any jobs, settings, edits, faults and     *)
(* bound on repetitions.                                                   *)
(***************************************************************************)
EXTENDS CIConnect, FiniteSetTheorems, SequenceTheorems, TLAPS

--------------------------------------------------------------------------------
(* The configuration of an empty repository is a configuration. *)
LEMMA NothingType == Nothing \in Content
  BY DEF Nothing, Content

(* A job that moves on, with what it has read of the shipyard, keeps the type *)
(* of its memory.                                                             *)
LEMMA MoveType ==
  ASSUME NEW m \in Memory, NEW step \in Steps, NEW t \in Triggers \union {NoTrigger}
  PROVE  /\ [m EXCEPT !.step = step] \in Memory
         /\ [m EXCEPT !.step = step, !.trigger = t] \in Memory
  BY DEF Memory

(* An attempt that starts or ends leaves a memory of the right type. *)
LEMMA AttemptType ==
  ASSUME NEW step \in Steps, NEW n \in 0..MaxRepetitions,
         NEW v \in Versions \union {NoVersion}
  PROVE  Attempt(step, n, v) \in Memory
  BY NothingType DEF Attempt, Memory

(* ... so does the end of the process. *)
LEMMA ExitType ==
  ASSUME NEW m \in Memory PROVE Exit0(m) \in Memory /\ Exit1(m) \in Memory
<1>1. m.repetitions \in 0..MaxRepetitions /\ m.version \in Versions \union {NoVersion}
  BY DEF Memory
<1> QED
  BY <1>1, AttemptType DEF Exit0, Exit1, Steps

(* ... and an error that RunDeployment returns. *)
LEMMA ErrorType ==
  ASSUME NEW m \in Memory PROVE PushError(m) \in Memory /\ OtherError(m) \in Memory
<1>1. m.repetitions \in 0..MaxRepetitions /\ m.version \in Versions \union {NoVersion}
  BY DEF Memory
<1>2. ASSUME m.repetitions < MaxRepetitions
      PROVE  Attempt("main", m.repetitions + 1, m.version) \in Memory
  <2>1. m.repetitions + 1 \in 0..MaxRepetitions
    BY <1>1, <1>2, JobAssumption DEF JobAssumption
  <2> QED
    BY <1>1, <2>1, AttemptType DEF Steps
<1> QED
  BY <1>2, ExitType DEF PushError, OtherError

(* UpdateRepository turns a configuration into a configuration. *)
LEMMA UpdateType ==
  ASSUME NEW content \in Content, NEW s \in Services,
         NEW v \in Versions \union {NoVersion}, NEW t \in Triggers
  PROVE  UpdateRepository(content, s, v, t) \in Content
  BY DEF UpdateRepository, modifyOperatorConfig, Content

(* The initial memory of a job. *)
LEMMA StartType ==
  ASSUME NEW x \in [Jobs -> Setting], NEW j \in Jobs
  PROVE  Attempt("main", 0, x[j].version) \in Memory
<1>1. x[j].version \in Versions \union {NoVersion}
  BY DEF Setting
<1>2. 0 \in 0..MaxRepetitions
  BY JobAssumption DEF JobAssumption
<1> QED
  BY <1>1, <1>2, AttemptType DEF Steps

(* A step that gives a job a memory keeps the type of all of them. *)
LEMMA BecomesType ==
  ASSUME TypeOK, NEW j, NEW m \in Memory, Becomes(j, m)
  PROVE  job' \in [Jobs -> Memory] /\ setting' \in [Jobs -> Setting]
  BY DEF TypeOK, Becomes

(* A fault keeps the fault budget. *)
LEMMA FaultType ==
  ASSUME RepoTypeOK, NEW kind, Fault(kind) PROVE faults' \in 0..MaxFaults
  BY RepoAssumption DEF RepoTypeOK, Fault, RepoAssumption

(* ... and so does a push. *)
LEMMA PushType ==
  ASSUME RepoTypeOK, NEW result, NEW allowed, Push(result, allowed)
  PROVE  faults' \in 0..MaxFaults
  BY FaultType DEF Push, RepoTypeOK

--------------------------------------------------------------------------------
(* The branch only grows: that is all other jobs see of a push. *)
Grows == branch' = branch \/ \E c \in Commit : branch' = Append(branch, c)

(* What was on the branch stays where it was. *)
LEMMA GrowsEffect ==
  ASSUME RepoTypeOK, Grows
  PROVE  /\ branch' \in Seq(Commit)
         /\ Height \in Nat
         /\ Height' \in Nat
         /\ Height <= Height'
         /\ \A i \in 1..Height : i \in 1..Height' /\ branch'[i] = branch[i]
<1>1. CASE branch' = branch
  BY <1>1 DEF RepoTypeOK, Height
<1>2. ASSUME NEW c \in Commit, branch' = Append(branch, c)
      PROVE  /\ branch' \in Seq(Commit)
             /\ Height \in Nat
             /\ Height' \in Nat
             /\ Height <= Height'
             /\ \A i \in 1..Height : i \in 1..Height' /\ branch'[i] = branch[i]
  BY <1>2 DEF RepoTypeOK, Height
<1> QED
  BY <1>1, <1>2 DEF Grows

(* A push of the branch appends the commit to the one it was made from, or *)
(* does nothing.                                                           *)
LEMMA PushBranchEffect ==
  ASSUME RepoTypeOK, NEW base \in Nat, NEW c \in Commit, NEW result,
         PushBranch(base, c, result)
  PROVE  /\ tags' = tags
         /\ faults' \in 0..MaxFaults
         /\ Done(result) => base = Height /\ branch' = Append(branch, c)
         /\ ~Done(result) => branch' = branch
         /\ Grows
<1>1. tags' = tags /\ faults' \in 0..MaxFaults
  BY PushType DEF PushBranch
<1>2. ASSUME Done(result) PROVE base = Height /\ branch' = Append(branch, c)
  <2>1. base = Height
    BY <1>2 DEF PushBranch, Push, Done
  <2>2. SubSeq(branch, 1, base) = branch
    BY <2>1, SubSeqFull DEF RepoTypeOK, Height
  <2> QED
    BY <1>2, <2>1, <2>2 DEF PushBranch
<1>3. ASSUME ~Done(result) PROVE branch' = branch
  BY <1>3 DEF PushBranch
<1> QED
  BY <1>1, <1>2, <1>3 DEF Grows

(* A push of a tag sets one that was not set, or does nothing. *)
LEMMA PushTagEffect ==
  ASSUME RepoTypeOK, NEW r, NEW i, NEW result, PushTag(r, i, result)
  PROVE  /\ branch' = branch
         /\ faults' \in 0..MaxFaults
         /\ Done(result) => tags[r] = 0 /\ tags' = [tags EXCEPT ![r] = i]
         /\ ~Done(result) => tags' = tags
  BY PushType DEF PushTag, Push, Done

(* A developer's commit lets the branch grow. *)
LEMMA EditEffect ==
  ASSUME RepoTypeOK, Edit PROVE Grows /\ tags' = tags /\ faults' \in 0..MaxFaults
<1>1. faults' \in 0..MaxFaults /\ tags' = tags
  BY FaultType DEF Edit
<1>2. \A c \in Edits : [author |-> Developer, content |-> c] \in Commit
  BY RepoAssumption DEF RepoAssumption, Commit
<1> QED
  BY <1>1, <1>2 DEF Edit, Grows

(* The newest configuration, and a job's commit, have the right type. *)
LEMMA TipType == ASSUME RepoTypeOK PROVE Tip \in Content /\ Height \in 1..Height
<1>1. Height \in 1..Len(branch) /\ branch \in Seq(Commit)
  BY DEF RepoTypeOK, Height
<1>2. branch[Height] \in Commit
  BY <1>1, ElementOfSeq
<1> QED
  BY <1>1, <1>2 DEF Tip, Commit, Height

(* A job's commit, base and release have the right type. *)
LEMMA CommitType ==
  ASSUME TypeOK, NEW j \in Jobs
  PROVE  CommitOf(j) \in Commit /\ job[j].base \in Nat /\ ReleaseOf(j) \in Release
  BY DEF TypeOK, CommitOf, Commit, Memory, ReleaseOf, Release, Setting

--------------------------------------------------------------------------------
(* What CloneDeploy leaves in memory when it gets to the end of its attempt. *)
Prepared(j, v) ==
  [job[j] EXCEPT
     !.step = "branch", !.version = v, !.base = Height,
     !.content = IF setting[j].listed
       THEN UpdateRepository(Tip, setting[j].service, v, job[j].trigger) ELSE Tip]

(* It has the right type, and a trigger. *)
LEMMA PreparedType ==
  ASSUME TypeOK, NEW j \in Jobs, job[j].trigger # NoTrigger,
         NEW v \in IF setting[j].listed THEN VersionsFor(job[j]) ELSE {job[j].version}
  PROVE  Prepared(j, v) \in Memory /\ job[j].trigger \in Triggers
<1>1. /\ setting[j] \in Setting /\ job[j] \in Memory
      /\ Tip \in Content /\ Height \in Nat
  BY TipType DEF TypeOK, RepoTypeOK, Height
<1>2. /\ job[j].version \in Versions \union {NoVersion}
      /\ job[j].trigger \in Triggers
      /\ setting[j].service \in Services
      /\ setting[j].listed \in BOOLEAN
  BY <1>1 DEF Memory, Setting
<1>3. v \in Versions \union {NoVersion}
  BY <1>2 DEF VersionsFor
<1>4. setting[j].listed =>
        UpdateRepository(Tip, setting[j].service, v, job[j].trigger) \in Content
  BY <1>1, <1>2, <1>3, UpdateType
<1> DEFINE c == IF setting[j].listed
                  THEN UpdateRepository(Tip, setting[j].service, v, job[j].trigger)
                  ELSE Tip
<1>5. c \in Content
  BY <1>1, <1>4
<1> HIDE DEF c
<1>6. [job[j] EXCEPT !.step = "branch", !.version = v, !.base = Height, !.content = c]
        \in Memory
  BY <1>1, <1>3, <1>5 DEF Memory, Steps
<1> QED
  BY <1>2, <1>3, <1>6 DEF Prepared, c

(* CloneDeploy ends the job or prepares its commit. *)
LEMMA CloneDeployEffect ==
  ASSUME TypeOK, NEW j \in Jobs, CloneDeploy(j)
  PROVE  /\ job[j].step = "deploy"
         /\ UNCHANGED repoVars
         /\ \E m \in Memory :
              /\ Becomes(j, m)
              /\ \/ m = OtherError(job[j])
                 \/ \E v \in IF setting[j].listed
                               THEN VersionsFor(job[j]) ELSE {job[j].version} :
                      /\ job[j].trigger # NoTrigger
                      /\ \/ m = Prepared(j, v)
                            /\ tags[<<setting[j].service, v>>] = 0
                            /\ ~setting[j].dryRun
                         \/ m = OtherError(Prepared(j, v))
                         \/ m = Exit0(Prepared(j, v)) /\ setting[j].dryRun
<1>1. job[j] \in Memory
  BY DEF TypeOK
<1>2. CASE Becomes(j, OtherError(job[j]))
  BY <1>1, <1>2, ErrorType DEF CloneDeploy
<1>3. ASSUME NEW v \in IF setting[j].listed
                         THEN VersionsFor(job[j]) ELSE {job[j].version},
             job[j].trigger # NoTrigger,
             Becomes(j, IF setting[j].dryRun THEN Exit0(Prepared(j, v))
                        ELSE IF tags[<<setting[j].service, v>>] # 0
                               THEN OtherError(Prepared(j, v))
                        ELSE Prepared(j, v))
      PROVE  \E m \in Memory :
               /\ Becomes(j, m)
               /\ \/ m = Prepared(j, v)
                     /\ tags[<<setting[j].service, v>>] = 0
                     /\ ~setting[j].dryRun
                  \/ m = OtherError(Prepared(j, v))
                  \/ m = Exit0(Prepared(j, v)) /\ setting[j].dryRun
  <2>1. Prepared(j, v) \in Memory
    BY <1>3, PreparedType
  <2>2. Exit0(Prepared(j, v)) \in Memory /\ OtherError(Prepared(j, v)) \in Memory
    BY <2>1, ExitType, ErrorType
  <2> QED
    BY <1>3, <2>1, <2>2
<1> QED
  BY <1>2, <1>3 DEF CloneDeploy, Prepared

--------------------------------------------------------------------------------
(* The initial state is well-typed. *)
LEMMA InitType == Init => TypeOK
<1> SUFFICES ASSUME Init PROVE TypeOK
  OBVIOUS
<1>1. setting \in [Jobs -> Setting]
  BY JobAssumption DEF Init, JobAssumption
<1>2. job \in [Jobs -> Memory]
  BY <1>1, StartType DEF Init
<1>3. ASSUME NEW c \in Edits, branch = <<[author |-> Developer, content |-> c]>>
      PROVE  branch \in Seq(Commit) /\ Height = 1
  <2>1. [author |-> Developer, content |-> c] \in Commit
    BY RepoAssumption DEF RepoAssumption, Commit
  <2> QED
    BY <1>3, <2>1 DEF Height
<1>4. branch \in Seq(Commit) /\ Height = 1
  BY <1>3 DEF Init, RepoInit
<1>5. tags \in [Release -> 0..Height] /\ faults \in 0..MaxFaults
  BY <1>4, RepoAssumption DEF Init, RepoInit, RepoAssumption
<1> QED
  BY <1>1, <1>2, <1>4, <1>5 DEF TypeOK, RepoTypeOK

(* Whatever lets the branch grow and keeps the tags or sets one to a commit *)
(* of it keeps the repository well-typed.                                   *)
LEMMA RepoKept ==
  ASSUME RepoTypeOK, Grows, faults' \in 0..MaxFaults,
         tags' = tags \/ \E r \in Release, i \in 1..Height : tags' = [tags EXCEPT ![r] = i]
  PROVE  RepoTypeOK'
<1>1. branch' \in Seq(Commit) /\ Height \in Nat /\ Height' \in Nat /\ Height <= Height'
  BY GrowsEffect
<1>2. tags' \in [Release -> 0..Height]
  BY <1>1 DEF RepoTypeOK
<1>3. tags' \in [Release -> 0..Height']
  BY <1>1, <1>2
<1> QED
  BY <1>1, <1>3 DEF RepoTypeOK, Height

(* Every step keeps the types. *)
LEMMA NextType ==
  ASSUME TypeOK, WorkFitsBranch, [Next]_vars PROVE TypeOK'
<1> USE DEF TypeOK
<1>1. ASSUME NEW j \in Jobs, CloneMain(j) PROVE TypeOK'
  <2>1. [job[j] EXCEPT !.step = "deploy", !.trigger = Tip.shipyard] \in Memory
    <3>1. Tip.shipyard \in Triggers \union {NoTrigger}
      BY TipType DEF Content
    <3>2. job[j] \in Memory /\ "deploy" \in Steps
      BY DEF Steps
    <3> QED
      BY <3>1, <3>2, MoveType
  <2>2. job' \in [Jobs -> Memory] /\ setting' \in [Jobs -> Setting]
    BY <1>1, <2>1, BecomesType DEF CloneMain
  <2> QED
    BY <1>1, <2>2 DEF CloneMain, repoVars, RepoTypeOK, Height
<1>2. ASSUME NEW j \in Jobs, CloneDeploy(j) PROVE TypeOK'
  <2>1. job' \in [Jobs -> Memory] /\ setting' \in [Jobs -> Setting]
    BY <1>2, CloneDeployEffect, BecomesType
  <2> QED
    BY <1>2, <2>1, CloneDeployEffect DEF repoVars, RepoTypeOK, Height
<1>3. ASSUME NEW j \in Jobs, NEW result \in Results, PushHeads(j, result) PROVE TypeOK'
  <2>1. [job[j] EXCEPT !.step = "tags"] \in Memory /\ PushError(job[j]) \in Memory
    <3>1. job[j] \in Memory /\ "tags" \in Steps
      BY DEF Steps
    <3> QED
      BY <3>1, ErrorType, MoveType
  <2>2. job' \in [Jobs -> Memory] /\ setting' \in [Jobs -> Setting]
    BY <1>3, <2>1, BecomesType DEF PushHeads
  <2>3. tags' = tags /\ faults' \in 0..MaxFaults /\ Grows
    BY <1>3, PushBranchEffect, CommitType DEF PushHeads
  <2> QED
    BY <2>2, <2>3, RepoKept
<1>4. ASSUME NEW j \in Jobs, NEW result \in Results, PushTags(j, result) PROVE TypeOK'
  <2>1. Exit0(job[j]) \in Memory /\ PushError(job[j]) \in Memory
    BY ErrorType, ExitType
  <2>2. job' \in [Jobs -> Memory] /\ setting' \in [Jobs -> Setting]
    BY <1>4, <2>1, BecomesType DEF PushTags
  <2>3. /\ branch' = branch /\ faults' \in 0..MaxFaults
        /\ tags' = tags \/ tags' = [tags EXCEPT ![ReleaseOf(j)] = job[j].base + 1]
    BY <1>4, PushTagEffect DEF PushTags
  <2>4. job[j].base + 1 \in 1..Height /\ ReleaseOf(j) \in Release
    BY <1>4, CommitType DEF PushTags, WorkFitsBranch, RepoTypeOK, Height
  <2> QED
    BY <2>2, <2>3, <2>4, RepoKept DEF Grows
<1>5. ASSUME NEW j \in Jobs, RunFails(j) PROVE TypeOK'
  <2>1. job' \in [Jobs -> Memory] /\ setting' \in [Jobs -> Setting]
    BY <1>5, ExitType, BecomesType DEF RunFails
  <2>2. faults' \in 0..MaxFaults
    BY <1>5, FaultType DEF RunFails
  <2> QED
    BY <1>5, <2>1, <2>2, RepoKept DEF RunFails, Grows
<1>6. ASSUME NEW j \in Jobs, Rerun(j) PROVE TypeOK'
  <2>1. job' \in [Jobs -> Memory] /\ setting' \in [Jobs -> Setting]
    BY <1>6, StartType, BecomesType DEF Rerun
  <2>2. faults' \in 0..MaxFaults
    BY <1>6, FaultType DEF Rerun
  <2> QED
    BY <1>6, <2>1, <2>2, RepoKept DEF Rerun, Grows
<1>7. ASSUME Edit, UNCHANGED <<setting, job>> PROVE TypeOK'
  BY <1>7, EditEffect, RepoKept
<1>8. CASE UNCHANGED vars
  BY <1>8 DEF vars, repoVars, RepoTypeOK, Height
<1> QED
  BY <1>1, <1>2, <1>3, <1>4, <1>5, <1>6, <1>7, <1>8 DEF Next, RunDeployment

--------------------------------------------------------------------------------
(* What the invariant says of one job. *)
Fits(j) ==
  /\ job[j].step \in {"branch", "tags"} => job[j].base \in 1..Height /\ Work(j)
  /\ job[j].step = "tags" =>
       job[j].base < Height /\ branch[job[j].base + 1] = CommitOf(j)

Succeeds(j) ==
  /\ job[j].step = "exit0"
  /\ job[j].repetitions < MaxRepetitions
  /\ ~setting[j].dryRun
  /\ setting[j].ignoreDuplicates => NoFailedPush
  => Published(j)

(* The remote moves on, and never takes back what a job relies on. *)
Advances ==
  /\ Grows
  /\ \A r \in Release : tags[r] # 0 => tags'[r] = tags[r]
  /\ setting' = setting

(* What other jobs do to the remote leaves a job's work and its result alone. *)
LEMMA OthersAdvance ==
  ASSUME TypeOK, Advances, NoFailedPush' => NoFailedPush,
         NEW j \in Jobs, job'[j] = job[j], Fits(j), Succeeds(j)
  PROVE  Fits(j)' /\ Succeeds(j)'
<1>1. /\ Height \in Nat /\ Height' \in Nat /\ Height <= Height'
      /\ \A i \in 1..Height : i \in 1..Height' /\ branch'[i] = branch[i]
  BY GrowsEffect DEF TypeOK, Advances
<1>2. setting' = setting /\ CommitOf(j)' = CommitOf(j) /\ ReleaseOf(j)' = ReleaseOf(j)
  BY DEF Advances, CommitOf, ReleaseOf
<1>3. ASSUME job[j].step \in {"branch", "tags"}
      PROVE  job'[j].base \in 1..Height' /\ Work(j)'
  BY <1>1, <1>2, <1>3 DEF Fits, Work
<1>4. ASSUME job[j].step = "tags"
      PROVE  job'[j].base < Height' /\ branch'[job'[j].base + 1] = CommitOf(j)'
  <2>1. job[j].base + 1 \in 1..Height /\ job[j].base < Height
    BY <1>1, <1>4, CommitType DEF Fits
  <2> QED
    BY <1>1, <1>2, <1>4, <2>1 DEF Fits
<1>5. ASSUME Published(j) PROVE Published(j)'
  <2>1. PICK i \in 1..Height :
          /\ branch[i].author = j
          /\ setting[j].listed
               => branch[i].content.version[setting[j].service] = job[j].version
          /\ \/ tags[ReleaseOf(j)] = i
             \/ setting[j].ignoreDuplicates /\ tags[ReleaseOf(j)] # 0
    BY <1>5 DEF Published
  <2>2. tags[ReleaseOf(j)] # 0 => tags'[ReleaseOf(j)] = tags[ReleaseOf(j)]
    BY CommitType DEF Advances
  <2> QED
    BY <1>1, <1>2, <2>1, <2>2 DEF Published
<1> QED
  BY <1>2, <1>3, <1>4, <1>5 DEF Fits, Succeeds

(* A job that starts over, or ends otherwise than with success, has nothing *)
(* to keep.                                                                 *)
LEMMA NothingToKeep ==
  ASSUME NEW j \in Jobs,
         job'[j].step \in {"main", "deploy", "exit0", "exit1"},
         job'[j].step = "exit0" =>
           ~(job'[j].repetitions < MaxRepetitions) \/ setting'[j].dryRun
  PROVE  Fits(j)' /\ Succeeds(j)'
  BY DEF Fits, Succeeds

(* After an error a job is such a job. *)
LEMMA ErrorsKeepNothing ==
  ASSUME NEW m \in Memory, NEW e \in {PushError(m), OtherError(m), Exit1(m)}
  PROVE  /\ e.step \in {"main", "exit0", "exit1"}
         /\ e.step = "exit0" => ~(e.repetitions < MaxRepetitions)
  BY DEF PushError, OtherError, Exit0, Exit1, Attempt

(* A job's step changes its own memory only. *)
LEMMA BecomesMemory ==
  ASSUME TypeOK, NEW j \in Jobs, NEW m, Becomes(j, m)
  PROVE  /\ setting' = setting
         /\ job'[j] = m
         /\ \A k \in Jobs : k # j => job'[k] = job[k]
  BY DEF TypeOK, Becomes

(* Every step lets the remote only advance. *)
LEMMA NextAdvances ==
  ASSUME TypeOK, [Next]_vars PROVE Advances
<1> USE DEF TypeOK
<1>1. ASSUME NEW j \in Jobs, CloneMain(j) \/ CloneDeploy(j) \/ RunFails(j) \/ Rerun(j)
      PROVE  Advances
  <2>1. branch' = branch /\ tags' = tags /\ setting' = setting
    BY <1>1 DEF CloneMain, CloneDeploy, RunFails, Rerun, Becomes, repoVars
  <2> QED
    BY <2>1 DEF Advances, Grows
<1>2. ASSUME NEW j \in Jobs, NEW result \in Results, PushHeads(j, result) PROVE Advances
  <2>1. Grows /\ tags' = tags
    BY <1>2, PushBranchEffect, CommitType DEF PushHeads
  <2> QED
    BY <1>2, <2>1 DEF Advances, PushHeads, Becomes
<1>3. ASSUME NEW j \in Jobs, NEW result \in Results, PushTags(j, result) PROVE Advances
  <2>1. /\ branch' = branch
        /\ \/ tags' = tags
           \/ /\ tags[ReleaseOf(j)] = 0
              /\ tags' = [tags EXCEPT ![ReleaseOf(j)] = job[j].base + 1]
    BY <1>3, PushTagEffect DEF PushTags
  <2>2. \A r \in Release : tags[r] # 0 => tags'[r] = tags[r]
    BY <2>1 DEF RepoTypeOK
  <2> QED
    BY <1>3, <2>1, <2>2 DEF Advances, PushTags, Becomes, Grows
<1>4. ASSUME Edit, UNCHANGED <<setting, job>> PROVE Advances
  BY <1>4, EditEffect DEF Advances
<1>5. CASE UNCHANGED vars
  BY <1>5 DEF vars, repoVars, Advances, Grows
<1> QED
  BY <1>1, <1>2, <1>3, <1>4, <1>5 DEF Next, RunDeployment

--------------------------------------------------------------------------------
CIInv == TypeOK /\ WorkFitsBranch /\ SuccessIsPublished

(* The invariant, job by job. *)
LEMMA InvParts ==
  CIInv <=> TypeOK /\ \A j \in Jobs : Fits(j) /\ Succeeds(j)
  BY DEF CIInv, WorkFitsBranch, SuccessIsPublished, Fits, Succeeds

(* A job's own steps keep what the invariant says of it. *)
LEMMA CloneDeployKeeps ==
  ASSUME TypeOK, NEW j \in Jobs, CloneDeploy(j) PROVE Fits(j)' /\ Succeeds(j)'
<1>1. PICK m \in Memory :
        /\ Becomes(j, m)
        /\ \/ m = OtherError(job[j])
           \/ \E v \in IF setting[j].listed
                         THEN VersionsFor(job[j]) ELSE {job[j].version} :
                /\ job[j].trigger # NoTrigger
                /\ \/ m = Prepared(j, v)
                   \/ m = OtherError(Prepared(j, v))
                   \/ m = Exit0(Prepared(j, v)) /\ setting[j].dryRun
  BY CloneDeployEffect
<1>2. setting' = setting /\ job'[j] = m
  BY <1>1, BecomesMemory
<1>3. job[j] \in Memory
  BY DEF TypeOK
<1>4. CASE m = OtherError(job[j])
  BY <1>2, <1>3, <1>4, ErrorsKeepNothing, NothingToKeep
<1>5. ASSUME NEW v \in IF setting[j].listed
                         THEN VersionsFor(job[j]) ELSE {job[j].version},
             job[j].trigger # NoTrigger
      PROVE  Prepared(j, v) \in Memory /\ job[j].trigger \in Triggers
  BY <1>5, PreparedType
<1>6. ASSUME NEW v \in IF setting[j].listed
                         THEN VersionsFor(job[j]) ELSE {job[j].version},
             job[j].trigger # NoTrigger, m = OtherError(Prepared(j, v))
      PROVE  Fits(j)' /\ Succeeds(j)'
  BY <1>2, <1>5, <1>6, ErrorsKeepNothing, NothingToKeep
<1>7. ASSUME NEW v, m = Exit0(Prepared(j, v)), setting[j].dryRun
      PROVE  Fits(j)' /\ Succeeds(j)'
  BY <1>2, <1>7, NothingToKeep DEF Exit0, Attempt
<1>8. ASSUME NEW v \in IF setting[j].listed
                         THEN VersionsFor(job[j]) ELSE {job[j].version},
             job[j].trigger # NoTrigger, m = Prepared(j, v)
      PROVE  Fits(j)' /\ Succeeds(j)'
  <2>1. branch' = branch
    BY CloneDeployEffect DEF repoVars
  <2>2. Height \in 1..Height
    BY TipType DEF TypeOK
  <2>3. /\ job'[j].step = "branch" /\ job'[j].base = Height /\ job'[j].version = v
        /\ job'[j].trigger = job[j].trigger
        /\ job'[j].content =
             IF setting[j].listed
               THEN UpdateRepository(Tip, setting[j].service, v, job[j].trigger)
               ELSE Tip
    BY <1>2, <1>3, <1>8 DEF Prepared, Memory
  <2>4. Height' = Height /\ branch'[Height].content = Tip
    BY <2>1 DEF Height, Tip
  <2>5. Work(j)'
    BY <1>2, <1>5, <1>8, <2>3, <2>4 DEF Work
  <2> QED
    BY <2>2, <2>3, <2>4, <2>5 DEF Fits, Succeeds
<1> QED
  BY <1>1, <1>4, <1>6, <1>7, <1>8

(* After the push of the branch the commit is the next one on it. *)
LEMMA PushHeadsKeeps ==
  ASSUME TypeOK, NEW j \in Jobs, Fits(j), NEW result \in Results, PushHeads(j, result)
  PROVE  Fits(j)' /\ Succeeds(j)'
<1>1. job[j] \in Memory /\ job[j].step = "branch"
  BY DEF TypeOK, PushHeads
<1>2. CASE result # "ok"
  <2>1. setting' = setting /\ job'[j] = PushError(job[j])
    BY <1>2, BecomesMemory DEF PushHeads
  <2> QED
    BY <1>1, <2>1, ErrorsKeepNothing, NothingToKeep
<1>3. CASE result = "ok"
  <2>1. setting' = setting /\ job'[j] = [job[j] EXCEPT !.step = "tags"]
    BY <1>3, BecomesMemory DEF PushHeads
  <2>2. /\ job'[j].step = "tags" /\ job'[j].base = job[j].base
        /\ job'[j].content = job[j].content /\ job'[j].version = job[j].version
        /\ job'[j].trigger = job[j].trigger
    BY <1>1, <2>1 DEF Memory
  <2>3. job[j].base = Height /\ branch' = Append(branch, CommitOf(j))
    BY <1>3, PushBranchEffect, CommitType DEF PushHeads, Done, TypeOK
  <2>4. /\ Height \in Nat /\ Height' = Height + 1
        /\ branch'[Height + 1] = CommitOf(j)
        /\ \A i \in 1..Height : branch'[i] = branch[i]
    BY <2>3 DEF TypeOK, RepoTypeOK, Height
  <2>5. job[j].base \in 1..Height /\ Work(j)
    BY <1>1 DEF Fits
  <2>6. Work(j)'
    BY <2>1, <2>2, <2>4, <2>5 DEF Work
  <2>7. CommitOf(j)' = CommitOf(j)
    BY <2>2 DEF CommitOf
  <2> QED
    BY <2>2, <2>3, <2>4, <2>5, <2>6, <2>7 DEF Fits, Succeeds
<1> QED
  BY <1>2, <1>3

(* The commit of a listed service holds the job's version of it. *)
LEMMA WorkHoldsVersion ==
  ASSUME TypeOK, NEW j \in Jobs, job[j].base \in 1..Height, Work(j), setting[j].listed
  PROVE  job[j].content.version[setting[j].service] = job[j].version
<1> DEFINE old == branch[job[j].base].content
           c   == modifyOperatorConfig(old, setting[j].service, job[j].trigger)
<1>1. branch[job[j].base] \in Commit
  BY ElementOfSeq DEF TypeOK, RepoTypeOK, Height
<1>2. old \in Content /\ setting[j].service \in Services
  BY <1>1 DEF TypeOK, Commit, Setting
<1> HIDE DEF old
<1>3. c.version \in [Services -> Versions \union {NoVersion}] /\ "version" \in DOMAIN c
  BY <1>2 DEF modifyOperatorConfig, Content
<1> HIDE DEF c
<1>4. [c EXCEPT !.version[setting[j].service] = job[j].version]
        .version[setting[j].service] = job[j].version
  BY <1>2, <1>3
<1> QED
  BY <1>4 DEF Work, UpdateRepository, old, c

(* Faults only happen. *)
LEMMA FaultsGrow ==
  ASSUME TypeOK, [Next]_vars PROVE faults' \in Nat /\ faults <= faults'
<1>1. faults \in Nat
  BY DEF TypeOK, RepoTypeOK
<1>2. faults' = faults \/ faults' = faults + 1
  BY DEF Next, RunDeployment, CloneMain, CloneDeploy, PushHeads, PushTags, RunFails,
         Rerun, Edit, PushBranch, PushTag, Push, Fault, vars, repoVars
<1> QED
  BY <1>1, <1>2

(* What has not failed so far has not failed before. *)
LEMMA NoneFailedBefore ==
  ASSUME TypeOK, [Next]_vars, NoFailedPush' PROVE NoFailedPush
<1>1. faults \in Nat
  BY DEF TypeOK, RepoTypeOK
<1> QED
  BY <1>1, FaultsGrow DEF NoFailedPush

(* A push of the tags that has not failed leaves the tag on the remote: the *)
(* job's own, or the one that refused it.                                    *)
LEMMA TagIsThere ==
  ASSUME RepoTypeOK, NEW r \in Release, NEW i \in Nat \ {0}, NEW result \in Results,
         PushTag(r, i, result), result = "ok" \/ NoFailedPush'
  PROVE  tags'[r] # 0
<1>1. CASE Done(result)
  BY <1>1, PushTagEffect DEF RepoTypeOK
<1>2. CASE ~Done(result)
  <2>1. NoFailedPush' /\ faults \in Nat
    BY <1>2 DEF Done, RepoTypeOK
  <2>2. result # "failed"
    BY <2>1 DEF NoFailedPush, PushTag, Push, Fault
  <2>3. result = "rejected"
    BY <1>2, <2>2 DEF Done, Results
  <2> QED
    BY <1>2, <2>3, PushTagEffect DEF PushTag, Push
<1> QED
  BY <1>1, <1>2

(* After the push of the tags the job is published, or starts over. *)
LEMMA PushTagsKeeps ==
  ASSUME TypeOK, NEW j \in Jobs, Fits(j), NEW result \in Results, PushTags(j, result)
  PROVE  Fits(j)' /\ Succeeds(j)'
<1>1. job[j] \in Memory /\ job[j].step = "tags"
  BY DEF TypeOK, PushTags
<1>2. CASE ~(result = "ok" \/ setting[j].ignoreDuplicates)
  <2>1. setting' = setting /\ job'[j] = PushError(job[j])
    BY <1>2, BecomesMemory DEF PushTags
  <2> QED
    BY <1>1, <2>1, ErrorsKeepNothing, NothingToKeep
<1>3. CASE result = "ok" \/ setting[j].ignoreDuplicates
  <2>1. setting' = setting /\ job'[j] = Exit0(job[j])
    BY <1>3, BecomesMemory DEF PushTags
  <2>2. job'[j].step = "exit0" /\ job'[j].version = job[j].version
    BY <2>1 DEF Exit0, Attempt
  <2>3. branch' = branch /\ Height' = Height
    BY PushTagEffect DEF PushTags, TypeOK, Height
  <2>4. ReleaseOf(j)' = ReleaseOf(j) /\ ReleaseOf(j) \in Release
    BY <2>1, <2>2, CommitType DEF ReleaseOf
  <2>5. result = "ok" => tags'[ReleaseOf(j)] = job[j].base + 1
    BY <2>4, PushTagEffect DEF PushTags, Done, TypeOK, RepoTypeOK
  <2> DEFINE i == job[j].base + 1
  <2>6. i \in 1..Height /\ branch[i] = CommitOf(j) /\ job[j].base \in 1..Height /\ Work(j)
    BY <1>1, CommitType DEF Fits, TypeOK, RepoTypeOK, Height
  <2>7. branch[i].author = j /\ branch[i].content = job[j].content
    BY <2>6 DEF CommitOf
  <2>8. setting[j].listed
          => job[j].content.version[setting[j].service] = job[j].version
    BY <2>6, WorkHoldsVersion
  <2>9. CASE setting[j].ignoreDuplicates /\ ~NoFailedPush'
    BY <2>1, <2>2, <2>9 DEF Fits, Succeeds
  <2>10. CASE result = "ok" \/ NoFailedPush'
    <3>1. tags'[ReleaseOf(j)] # 0
      <4>1. PushTag(ReleaseOf(j), i, result) /\ i \in Nat \ {0}
        BY <2>6, CommitType DEF PushTags
      <4> QED
        BY <2>4, <2>10, <4>1, TagIsThere DEF TypeOK
    <3>2. Published(j)'
      BY <1>3, <2>1, <2>2, <2>3, <2>4, <2>5, <2>6, <2>7, <2>8, <3>1 DEF Published
    <3> QED
      BY <2>2, <3>2 DEF Fits, Succeeds
  <2> QED
    BY <1>3, <2>9, <2>10
<1> QED
  BY <1>2, <1>3

(* The invariant is inductive. *)
LEMMA NextKeeps == CIInv /\ [Next]_vars => CIInv'
<1> SUFFICES ASSUME CIInv, [Next]_vars PROVE CIInv'
  OBVIOUS
<1>1. TypeOK /\ TypeOK' /\ Advances
  BY NextType, NextAdvances DEF CIInv
<1>2. \A k \in Jobs : Fits(k) /\ Succeeds(k)
  BY InvParts
<1>3. \A k \in Jobs : job'[k] = job[k] => Fits(k)' /\ Succeeds(k)'
  BY <1>1, <1>2, NoneFailedBefore, OthersAdvance
<1>4. ASSUME NEW j \in Jobs, \A k \in Jobs : k # j => job'[k] = job[k],
             Fits(j)' /\ Succeeds(j)'
      PROVE  \A k \in Jobs : Fits(k)' /\ Succeeds(k)'
  BY <1>3, <1>4
<1>5. ASSUME NEW j \in Jobs, RunDeployment(j) \/ RunFails(j) \/ Rerun(j)
      PROVE  \A k \in Jobs : k # j => job'[k] = job[k]
  <2>1. PICK m : Becomes(j, m)
    BY <1>5 DEF RunDeployment, CloneMain, CloneDeploy, PushHeads, PushTags,
                RunFails, Rerun
  <2> QED
    BY <1>1, <2>1, BecomesMemory
<1>6. ASSUME NEW j \in Jobs, CloneMain(j) PROVE Fits(j)' /\ Succeeds(j)'
  <2>1. setting' = setting
        /\ job'[j] = [job[j] EXCEPT !.step = "deploy", !.trigger = Tip.shipyard]
    BY <1>1, <1>6, BecomesMemory DEF CloneMain
  <2>2. job'[j].step = "deploy"
    BY <1>1, <2>1 DEF TypeOK, Memory
  <2> QED
    BY <2>1, <2>2, NothingToKeep
<1>7. ASSUME NEW j \in Jobs, RunFails(j) PROVE Fits(j)' /\ Succeeds(j)'
  <2>1. setting' = setting /\ job'[j] = Exit1(job[j])
    BY <1>1, <1>7, BecomesMemory DEF RunFails
  <2> QED
    BY <2>1, NothingToKeep DEF Exit1, Attempt
<1>8. ASSUME NEW j \in Jobs, Rerun(j) PROVE Fits(j)' /\ Succeeds(j)'
  <2>1. setting' = setting /\ job'[j].step = "main"
    BY <1>1, <1>8, BecomesMemory DEF Rerun, Attempt
  <2> QED
    BY <2>1, NothingToKeep
<1>9. ASSUME NEW j \in Jobs, RunDeployment(j) PROVE Fits(j)' /\ Succeeds(j)'
  BY <1>1, <1>2, <1>6, <1>9, CloneDeployKeeps, PushHeadsKeeps, PushTagsKeeps
     DEF RunDeployment
<1>0. ASSUME \A k \in Jobs : Fits(k)' /\ Succeeds(k)' PROVE CIInv'
  BY <1>0, <1>1 DEF CIInv, WorkFitsBranch, SuccessIsPublished, Fits, Succeeds
<1>10. CASE \E j \in Jobs : RunDeployment(j) \/ RunFails(j) \/ Rerun(j)
  <2>1. PICK j \in Jobs : RunDeployment(j) \/ RunFails(j) \/ Rerun(j)
    BY <1>10
  <2>2. Fits(j)' /\ Succeeds(j)'
    BY <2>1, <1>7, <1>8, <1>9
  <2> QED
    BY <1>0, <1>4, <1>5, <2>1, <2>2
<1>11. CASE job' = job
  BY <1>0, <1>3, <1>11
<1> QED
  BY <1>10, <1>11 DEF Next, vars

(* ... and holds at the start. *)
LEMMA InitKeeps == Init => CIInv
<1> SUFFICES ASSUME Init PROVE CIInv
  OBVIOUS
<1>1. \A j \in Jobs : job[j].step = "main"
  BY DEF Init, Attempt
<1>2. \A j \in Jobs : Fits(j) /\ Succeeds(j)
  BY <1>1 DEF Fits, Succeeds
<1> QED
  BY <1>2, InitType, InvParts

(* Every reachable state of the jobs and the repository is well-typed. *)
THEOREM JobsTypeCorrect == Spec => []TypeOK
<1>1. CIInv => TypeOK
  BY DEF CIInv
<1> QED
  BY <1>1, InitKeeps, NextKeeps, PTL DEF Spec

(* What a job has in its clone is its own change of a commit that is still on *)
(* the branch, however often others have pushed since the clone.              *)
THEOREM WorkAlwaysFits == Spec => []WorkFitsBranch
<1>1. CIInv => WorkFitsBranch
  BY DEF CIInv
<1> QED
  BY <1>1, InitKeeps, NextKeeps, PTL DEF Spec

(* A job that succeeds before its repetitions are used up has its commit on   *)
(* the branch and its tag on that commit.  If it ignores duplicate tags, the  *)
(* tag may be one that was there before; and then it is said only as long as  *)
(* no push can have failed, since it ignores that as well                     *)
(* (gitutils.go:134-139).                                                     *)
THEOREM SuccessMeansPublished == Spec => []SuccessIsPublished
<1>1. CIInv => SuccessIsPublished
  BY DEF CIInv
<1> QED
  BY <1>1, InitKeeps, NextKeeps, PTL DEF Spec

--------------------------------------------------------------------------------
(* The refinement: the branch without its authors is the abstract log. *)
contents == [i \in 1..Len(branch) |-> branch[i].content]

(* The log is a sequence of configurations as long as the branch. *)
LEMMA ContentsType ==
  ASSUME RepoTypeOK
  PROVE  /\ contents \in Seq(Content)
         /\ Len(contents) = Height
         /\ \A i \in 1..Height : contents[i] = branch[i].content
<1>1. Height \in Nat /\ Len(branch) = Height /\ branch \in Seq(Commit)
  BY DEF RepoTypeOK, Height
<1>2. \A i \in 1..Height : branch[i] \in Commit
  BY <1>1, ElementOfSeq
<1>3. contents \in [1..Height -> Content]
  BY <1>1, <1>2 DEF contents, Commit
<1>4. contents \in Seq(Content)
  BY <1>1, <1>3, SeqDef
<1> QED
  BY <1>1, <1>3, <1>4, LenProperties DEF contents

(* A commit appended to the branch appends its configuration to the log. *)
LEMMA ContentsAppend ==
  ASSUME RepoTypeOK, NEW c \in Commit, branch' = Append(branch, c)
  PROVE  contents' = Append(contents, c.content)
<1>1. /\ branch' \in Seq(Commit) /\ Len(branch') = Height + 1 /\ Height \in Nat
      /\ \A i \in 1..Height : branch'[i] = branch[i]
      /\ branch'[Height + 1] = c
  BY DEF RepoTypeOK, Height
<1>2. /\ contents \in Seq(Content) /\ Len(contents) = Height
      /\ \A i \in 1..Height : contents[i] = branch[i].content
  BY ContentsType
<1>3. c.content \in Content
  BY DEF Commit
<1>4. /\ Append(contents, c.content) \in Seq(Content)
      /\ Len(Append(contents, c.content)) = Height + 1
      /\ \A i \in 1..Height + 1 :
           Append(contents, c.content)[i] =
             IF i <= Height THEN branch[i].content ELSE c.content
  BY <1>1, <1>2, <1>3
<1>5. contents' = [i \in 1..Height + 1 |-> branch'[i].content]
  BY <1>1 DEF contents
<1>6. Append(contents, c.content) =
        [i \in 1..Height + 1 |-> Append(contents, c.content)[i]]
  BY <1>4, LenProperties
<1>7. \A i \in 1..Height + 1 : branch'[i].content = Append(contents, c.content)[i]
  BY <1>1, <1>4
<1> QED
  BY <1>5, <1>6, <1>7

(* UpdateRepository is a deployment of the abstract log. *)
LEMMA UpdateDeploys ==
  ASSUME NEW old \in Content, NEW s \in Services,
         NEW v \in Versions \union {NoVersion}, NEW t \in Triggers
  PROVE  UpdateRepository(old, s, v, t) \in Log!Deployments(old)
<1> DEFINE kept == IF old.trigger[s] = t THEN old.staged ELSE {}
<1>1. kept \in SUBSET old.staged
  OBVIOUS
<1>2. UpdateRepository(old, s, v, t) = Log!Deployed(old, s, v, t, kept)
  BY DEF UpdateRepository, modifyOperatorConfig, Log!Deployed, Content
<1> QED
  BY <1>1, <1>2 DEF Log!Deployments

(* The initial branch is an initial log. *)
LEMMA InitRefines == Init => Log!LogInit
<1> SUFFICES ASSUME Init PROVE Log!LogInit
  OBVIOUS
<1>1. PICK c \in Edits : branch = <<[author |-> Developer, content |-> c]>>
  BY DEF Init, RepoInit
<1>2. contents = <<c>>
  BY <1>1 DEF contents
<1> QED
  BY <1>2 DEF Init, RepoInit, Log!LogInit, Log!Release, Release, contents

(* A commit that changes the newest configuration in a way the log allows *)
(* extends the log.                                                       *)
LEMMA ExtendRefines ==
  ASSUME TypeOK, NEW c \in Commit, branch' = Append(branch, c), tags' = tags,
         c.content \in {Tip} \union Edits \union Log!Deployments(Tip)
  PROVE  Log!Extend
<1>1. contents' = Append(contents, c.content)
  BY ContentsAppend DEF TypeOK
<1>2. Height \in 1..Height /\ Len(contents) = Height
  BY TipType, ContentsType DEF TypeOK
<1>3. contents[Len(contents)] = Tip
  BY <1>2, ContentsType DEF TypeOK, Tip
<1>4. Len(contents') = Len(contents) + 1
  BY <1>1, ContentsType DEF TypeOK
<1> QED
  BY <1>1, <1>3, <1>4 DEF Log!Extend, Log!Newest, contents

(* The push of the branch extends the log or changes nothing. *)
LEMMA PushHeadsRefines ==
  ASSUME CIInv, NEW j \in Jobs, NEW result \in Results, PushHeads(j, result)
  PROVE  Log!Extend \/ UNCHANGED <<branch, tags>>
<1>1. TypeOK /\ Fits(j) /\ RepoTypeOK
  BY InvParts DEF CIInv, TypeOK
<1>2. CASE ~Done(result)
  BY <1>1, <1>2, PushBranchEffect, CommitType DEF PushHeads
<1>3. CASE Done(result)
  <2>1. job[j].base = Height /\ branch' = Append(branch, CommitOf(j)) /\ tags' = tags
    BY <1>1, <1>3, PushBranchEffect, CommitType DEF PushHeads
  <2>2. Work(j)
    BY <1>1 DEF Fits, PushHeads
  <2>3. /\ Tip \in Content /\ Tip = branch[Height].content
        /\ setting[j].service \in Services
        /\ job[j].version \in Versions \union {NoVersion}
    BY <1>1, TipType DEF Tip, TypeOK, Setting, Memory
  <2>4. job[j].content \in {Tip} \union Edits \union Log!Deployments(Tip)
    <3>1. CASE ~setting[j].listed
      BY <2>1, <2>2, <2>3, <3>1 DEF Work
    <3>2. CASE setting[j].listed
      <4>1. /\ job[j].trigger \in Triggers
            /\ job[j].content = UpdateRepository(Tip, setting[j].service,
                                                 job[j].version, job[j].trigger)
        BY <2>1, <2>2, <2>3, <3>2 DEF Work
      <4>2. UpdateRepository(Tip, setting[j].service, job[j].version, job[j].trigger)
              \in Log!Deployments(Tip)
        BY <2>3, <4>1, UpdateDeploys
      <4> QED
        BY <4>1, <4>2
    <3> QED
      BY <3>1, <3>2
  <2>5. CommitOf(j).content = job[j].content /\ CommitOf(j) \in Commit
    BY <1>1, CommitType DEF CommitOf
  <2> QED
    BY <1>1, <2>1, <2>4, <2>5, ExtendRefines
<1> QED
  BY <1>2, <1>3

(* The push of the tags publishes a release or changes nothing. *)
LEMMA PushTagsRefines ==
  ASSUME CIInv, NEW j \in Jobs, NEW result \in Results, PushTags(j, result)
  PROVE  Log!Publish \/ UNCHANGED <<branch, tags>>
<1>1. TypeOK /\ Fits(j) /\ RepoTypeOK /\ job[j].step = "tags"
  BY InvParts DEF CIInv, TypeOK, PushTags
<1>2. CASE ~Done(result)
  BY <1>1, <1>2, PushTagEffect DEF PushTags
<1>3. CASE Done(result)
  <2> DEFINE r == ReleaseOf(j)
             i == job[j].base + 1
  <2>1. branch' = branch /\ tags[r] = 0 /\ tags' = [tags EXCEPT ![r] = i]
    BY <1>1, <1>3, PushTagEffect DEF PushTags
  <2>2. /\ r \in Release /\ i \in 1..Height /\ i - 1 \in 1..Height /\ i - 1 = job[j].base
        /\ i > 1 /\ branch[i].content = job[j].content /\ Work(j)
    BY <1>1, CommitType DEF Fits, RepoTypeOK, Height, CommitOf
  <2>3. contents[i] = job[j].content /\ contents[i - 1] = branch[job[j].base].content
    BY <1>1, <2>2, ContentsType
  <2>4. r[1] = setting[j].service /\ r[2] = job[j].version
    BY DEF ReleaseOf
  <2>5. contents[i].version[r[1]] = r[2] \/ contents[i] = contents[i - 1]
    <3>1. CASE ~setting[j].listed
      BY <2>2, <2>3, <3>1 DEF Work
    <3>2. CASE setting[j].listed
      BY <1>1, <2>2, <2>3, <2>4, <3>2, WorkHoldsVersion
    <3> QED
      BY <3>1, <3>2
  <2>6. Len(contents) = Height
    BY <1>1, ContentsType
  <2>7. contents' = contents
    BY <2>1 DEF contents
  <2> HIDE DEF r, i
  <2> QED
    BY <2>1, <2>2, <2>5, <2>6, <2>7
       DEF Log!Publish, Log!Describes, Log!Release, Release, contents
<1> QED
  BY <1>2, <1>3

(* A step maps to an extension of the log, to a publication, or to nothing. *)
LEMMA NextRefines ==
  CIInv /\ [Next]_vars => [Log!LogNext]_<<contents, tags>>
<1> SUFFICES ASSUME CIInv, [Next]_vars,
                    ~(branch' = branch /\ tags' = tags)
             PROVE  Log!LogNext
  BY DEF contents
<1>1. ASSUME NEW j \in Jobs PROVE ~(CloneMain(j) \/ CloneDeploy(j) \/ RunFails(j) \/ Rerun(j))
  BY DEF CloneMain, CloneDeploy, RunFails, Rerun, repoVars
<1>2. ASSUME Edit PROVE Log!LogNext
  <2>1. PICK c \in Edits :
          branch' = Append(branch, [author |-> Developer, content |-> c])
    BY <1>2 DEF Edit
  <2>2. [author |-> Developer, content |-> c] \in Commit
    BY RepoAssumption DEF RepoAssumption, Commit
  <2> QED
    BY <1>2, <2>1, <2>2, ExtendRefines DEF CIInv, Edit, Log!LogNext
<1> QED
  BY <1>1, <1>2, PushHeadsRefines, PushTagsRefines
     DEF Next, RunDeployment, vars, repoVars, Log!LogNext

(* Clone, edit, commit and push, done by many jobs at once and repeated after *)
(* errors, are as good as one atomic change of the newest configuration.      *)
THEOREM AtomicPublication == Spec => PublishesAtomically
<1>1. [Log!LogNext]_<<contents, tags>> <=>
        [Log!LogNext]_<<[i \in 1..Len(branch) |-> branch[i].content], tags>>
  BY DEF contents
<1> QED
  BY <1>1, InitRefines, InitKeeps, NextKeeps, NextRefines, PTL
     DEF Spec, PublishesAtomically, Log!LogSpec

--------------------------------------------------------------------------------
(* A job repeats only what it lost to somebody else. *)

(* What others have got onto the first n commits of the branch b, and the *)
(* releases that t tags with a commit of somebody else's.                 *)
Others(j, b, n) == {i \in 2..n : b[i].author # j}
Tagged(j, b, t) == {r \in Release : t[r] # 0 /\ b[t[r]].author # j}

FinitelyTagged == IsFiniteSet({r \in Release : tags[r] # 0})

(* Every repetition is paid for by a commit or a tag of somebody else's, or by *)
(* a fault.                                                                    *)
Paid(j) ==
  job[j].repetitions <=
    Cardinality(Others(j, branch, Height)) + Cardinality(Tagged(j, branch, tags)) + faults

(* An attempt in flight has not been paid for by what came after its clone: *)
(* commits beyond the base, and a tag of the release it is to tag.  It is   *)
(* these that refuse it, and none of them is its own.                       *)
Unspent(j) ==
  /\ job[j].step = "branch" =>
       \A i \in (job[j].base + 1)..Height : branch[i].author # j
  /\ job[j].step \in {"branch", "tags"} =>
       /\ job[j].repetitions <=
            Cardinality(Others(j, branch, job[j].base))
            + Cardinality(Tagged(j, branch, tags) \ {ReleaseOf(j)}) + faults
       /\ tags[ReleaseOf(j)] # 0 => branch[tags[ReleaseOf(j)]].author # j

Earned(j) == Paid(j) /\ Unspent(j)

EarnedInv == CIInv /\ FinitelyTagged /\ \A j \in Jobs : Earned(j)

--------------------------------------------------------------------------------
(* What others have contributed is finite. *)
LEMMA CountsAreNumbers ==
  ASSUME FinitelyTagged, NEW j, NEW n \in Nat
  PROVE  /\ IsFiniteSet(Others(j, branch, n)) /\ Cardinality(Others(j, branch, n)) \in Nat
         /\ IsFiniteSet(Tagged(j, branch, tags))
         /\ Cardinality(Tagged(j, branch, tags)) \in Nat
         /\ \A r : /\ IsFiniteSet(Tagged(j, branch, tags) \ {r})
                   /\ Cardinality(Tagged(j, branch, tags) \ {r}) \in Nat
<1>1. IsFiniteSet(Others(j, branch, n))
  <2>1. IsFiniteSet(2..n) /\ Others(j, branch, n) \in SUBSET (2..n)
    BY FS_Interval DEF Others
  <2> QED
    BY <2>1, FS_Subset
<1>2. IsFiniteSet(Tagged(j, branch, tags))
  <2>1. Tagged(j, branch, tags) \in SUBSET {r \in Release : tags[r] # 0}
    BY DEF Tagged
  <2> QED
    BY <2>1, FS_Subset DEF FinitelyTagged
<1>3. \A r : IsFiniteSet(Tagged(j, branch, tags) \ {r})
  BY <1>2, FS_RemoveElement
<1> QED
  BY <1>1, <1>2, <1>3, FS_CardinalityType

(* The first commits of the branch and the tags on them stay what they are, *)
(* and what others have contributed only grows.                             *)
LEMMA CountsGrow ==
  ASSUME TypeOK, Advances, FinitelyTagged, FinitelyTagged', NEW j
  PROVE  /\ \A n \in 0..Height : Others(j, branch', n) = Others(j, branch, n)
         /\ Cardinality(Others(j, branch, Height))
              <= Cardinality(Others(j, branch', Height'))
         /\ Tagged(j, branch, tags) \subseteq Tagged(j, branch', tags')
         /\ Cardinality(Tagged(j, branch, tags)) <= Cardinality(Tagged(j, branch', tags'))
         /\ \A r : Cardinality(Tagged(j, branch, tags) \ {r})
                     <= Cardinality(Tagged(j, branch', tags') \ {r})
<1>1. /\ Height \in Nat /\ Height' \in Nat /\ Height <= Height'
      /\ \A i \in 1..Height : i \in 1..Height' /\ branch'[i] = branch[i]
  BY GrowsEffect DEF TypeOK, Advances
<1>2. \A n \in 0..Height : Others(j, branch', n) = Others(j, branch, n)
  BY <1>1 DEF Others
<1>3. Others(j, branch, Height) \in SUBSET Others(j, branch', Height')
  BY <1>1 DEF Others
<1>4. Tagged(j, branch, tags) \in SUBSET Tagged(j, branch', tags')
  <2> SUFFICES ASSUME NEW r \in Release, tags[r] # 0, branch[tags[r]].author # j
               PROVE  tags'[r] # 0 /\ branch'[tags'[r]].author # j
    BY DEF Tagged
  <2>1. tags'[r] = tags[r] /\ tags[r] \in 1..Height
    BY <1>1 DEF TypeOK, RepoTypeOK, Advances
  <2> QED
    BY <1>1, <2>1
<1>5. /\ IsFiniteSet(Others(j, branch', Height')) /\ IsFiniteSet(Tagged(j, branch', tags'))
      /\ \A r : IsFiniteSet(Tagged(j, branch', tags') \ {r})
  <2>1. IsFiniteSet(Others(j, branch', Height'))
    <3>1. \A n \in Nat : IsFiniteSet(2..n)
      BY FS_Interval
    <3>2. Others(j, branch', Height') \in SUBSET (2..Height')
      BY DEF Others
    <3> QED
      BY <1>1, <3>1, <3>2, FS_Subset
  <2>2. IsFiniteSet(Tagged(j, branch', tags'))
    <3>1. Tagged(j, branch', tags') \in SUBSET {r \in Release : tags'[r] # 0}
      BY DEF Tagged
    <3> QED
      BY <3>1, FS_Subset DEF FinitelyTagged
  <2> QED
    BY <2>1, <2>2, FS_RemoveElement
<1>6. ASSUME NEW r
      PROVE  Cardinality(Tagged(j, branch, tags) \ {r})
               <= Cardinality(Tagged(j, branch', tags') \ {r})
  <2>1. Tagged(j, branch, tags) \ {r} \in SUBSET (Tagged(j, branch', tags') \ {r})
    BY <1>4
  <2> QED
    BY <1>5, <2>1, FS_Subset
<1>7. /\ Cardinality(Others(j, branch, Height)) <= Cardinality(Others(j, branch', Height'))
      /\ Cardinality(Tagged(j, branch, tags)) <= Cardinality(Tagged(j, branch', tags'))
  BY <1>3, <1>4, <1>5, FS_Subset
<1> QED
  BY <1>2, <1>4, <1>6, <1>7

(* Numbers for the sums of an attempt. *)
LEMMA SumsAreNumbers ==
  ASSUME TypeOK, FinitelyTagged, NEW j \in Jobs
  PROVE  /\ faults \in Nat /\ job[j].repetitions \in Nat /\ Height \in Nat \ {0}
         /\ job[j].base \in Nat
         /\ Cardinality(Others(j, branch, Height)) \in Nat
         /\ Cardinality(Others(j, branch, job[j].base)) \in Nat
         /\ Cardinality(Tagged(j, branch, tags)) \in Nat
         /\ Cardinality(Tagged(j, branch, tags) \ {ReleaseOf(j)}) \in Nat
<1>1. /\ faults \in Nat /\ job[j].repetitions \in Nat /\ Height \in Nat \ {0}
      /\ job[j].base \in Nat
  BY DEF TypeOK, RepoTypeOK, Memory, Height
<1> QED
  BY <1>1, CountsAreNumbers

(* Tags are set one at a time. *)
LEMMA TagsStayFinite ==
  ASSUME TypeOK, FinitelyTagged, [Next]_vars PROVE FinitelyTagged'
<1>1. CASE tags' = tags
  BY <1>1 DEF FinitelyTagged
<1>2. ASSUME NEW r, NEW i, tags' = [tags EXCEPT ![r] = i] PROVE FinitelyTagged'
  <2> DEFINE before == {q \in Release : tags[q] # 0}
             after  == {q \in Release : tags'[q] # 0}
  <2>1. IsFiniteSet(before \union {r})
    BY FS_AddElement DEF FinitelyTagged
  <2>2. after \in SUBSET (before \union {r})
    BY <1>2 DEF TypeOK, RepoTypeOK
  <2>3. IsFiniteSet(after)
    BY <2>1, <2>2, FS_Subset
  <2> QED
    BY <2>3 DEF FinitelyTagged
<1>3. tags' = tags \/ \E r, i : tags' = [tags EXCEPT ![r] = i]
  BY DEF Next, RunDeployment, CloneMain, CloneDeploy, PushHeads, PushTags, RunFails,
         Rerun, Edit, PushBranch, PushTag, vars, repoVars
<1> QED
  BY <1>1, <1>2, <1>3

--------------------------------------------------------------------------------
(* Nothing that happens takes back what was paid. *)
LEMMA PaidStays ==
  ASSUME TypeOK, TypeOK', FinitelyTagged, FinitelyTagged', Advances, faults <= faults',
         NEW j \in Jobs, Paid(j), job'[j].repetitions <= job[j].repetitions
  PROVE  Paid(j)'
<1> DEFINE a  == Cardinality(Others(j, branch, Height))
           a1 == Cardinality(Others(j, branch', Height'))
           b  == Cardinality(Tagged(j, branch, tags))
           b1 == Cardinality(Tagged(j, branch', tags'))
<1>1. a \in Nat /\ b \in Nat /\ faults \in Nat /\ job[j].repetitions \in Nat
  BY SumsAreNumbers
<1>2. a1 \in Nat /\ b1 \in Nat /\ faults' \in Nat /\ job'[j].repetitions \in Nat
  <2>1. (a \in Nat /\ b \in Nat /\ faults \in Nat /\ job[j].repetitions \in Nat)'
    BY SumsAreNumbers, PTL
  <2> QED
    BY <2>1
<1>3. a <= a1 /\ b <= b1
  BY CountsGrow
<1>4. job[j].repetitions <= a + b + faults
  BY DEF Paid
<1> HIDE DEF a, a1, b, b1
<1>5. job'[j].repetitions <= a1 + b1 + faults'
  BY <1>1, <1>2, <1>3, <1>4
<1> QED
  BY <1>5 DEF Paid, a1, b1

(* An attempt that is in flight before and after a step, with the same base,  *)
(* release and repetitions, stays unspent if its author does not get anything *)
(* onto the remote; in step "tags" it may have pushed its branch.             *)
LEMMA UnspentStays ==
  ASSUME TypeOK, TypeOK', FinitelyTagged, FinitelyTagged', Advances, faults <= faults',
         NEW j \in Jobs, Fits(j), Unspent(j),
         job[j].step \in {"branch", "tags"}, job'[j].step \in {job[j].step, "tags"},
         job'[j].repetitions = job[j].repetitions, job'[j].base = job[j].base,
         job'[j].version = job[j].version,
         job'[j].step = "branch" =>
           \A i \in (Height + 1)..Height' : branch'[i].author # j,
         tags[ReleaseOf(j)] = 0 /\ tags'[ReleaseOf(j)] # 0
           => branch'[tags'[ReleaseOf(j)]].author # j
  PROVE  Unspent(j)'
<1> DEFINE r  == ReleaseOf(j)
           a  == Cardinality(Others(j, branch, job[j].base))
           b  == Cardinality(Tagged(j, branch, tags) \ {r})
           b1 == Cardinality(Tagged(j, branch', tags') \ {r})
<1>1. /\ Height \in Nat /\ Height' \in Nat /\ Height <= Height'
      /\ \A i \in 1..Height : i \in 1..Height' /\ branch'[i] = branch[i]
  BY GrowsEffect DEF TypeOK, Advances
<1>2. ReleaseOf(j)' = r /\ r \in Release /\ job[j].base \in 1..Height
  BY CommitType DEF ReleaseOf, Advances, Fits
<1>3. job'[j].step = "branch" =>
        \A i \in (job'[j].base + 1)..Height' : branch'[i].author # j
  BY <1>1, <1>2 DEF Unspent
<1>4. Others(j, branch', job[j].base) = Others(j, branch, job[j].base) /\ b <= b1
  BY <1>1, <1>2, CountsGrow
<1>5. job[j].repetitions <= a + b + faults
  BY DEF Unspent
<1>6. a \in Nat /\ b \in Nat /\ faults \in Nat /\ job[j].repetitions \in Nat
  BY SumsAreNumbers
<1>7. b1 \in Nat /\ faults' \in Nat
  <2>1. (Cardinality(Tagged(j, branch, tags) \ {ReleaseOf(j)}) \in Nat /\ faults \in Nat)'
    BY SumsAreNumbers, PTL
  <2> QED
    BY <1>2, <2>1
<1> HIDE DEF a, b, b1
<1>8. job'[j].repetitions <= a + b1 + faults'
  BY <1>4, <1>5, <1>6, <1>7
<1>9. tags'[r] # 0 => branch'[tags'[r]].author # j
  <2>1. CASE tags[r] = 0
    BY <2>1
  <2>2. CASE tags[r] # 0
    <3>1. tags'[r] = tags[r] /\ tags[r] \in 1..Height /\ branch[tags[r]].author # j
      BY <1>1, <1>2, <2>2 DEF Advances, TypeOK, RepoTypeOK, Unspent
    <3> QED
      BY <1>1, <3>1
  <2> QED
    BY <2>1, <2>2
<1> HIDE DEF r
<1>10. /\ job'[j].repetitions <=
            Cardinality(Others(j, branch', job'[j].base))
            + Cardinality(Tagged(j, branch', tags') \ {ReleaseOf(j)'}) + faults'
       /\ tags'[ReleaseOf(j)'] # 0 => branch'[tags'[ReleaseOf(j)']].author # j
  BY <1>2, <1>4, <1>8, <1>9 DEF a, b1
<1> QED
  BY <1>3, <1>10 DEF Unspent

(* A job that is not in flight has nothing unspent. *)
LEMMA NotInFlight ==
  ASSUME NEW j \in Jobs, job'[j].step \notin {"branch", "tags"} PROVE Unspent(j)'
  BY DEF Unspent

--------------------------------------------------------------------------------
(* What one author gets onto the remote is nobody else's. *)
LEMMA OnlyOwnWork ==
  ASSUME CIInv, NEW j \in Jobs,
         \/ \E k \in Jobs \ {j} : RunDeployment(k) \/ RunFails(k) \/ Rerun(k)
         \/ Edit
         \/ UNCHANGED repoVars
  PROVE  /\ \A i \in (Height + 1)..Height' : branch'[i].author # j
         /\ \A r \in Release :
              tags[r] = 0 /\ tags'[r] # 0 => branch'[tags'[r]].author # j
<1>1. TypeOK /\ Height \in Nat
  BY DEF CIInv, TypeOK, RepoTypeOK, Height
<1>2. CASE branch' = branch /\ tags' = tags
  BY <1>1, <1>2 DEF Height
<1>3. ASSUME NEW c, branch' = Append(branch, c), c.author # j, tags' = tags
      PROVE  /\ \A i \in (Height + 1)..Height' : branch'[i].author # j
             /\ \A r \in Release :
                  tags[r] = 0 /\ tags'[r] # 0 => branch'[tags'[r]].author # j
  <2>1. Height' = Height + 1 /\ branch'[Height + 1] = c
    BY <1>1, <1>3 DEF TypeOK, RepoTypeOK, Height
  <2>2. \A i \in (Height + 1)..Height' : i = Height + 1
    BY <1>1, <2>1
  <2>3. \A i \in (Height + 1)..Height' : branch'[i].author # j
    BY <1>3, <2>1, <2>2
  <2> QED
    BY <1>3, <2>3
<1>4. ASSUME NEW k \in Jobs \ {j}, NEW result \in Results, PushHeads(k, result)
      PROVE  \/ branch' = branch /\ tags' = tags
             \/ \E c : branch' = Append(branch, c) /\ c.author # j /\ tags' = tags
  <2>1. CommitOf(k).author # j
    BY <1>4 DEF CommitOf
  <2> QED
    BY <1>1, <1>4, <2>1, PushBranchEffect, CommitType DEF PushHeads, TypeOK
<1>5. ASSUME NEW k \in Jobs \ {j}, NEW result \in Results, PushTags(k, result)
      PROVE  /\ branch' = branch
             /\ \A r \in Release :
                  tags[r] = 0 /\ tags'[r] # 0 => branch'[tags'[r]].author # j
  <2>1. /\ branch' = branch
        /\ tags' = tags \/ tags' = [tags EXCEPT ![ReleaseOf(k)] = job[k].base + 1]
    BY <1>1, <1>5, PushTagEffect DEF PushTags, TypeOK
  <2>2. branch[job[k].base + 1] = CommitOf(k)
    BY <1>5 DEF PushTags, CIInv, WorkFitsBranch
  <2>3. branch[job[k].base + 1].author # j
    BY <2>2 DEF CommitOf
  <2> QED
    BY <1>1, <2>1, <2>3 DEF TypeOK, RepoTypeOK
<1>6. ASSUME Edit
      PROVE  \E c : branch' = Append(branch, c) /\ c.author # j /\ tags' = tags
  BY <1>6, RepoAssumption DEF Edit, RepoAssumption
<1>7. ASSUME NEW k \in Jobs, CloneMain(k) \/ CloneDeploy(k) \/ RunFails(k) \/ Rerun(k)
      PROVE  branch' = branch /\ tags' = tags
  BY <1>7 DEF CloneMain, CloneDeploy, RunFails, Rerun, repoVars
<1>8. branch' = branch => \A i \in (Height + 1)..Height' : branch'[i].author # j
  BY <1>1 DEF Height
<1> QED
  BY <1>2, <1>3, <1>4, <1>5, <1>6, <1>7, <1>8 DEF RunDeployment, repoVars

(* What others do leaves an attempt paid for and unspent. *)
LEMMA OthersEarn ==
  ASSUME CIInv, TypeOK', FinitelyTagged, FinitelyTagged', Advances, faults <= faults',
         NEW j \in Jobs, Earned(j), job'[j] = job[j],
         \/ \E k \in Jobs \ {j} : RunDeployment(k) \/ RunFails(k) \/ Rerun(k)
         \/ Edit
         \/ UNCHANGED repoVars
  PROVE  Earned(j)'
<1>1. TypeOK /\ Fits(j) /\ Paid(j) /\ Unspent(j)
  BY InvParts DEF CIInv, Earned
<1>2. Paid(j)'
  <2>1. job[j].repetitions \in Nat
    BY <1>1, SumsAreNumbers
  <2> QED
    BY <1>1, <2>1, PaidStays
<1>3. CASE job[j].step \notin {"branch", "tags"}
  BY <1>2, <1>3, NotInFlight DEF Earned
<1>4. CASE job[j].step \in {"branch", "tags"}
  <2>1. ReleaseOf(j) \in Release
    BY <1>1, CommitType
  <2>2. Unspent(j)'
    BY <1>1, <1>4, <2>1, OnlyOwnWork, UnspentStays
  <2> QED
    BY <1>2, <2>2 DEF Earned
<1> QED
  BY <1>3, <1>4

--------------------------------------------------------------------------------
(* An error leaves a job out of flight, with at most one repetition more, and *)
(* only one that is returned from a push costs it.                            *)
LEMMA ErrorsRepeat ==
  ASSUME NEW m \in Memory
  PROVE  /\ PushError(m).step \notin {"branch", "tags"}
         /\ PushError(m).repetitions \in {m.repetitions, m.repetitions + 1}
         /\ \A e \in {OtherError(m), Exit0(m), Exit1(m)} :
              e.step \notin {"branch", "tags"} /\ e.repetitions = m.repetitions
  BY DEF PushError, OtherError, Exit0, Exit1, Attempt

(* An attempt that ends or has no clone yet keeps what it has earned. *)
LEMMA QuietStep ==
  ASSUME CIInv, TypeOK', FinitelyTagged, FinitelyTagged', Advances, faults <= faults',
         NEW j \in Jobs, Earned(j),
         job'[j].step \notin {"branch", "tags"}, job'[j].repetitions = job[j].repetitions
  PROVE  Earned(j)'
<1>1. job[j].repetitions \in Nat
  BY SumsAreNumbers DEF CIInv
<1>2. Paid(j)'
  BY <1>1, PaidStays DEF CIInv, Earned
<1> QED
  BY <1>2, NotInFlight DEF Earned

(* A new clone begins with what was earned so far, and with a free tag. *)
LEMMA CloneDeployEarns ==
  ASSUME CIInv, TypeOK', FinitelyTagged, FinitelyTagged', Advances, faults <= faults',
         NEW j \in Jobs, Earned(j), CloneDeploy(j)
  PROVE  Earned(j)'
<1>1. TypeOK /\ job[j] \in Memory
  BY DEF CIInv, TypeOK
<1>2. PICK m \in Memory :
        /\ Becomes(j, m)
        /\ \/ m = OtherError(job[j])
           \/ \E v \in IF setting[j].listed
                         THEN VersionsFor(job[j]) ELSE {job[j].version} :
                /\ job[j].trigger # NoTrigger
                /\ \/ m = Prepared(j, v)
                      /\ tags[<<setting[j].service, v>>] = 0
                      /\ ~setting[j].dryRun
                   \/ m = OtherError(Prepared(j, v))
                   \/ m = Exit0(Prepared(j, v)) /\ setting[j].dryRun
  BY <1>1, CloneDeployEffect
<1>3. /\ UNCHANGED repoVars /\ setting' = setting /\ job'[j] = m
  BY <1>1, <1>2, BecomesMemory, CloneDeployEffect
<1>4. CASE m = OtherError(job[j])
  BY <1>1, <1>3, <1>4, ErrorsRepeat, QuietStep
<1>5. ASSUME NEW v \in IF setting[j].listed
                         THEN VersionsFor(job[j]) ELSE {job[j].version},
             job[j].trigger # NoTrigger
      PROVE  /\ Prepared(j, v) \in Memory
             /\ Prepared(j, v).repetitions = job[j].repetitions
             /\ Prepared(j, v).base = Height /\ Prepared(j, v).version = v
  <2>1. Prepared(j, v) \in Memory
    BY <1>1, <1>5, PreparedType
  <2> QED
    BY <1>1, <2>1 DEF Prepared, Memory
<1>6. ASSUME NEW v \in IF setting[j].listed
                         THEN VersionsFor(job[j]) ELSE {job[j].version},
             job[j].trigger # NoTrigger,
             m \in {OtherError(Prepared(j, v)), Exit0(Prepared(j, v))}
      PROVE  Earned(j)'
  <2>1. m.step \notin {"branch", "tags"} /\ m.repetitions = job[j].repetitions
    BY <1>5, <1>6, ErrorsRepeat
  <2> QED
    BY <1>3, <2>1, QuietStep
<1>7. ASSUME NEW v \in IF setting[j].listed
                         THEN VersionsFor(job[j]) ELSE {job[j].version},
             job[j].trigger # NoTrigger,
             m = Prepared(j, v), tags[<<setting[j].service, v>>] = 0
      PROVE  Earned(j)'
  <2>1. /\ job'[j].repetitions = job[j].repetitions /\ job'[j].base = Height
        /\ ReleaseOf(j)' = <<setting[j].service, v>>
    BY <1>3, <1>5, <1>7 DEF ReleaseOf
  <2>2. branch' = branch /\ tags' = tags /\ faults' = faults /\ Height' = Height
        /\ Height \in Nat
    BY <1>1, <1>3 DEF repoVars, Height, TypeOK, RepoTypeOK
  <2> DEFINE r == <<setting[j].service, v>>
             b == Cardinality(Tagged(j, branch, tags))
  <2>3. Tagged(j, branch, tags) \ {r} = Tagged(j, branch, tags)
    BY <1>7 DEF Tagged
  <2>4. job[j].repetitions <= Cardinality(Others(j, branch, Height)) + b + faults
    BY DEF Earned, Paid
  <2>5. Paid(j)'
    BY <2>1, <2>2, <2>4 DEF Paid
  <2>6. /\ \A i \in (job'[j].base + 1)..Height' : branch'[i].author # j
        /\ tags'[ReleaseOf(j)'] = 0
    BY <1>7, <2>1, <2>2
  <2>7. job'[j].repetitions <=
          Cardinality(Others(j, branch', job'[j].base))
          + Cardinality(Tagged(j, branch', tags') \ {ReleaseOf(j)'}) + faults'
    BY <2>1, <2>2, <2>3, <2>4
  <2> QED
    BY <2>5, <2>6, <2>7 DEF Earned, Unspent
<1> QED
  BY <1>2, <1>4, <1>6, <1>7

(* A push that is refused or fails is paid for: by a commit or a tag that was  *)
(* not in the clone, or by the fault.                                          *)
LEMMA RefusalIsPaid ==
  ASSUME CIInv, TypeOK', FinitelyTagged, FinitelyTagged', Advances,
         NEW j \in Jobs, Fits(j), Earned(j),
         job[j].step \in {"branch", "tags"}, job'[j].step \notin {"branch", "tags"},
         job'[j].repetitions \in {job[j].repetitions, job[j].repetitions + 1},
         \/ faults' = faults + 1
         \/ /\ faults' = faults
            /\ \/ job[j].step = "branch" /\ job[j].base # Height
               \/ tags[ReleaseOf(j)] # 0
  PROVE  Earned(j)'
<1> DEFINE r  == ReleaseOf(j)
           o  == Others(j, branch, job[j].base)
           a  == Cardinality(o)
           a0 == Cardinality(Others(j, branch, Height))
           a1 == Cardinality(Others(j, branch', Height'))
           b  == Cardinality(Tagged(j, branch, tags) \ {r})
           b0 == Cardinality(Tagged(j, branch, tags))
           b1 == Cardinality(Tagged(j, branch', tags'))
<1>1. TypeOK /\ r \in Release /\ job[j].base \in 1..Height /\ Height \in Nat
  BY CommitType DEF CIInv, Fits, TypeOK, RepoTypeOK, Height
<1>2. /\ a \in Nat /\ a0 \in Nat /\ b \in Nat /\ b0 \in Nat /\ faults \in Nat
      /\ job[j].repetitions \in Nat
  BY <1>1, SumsAreNumbers
<1>3. a1 \in Nat /\ b1 \in Nat
  <2>1. (a0 \in Nat /\ b0 \in Nat)'
    BY SumsAreNumbers, PTL
  <2> QED
    BY <2>1
<1>4. a0 <= a1 /\ b0 <= b1
  BY <1>1, CountsGrow
<1>5. job[j].repetitions <= a + b + faults
  BY DEF Earned, Unspent
<1>6. o \in SUBSET Others(j, branch, Height) /\ IsFiniteSet(Others(j, branch, Height))
  <2>1. IsFiniteSet(Others(j, branch, Height))
    BY <1>1, CountsAreNumbers
  <2> QED
    BY <1>1, <2>1 DEF Others
<1>7. a <= a0 /\ (job[j].step = "branch" /\ job[j].base # Height => a < a0)
  <2>1. a <= a0 /\ (a0 = a => o = Others(j, branch, Height))
    BY <1>6, FS_Subset
  <2>2. ASSUME job[j].step = "branch", job[j].base # Height
        PROVE  o # Others(j, branch, Height)
    <3>1. Height \in (job[j].base + 1)..Height /\ Height \in 2..Height
      BY <1>1, <2>2
    <3>2. Height \in Others(j, branch, Height) /\ Height \notin o
      BY <1>1, <2>2, <3>1 DEF Others, Earned, Unspent
    <3> QED
      BY <3>2
  <2> QED
    BY <1>2, <2>1, <2>2
<1>8. b = IF r \in Tagged(j, branch, tags) THEN b0 - 1 ELSE b0
  BY <1>1, CountsAreNumbers, FS_RemoveElement
<1>9. tags[r] # 0 => r \in Tagged(j, branch, tags)
  BY <1>1 DEF Tagged, Earned, Unspent
<1> HIDE DEF r, o, a, a0, a1, b, b0, b1
<1>10. \/ faults' = faults + 1 /\ a <= a0 /\ b <= b0
       \/ faults' = faults /\ a + 1 <= a0 /\ b <= b0
       \/ faults' = faults /\ a <= a0 /\ b + 1 <= b0
  <2>1. b <= b0 /\ (tags[r] # 0 => b + 1 <= b0)
    BY <1>2, <1>8, <1>9
  <2>2. job[j].step = "branch" /\ job[j].base # Height => a + 1 <= a0
    BY <1>2, <1>7
  <2> QED
    BY <1>7, <2>1, <2>2 DEF r
<1>11. job'[j].repetitions <= a1 + b1 + faults'
  BY <1>2, <1>3, <1>4, <1>5, <1>10
<1>12. Paid(j)'
  BY <1>11 DEF Paid, a1, b1
<1> QED
  BY <1>12, NotInFlight DEF Earned

(* A push of the branch: the attempt goes on to the tags, or is repaid. *)
LEMMA PushHeadsEarns ==
  ASSUME CIInv, TypeOK', FinitelyTagged, FinitelyTagged', Advances, faults <= faults',
         NEW j \in Jobs, Earned(j), NEW result \in Results, PushHeads(j, result)
  PROVE  Earned(j)'
<1>1. TypeOK /\ Fits(j) /\ Paid(j) /\ Unspent(j) /\ job[j] \in Memory
  BY InvParts DEF CIInv, Earned, TypeOK
<1>2. /\ job[j].step = "branch" /\ Push(result, job[j].base = Height) /\ tags' = tags
      /\ Becomes(j, IF result = "ok" THEN [job[j] EXCEPT !.step = "tags"]
                    ELSE PushError(job[j]))
  BY DEF PushHeads, PushBranch
<1>3. CASE result = "ok"
  <2>1. job'[j] = [job[j] EXCEPT !.step = "tags"]
    BY <1>1, <1>2, <1>3, BecomesMemory
  <2>2. /\ job'[j].step = "tags" /\ job'[j].repetitions = job[j].repetitions
        /\ job'[j].base = job[j].base /\ job'[j].version = job[j].version
        /\ job[j].repetitions \in Nat
    BY <1>1, <2>1 DEF Memory
  <2>3. Paid(j)'
    BY <1>1, <2>2, PaidStays
  <2>4. Unspent(j)'
    BY <1>1, <1>2, <2>2, UnspentStays
  <2> QED
    BY <2>3, <2>4 DEF Earned
<1>4. CASE result # "ok"
  <2>1. job'[j] = PushError(job[j])
    BY <1>1, <1>2, <1>4, BecomesMemory
  <2>2. \/ faults' = faults + 1
        \/ faults' = faults /\ job[j].base # Height
    BY <1>2, <1>4 DEF Push, Fault
  <2> QED
    BY <1>1, <1>2, <2>1, <2>2, ErrorsRepeat, RefusalIsPaid
<1> QED
  BY <1>3, <1>4

(* A push of the tags ends the attempt or is repaid. *)
LEMMA PushTagsEarns ==
  ASSUME CIInv, TypeOK', FinitelyTagged, FinitelyTagged', Advances, faults <= faults',
         NEW j \in Jobs, Earned(j), NEW result \in Results, PushTags(j, result)
  PROVE  Earned(j)'
<1>1. TypeOK /\ Fits(j) /\ job[j] \in Memory
  BY InvParts DEF CIInv, TypeOK
<1>2. /\ job[j].step = "tags" /\ Push(result, tags[ReleaseOf(j)] = 0)
      /\ Becomes(j, IF result = "ok" \/ setting[j].ignoreDuplicates
                      THEN Exit0(job[j]) ELSE PushError(job[j]))
  BY DEF PushTags, PushTag
<1>3. CASE result = "ok" \/ setting[j].ignoreDuplicates
  <2>1. job'[j] = Exit0(job[j])
    BY <1>1, <1>2, <1>3, BecomesMemory
  <2> QED
    BY <1>1, <2>1, ErrorsRepeat, QuietStep
<1>4. CASE ~(result = "ok" \/ setting[j].ignoreDuplicates)
  <2>1. job'[j] = PushError(job[j])
    BY <1>1, <1>2, <1>4, BecomesMemory
  <2>2. \/ faults' = faults + 1
        \/ faults' = faults /\ tags[ReleaseOf(j)] # 0
    BY <1>2, <1>4 DEF Push, Fault
  <2> QED
    BY <1>1, <1>2, <2>1, <2>2, ErrorsRepeat, RefusalIsPaid
<1> QED
  BY <1>3, <1>4

(* Every step of a job's own keeps what it has earned. *)
LEMMA OwnStepEarns ==
  ASSUME CIInv, TypeOK', FinitelyTagged, FinitelyTagged', Advances, faults <= faults',
         NEW j \in Jobs, Earned(j), RunDeployment(j) \/ RunFails(j) \/ Rerun(j)
  PROVE  Earned(j)'
<1>1. TypeOK /\ job[j] \in Memory /\ job[j].repetitions \in Nat
  BY SumsAreNumbers DEF CIInv, TypeOK
<1>2. CASE CloneMain(j)
  <2>1. job'[j] = [job[j] EXCEPT !.step = "deploy", !.trigger = Tip.shipyard]
    BY <1>1, <1>2, BecomesMemory DEF CloneMain
  <2>2. job'[j].step = "deploy" /\ job'[j].repetitions = job[j].repetitions
    BY <1>1, <2>1 DEF Memory
  <2> QED
    BY <2>2, QuietStep
<1>3. CASE RunFails(j)
  <2>1. job'[j] = Exit1(job[j])
    BY <1>1, <1>3, BecomesMemory DEF RunFails
  <2> QED
    BY <1>1, <2>1, ErrorsRepeat, QuietStep
<1>4. CASE Rerun(j)
  <2>1. job'[j].step = "main" /\ job'[j].repetitions = 0
    BY <1>1, <1>4, BecomesMemory DEF Rerun, Attempt
  <2>2. job'[j].repetitions <= job[j].repetitions
    BY <1>1, <2>1
  <2>3. Paid(j)'
    BY <1>1, <2>2, PaidStays DEF Earned
  <2>4. Unspent(j)'
    BY <2>1, NotInFlight
  <2> QED
    BY <2>3, <2>4 DEF Earned
<1> QED
  BY <1>2, <1>3, <1>4, CloneDeployEarns, PushHeadsEarns, PushTagsEarns DEF RunDeployment

--------------------------------------------------------------------------------
(* The invariant is inductive. *)
LEMMA NextEarns == EarnedInv /\ [Next]_vars => EarnedInv'
<1> SUFFICES ASSUME EarnedInv, [Next]_vars PROVE EarnedInv'
  OBVIOUS
<1>1. /\ CIInv /\ CIInv' /\ TypeOK /\ TypeOK' /\ FinitelyTagged /\ FinitelyTagged'
      /\ Advances /\ faults <= faults'
  BY NextKeeps, NextAdvances, TagsStayFinite, FaultsGrow DEF EarnedInv, CIInv
<1>2. \A k \in Jobs : Earned(k)
  BY DEF EarnedInv
<1>3. ASSUME NEW j \in Jobs, RunDeployment(j) \/ RunFails(j) \/ Rerun(j)
      PROVE  \A k \in Jobs : Earned(k)'
  <2>1. \A k \in Jobs : k # j => job'[k] = job[k]
    <3>1. PICK m : Becomes(j, m)
      BY <1>3 DEF RunDeployment, CloneMain, CloneDeploy, PushHeads, PushTags,
                  RunFails, Rerun
    <3> QED
      BY <1>1, <3>1, BecomesMemory
  <2>2. ASSUME NEW k \in Jobs, k # j PROVE Earned(k)'
    BY <1>1, <1>2, <1>3, <2>1, <2>2, OthersEarn
  <2>3. Earned(j)'
    BY <1>1, <1>2, <1>3, OwnStepEarns
  <2> QED
    BY <2>2, <2>3
<1>4. ASSUME job' = job, Edit \/ UNCHANGED repoVars PROVE \A k \in Jobs : Earned(k)'
  BY <1>1, <1>2, <1>4, OthersEarn
<1>5. \A k \in Jobs : Earned(k)'
  BY <1>3, <1>4 DEF Next, vars
<1> QED
  BY <1>1, <1>5 DEF EarnedInv

(* ... and holds at the start. *)
LEMMA InitEarns == Init => EarnedInv
<1> SUFFICES ASSUME Init PROVE EarnedInv
  OBVIOUS
<1>1. CIInv /\ TypeOK
  BY InitKeeps DEF CIInv
<1>2. FinitelyTagged
  <2>1. {r \in Release : tags[r] # 0} = {}
    BY DEF Init, RepoInit
  <2> QED
    BY <2>1, FS_EmptySet DEF FinitelyTagged
<1>3. ASSUME NEW j \in Jobs PROVE Earned(j)
  <2>1. job[j].step = "main" /\ job[j].repetitions = 0
    BY DEF Init, Attempt
  <2>2. /\ Cardinality(Others(j, branch, Height)) \in Nat
        /\ Cardinality(Tagged(j, branch, tags)) \in Nat /\ faults \in Nat
    BY <1>1, <1>2, SumsAreNumbers
  <2>3. Paid(j)
    BY <2>1, <2>2 DEF Paid
  <2>4. Unspent(j)
    BY <2>1 DEF Unspent
  <2> QED
    BY <2>3, <2>4 DEF Earned
<1> QED
  BY <1>1, <1>2, <1>3 DEF EarnedInv

(* A job repeats at most as often as somebody else got a commit or a tag onto *)
(* the remote, or something failed, however many jobs run at once: it never   *)
(* loses against itself (triggerDeploy.go:184-188).                           *)
THEOREM NothingRepeatsUnearned == Spec => []RepetitionsAreEarned
<1>1. EarnedInv => RepetitionsAreEarned
  BY DEF EarnedInv, Earned, Paid, Others, Tagged, RepetitionsAreEarned
<1> QED
  BY <1>1, InitEarns, NextEarns, PTL DEF Spec
================================================================================
