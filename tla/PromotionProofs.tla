---------------------------- MODULE PromotionProofs ----------------------------
(***************************************************************************)
(* Proofs about PromotionService, for any jobs, promotions, contents and   *)
(* faults.  What becomes of the files of a promotion (UpdateFiles) and of  *)
(* a deployment (UpdateRepository) is never looked into.                   *)
(***************************************************************************)
EXTENDS PromotionService, TLAPS

IsSeq(s) == \E S : s \in Seq(S)

(* Sequences grow by Append and keep what they have. *)
LEMMA AppendIsSeq ==
  ASSUME NEW s, IsSeq(s), NEW e
  PROVE  /\ IsSeq(Append(s, e))
         /\ Len(s) \in Nat
         /\ Len(Append(s, e)) = Len(s) + 1
         /\ Append(s, e)[Len(s) + 1] = e
         /\ \A i \in 1..Len(s) : Append(s, e)[i] = s[i]
<1>1. PICK S : s \in Seq(S)
  BY DEF IsSeq
<1>2. s \in Seq(S \union {e}) /\ e \in S \union {e}
  BY <1>1
<1>3. Append(s, e) \in Seq(S \union {e})
  BY <1>2
<1>4. IsSeq(Append(s, e))
  BY <1>3 DEF IsSeq
<1> QED
  BY <1>2, <1>4

LEMMA LenIsNat ==
  ASSUME NEW s, IsSeq(s)
  PROVE  Len(s) \in Nat
  BY DEF IsSeq

LEMMA LastOfSeq ==
  ASSUME NEW s, IsSeq(s), s # <<>>
  PROVE  Len(s) \in Nat \ {0} /\ Last(s) = s[Len(s)]
<1>1. PICK S : s \in Seq(S)
  BY DEF IsSeq
<1> QED
  BY <1>1 DEF Last

--------------------------------------------------------------------------------
(* The shape of the state, as far as the proofs need it. *)

MasterOK  == IsSeq(master) /\ tags \in [Release -> 0..Len(master)]

JobsOK ==
  /\ DOMAIN job = Jobs
  /\ \A j \in Jobs :
       /\ DOMAIN job[j] = {"step", "version", "commit"}
       /\ job[j].step \in {"start", "tag", "end", "failed"}
       /\ job[j].commit \in 0..Len(master)

BranchesOK ==
  /\ DOMAIN branch = Stages
  /\ \A st \in Stages :
       /\ IsSeq(branch[st])
       /\ \A i \in 1..Height(st) : branch[st][i].by \in Promotions \union {Nobody}

HandlersOK ==
  /\ request \in [Promotions -> Request]
  /\ [call |-> call, request |-> request] \in Scenarios
  /\ DOMAIN handler = Promotions
  /\ \A p \in Promotions :
       handler[p].step \in Steps /\ handler[p].base \in 0..Height(request[p].stage)
  /\ sent \in [Promotions -> SUBSET {"started", "pass", "fail"}]
  /\ faults \subseteq FaultKinds

ShapeOK == MasterOK /\ JobsOK /\ BranchesOK /\ HandlersOK

(* Nothing that was pushed or tagged goes away, and faults are remembered. *)
Grows ==
  /\ Len(master) <= Len(master')
  /\ \A i \in 1..Len(master) : master'[i] = master[i]
  /\ \A r \in Release : tags[r] # 0 => tags'[r] = tags[r]
  /\ \A st \in Stages :
       /\ Height(st) <= Height(st)'
       /\ \A i \in 1..Height(st) : branch'[st][i] = branch[st][i]
  /\ faults \subseteq faults'
  /\ request' = request

(* Whoever pushed since, it was not q. *)
NotByOf(q) ==
  \A st \in Stages : \A i \in 1..(Height(st))' :
    branch'[st][i].by = q => i <= Height(st)

(* The steps of one promotion leave the others' handlers alone. *)
OnlyMoves(p) ==
  /\ DOMAIN handler' = Promotions
  /\ \A q \in Promotions \ {p} : handler'[q] = handler[q] /\ sent'[q] = sent[q]

LEMMA MovedHandler ==
  ASSUME ShapeOK, NEW p \in Promotions, NEW step, handler' = Moved(p, step)
  PROVE  /\ DOMAIN handler' = Promotions
         /\ handler'[p].step = step
         /\ handler'[p].base = handler[p].base
         /\ \A q \in Promotions \ {p} : handler'[q] = handler[q]
  BY DEF ShapeOK, HandlersOK, Moved, Memory

LEMMA SendAdds ==
  ASSUME ShapeOK, NEW p \in Promotions, NEW event \in {"started", "pass", "fail"},
         NEW answer, Send(p, event, answer)
  PROVE  /\ sent' \in [Promotions -> SUBSET {"started", "pass", "fail"}]
         /\ sent'[p] \in {sent[p], sent[p] \union {event}}
         /\ \A q \in Promotions \ {p} : sent'[q] = sent[q]
         /\ faults \subseteq faults' /\ faults' \subseteq FaultKinds
  BY DEF ShapeOK, HandlersOK, Send, Fault

LEMMA FaultAdds ==
  ASSUME ShapeOK, NEW kind, Fault(kind)
  PROVE  faults \subseteq faults' /\ faults' \subseteq FaultKinds /\ kind \in faults'
  BY DEF ShapeOK, HandlersOK, Fault

LEMMA PushedGrows ==
  ASSUME ShapeOK, NEW p \in Promotions, NEW st \in Stages, st = request[p].stage,
         NEW new, new = [by |-> p, files |-> handler[p].files], Pushed(p)
  PROVE  /\ BranchesOK'
         /\ \A other \in Stages \ {st} : branch'[other] = branch[other]
         /\ Height(st) \in Nat
         /\ (Height(st))' = Height(st) + 1
         /\ branch'[st][Height(st) + 1] = new
         /\ \A i \in 1..Height(st) : branch'[st][i] = branch[st][i]
<1>1. /\ branch' = [branch EXCEPT ![st] = Append(branch[st], new)]
      /\ DOMAIN branch = Stages
      /\ IsSeq(branch[st])
  BY DEF Pushed, ShapeOK, BranchesOK
<1>2. /\ branch'[st] = Append(branch[st], new)
      /\ DOMAIN branch' = Stages
      /\ \A other \in Stages \ {st} : branch'[other] = branch[other]
  BY <1>1
<1>3. /\ IsSeq(branch'[st])
      /\ Len(branch[st]) \in Nat
      /\ Len(branch'[st]) = Len(branch[st]) + 1
      /\ branch'[st][Len(branch[st]) + 1] = new
      /\ \A i \in 1..Len(branch[st]) : branch'[st][i] = branch[st][i]
  BY <1>1, <1>2, AppendIsSeq
<1>4. BranchesOK'
  <2>1. \A i \in 1..Len(branch'[st]) : branch'[st][i].by \in Promotions \union {Nobody}
    <3>1. \A i \in 1..Len(branch[st]) : branch[st][i].by \in Promotions \union {Nobody}
      BY DEF ShapeOK, BranchesOK, Height
    <3>2. \A i \in 1..Len(branch'[st]) : i \in 1..Len(branch[st]) \/ i = Len(branch[st]) + 1
      BY <1>3
    <3>3. new.by = p
      OBVIOUS
    <3>4. ASSUME NEW i \in 1..Len(branch'[st])
          PROVE  branch'[st][i].by \in Promotions \union {Nobody}
      <4>1. CASE i \in 1..Len(branch[st])
        BY <1>3, <3>1, <4>1
      <4>2. CASE i = Len(branch[st]) + 1
        BY <1>3, <3>3, <4>2
      <4> QED
        BY <3>2, <4>1, <4>2
    <3> QED
      BY <3>4
  <2>2. \A other \in Stages \ {st} :
           /\ IsSeq(branch'[other])
           /\ \A i \in 1..Len(branch'[other]) : branch'[other][i].by \in Promotions \union {Nobody}
    BY <1>2 DEF ShapeOK, BranchesOK, Height
  <2> QED
    BY <1>2, <1>3, <2>1, <2>2 DEF BranchesOK, Height
<1> QED
  BY <1>2, <1>3, <1>4 DEF Height

--------------------------------------------------------------------------------
(* Each step keeps the shape, and what was pushed. *)

LEMMA InitShape ==
  ASSUME Init
  PROVE  ShapeOK
<1>1. PICK scenario \in Scenarios : call = scenario.call /\ request = scenario.request
  BY DEF Init
<1>2. /\ request \in [Promotions -> Request]
      /\ [call |-> call, request |-> request] = scenario
  BY <1>1, ServiceAssumption
<1>3. IsSeq(master) /\ Len(master) = 1
  <2>1. <<Initial>> \in Seq({Initial}) /\ Len(<<Initial>>) = 1
    OBVIOUS
  <2> QED
    BY <2>1 DEF Init, IsSeq
<1>4. MasterOK
  BY <1>3 DEF Init, MasterOK
<1>5. JobsOK
  BY <1>3 DEF Init, JobsOK
<1>6. BranchesOK
  <2>1. DOMAIN branch = Stages
    BY DEF Init
  <2>2. ASSUME NEW st \in Stages
        PROVE  /\ IsSeq(branch[st])
               /\ \A i \in 1..Height(st) : branch[st][i].by \in Promotions \union {Nobody}
    <3> DEFINE commit == [by |-> Nobody, files |-> StageBranches[st]]
    <3>1. branch[st] = <<commit>> \/ branch[st] = <<>>
      BY DEF Init
    <3>2. commit.by = Nobody
      OBVIOUS
    <3> HIDE DEF commit
    <3>3. <<commit>> \in Seq({commit}) /\ <<>> \in Seq({commit})
      OBVIOUS
    <3>4. IsSeq(branch[st])
      BY <3>1, <3>3 DEF IsSeq
    <3> QED
      BY <3>1, <3>2, <3>4 DEF Height
  <2> QED
    BY <2>1, <2>2 DEF BranchesOK
<1>7. HandlersOK
  <2>1. \A p \in Promotions : Height(request[p].stage) \in Nat
    BY <1>2, <1>6, LenIsNat DEF BranchesOK, Request, Height
  <2> QED
    BY <1>1, <1>2, <2>1 DEF Init, HandlersOK, Memory, Steps
<1> QED
  BY <1>4, <1>5, <1>6, <1>7 DEF ShapeOK

(* A job adds a commit or a tag, and touches nothing else. *)
LEMMA JobSteps ==
  ASSUME ShapeOK, NEW j \in Jobs, Deploy(j) \/ Tag(j)
  PROVE  ShapeOK' /\ Grows /\ UNCHANGED handlerVars
<1>1. UNCHANGED <<call, handlerVars, faults>>
  BY DEF Deploy, Tag
<1>2. BranchesOK' /\ HandlersOK'
  BY <1>1 DEF ShapeOK, BranchesOK, HandlersOK, handlerVars, Height
<1>3. Len(master) \in Nat
  BY LenIsNat DEF ShapeOK, MasterOK
<1> DEFINE Kept == /\ MasterOK' /\ JobsOK'
                   /\ Len(master) <= Len(master')
                   /\ \A i \in 1..Len(master) : master'[i] = master[i]
                   /\ \A r \in Release : tags[r] # 0 => tags'[r] = tags[r]
           Published(u) == /\ master' = Append(master, u.tree)
                           /\ UNCHANGED tags
                           /\ job' = [job EXCEPT ![j] = [step |-> "tag", version |-> u.version,
                                                        commit |-> Len(master) + 1]]
<1>4. Kept
  <2>1. CASE UNCHANGED <<master, tags>> /\ job' = [job EXCEPT ![j].step = "failed"]
    BY <1>3, <2>1 DEF ShapeOK, MasterOK, JobsOK
  <2>2. ASSUME NEW u, Published(u)
        PROVE  Kept
    <3>1. /\ IsSeq(master')
          /\ Len(master') = Len(master) + 1
          /\ \A i \in 1..Len(master) : master'[i] = master[i]
      BY <2>2, AppendIsSeq DEF ShapeOK, MasterOK
    <3>2. MasterOK'
      BY <1>3, <2>2, <3>1 DEF ShapeOK, MasterOK
    <3>3. JobsOK'
      BY <1>3, <2>2, <3>1 DEF ShapeOK, JobsOK
    <3> QED
      BY <1>3, <2>2, <3>1, <3>2, <3>3
  <2>3. CASE Tag(j)
    <3> DEFINE r == <<call[j].service, job[j].version>>
    <3>1. /\ tags' = IF tags[r] = 0 THEN [tags EXCEPT ![r] = job[j].commit] ELSE tags
          /\ job' = [job EXCEPT ![j].step = "end"]
          /\ master' = master
      BY <2>3 DEF Tag
    <3>2. job[j].commit \in 0..Len(master)
      BY DEF ShapeOK, JobsOK
    <3> HIDE DEF r
    <3>3. MasterOK'
      BY <1>3, <3>1, <3>2 DEF ShapeOK, MasterOK
    <3>4. JobsOK'
      BY <3>1 DEF ShapeOK, JobsOK
    <3> QED
      BY <1>3, <3>1, <3>3, <3>4 DEF ShapeOK, MasterOK
  <2>4. CASE Deploy(j)
    <3>1. \/ UNCHANGED <<master, tags>> /\ job' = [job EXCEPT ![j].step = "failed"]
          \/ \E u : Published(u)
      BY <2>4, Zenon DEF Deploy
    <3> QED
      BY <2>1, <2>2, <3>1
  <2> QED
    BY <2>3, <2>4
<1>5. \A st \in Stages : Height(st) \in Nat
  BY LenIsNat DEF ShapeOK, BranchesOK, Height
<1> QED
  BY <1>1, <1>2, <1>4, <1>5 DEF ShapeOK, Grows, handlerVars, Height

(* A step of a handler that pushes nothing. *)
LEMMA QuietSteps ==
  ASSUME ShapeOK, UNCHANGED <<jobVars, branch, request>>,
         DOMAIN handler' = Promotions,
         \A p \in Promotions :
           handler'[p].step \in Steps /\ handler'[p].base \in 0..Height(request[p].stage),
         sent' \in [Promotions -> SUBSET {"started", "pass", "fail"}],
         faults \subseteq faults', faults' \subseteq FaultKinds
  PROVE  ShapeOK' /\ Grows /\ \A q \in Promotions : NotByOf(q)
<1>1. Len(master) \in Nat /\ \A st \in Stages : Height(st) \in Nat
  BY LenIsNat DEF ShapeOK, MasterOK, BranchesOK, Height
<1>2. \A st : Len(branch'[st]) = Len(branch[st])
  OBVIOUS
<1>3. MasterOK' /\ JobsOK' /\ BranchesOK'
  BY DEF ShapeOK, MasterOK, JobsOK, BranchesOK, jobVars, Height
<1>4. HandlersOK'
  BY DEF ShapeOK, HandlersOK, jobVars, Height
<1> QED
  BY <1>1, <1>2, <1>3, <1>4 DEF ShapeOK, Grows, NotByOf, jobVars, Height

(* The effects of a handler's step on the handler alone. *)
LEMMA QuietMove ==
  ASSUME ShapeOK, NEW p \in Promotions, NEW step \in Steps, Goes(p, step)
  PROVE  /\ UNCHANGED <<branch, request>> /\ DOMAIN handler' = Promotions
         /\ \A q \in Promotions :
              handler'[q].step \in Steps /\ handler'[q].base \in 0..Height(request[q].stage)
         /\ \A q \in Promotions \ {p} : handler'[q] = handler[q]
  BY MovedHandler DEF Goes, ShapeOK, HandlersOK

LEMMA QuietCommit ==
  ASSUME ShapeOK, NEW p \in Promotions, NEW committed, NEW files,
         Commits(p, committed, files)
  PROVE  /\ UNCHANGED <<branch, request>> /\ DOMAIN handler' = Promotions
         /\ handler'[p].step = "push" /\ handler'[p].committed = committed
         /\ handler'[p].base = Height(request[p].stage) /\ handler'[p].files = files
         /\ \A q \in Promotions :
              handler'[q].step \in Steps /\ handler'[q].base \in 0..Height(request[q].stage)
         /\ \A q \in Promotions \ {p} : handler'[q] = handler[q]
<1>1. Height(request[p].stage) \in Nat
  BY LenIsNat DEF ShapeOK, HandlersOK, BranchesOK, Request, Height
<1>2. /\ handler' = [handler EXCEPT ![p] = [step |-> "push", committed |-> committed,
                       base |-> Height(request[p].stage), files |-> files]]
      /\ DOMAIN handler = Promotions
      /\ UNCHANGED <<branch, request>>
  BY DEF Commits, ShapeOK, HandlersOK
<1>3. "push" \in Steps
  BY DEF Steps
<1> QED
  BY <1>1, <1>2, <1>3 DEF ShapeOK, HandlersOK

(* A handler goes on in one of four ways: by an event, by a call that leads   *)
(* to the next step, by a commit, by a push.                                  *)
LEMMA HandlerSteps ==
  ASSUME ShapeOK, NEW p \in Promotions, Receive(p) \/ Handle(p)
  PROVE  /\ ShapeOK' /\ Grows /\ UNCHANGED <<jobVars, request>>
         /\ OnlyMoves(p)
         /\ \A q \in Promotions \ {p} : NotByOf(q)
<1> DEFINE Result == /\ ShapeOK' /\ Grows /\ UNCHANGED <<jobVars, request>>
                     /\ OnlyMoves(p)
                     /\ \A q \in Promotions \ {p} : NotByOf(q)
           Tells == /\ sent' \in [Promotions -> SUBSET {"started", "pass", "fail"}]
                    /\ \A q \in Promotions \ {p} : sent'[q] = sent[q]
                    /\ faults \subseteq faults' /\ faults' \subseteq FaultKinds
<1>1. UNCHANGED sent /\ (UNCHANGED faults \/ \E kind : Fault(kind)) => Tells
  BY FaultAdds DEF ShapeOK, HandlersOK
<1>2. ASSUME NEW event \in {"started", "pass", "fail"}, NEW answer, Send(p, event, answer)
      PROVE  Tells
  BY <1>2, SendAdds
<1>3. ASSUME Tells, UNCHANGED jobVars, NEW step \in Steps, Goes(p, step)
      PROVE  Result
  BY <1>3, QuietMove, QuietSteps DEF OnlyMoves
<1>4. ASSUME Tells, UNCHANGED jobVars, NEW committed, NEW files, Commits(p, committed, files)
      PROVE  Result
  BY <1>4, QuietCommit, QuietSteps DEF OnlyMoves
<1>5. CASE Receive(p)
  <2>1. UNCHANGED jobVars
    BY <1>5 DEF Receive
  <2>2. CASE Goes(p, "done") /\ UNCHANGED <<sent, faults>>
    BY <1>1, <1>3, <2>1, <2>2 DEF Steps
  <2>3. ASSUME NEW answer, Send(p, "started", answer),
               NEW step \in {"done", "errored", "secret"}, Goes(p, step)
        PROVE  Result
    BY <1>2, <1>3, <2>1, <2>3 DEF Steps
  <2> QED
    BY <1>5, <2>2, <2>3 DEF Receive
<1>6. CASE GetGitSecret(p)
  BY <1>1, <1>3, <1>6 DEF GetGitSecret, Steps
<1>7. CASE CloneRelease(p)
  BY <1>1, <1>3, <1>7 DEF CloneRelease, Steps
<1>8. CASE CloneStage(p)
  <2>1. UNCHANGED <<jobVars, sent>> /\ (UNCHANGED faults \/ \E kind : Fault(kind))
    BY <1>8 DEF CloneStage
  <2>2. Goes(p, "errored") \/ \E committed, files : Commits(p, committed, files)
    BY <1>8 DEF CloneStage
  <2> QED
    BY <1>1, <1>3, <1>4, <2>1, <2>2 DEF Steps
<1>9. CASE Push(p)
  <2> DEFINE st == request[p].stage
  <2>1. /\ UNCHANGED <<jobVars, request, sent>> /\ handler' = Moved(p, "finish")
        /\ UNCHANGED faults \/ \E kind : Fault(kind)
        /\ UNCHANGED branch \/ Pushed(p)
    BY <1>9 DEF Push
  <2>2. CASE UNCHANGED branch
    BY <1>1, <1>3, <2>1, <2>2 DEF Goes, Steps
  <2>3. CASE Pushed(p)
    <3>1. /\ st \in Stages
          /\ \A other \in Stages : Height(other) \in Nat
          /\ Len(master) \in Nat
      BY LenIsNat DEF ShapeOK, HandlersOK, BranchesOK, MasterOK, Request, Height
    <3>2. PICK new : new = [by |-> p, files |-> handler[p].files]
      OBVIOUS
    <3> HIDE DEF st
    <3>3. /\ BranchesOK'
          /\ \A other \in Stages \ {st} : branch'[other] = branch[other]
          /\ Len(branch'[st]) = Len(branch[st]) + 1
          /\ branch'[st][Len(branch[st]) + 1] = new
          /\ \A i \in 1..Len(branch[st]) : branch'[st][i] = branch[st][i]
      BY <2>3, <3>1, <3>2, PushedGrows DEF Height, st
    <3>4. /\ \A other \in Stages : Len(branch[other]) \in Nat
          /\ \A other \in Stages :
               /\ Len(branch[other]) <= Len(branch'[other])
               /\ \A i \in 1..Len(branch[other]) : branch'[other][i] = branch[other][i]
      BY <3>1, <3>3 DEF Height
    <3>5. Tells
      BY <1>1, <2>1
    <3>6. OnlyMoves(p)
      BY <2>1, MovedHandler DEF OnlyMoves
    <3>7. \A q \in Promotions \ {p} : NotByOf(q)
      BY <3>1, <3>2, <3>3, <3>4 DEF NotByOf, Height
    <3>8. HandlersOK'
      <4>1. \A q \in Promotions :
               handler'[q].step \in Steps /\ handler'[q].base = handler[q].base
        BY <2>1, MovedHandler DEF Steps, ShapeOK, HandlersOK
      <4>2. \A q \in Promotions : request[q].stage \in Stages
        BY DEF ShapeOK, HandlersOK, Request
      <4>3. \A q \in Promotions : handler[q].base \in 0..Len(branch'[request[q].stage])
        BY <3>4, <4>2 DEF ShapeOK, HandlersOK, Height
      <4> QED
        BY <2>1, <3>5, <3>6, <4>1, <4>3 DEF ShapeOK, HandlersOK, OnlyMoves, jobVars, Height
    <3>9. MasterOK' /\ JobsOK'
      BY <2>1 DEF ShapeOK, MasterOK, JobsOK, jobVars
    <3>10. Grows
      BY <2>1, <3>1, <3>4, <3>5 DEF Grows, jobVars, Height
    <3> QED
      BY <2>1, <3>3, <3>6, <3>7, <3>8, <3>9, <3>10 DEF ShapeOK
  <2> QED
    BY <2>1, <2>2, <2>3
<1>10. CASE Finish(p)
  <2>1. UNCHANGED jobVars /\ Goes(p, "done")
    BY <1>10 DEF Finish
  <2>2. \E event \in {"pass", "fail"} : \E answer : Send(p, event, answer)
    BY <1>10 DEF Finish
  <2> QED
    BY <1>2, <1>3, <2>1, <2>2 DEF Steps
<1> QED
  BY <1>5, <1>6, <1>7, <1>8, <1>9, <1>10 DEF Handle

--------------------------------------------------------------------------------
(* The inductive invariant, one handler at a time. *)

NotPushed(p) == \A st \in Stages : \A i \in 1..Height(st) : branch[st][i].by # p

(* Nothing of p is on a branch until its push, and it is answered at the end. *)
AnswerFits(p) ==
  /\ handler[p].step \notin {"finish", "done"} => NotPushed(p)
  /\ "fail" \in sent[p] => NotPushed(p)
  /\ {"pass", "fail"} \intersect sent[p] # {} => handler[p].step = "done"

(* From the clone of the release on there is one. *)
ReleaseExists(p) ==
  handler[p].step \in {"stage", "push", "finish"} \/ "pass" \in sent[p] =>
    tags[ReleaseOf(p)] # 0

(* Without a commit there was a fault, and after the push the result is right *)
(* or excused.                                                                *)
ResultFits(p) ==
  /\ handler[p].step = "push" /\ ~handler[p].committed => "commit" \in faults
  /\ handler[p].step = "finish" \/ "pass" \in sent[p] => Excused(p)

HandlerOK(p) == AnswerFits(p) /\ ReleaseExists(p) /\ WorkFits(p) /\ ResultFits(p)

PromotionInv == ShapeOK /\ \A p \in Promotions : HandlerOK(p)

LEMMA StageOfRequest ==
  ASSUME ShapeOK, NEW p \in Promotions
  PROVE  /\ request[p].stage \in Stages /\ ReleaseOf(p) \in Release
         /\ IsSeq(branch[request[p].stage])
         /\ Len(branch[request[p].stage]) \in Nat
  BY LenIsNat DEF ShapeOK, HandlersOK, BranchesOK, Request, ReleaseOf, Release

(* A release that was tagged stays what it is. *)
LEMMA ReleaseKept ==
  ASSUME ShapeOK, Grows, NEW p \in Promotions, tags[ReleaseOf(p)] # 0
  PROVE  /\ (ReleaseOf(p))' = ReleaseOf(p)
         /\ tags'[ReleaseOf(p)] = tags[ReleaseOf(p)]
         /\ \A files : (Promoted(p, files))' = Promoted(p, files)
<1>1. (ReleaseOf(p))' = ReleaseOf(p) /\ request'[p] = request[p]
  BY DEF Grows, ReleaseOf
<1>2. tags'[ReleaseOf(p)] = tags[ReleaseOf(p)]
  BY StageOfRequest DEF Grows
<1>3. tags[ReleaseOf(p)] \in 1..Len(master)
  BY StageOfRequest, LenIsNat DEF ShapeOK, MasterOK
<1>4. master'[tags[ReleaseOf(p)]] = master[tags[ReleaseOf(p)]]
  BY <1>3 DEF Grows
<1>5. \A files : (Promoted(p, files))' = Promoted(p, files)
  BY <1>1, <1>2, <1>4, Zenon DEF Promoted
<1> QED
  BY <1>1, <1>2, <1>5

LEMMA BranchKept ==
  ASSUME ShapeOK, ShapeOK', Grows, NEW st \in Stages
  PROVE  /\ Len(branch[st]) \in Nat /\ Len(branch'[st]) \in Nat
         /\ Len(branch[st]) <= Len(branch'[st])
         /\ \A i \in 1..Len(branch[st]) : branch'[st][i] = branch[st][i]
<1>1. IsSeq(branch[st]) /\ IsSeq(branch'[st])
  BY DEF ShapeOK, BranchesOK
<1>2. Len(branch[st]) \in Nat /\ Len(branch'[st]) \in Nat
  BY <1>1, LenIsNat
<1> QED
  BY <1>2 DEF Grows, Height

LEMMA IsOnKept ==
  ASSUME ShapeOK, ShapeOK', Grows, NEW p \in Promotions, tags[ReleaseOf(p)] # 0,
         NEW i \in 2..Len(branch[request[p].stage]), IsOn(p, i)
  PROVE  (IsOn(p, i))'
<1>1. PICK st \in Stages : st = request[p].stage /\ st = request'[p].stage
  BY StageOfRequest DEF Grows
<1>2. branch'[st][i] = branch[st][i] /\ branch'[st][i - 1] = branch[st][i - 1]
  BY <1>1, BranchKept
<1>3. branch[st][i].by = p /\ branch[st][i].files = Promoted(p, branch[st][i - 1].files)
  BY <1>1 DEF IsOn
<1>4. branch'[st][i].by = p /\ branch'[st][i].files = (Promoted(p, branch[st][i - 1].files))'
  BY <1>2, <1>3, ReleaseKept
<1> QED
  BY <1>1, <1>2, <1>4 DEF IsOn

LEMMA ExcusedKept ==
  ASSUME ShapeOK, ShapeOK', Grows, NEW p \in Promotions, tags[ReleaseOf(p)] # 0,
         handler'[p].base = handler[p].base, Excused(p)
  PROVE  (Excused(p))'
<1>1. PICK st \in Stages : st = request[p].stage /\ st = request'[p].stage
  BY StageOfRequest DEF Grows
<1>2. /\ Len(branch[st]) \in Nat /\ Len(branch'[st]) \in Nat /\ Len(branch[st]) <= Len(branch'[st])
      /\ \A i \in 1..Len(branch[st]) : branch'[st][i] = branch[st][i]
  BY BranchKept
<1>3. CASE \E i \in 2..Len(branch[st]) : IsOn(p, i)
  <2>1. PICK i \in 2..Len(branch[st]) : IsOn(p, i)
    BY <1>3
  <2>2. i \in 2..Len(branch[request[p].stage])
    BY <1>1, <2>1
  <2>3. (IsOn(p, i))'
    BY <2>1, <2>2, IsOnKept, Zenon
  <2>4. i \in 2..Len(branch'[st])
    BY <1>2, <2>1
  <2> QED
    BY <1>1, <2>3, <2>4 DEF Excused
<1>4. CASE handler[p].base \in 1..(Len(branch[st]) - 1) /\ branch[st][handler[p].base + 1].by # p
  <2>1. /\ handler[p].base \in 1..(Len(branch'[st]) - 1)
        /\ branch'[st][handler[p].base + 1] = branch[st][handler[p].base + 1]
    BY <1>2, <1>4
  <2> QED
    BY <1>1, <1>4, <2>1 DEF Excused
<1>5. CASE faults \intersect {"add", "commit", "push failed"} # {}
  BY <1>5 DEF Excused, Grows
<1> QED
  BY <1>1, <1>3, <1>4, <1>5 DEF Excused

LEMMA WorkKept ==
  ASSUME ShapeOK, ShapeOK', Grows, NEW p \in Promotions,
         handler'[p] = handler[p], WorkFits(p)
  PROVE  (WorkFits(p))'
<1>1. PICK st \in Stages : st = request[p].stage /\ st = request'[p].stage
  BY StageOfRequest DEF Grows
<1>2. /\ Len(branch[st]) \in Nat /\ Len(branch'[st]) \in Nat /\ Len(branch[st]) <= Len(branch'[st])
      /\ \A i \in 1..Len(branch[st]) : branch'[st][i] = branch[st][i]
  BY BranchKept
<1>3. CASE handler[p].step \notin {"stage", "push"}
  BY <1>3 DEF WorkFits
<1>4. CASE handler[p].step \in {"stage", "push"}
  <2>1. tags[ReleaseOf(p)] # 0
    BY <1>4 DEF WorkFits
  <2>2. (tags[ReleaseOf(p)])' # 0
    BY <2>1, ReleaseKept
  <2>3. ASSUME handler[p].step = "push"
        PROVE  /\ handler[p].base \in 1..Len(branch'[st])
               /\ handler[p].committed /\ "add" \notin faults' =>
                    handler[p].files = (Promoted(p, branch[st][handler[p].base].files))'
    <3> DEFINE base == handler[p].base
    <3>1. base \in 1..Len(branch[st])
      BY <1>1, <2>3 DEF WorkFits
    <3>2. branch'[st][base] = branch[st][base]
      BY <1>2, <3>1
    <3>3. "add" \notin faults' => "add" \notin faults
      BY DEF Grows
    <3>4. handler[p].committed /\ "add" \notin faults =>
            handler[p].files = Promoted(p, branch[st][base].files)
      BY <1>1, <2>3 DEF WorkFits
    <3>5. (Promoted(p, branch[st][handler[p].base].files))' = Promoted(p, branch[st][base].files)
      <4>1. PICK files : files = branch[st][base].files
        OBVIOUS
      <4>2. (Promoted(p, files))' = Promoted(p, files)
        BY <2>1, ReleaseKept
      <4>3. branch'[st][handler'[p].base].files = files
        BY <3>2, <4>1
      <4> QED
        BY <4>1, <4>2, <4>3 DEF Promoted
    <3> QED
      BY <1>2, <3>1, <3>3, <3>4, <3>5
  <2> QED
    BY <1>1, <2>2, <2>3 DEF WorkFits
<1> QED
  BY <1>3, <1>4

LEMMA NotPushedKept ==
  ASSUME ShapeOK, ShapeOK', Grows, NEW p \in Promotions, NotByOf(p), NotPushed(p)
  PROVE  (NotPushed(p))'
  BY BranchKept DEF NotPushed, NotByOf, Height

LEMMA NobodyPushed ==
  ASSUME ShapeOK, UNCHANGED branch, NEW p
  PROVE  NotByOf(p)
<1>1. \A st \in Stages : Len(branch[st]) \in Nat
  BY LenIsNat DEF ShapeOK, BranchesOK
<1> QED
  BY <1>1 DEF NotByOf, Height

LEMMA ReleaseStays ==
  ASSUME ShapeOK, Grows, NEW p \in Promotions, tags[ReleaseOf(p)] # 0
  PROVE  (tags[ReleaseOf(p)])' # 0
  BY ReleaseKept

(* What others do, and what a restart does to those that it does not stop. *)
LEMMA OthersKeep ==
  ASSUME ShapeOK, ShapeOK', Grows, NEW p \in Promotions, NotByOf(p), HandlerOK(p),
         handler'[p] = handler[p], sent'[p] = sent[p]
  PROVE  (HandlerOK(p))'
<1>1. (AnswerFits(p))'
  BY NotPushedKept DEF HandlerOK, AnswerFits
<1>2. (ReleaseExists(p))'
  BY ReleaseStays DEF HandlerOK, ReleaseExists
<1>3. (WorkFits(p))'
  BY WorkKept DEF HandlerOK
<1>4. (ResultFits(p))'
  <2>1. handler[p].step = "finish" \/ "pass" \in sent[p] =>
          tags[ReleaseOf(p)] # 0 /\ Excused(p)
    BY DEF HandlerOK, ResultFits, ReleaseExists
  <2>2. handler[p].step = "finish" \/ "pass" \in sent[p] => (Excused(p))'
    BY <2>1, ExcusedKept
  <2> QED
    BY <2>2 DEF HandlerOK, ResultFits, Grows
<1> QED
  BY <1>1, <1>2, <1>3, <1>4 DEF HandlerOK

(* Steps before anything is pushed, that give up or go on to ask for more. *)
LEMMA QuietOwnStep ==
  ASSUME ShapeOK, ShapeOK', Grows, NEW p \in Promotions, UNCHANGED branch,
         NotPushed(p), handler'[p].step \in {"secret", "release", "errored", "done"},
         "pass" \notin sent'[p], "fail" \in sent'[p] => handler'[p].step = "done"
  PROVE  (HandlerOK(p))'
<1>1. (NotPushed(p))'
  BY NotPushedKept, NobodyPushed
<1>2. (AnswerFits(p))'
  BY <1>1 DEF AnswerFits
<1>3. (ReleaseExists(p))' /\ (WorkFits(p))' /\ (ResultFits(p))'
  BY DEF ReleaseExists, WorkFits, ResultFits
<1> QED
  BY <1>2, <1>3 DEF HandlerOK

LEMMA Unanswered ==
  ASSUME NEW p \in Promotions, HandlerOK(p), handler[p].step \notin {"finish", "done"}
  PROVE  NotPushed(p) /\ "pass" \notin sent[p] /\ "fail" \notin sent[p]
  BY DEF HandlerOK, AnswerFits

LEMMA CommitOwnStep ==
  ASSUME ShapeOK, ShapeOK', Grows, NEW p \in Promotions, HandlerOK(p), CloneStage(p)
  PROVE  (HandlerOK(p))'
<1>1. /\ handler[p].step = "stage" /\ UNCHANGED <<jobVars, sent, branch, request>>
      /\ NotPushed(p) /\ "pass" \notin sent[p] /\ "fail" \notin sent[p]
      /\ tags[ReleaseOf(p)] # 0
  BY Unanswered DEF CloneStage, Goes, Commits, HandlerOK, ReleaseExists
<1>2. CASE Goes(p, "errored")
  BY <1>1, <1>2, QuietOwnStep, MovedHandler DEF Goes
<1>3. PICK st \in Stages : st = request[p].stage /\ st = request'[p].stage
  BY <1>1, StageOfRequest
<1>4. ASSUME branch[st] # <<>>, NEW committed, NEW files, Commits(p, committed, files),
             ~committed => "commit" \in faults',
             committed /\ "add" \notin faults' => files = Promoted(p, Last(branch[st]).files)
      PROVE  (HandlerOK(p))'
  <2> DEFINE base == Len(branch[st])
  <2>1. base \in 1..Len(branch[st]) /\ Last(branch[st]) = branch[st][base]
    BY <1>4, LastOfSeq DEF ShapeOK, BranchesOK
  <2>2. /\ handler'[p].step = "push" /\ handler'[p].committed = committed
        /\ handler'[p].base = base /\ handler'[p].files = files
    BY <1>3, <1>4, QuietCommit DEF Height
  <2> HIDE DEF base
  <2>3. (NotPushed(p))'
    BY <1>1, NotPushedKept, NobodyPushed
  <2>4. (AnswerFits(p))'
    BY <1>1, <2>2, <2>3 DEF AnswerFits
  <2>5. (ReleaseExists(p))'
    BY <1>1, ReleaseStays DEF ReleaseExists
  <2>6. (WorkFits(p))'
    <3>1. handler'[p].base = base /\ handler'[p].files = files /\ handler'[p].committed = committed
      BY <2>2
    <3>2. base \in 1..Len(branch'[st])
      BY <1>1, <2>1
    <3>3. committed /\ "add" \notin faults' => files = Promoted(p, branch[st][base].files)
      BY <1>4, <2>1
    <3>4. (Promoted(p, branch[st][handler[p].base].files))' = Promoted(p, branch[st][base].files)
      BY <1>1, <3>1 DEF Promoted, ReleaseOf, jobVars
    <3>5. (tags[ReleaseOf(p)])' # 0
      BY <1>1, ReleaseStays
    <3> QED
      BY <1>3, <3>1, <3>2, <3>3, <3>4, <3>5 DEF WorkFits
  <2>7. (ResultFits(p))'
    BY <1>1, <1>4, <2>2 DEF ResultFits
  <2> QED
    BY <2>4, <2>5, <2>6, <2>7 DEF HandlerOK
<1>5. CASE branch[st] # <<>> /\ Commits(p, TRUE, Edited(p))
  BY <1>3, <1>4, <1>5 DEF Edited
<1>6. CASE branch[st] # <<>> /\ Commits(p, TRUE, Last(branch[st]).files) /\ Fault("add")
  BY <1>4, <1>6, FaultAdds
<1>7. CASE branch[st] # <<>> /\ Commits(p, FALSE, NoFiles) /\ Fault("commit")
  BY <1>4, <1>7, FaultAdds
<1> QED
  BY <1>2, <1>3, <1>5, <1>6, <1>7 DEF CloneStage

LEMMA PushOwnStep ==
  ASSUME ShapeOK, ShapeOK', Grows, NEW p \in Promotions, HandlerOK(p), Push(p)
  PROVE  (HandlerOK(p))'
<1>1. /\ handler[p].step = "push" /\ UNCHANGED <<jobVars, request, sent>>
      /\ NotPushed(p) /\ "pass" \notin sent[p] /\ "fail" \notin sent[p]
      /\ tags[ReleaseOf(p)] # 0
  BY Unanswered DEF Push, HandlerOK, ReleaseExists
<1>2. /\ handler'[p].step = "finish" /\ handler'[p].base = handler[p].base
  BY MovedHandler DEF Push
<1>3. PICK st \in Stages : st = request[p].stage /\ st = request'[p].stage
  BY <1>1, StageOfRequest
<1> DEFINE base == handler[p].base
<1>4. /\ base \in 1..Len(branch[st])
      /\ Len(branch[st]) \in Nat
      /\ handler[p].committed /\ "add" \notin faults =>
           handler[p].files = Promoted(p, branch[st][base].files)
      /\ ~handler[p].committed => "commit" \in faults
  BY <1>1, <1>3, StageOfRequest DEF HandlerOK, WorkFits, ResultFits
<1>5. (AnswerFits(p))' /\ (ReleaseExists(p))' /\ (WorkFits(p))'
  BY <1>1, <1>2, ReleaseStays DEF AnswerFits, ReleaseExists, WorkFits
<1>6. (Excused(p))'
  <2>1. CASE faults' \intersect {"add", "commit", "push failed"} # {}
    BY <2>1 DEF Excused
  <2>2. CASE UNCHANGED branch /\ base # Len(branch[st])
    <3>1. base \in 1..(Len(branch'[st]) - 1) /\ branch'[st] = branch[st]
      BY <1>4, <2>2
    <3>2. branch[st][base + 1].by # p
      BY <1>1, <1>4, <2>2 DEF NotPushed, Height
    <3> QED
      BY <1>2, <1>3, <3>1, <3>2 DEF Excused
  <2>3. CASE Pushed(p) /\ base = Len(branch[st]) /\ handler[p].committed /\ "add" \notin faults
    <3>1. PICK new : new = [by |-> p, files |-> handler[p].files]
      OBVIOUS
    <3>2. /\ Len(branch'[st]) = Len(branch[st]) + 1
          /\ branch'[st][Len(branch[st]) + 1] = new
          /\ \A i \in 1..Len(branch[st]) : branch'[st][i] = branch[st][i]
      <4>1. Pushed(p)
        BY <2>3
      <4> QED
        BY ONLY ShapeOK, p \in Promotions, st \in Stages, <1>3, <3>1, <4>1, PushedGrows DEF Height
    <3> HIDE DEF base
    <3>3. branch'[st][base] = branch[st][base] /\ base + 1 \in 2..Len(branch'[st])
          /\ (base + 1) - 1 = base
      BY <1>4, <2>3, <3>2
    <3>4. new.by = p /\ new.files = Promoted(p, branch[st][base].files)
      BY <1>4, <2>3, <3>1
    <3>5. \A files : (Promoted(p, files))' = Promoted(p, files)
      BY <1>1, ReleaseKept
    <3>6. PICK i : i = base + 1
      OBVIOUS
    <3>7. (IsOn(p, i))'
      <4>1. PICK files : files = branch[st][base].files
        OBVIOUS
      <4>2. (Promoted(p, files))' = Promoted(p, files)
        BY <3>5
      <4>3. /\ branch'[st][i] = new /\ branch'[st][i - 1] = branch[st][base]
        BY <2>3, <3>2, <3>3, <3>6
      <4>4. new.files = (Promoted(p, files))'
        BY <3>4, <4>1, <4>2
      <4>5. (Promoted(p, branch[st][i - 1].files))' = (Promoted(p, files))'
        BY <4>1, <4>3 DEF Promoted
      <4> QED
        BY <1>3, <3>4, <4>3, <4>4, <4>5 DEF IsOn
    <3> QED
      BY <1>3, <3>3, <3>6, <3>7 DEF Excused
  <2> QED
    <3>1. faults \subseteq faults'
      BY DEF Grows
    <3>2. \/ Pushed(p) /\ handler[p].committed /\ base = Height(st)
          \/ UNCHANGED branch /\ (~handler[p].committed \/ base # Height(st))
          \/ Fault("push failed")
      BY <1>3 DEF Push
    <3>3. Fault("push failed") => "push failed" \in faults'
      BY FaultAdds
    <3> QED
      BY <1>4, <2>1, <2>2, <2>3, <3>1, <3>2, <3>3 DEF Height
<1>7. (ResultFits(p))'
  BY <1>2, <1>6 DEF ResultFits
<1> QED
  BY <1>5, <1>7 DEF HandlerOK

LEMMA FinishOwnStep ==
  ASSUME ShapeOK, ShapeOK', Grows, NEW p \in Promotions, HandlerOK(p), Finish(p)
  PROVE  (HandlerOK(p))'
<1>1. UNCHANGED <<jobVars, branch, request>> /\ Goes(p, "done")
  BY DEF Finish, Goes
<1>2. handler'[p].step = "done" /\ handler'[p].base = handler[p].base
  BY <1>1, MovedHandler DEF Goes
<1>3. CASE handler[p].step = "errored"
  <2>1. NotPushed(p) /\ "pass" \notin sent[p]
    BY <1>3, Unanswered
  <2>2. \E answer : Send(p, "fail", answer)
    BY <1>3 DEF Finish
  <2>3. "pass" \notin sent'[p]
    BY <2>1, <2>2, SendAdds
  <2> QED
    BY <1>1, <1>2, <2>1, <2>3, QuietOwnStep
<1>4. CASE handler[p].step = "finish"
  <2>1. "fail" \notin sent[p] /\ tags[ReleaseOf(p)] # 0 /\ Excused(p)
    BY <1>4 DEF HandlerOK, AnswerFits, ReleaseExists, ResultFits
  <2>2. \E answer : Send(p, "pass", answer)
    BY <1>4 DEF Finish
  <2>3. "fail" \notin sent'[p]
    BY <2>1, <2>2, SendAdds
  <2>4. (Excused(p))' /\ (tags[ReleaseOf(p)])' # 0
    BY <1>2, <2>1, ExcusedKept, ReleaseStays
  <2> QED
    BY <1>2, <2>3, <2>4 DEF HandlerOK, AnswerFits, ReleaseExists, WorkFits, ResultFits
<1> QED
  BY <1>3, <1>4 DEF Finish

LEMMA OwnStep ==
  ASSUME ShapeOK, ShapeOK', Grows, NEW p \in Promotions, HandlerOK(p),
         Receive(p) \/ Handle(p)
  PROVE  (HandlerOK(p))'
<1>1. CASE Receive(p)
  <2>1. UNCHANGED branch
        /\ NotPushed(p) /\ "pass" \notin sent[p] /\ "fail" \notin sent[p]
    BY <1>1, Unanswered DEF Receive, Goes
  <2>2. \E step \in {"done", "errored", "secret"} : handler' = Moved(p, step)
    BY <1>1 DEF Receive, Goes
  <2>3. handler'[p].step \in {"done", "errored", "secret"}
    BY <2>2, MovedHandler
  <2>4. UNCHANGED sent \/ \E answer : Send(p, "started", answer)
    BY <1>1 DEF Receive
  <2>5. "pass" \notin sent'[p] /\ "fail" \notin sent'[p]
    BY <2>1, <2>4, SendAdds
  <2> QED
    BY <2>1, <2>3, <2>5, QuietOwnStep
<1>2. ASSUME UNCHANGED sent, handler[p].step \in {"secret", "release"},
             NEW step \in {"release", "errored"}, Goes(p, step)
      PROVE  (HandlerOK(p))'
  BY <1>2, Unanswered, MovedHandler, QuietOwnStep DEF Goes
<1>3. CASE GetGitSecret(p)
  BY <1>2, <1>3 DEF GetGitSecret
<1>4. CASE CloneRelease(p)
  <2>1. CASE Goes(p, "errored")
    BY <1>2, <1>4, <2>1 DEF CloneRelease
  <2>2. CASE Goes(p, "stage") /\ tags[ReleaseOf(p)] # 0
    <3>1. /\ UNCHANGED <<branch, sent>>
          /\ NotPushed(p) /\ "pass" \notin sent[p] /\ "fail" \notin sent[p]
      BY <1>4, <2>2, Unanswered DEF CloneRelease, Goes
    <3>2. handler'[p].step = "stage"
      BY <2>2, MovedHandler DEF Goes
    <3>3. (NotPushed(p))' /\ (tags[ReleaseOf(p)])' # 0
      BY <2>2, <3>1, NotPushedKept, NobodyPushed, ReleaseStays
    <3> QED
      BY <3>1, <3>2, <3>3 DEF HandlerOK, AnswerFits, ReleaseExists, WorkFits, ResultFits
  <2> QED
    BY <1>4, <2>1, <2>2 DEF CloneRelease
<1>5. CASE CloneStage(p)
  BY <1>5, CommitOwnStep
<1>6. CASE Push(p)
  BY <1>6, PushOwnStep
<1>7. CASE Finish(p)
  BY <1>7, FinishOwnStep
<1> QED
  BY <1>1, <1>3, <1>4, <1>5, <1>6, <1>7 DEF Handle

LEMMA RestartStep ==
  ASSUME PromotionInv, Restart
  PROVE  PromotionInv'
<1>1. /\ UNCHANGED <<jobVars, branch, request, sent>>
      /\ faults \subseteq faults' /\ faults' \subseteq FaultKinds
      /\ DOMAIN handler' = Promotions
  BY FaultAdds DEF Restart, PromotionInv
<1>2. \A p \in Promotions :
        /\ handler'[p].base = handler[p].base
        /\ \/ handler'[p] = handler[p]
           \/ handler'[p].step = "done"
  BY DEF Restart, Memory
<1>3. ShapeOK' /\ Grows /\ \A p \in Promotions : NotByOf(p)
  <2>1. \A p \in Promotions :
          handler'[p].step \in Steps /\ handler'[p].base \in 0..Height(request[p].stage)
    BY <1>2 DEF PromotionInv, ShapeOK, HandlersOK, Steps
  <2>2. sent' \in [Promotions -> SUBSET {"started", "pass", "fail"}]
    BY <1>1 DEF PromotionInv, ShapeOK, HandlersOK
  <2> QED
    BY <1>1, <2>1, <2>2, QuietSteps DEF PromotionInv
<1>4. ASSUME NEW p \in Promotions
      PROVE  (HandlerOK(p))'
  <2>1. ShapeOK /\ HandlerOK(p) /\ sent'[p] = sent[p]
    BY <1>1 DEF PromotionInv
  <2>2. CASE handler'[p] = handler[p]
    BY <1>3, <2>1, <2>2, OthersKeep
  <2>3. CASE handler'[p].step = "done"
    <3>1. (AnswerFits(p))'
      BY <1>3, <2>1, <2>3, NotPushedKept DEF HandlerOK, AnswerFits
    <3>2. "pass" \in sent[p] => (Excused(p))' /\ (tags[ReleaseOf(p)])' # 0
      BY <1>2, <1>3, <2>1, ExcusedKept, ReleaseStays DEF HandlerOK, ReleaseExists, ResultFits
    <3> QED
      BY <2>1, <2>3, <3>1, <3>2 DEF HandlerOK, ReleaseExists, WorkFits, ResultFits
  <2> QED
    BY <1>2, <2>2, <2>3
<1> QED
  BY <1>3, <1>4 DEF PromotionInv

LEMMA PromotionInit ==
  ASSUME Init
  PROVE  PromotionInv
<1>1. ShapeOK
  BY InitShape
<1>2. \A p \in Promotions : handler[p].step = "waiting" /\ sent[p] = {}
  BY DEF Init, Memory
<1>3. ASSUME NEW st \in Stages, NEW i \in 1..Height(st)
      PROVE  branch[st][i].by = Nobody
  <2> DEFINE commit == [by |-> Nobody, files |-> StageBranches[st]]
  <2>1. branch[st] = <<commit>> \/ branch[st] = <<>>
    BY DEF Init
  <2>2. commit.by = Nobody
    OBVIOUS
  <2> HIDE DEF commit
  <2> QED
    BY <1>3, <2>1, <2>2 DEF Height
<1>4. \A p \in Promotions : NotPushed(p)
  BY <1>3, ServiceAssumption DEF NotPushed
<1> QED
  BY <1>1, <1>2, <1>4 DEF PromotionInv, HandlerOK, AnswerFits, ReleaseExists, WorkFits, ResultFits

LEMMA PromotionStep ==
  ASSUME PromotionInv, [Next]_vars
  PROVE  PromotionInv'
<1> USE DEF PromotionInv
<1>1. ASSUME NEW j \in Jobs, Deploy(j) \/ Tag(j)
      PROVE  PromotionInv'
  <2>1. ShapeOK' /\ Grows /\ UNCHANGED handlerVars
    BY <1>1, JobSteps
  <2>2. \A p \in Promotions : NotByOf(p)
    BY <2>1, NobodyPushed DEF handlerVars
  <2> QED
    BY <2>1, <2>2, OthersKeep DEF handlerVars
<1>2. ASSUME NEW p \in Promotions, Receive(p) \/ Handle(p)
      PROVE  PromotionInv'
  <2>1. /\ ShapeOK' /\ Grows /\ OnlyMoves(p)
        /\ \A q \in Promotions \ {p} : NotByOf(q)
    BY <1>2, HandlerSteps
  <2>2. (HandlerOK(p))'
    BY <1>2, <2>1, OwnStep
  <2>3. ASSUME NEW q \in Promotions \ {p}
        PROVE  (HandlerOK(q))'
    BY <2>1, <2>3, OthersKeep DEF OnlyMoves
  <2> QED
    BY <2>1, <2>2, <2>3
<1>3. CASE Restart
  BY <1>3, RestartStep
<1>4. CASE UNCHANGED vars
  <2>1. UNCHANGED <<master, tags, call, job, branch, request, handler, sent, faults>>
    BY <1>4 DEF vars, jobVars, handlerVars
  <2>2. ShapeOK' /\ Grows /\ \A p \in Promotions : NotByOf(p)
    BY <2>1, QuietSteps DEF ShapeOK, HandlersOK, jobVars
  <2> QED
    BY <2>1, <2>2, OthersKeep
<1> QED
  BY <1>1, <1>2, <1>3, <1>4 DEF Next

LEMMA PromotionInvariant == Spec => []PromotionInv
  BY PromotionInit, PromotionStep, PTL DEF Spec

--------------------------------------------------------------------------------
(* The types are right, whatever the jobs and the promotions.                 *)
THEOREM PromotionTypeCorrect == Spec => []TypeOK
<1>1. PromotionInv => TypeOK
  BY DEF PromotionInv, ShapeOK, MasterOK, JobsOK, BranchesOK, HandlersOK, TypeOK
<1> QED
  BY <1>1, PromotionInvariant, PTL

(* A promotion that is answered with a failure has changed no branch          *)
(* (eventhandlers.go:66-76).                                                  *)
THEOREM FailuresLeaveNoTrace == Spec => []FailureLeavesNoTrace
<1>1. PromotionInv => FailureLeavesNoTrace
  BY DEF PromotionInv, HandlerOK, AnswerFits, NotPushed, FailureLeavesNoTrace
<1> QED
  BY <1>1, PromotionInvariant, PTL

(* What a handler is about to push is its release put on a commit that is     *)
(* still where it was cloned (githandler.go:98-141).                          *)
THEOREM WorkAlwaysFitsStage == Spec => []WorkFitsStage
<1>1. PromotionInv => WorkFitsStage
  BY DEF PromotionInv, HandlerOK, WorkFitsStage
<1> QED
  BY <1>1, PromotionInvariant, PTL

(* A promotion answered with success is on its branch, or another was pushed  *)
(* between its clone and its push, or git failed (githandler.go:131-147).     *)
THEOREM OnlyExcusedPromotionsAreLost == Spec => []LostPromotionsAreExcused
<1>1. PromotionInv => LostPromotionsAreExcused
  BY DEF PromotionInv, HandlerOK, ResultFits, LostPromotionsAreExcused
<1> QED
  BY <1>1, PromotionInvariant, PTL
================================================================================
