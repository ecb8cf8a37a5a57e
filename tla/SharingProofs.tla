---------------------------- MODULE SharingProofs ----------------------------
(***************************************************************************)
(* Beads that share a worktree, however many workers there are, whatever   *)
(* is killed and started again.  First of developers, in any feature tree  *)
(* and with operators at work; then of all mutating beads, in the feature  *)
(* trees that a planner made: two of them are worked on in one worktree    *)
(* only if both declared a scope, and, followups apart, the scopes are     *)
(* disjoint.                                                               *)
(*                                                                         *)
(* The conflict check goes by files that other threads rewrite from copies *)
(* they read before.  The argument says of each bead who may write it, and *)
(* that no copy older than the bead's dispatch can put it in progress.     *)
(***************************************************************************)
EXTENDS SchedulerProofs

-----------------------------------------------------------------------------
(* Developers of one tree.  Of a developer that is no feature root, only   *)
(* its own worker writes a record in progress, and until it is finalized   *)
(* its scope stays what the conflict check saw, so that neither the files  *)
(* nor the main thread's listing of them can mislead the check about it.   *)

(* Two developers that are no feature roots are inside one worktree only   *)
(* if trees are not serialized and both declared scopes, which are         *)
(* disjoint.                                                               *)
FeatureRoot(b) == \E c \in Ids : Tree[c] = b
TreeDeveloper(b) == Agent[b] = "developer" /\ ~FeatureRoot(b)
DevelopersApart ==
    \A p \in Sharing : TreeDeveloper(p[1]) /\ TreeDeveloper(p[2]) =>
        /\ ~Serialize /\ HasScope(obj[p[1]]) /\ HasScope(obj[p[2]])
        /\ ~ScopesOverlap(obj[p[1]], obj[p[2]])

SameScope(r, q) == r.touched = q.touched /\ r.expected = q.expected /\ r.globs = q.globs
Underway(r) == r.status = "in_progress"

(* What the worker of b is about to write.                                 *)
WillWrite(b) ==
    /\ wpc[b] \in {"corrCheck", "corrCreate", "corrLink"} => Verdicts(b)
    /\ wpc[b] \in {"recoveryCreate", "failSave"} => obj[b].status = "blocked"

(* The record by which the conflict check knows a bead that it let pass.   *)
Passed == {b \in Ids : TreeDeveloper(b) /\ b \in Working \cup selected}
Checked(b) == IF b \in selected THEN snap[b] ELSE obj[b]

Undeceived(b) ==
    /\ mpc = "fill" /\ b \in todo \cup selected => ~Underway(disk[b])
    /\ wpc[b] \in {"begin", "rootSave", "launch"} => ~Underway(disk[b])
    /\ wpc[b] \in {"agent", "final"} /\ Underway(disk[b]) => SameScope(disk[b], obj[b])
    /\ mpc = "fill" /\ b \in Working /\ Underway(snap[b]) => SameScope(snap[b], obj[b])

NoClash(r, s) == ~Serialize /\ HasScope(r) /\ HasScope(s) /\ ~ScopesOverlap(r, s)
PassedApart == \A a, b \in Passed : a # b /\ SameTree(a, b) => NoClash(Checked(a), Checked(b))

DInv ==
    /\ HInv /\ \A b \in Ids : WillWrite(b)
    /\ \A b \in Ids : TreeDeveloper(b) => Undeceived(b)
    /\ PassedApart

-----------------------------------------------------------------------------
(* Who writes records in progress.                                         *)

(* If the record of a is in progress after a step, the step did not touch  *)
(* it.                                                                     *)
Spared(a) == Underway(disk'[a]) => disk'[a] = disk[a]

(* A save of another bead, or of a record that is not in progress.         *)
LEMMA SaveSpares ==
    ASSUME disk \in Store, NEW a \in Ids, NEW b, NEW r, Save(b, r), a = b => ~Underway(r)
    PROVE  Spared(a)
BY DEF Save, Store, Spared, Underway

(* The main thread writes blocked and ready records, and what it lists as  *)
(* expired is not in progress any more.                                    *)
LEMMA MainSpares ==
    ASSUME HInv, Main, NEW a \in Ids
    PROVE  Spared(a)
<1>1. TypeOK /\ MainHolds /\ disk \in Store /\ snap \in Store
  BY DEF HInv, TypeOK
<1>2. disk' = disk => Spared(a)
  BY DEF Spared
<1>3. CASE BeginCycle
  <2>1. disk[a] \in Bead
    BY <1>1, StoreTypes
  <2> DEFINE q == [disk[a] EXCEPT !.lease = FALSE, !.status = IF @ = "in_progress" THEN "ready" ELSE @]
  <2>2. PICK E : disk' = Expired(disk, E)
    BY <1>3 DEF BeginCycle
  <2>3. disk'[a] = disk[a] \/ disk'[a] = q
    BY <2>2 DEF Expired
  <2>4. ~Underway(q)
    BY <2>1 DEF Underway, Bead
  <2> QED
    BY <2>3, <2>4 DEF Spared
<1>4. ASSUME NEW b \in Ids, snap[b].status \in {"blocked", "ready"},
             NEW r, Save(b, r),
             \/ r = [snap[b] EXCEPT !.status = "ready", !.reason = "none"]
             \/ r = [snap[b] EXCEPT !.human = TRUE] \/ r = [snap[b] EXCEPT !.reason = "other"]
             \/ r = snap[b] \/ \E c \in Ids : r = Requeued(snap[b], c)
      PROVE  Spared(a)
  <2>1. snap[b] \in Bead
    BY <1>1, StoreTypes
  <2>2. ~Underway(r)
    BY <1>4, <2>1 DEF Underway, Requeued, Bead
  <2> QED
    BY <1>1, <1>4, <2>2, SaveSpares
<1>5. ASSUME NEW b \in Ids, RetryTransient(b) PROVE Spared(a)
  BY <1>1, <1>4, <1>5 DEF RetryTransient, Examine, MainHolds
<1>6. ASSUME NEW b \in Ids, ReevaluateCorrective(b) PROVE Spared(a)
  <2>1. snap[b].status = "blocked"
    BY <1>1, <1>6 DEF ReevaluateCorrective, Examine, MainHolds
  <2>2. \A c \in LatestDone(disk, b) : c \in Ids
    BY DEF LatestDone, CorrectiveChildren, Children
  <2> QED
    BY <1>2, <1>4, <1>6, <2>1, <2>2 DEF ReevaluateCorrective
<1>7. CASE ReevalCreate
  <2>1. PICK c \in Ids : Save(c, CorrectiveBead(snap[target]))
    BY <1>7 DEF ReevalCreate
  <2>2. ~Underway(CorrectiveBead(snap[target]))
    BY NewChildren DEF Underway, New
  <2> QED
    BY <1>1, <2>1, <2>2, SaveSpares
<1>8. CASE ReevalLink
  BY <1>1, <1>4, <1>8 DEF ReevalLink, MainHolds, TypeOK
<1>9. ASSUME NEW b \in Ids, DeferBead(b) PROVE Spared(a)
  BY <1>1, <1>2, <1>4, <1>9 DEF DeferBead, NextCandidate, MainHolds
<1> QED
  BY <1>2, <1>3, <1>5, <1>6, <1>7, <1>8, <1>9
  DEF Main, BeginFill, SelectBead, EndFill, WaitCompletion, Abort

(* Operators put no bead in progress.                                      *)
LEMMA OtherSpares ==
    ASSUME HInv, StartRun \/ Operator \/ Crash \/ Rest \/ UNCHANGED vars, NEW a \in Ids
    PROVE  Spared(a)
<1>1. disk \in Store
  BY DEF HInv, TypeOK
<1>2. ASSUME NEW b \in Ids, OperatorRetry(b) PROVE Spared(a)
  <2>1. disk[b] \in Bead
    BY <1>1, StoreTypes
  <2> QED
    BY <1>1, <1>2, <2>1, SaveSpares DEF OperatorRetry, Underway, Bead
<1>3. ASSUME NEW b \in Ids, NEW s \in {"ready", "blocked", "done"}, OperatorStatus(b, s)
      PROVE  Spared(a)
  <2>1. disk[b] \in Bead
    BY <1>1, StoreTypes
  <2> QED
    BY <1>1, <1>3, <2>1, SaveSpares DEF OperatorStatus, Underway, Bead
<1> QED
  BY <1>2, <1>3 DEF Operator, StartRun, Crash, Rest, vars, Spared

(* A followup that is synchronized is one: no developer is.                *)
LEMMA CreateOrSyncSpares ==
    ASSUME HInv, NEW b \in Ids, wpc[b] \in PlannedSteps,
           NEW agent \in FollowupAgents, NEW deps, CreateOrSync(b, agent, deps),
           NEW a \in Ids, TreeDeveloper(a)
    PROVE  Spared(a)
<1> DEFINE c == plan[b][agent]
<1>1. disk \in Store
  BY DEF HInv, TypeOK
<1>2. CASE HasFollowup(b, agent)
  <2>1. a # c
    BY <1>2 DEF HasFollowup, HInv, WorkerHolds, TreeDeveloper, FollowupAgents
  <2>2. disk' = disk \/ Save(c, Synced(seen[b][c], obj[b]))
    BY <1>2 DEF CreateOrSync
  <2> QED
    BY <1>1, <2>1, <2>2, SaveSpares DEF Spared
<1>3. CASE ~HasFollowup(b, agent)
  <2>1. disk' = disk \/ Save(c, FollowupBead(obj[b], deps))
    BY <1>3 DEF CreateOrSync
  <2>2. ~Underway(FollowupBead(obj[b], deps))
    BY NewChildren DEF Underway, New
  <2> QED
    BY <1>1, <2>1, <2>2, SaveSpares DEF Spared
<1> QED
  BY <1>2, <1>3

(* Of a developer that is no feature root, a worker puts only its own in   *)
(* progress, and that when it launches the agent.                          *)
LEMMA WorkerSpares ==
    ASSUME HInv, NEW b \in Ids, WillWrite(b), Worker(b), NEW a \in Ids, TreeDeveloper(a)
    PROVE  Spared(a) \/ (a = b /\ Launch(b))
<1>1. disk \in Store /\ obj[b] \in Bead
  BY HeldCopies DEF HInv, TypeOK
<1>2. disk' = disk => Spared(a)
  BY DEF Spared
<1>3. ASSUME NEW c, NEW r, Save(c, r), r.status # "in_progress" PROVE Spared(a)
  BY <1>1, <1>3, SaveSpares DEF Underway
<1>4. a = b => ~Verdicts(b) /\ Populated(b, disk, obj[b]) = obj[b]
  BY DEF TreeDeveloper, Verdicts, Populated, FollowupAgents
<1>5. Finalized(b) \in [status : Statuses, lease : BOOLEAN, deps : SUBSET Ids, reason : {ReasonOf(res[b].outcome)},
                        touched : {Finalized(b).touched}, expected : SUBSET Files, globs : SUBSET Globs,
                        retried : SUBSET Ids, human : BOOLEAN, recov : BOOLEAN]
  BY <1>1, FinalizedShape DEF Bead, HInv
<1>6. CASE StartWithoutWorktree(b)
  <2>1. Blocked(Populated(b, disk, obj[b]), "other").status # "in_progress"
    BY <1>1 DEF Blocked, Populated, Bead
  <2> QED
    BY <1>3, <1>6, <2>1 DEF StartWithoutWorktree
<1>7. CASE Start(b)
  BY <1>1, <1>2, <1>4, <1>7, SaveSpares DEF Start, NeedsSave
<1>8. CASE SaveFeatureRoot(b)
  <2>1. a # Tree[b]
    BY DEF TreeDeveloper, FeatureRoot
  <2> QED
    BY <1>1, <1>8, <2>1, SaveSpares DEF SaveFeatureRoot
<1>9. CASE Launch(b)
  BY <1>1, <1>9, SaveSpares DEF Launch
<1>10. CASE FinalizeBlocked(b) \/ CommitFails(b) \/ FinalizeDone(b)
  <2>1. \A s \in {"blocked", "done"} : [Finalized(b) EXCEPT !.status = s].status # "in_progress"
    BY <1>5
  <2>2. [Finalized(b) EXCEPT !.status = "blocked", !.reason = "other"].status # "in_progress"
    BY <1>5
  <2> HIDE <1>5
  <2> QED
    BY <1>3, <1>10, <2>1, <2>2 DEF FinalizeBlocked, CommitFails, FinalizeDone
<1>11. CASE CreateCorrective(b) \/ CreateRecovery(b) \/ CreateSubtask(b)
  BY <1>3, <1>11, NewChildren DEF CreateCorrective, CreateRecovery, CreateSubtask, New
<1>12. CASE LinkCorrective(b) \/ SaveFailed(b)
  BY <1>1, <1>4, <1>12, SaveSpares DEF LinkCorrective, SaveFailed, WillWrite, Underway
<1>13. CASE CompleteOriginal(b)
  BY <1>1, <1>3, <1>13 DEF CompleteOriginal, Rescoped, Bead
<1>14. CASE RequeueParent(b)
  <2>1. wpc[b] = "requeueSave" /\ seen[b] # Nothing
    BY <1>14 DEF RequeueParent, HInv, TypeOK, ReadingSteps
  <2>2. CASE Parent[subj[b]] \in Ids
    <3>1. seen[b][Parent[subj[b]]] \in Bead
      BY <2>1, <2>2, HeldCopies
    <3>2. Requeued(seen[b][Parent[subj[b]]], subj[b]).status = "ready"
      BY <3>1 DEF Requeued, Bead
    <3> QED
      BY <1>3, <1>14, <3>2 DEF RequeueParent
  <2>3. CASE Parent[subj[b]] \notin Ids
    BY <1>1, <1>14, <2>3, SaveSpares DEF RequeueParent
  <2> QED
    BY <2>2, <2>3
<1>15. CASE FollowupTest(b) \/ FollowupDocs(b)
  BY <1>15, CreateOrSyncSpares DEF FollowupTest, FollowupDocs, PlannedSteps, FollowupAgents
<1>16. CASE FollowupReview(b)
  <2> DEFINE c == plan[b]["review"]
  <2>1. wpc[b] \in PlannedSteps /\ "review" \in FollowupAgents
    BY <1>16 DEF FollowupReview, PlannedSteps, FollowupAgents
  <2>2. HasFollowup(b, "review") => a # c
    BY <2>1 DEF HasFollowup, HInv, WorkerHolds, TreeDeveloper
  <2>3. \/ CreateOrSync(b, "review", ReviewDeps(b))
        \/ HasFollowup(b, "review") /\ (disk' = disk \/ \E q : Save(c, q))
    BY <1>16 DEF FollowupReview
  <2> QED
    BY <1>1, <1>2, <2>1, <2>2, <2>3, SaveSpares, CreateOrSyncSpares
<1> QED
  BY <1>2, <1>6, <1>7, <1>8, <1>9, <1>10, <1>11, <1>12, <1>13, <1>14, <1>15, <1>16
  DEF Worker, AgentReturns, UnsupportedVerdict, CheckCorrectives, FinalizeFailed, LoadOriginal, LoadParent,
      ListForFollowups, RefuseSubtask, PlanFollowups

(* What a worker of a developer does to it before it is finalized.         *)
LEMMA WorkerScope ==
    ASSUME HInv, NEW b \in Ids, Worker(b)
    PROVE  /\ \A x \in Ids \ {b} : wpc'[x] = wpc[x] /\ obj'[x] = obj[x]
           /\ b \in Working' => b \in Working
           /\ TreeDeveloper(b) /\ b \in Working' => SameScope(obj'[b], obj[b])
           /\ wpc'[b] # "begin"
           /\ wpc'[b] \in {"rootSave", "launch"} => wpc[b] \in {"begin", "rootSave", "launch"}
           /\ wpc'[b] \in {"agent", "final"} => Launch(b) \/ (wpc[b] \in {"agent", "final"} /\ UNCHANGED <<disk, obj>>)
<1>1. obj \in Store /\ obj[b] \in Bead /\ wpc \in [Ids -> WorkerSteps]
  BY HeldCopies DEF HInv, TypeOK
<1>2. \A r : obj' = [obj EXCEPT ![b] = r] => \A x \in Ids \ {b} : obj'[x] = obj[x]
  BY <1>1 DEF Store
<1>3. \A s : Goto(b, s) => wpc'[b] = s /\ \A x \in Ids \ {b} : wpc'[x] = wpc[x]
  BY <1>1 DEF Goto
<1>4. CASE Start(b)
  <2>1. TreeDeveloper(b) => Populated(b, disk, obj[b]) = obj[b]
    BY DEF TreeDeveloper, Populated, FollowupAgents
  <2>2. obj' = [obj EXCEPT ![b] = Running(Populated(b, disk, obj[b]))]
    BY <1>4 DEF Start, Hold
  <2>3. TreeDeveloper(b) => SameScope(obj'[b], obj[b])
    BY <1>1, <2>1, <2>2 DEF SameScope, Running, Store, Bead
  <2>4. wpc[b] = "begin" /\ \E s \in {"launch", "raised", "rootSave"} : Goto(b, s)
    BY <1>4 DEF Start
  <2> QED
    BY <1>2, <1>3, <2>2, <2>3, <2>4 DEF Working
<1>5. CASE SaveFeatureRoot(b) \/ Launch(b) \/ AgentReturns(b)
  BY <1>1, <1>3, <1>5 DEF SaveFeatureRoot, Launch, AgentReturns, Working, SameScope
<1>6. CASE \/ StartWithoutWorktree(b) \/ UnsupportedVerdict(b) \/ FinalizeBlocked(b) \/ CheckCorrectives(b)
           \/ CreateCorrective(b) \/ LinkCorrective(b) \/ FinalizeFailed(b) \/ CreateRecovery(b) \/ SaveFailed(b)
  <2>1. \E s \in {"ended", "raised", "corrCheck", "corrCreate", "corrLink", "recoveryCreate", "failSave"} : Goto(b, s)
    BY <1>6 DEF StartWithoutWorktree, UnsupportedVerdict, FinalizeBlocked, CheckCorrectives,
                CreateCorrective, LinkCorrective, FinalizeFailed, CreateRecovery, SaveFailed
  <2>2. obj' = obj \/ \E r : obj' = [obj EXCEPT ![b] = r]
    BY <1>6 DEF StartWithoutWorktree, UnsupportedVerdict, FinalizeBlocked, CheckCorrectives, Hold,
                CreateCorrective, LinkCorrective, FinalizeFailed, CreateRecovery, SaveFailed
  <2> QED
    BY <1>2, <1>3, <2>1, <2>2 DEF Working
<1>7. CASE \/ CommitFails(b) \/ FinalizeDone(b) \/ LoadOriginal(b) \/ CompleteOriginal(b)
           \/ LoadParent(b) \/ RequeueParent(b) \/ ListForFollowups(b) \/ CreateSubtask(b) \/ RefuseSubtask(b) \/ PlanFollowups(b)
           \/ FollowupTest(b) \/ FollowupDocs(b) \/ FollowupReview(b)
  <2>1. \/ \E s \in {"ended", "raised", "recLoad", "recSave", "requeueLoad", "requeueSave",
                     "fuList", "fuPlan", "fuTest", "fuDocs", "fuReview"} : Goto(b, s)
        \/ wpc' = wpc /\ wpc[b] = "fuPlan"
    BY <1>7 DEF CommitFails, FinalizeDone, LoadOriginal, CompleteOriginal, LoadParent, RequeueParent, AfterDone,
                ListForFollowups, CreateSubtask, RefuseSubtask, PlanFollowups, FollowupTest, FollowupDocs, FollowupReview
  <2>2. obj' = obj \/ \E r : obj' = [obj EXCEPT ![b] = r]
    BY <1>7 DEF CommitFails, FinalizeDone, LoadOriginal, CompleteOriginal, LoadParent, RequeueParent, Hold,
                ListForFollowups, CreateSubtask, RefuseSubtask, PlanFollowups, FollowupTest, FollowupDocs, FollowupReview
  <2> QED
    BY <1>2, <1>3, <2>1, <2>2 DEF Working
<1> QED
  BY <1>4, <1>5, <1>6, <1>7 DEF Worker

(* Every step of its worker keeps to what it is about to write.            *)
LEMMA WorkerWillWrite ==
    ASSUME HInv, NEW b \in Ids, WillWrite(b), Worker(b)
    PROVE  WillWrite(b)'
<1>1. TypeOK /\ obj \in Store /\ wpc \in [Ids -> WorkerSteps]
  BY DEF HInv, TypeOK
<1>2. \A s : Goto(b, s) => wpc'[b] = s
  BY <1>1 DEF Goto
<1>3. ASSUME NEW s, Goto(b, s), s \notin {"corrCheck", "corrCreate", "corrLink", "recoveryCreate", "failSave"}
      PROVE  WillWrite(b)'
  BY <1>2, <1>3 DEF WillWrite
<1>4. CASE \/ StartWithoutWorktree(b) \/ Start(b) \/ SaveFeatureRoot(b) \/ Launch(b) \/ AgentReturns(b)
           \/ UnsupportedVerdict(b) \/ LinkCorrective(b) \/ SaveFailed(b) \/ CommitFails(b) \/ FinalizeDone(b)
           \/ LoadOriginal(b) \/ CompleteOriginal(b) \/ LoadParent(b) \/ RequeueParent(b)
           \/ ListForFollowups(b) \/ FollowupReview(b)
  <2>1. \E s \in {"ended", "raised", "launch", "rootSave", "agent", "final", "recLoad", "recSave",
                  "requeueLoad", "requeueSave", "fuList", "fuPlan"} : Goto(b, s)
    BY <1>4 DEF StartWithoutWorktree, Start, SaveFeatureRoot, Launch, AgentReturns, UnsupportedVerdict,
                LinkCorrective, SaveFailed, CommitFails, FinalizeDone, LoadOriginal, CompleteOriginal,
                LoadParent, RequeueParent, AfterDone, ListForFollowups, FollowupReview
  <2> QED
    BY <1>3, <2>1
<1>5. CASE FinalizeBlocked(b)
  BY <1>2, <1>5 DEF FinalizeBlocked, WillWrite
<1>6. CASE CheckCorrectives(b) \/ CreateCorrective(b)
  BY <1>2, <1>6 DEF CheckCorrectives, CreateCorrective, WillWrite
<1>7. CASE FinalizeFailed(b)
  <2>1. PICK x \in BOOLEAN : obj'[b] = [[Finalized(b) EXCEPT !.status = "blocked"] EXCEPT !.recov = x]
    <3>1. obj[b] \in Bead
      BY HeldCopies
    <3>2. Finalized(b).recov \in BOOLEAN /\ Finalized(b).status \in {obj[b].status}
      BY <1>1, <3>1, FinalizedShape DEF Bead
    <3> QED
      BY <1>1, <1>7, <3>2 DEF FinalizeFailed, Hold, Store
  <2>2. obj'[b].status = "blocked"
    BY <1>1, <2>1, HeldCopies, FinalizedShape
  <2> QED
    BY <1>2, <1>7, <2>2 DEF FinalizeFailed, WillWrite
<1>8. CASE CreateRecovery(b)
  BY <1>2, <1>8 DEF CreateRecovery, WillWrite
<1>9. CASE CreateSubtask(b) \/ RefuseSubtask(b)
  BY <1>3, <1>9 DEF CreateSubtask, RefuseSubtask, WillWrite
<1>10. CASE PlanFollowups(b)
  BY <1>3, <1>10 DEF PlanFollowups
<1>11. CASE FollowupTest(b) \/ FollowupDocs(b)
  BY <1>3, <1>11 DEF FollowupTest, FollowupDocs
<1> QED
  BY <1>4, <1>5, <1>6, <1>7, <1>8, <1>9, <1>10, <1>11 DEF Worker

-----------------------------------------------------------------------------
(* The invariant.                                                          *)

(* Scopes that are the same clash with the same scopes, and either way     *)
(* round.                                                                  *)
LEMMA ClashSame ==
    ASSUME NEW r, NEW q, NEW s, NoClash(r, s)
    PROVE  NoClash(s, r) /\ (SameScope(q, r) => NoClash(q, s))
BY DEF NoClash, SameScope, HasScope, ScopesOverlap, Source, Entries, FileSource, GlobSource, GlobsOverlap, FilesMatchGlobs

(* What the conflict check lets pass beside an active developer.           *)
LEMMA CheckedNoClash ==
    ASSUME NEW a \in Ids, NEW b \in Ids, TreeDeveloper(a), TreeDeveloper(b), SameTree(a, b),
           NEW r, NEW s, ~BeadsConflict(b, r, a, s)
    PROVE  NoClash(r, s)
BY DEF BeadsConflict, NoClash, TreeDeveloper, Mutating, MutatingAgents

(* The beads let pass stay apart if none is added and the scopes by which  *)
(* they are known stay.                                                    *)
LEMMA PassedKept ==
    ASSUME PassedApart, Passed' \subseteq Passed, \A a \in Passed' : SameScope(Checked(a)', Checked(a))
    PROVE  PassedApart'
<1> SUFFICES ASSUME NEW a \in Passed', NEW b \in Passed', a # b, SameTree(a, b)
             PROVE  NoClash(Checked(a)', Checked(b)')
  BY DEF PassedApart, NoClash, Checked, SameTree
<1>1. NoClash(Checked(a), Checked(b))
  BY DEF PassedApart
<1>2. NoClash(Checked(a)', Checked(b))
  BY <1>1, ClashSame
<1>3. NoClash(Checked(b), Checked(a)')
  BY <1>2, ClashSame
<1> QED
  BY <1>3, ClashSame

(* The fill pass passes a bead only if it clashes with none that passed:   *)
(* each of those is known to the check by the scope it has.                *)
LEMMA SelectPasses ==
    ASSUME DInv, NEW b \in Ids, SelectBead(b)
    PROVE  PassedApart'
<1>1. TypeOK /\ MainHolds /\ mpc = "fill" /\ b \in todo /\ wpc[b] = "none"
  BY DEF DInv, HInv, SelectBead, NextCandidate, MainHolds
<1>2. /\ Passed' \subseteq Passed \cup {b} /\ (b \in Passed' => TreeDeveloper(b))
      /\ b \in Passed' => Checked(b)' = snap[b] \/ b \in Passed
  BY DEF SelectBead, Passed, Checked, wvars, Working, TreeDeveloper, FeatureRoot
<1>3. \A a \in Passed : Checked(a)' = Checked(a) \/ a = b
  BY DEF SelectBead, Checked, wvars
<1>4. \A a \in Passed \ {b} : SameTree(a, b) /\ TreeDeveloper(b) => NoClash(snap[b], Checked(a))
  <2> SUFFICES ASSUME NEW a \in Passed, a # b, SameTree(a, b), TreeDeveloper(b)
               PROVE  NoClash(snap[b], Checked(a))
    OBVIOUS
  <2>1. a \in Ids /\ TreeDeveloper(a) /\ a \in InFlight \cup selected
    BY DEF Passed, Working, InFlight
  <2>2. ~BeadsConflict(b, snap[b], a, Known[a])
    BY <2>1 DEF SelectBead, Blockers, Conflicting
  <2>3. NoClash(snap[b], Known[a])
    BY <2>1, <2>2, CheckedNoClash
  <2>4. SameScope(Checked(a), Known[a])
    <3>1. CASE a \in selected
      BY <1>1, <2>1, <3>1 DEF Known, Checked, MainHolds, InFlight, SameScope
    <3>2. CASE a \notin selected
      <4>1. a \in Working /\ a \in InFlight
        BY <3>2 DEF Passed, Working, InFlight
      <4>2. Underway(snap[a]) => SameScope(snap[a], obj[a])
        BY <1>1, <2>1, <4>1 DEF DInv, Undeceived
      <4> QED
        BY <2>1, <3>2, <4>1, <4>2 DEF Known, Listed, Checked, Underway, SameScope
    <3> QED
      BY <3>1, <3>2
  <2>5. NoClash(Known[a], snap[b])
    BY <2>3, ClashSame
  <2>6. NoClash(Checked(a), snap[b])
    BY <2>4, <2>5, ClashSame
  <2> QED
    BY <2>6, ClashSame
<1>5. b \notin Passed \/ b \in selected
  BY <1>1 DEF Passed, Working
<1>6. b \in Passed' => Checked(b)' = snap[b]
  BY <1>2, <1>5 DEF SelectBead, Checked
<1> SUFFICES ASSUME NEW x \in Passed', NEW y \in Passed', x # y, SameTree(x, y)
             PROVE  NoClash(Checked(x)', Checked(y)')
  BY DEF PassedApart, NoClash, Checked, SameTree
<1>7. CASE x = b
  BY <1>2, <1>3, <1>4, <1>6, <1>7 DEF SameTree
<1>8. CASE y = b
  BY <1>2, <1>3, <1>4, <1>6, <1>8, ClashSame DEF SameTree
<1>9. CASE x # b /\ y # b
  BY <1>2, <1>3, <1>9 DEF DInv, PassedApart
<1> QED
  BY <1>7, <1>8, <1>9

(* A step that leaves the workers alone leaves what they are about to      *)
(* write.                                                                  *)
LEMMA WriteKept ==
    ASSUME \A b \in Ids : WillWrite(b), UNCHANGED wvars
    PROVE  \A b \in Ids : WillWrite(b)'
BY DEF WillWrite, wvars

(* A step of the main thread outside a fill pass, of an operator or of     *)
(* none deceives nobody.                                                   *)
LEMMA QuietStep ==
    ASSUME DInv, UNCHANGED <<wvars, selected>>, \A a \in Ids : Spared(a),
           mpc' = "fill" => mpc = "fill" /\ snap' = snap /\ todo' \subseteq todo,
           mpc = "fill" => snap' = snap
    PROVE  /\ \A b \in Ids : WillWrite(b)'
           /\ \A b \in Ids : TreeDeveloper(b) => Undeceived(b)'
           /\ PassedApart'
<1>1. \A b \in Ids : TreeDeveloper(b) => Undeceived(b)'
  BY DEF DInv, Undeceived, Spared, Working, Underway, wvars
<1>2. mpc # "fill" => selected = {}
  BY DEF DInv, HInv, MainHolds
<1>3. Passed' \subseteq Passed /\ \A a \in Passed' : SameScope(Checked(a)', Checked(a))
  BY <1>2 DEF Passed, Checked, Working, SameScope, wvars, TreeDeveloper, FeatureRoot
<1> QED
  BY <1>1, <1>3, PassedKept, WriteKept DEF DInv

(* A fill pass begins with ready beads that nobody works on, and with the  *)
(* scopes of the beads in progress as they are on file.                    *)
LEMMA FillBegins ==
    ASSUME DInv, BeginFill
    PROVE  /\ \A b \in Ids : WillWrite(b)'
           /\ \A b \in Ids : TreeDeveloper(b) => Undeceived(b)'
           /\ PassedApart'
<1>1. mpc = "reeval" /\ selected = {} /\ UNCHANGED <<disk, selected, wvars>>
  BY DEF BeginFill, DInv, HInv, MainHolds
<1>2. ASSUME mpc' = "fill", NEW b \in Ids, TreeDeveloper(b) PROVE Undeceived(b)'
  <2>1. todo' \subseteq ReadyBeads(disk) /\ (Underway(snap'[b]) => snap'[b] = disk[b])
    BY <1>2 DEF BeginFill, View, NoBead, Underway
  <2>2. b \in todo' => ~Underway(disk[b])
    BY <2>1 DEF ReadyBeads, Underway
  <2>3. Undeceived(b)
    BY <1>2 DEF DInv
  <2>4. b \in Working /\ Underway(snap'[b]) => SameScope(snap'[b], obj[b])
    BY <2>1, <2>3 DEF Undeceived, Working
  <2> QED
    BY <1>1, <2>2, <2>3, <2>4 DEF Undeceived, Working, wvars
<1>3. ASSUME mpc' # "fill", NEW b \in Ids, TreeDeveloper(b) PROVE Undeceived(b)'
  BY <1>1, <1>3 DEF DInv, Undeceived, wvars
<1>4. Passed' \subseteq Passed /\ \A a \in Passed' : SameScope(Checked(a)', Checked(a))
  BY <1>1 DEF Passed, Checked, Working, SameScope, wvars, TreeDeveloper, FeatureRoot
<1> QED
  BY <1>1, <1>2, <1>3, <1>4, PassedKept, WriteKept DEF DInv

(* The workers submitted hold the records by which they were checked, and  *)
(* these are of beads that nobody has put in progress.                     *)
LEMMA SubmitApart ==
    ASSUME DInv, EndFill
    PROVE  /\ \A b \in Ids : WillWrite(b)'
           /\ \A b \in Ids : TreeDeveloper(b) => Undeceived(b)'
           /\ PassedApart'
<1>1. TypeOK /\ MainHolds /\ mpc = "fill" /\ mpc' # "fill" /\ disk' = disk
  BY DEF DInv, HInv, EndFill, EndCycle, Submit
<1>2. CASE EndCycle /\ selected = {}
  <2>1. UNCHANGED <<wvars, selected>>
    BY <1>2 DEF EndCycle
  <2>2. Passed' \subseteq Passed /\ \A a \in Passed' : SameScope(Checked(a)', Checked(a))
    BY <1>2, <2>1 DEF Passed, Checked, Working, SameScope, wvars, TreeDeveloper, FeatureRoot
  <2>3. \A b \in Ids : TreeDeveloper(b) => Undeceived(b)'
    BY <1>1, <2>1 DEF DInv, Undeceived, wvars
  <2> QED
    BY <2>1, <2>2, <2>3, PassedKept, WriteKept DEF DInv
<1>3. CASE Submit
  <2>1. \A b \in Ids : IF b \in selected THEN wpc'[b] = "begin" /\ obj'[b] = snap[b] /\ wpc[b] = "none"
                       ELSE wpc'[b] = wpc[b] /\ obj'[b] = obj[b]
    BY <1>1, <1>3 DEF Submit, MainHolds
  <2>2. \A b \in Ids : WillWrite(b)'
    BY <1>3, <2>1 DEF DInv, WillWrite, Submit
  <2>3. \A b \in Ids : TreeDeveloper(b) => Undeceived(b)'
    BY <1>1, <2>1 DEF DInv, Undeceived
  <2>4. selected' = {}
    BY <1>3 DEF Submit
  <2>5. Passed' \subseteq Passed
    BY <2>1, <2>4 DEF Passed, Working, TreeDeveloper, FeatureRoot
  <2>6. \A a \in Passed' : SameScope(Checked(a)', Checked(a))
    BY <2>1, <2>4 DEF Passed, Checked, SameScope
  <2> QED
    BY <2>2, <2>3, <2>5, <2>6, PassedKept DEF DInv
<1> QED
  BY <1>2, <1>3 DEF EndFill

(* Who leaves the pool is out of everybody's way.                          *)
LEMMA ReapApart ==
    ASSUME DInv, NEW W, Reap(W), disk' = disk, mpc' # "fill", selected' = {} 
    PROVE  /\ \A b \in Ids : WillWrite(b)'
           /\ \A b \in Ids : TreeDeveloper(b) => Undeceived(b)'
           /\ PassedApart'
<1>1. \A b \in Ids : wpc'[b] = "none" \/ (/\ wpc'[b] = wpc[b] /\ obj'[b] = obj[b]
                                          /\ seen'[b] = seen[b] /\ plan'[b] = plan[b])
  BY DEF Reap
<1>2. \A b \in Ids : WillWrite(b)'
  BY <1>1 DEF DInv, WillWrite
<1>3. \A b \in Ids : TreeDeveloper(b) => Undeceived(b)'
  BY <1>1 DEF DInv, Undeceived
<1>4. CASE selected = {}
  <2>1. Passed' \subseteq Passed /\ \A a \in Passed' : SameScope(Checked(a)', Checked(a))
    BY <1>1, <1>4 DEF Passed, Checked, Working, SameScope, TreeDeveloper, FeatureRoot
  <2> QED
    BY <1>2, <1>3, <2>1, PassedKept DEF DInv
<1>5. CASE selected # {}
  <2>1. \A b \in selected : wpc[b] = "none"
    BY <1>5 DEF DInv, HInv, MainHolds
  <2>2. Passed' \subseteq Passed /\ \A a \in Passed' : SameScope(Checked(a)', Checked(a))
    BY <1>1, <2>1 DEF Passed, Checked, Working, SameScope, TreeDeveloper, FeatureRoot, DInv, HInv, TypeOK
  <2> QED
    BY <1>2, <1>3, <2>2, PassedKept DEF DInv
<1> QED
  BY <1>4, <1>5

(* The main thread.                                                        *)
LEMMA MainApart ==
    ASSUME DInv, Main
    PROVE  DInv'
<1>1. HInv /\ HInv' /\ MainHolds /\ \A a \in Ids : Spared(a)
  BY MainFlow, MainSpares DEF DInv, HInv
<1>2. CASE BeginCycle \/ ReevalCreate \/ ReevalLink
  BY <1>1, <1>2, QuietStep DEF DInv, BeginCycle, ReevalCreate, ReevalLink
<1>3. ASSUME NEW b \in Ids, RetryTransient(b) \/ ReevaluateCorrective(b) PROVE DInv'
  BY <1>1, <1>3, QuietStep DEF DInv, RetryTransient, ReevaluateCorrective, Examine
<1>4. CASE BeginFill
  BY <1>1, <1>4, FillBegins DEF DInv
<1>5. ASSUME NEW b \in Ids, DeferBead(b) PROVE DInv'
  BY <1>1, <1>5, QuietStep DEF DInv, DeferBead, NextCandidate
<1>6. ASSUME NEW b \in Ids, SelectBead(b) PROVE DInv'
  <2>1. PassedApart'
    BY <1>6, SelectPasses
  <2>2. \A x \in Ids : TreeDeveloper(x) => Undeceived(x)'
    BY <1>6 DEF DInv, Undeceived, Working, SelectBead, NextCandidate, wvars
  <2>3. \A x \in Ids : WillWrite(x)'
    BY <1>6, WriteKept DEF DInv, SelectBead
  <2> QED
    BY <1>1, <2>1, <2>2, <2>3 DEF DInv
<1>7. CASE EndFill
  BY <1>1, <1>7, SubmitApart DEF DInv
<1>8. CASE WaitCompletion \/ Abort
  <2>1. mpc' # "fill" /\ disk' = disk /\ selected' = {} /\ \E W : Reap(W)
    BY <1>1, <1>8 DEF WaitCompletion, Abort, MainHolds
  <2> QED
    BY <1>1, <2>1, ReapApart DEF DInv
<1> QED
  BY <1>2, <1>3, <1>4, <1>5, <1>6, <1>7, <1>8 DEF Main

(* A worker.                                                               *)
LEMMA WorkerApart ==
    ASSUME DInv, NEW b \in Ids, Worker(b)
    PROVE  DInv'
<1>1. HInv /\ HInv' /\ WillWrite(b) /\ TypeOK /\ MainHolds
  <2>1. HInv'
    BY StepFlow DEF DInv, Next, Workers
  <2> QED
    BY <2>1 DEF DInv, HInv
<1>2. Moves(b)
  BY WorkerMoves
<1>3. /\ \A x \in Ids \ {b} : wpc'[x] = wpc[x] /\ obj'[x] = obj[x]
      /\ b \in Working' => b \in Working
      /\ TreeDeveloper(b) /\ b \in Working' => SameScope(obj'[b], obj[b])
      /\ wpc'[b] # "begin"
      /\ wpc'[b] \in {"rootSave", "launch"} => wpc[b] \in {"begin", "rootSave", "launch"}
      /\ wpc'[b] \in {"agent", "final"} => Launch(b) \/ (wpc[b] \in {"agent", "final"} /\ UNCHANGED <<disk, obj>>)
  BY <1>1, WorkerScope
<1>4. UNCHANGED mvars /\ wpc[b] # "none"
  BY <1>2 DEF Moves
<1>5. \A x \in Ids : WillWrite(x)'
  <2>1. ASSUME NEW x \in Ids, x # b PROVE seen'[x] = seen[x] /\ plan'[x] = plan[x]
    <3>1. /\ seen' = seen \/ \E v : seen' = [seen EXCEPT ![b] = v]
          /\ plan' = plan \/ \E v : plan' = [plan EXCEPT ![b] = v]
      BY DEF Worker, StartWithoutWorktree, Start, SaveFeatureRoot, Launch, AgentReturns,
             UnsupportedVerdict, FinalizeBlocked, CheckCorrectives, CreateCorrective, LinkCorrective,
             FinalizeFailed, CreateRecovery, SaveFailed, CommitFails, FinalizeDone, LoadOriginal,
             CompleteOriginal, LoadParent, RequeueParent, ListForFollowups, CreateSubtask, RefuseSubtask, PlanFollowups,
             FollowupTest, FollowupDocs, FollowupReview
    <3> QED
      BY <1>1, <2>1, <3>1 DEF TypeOK
  <2> QED
    BY <1>1, <1>3, <2>1, WorkerWillWrite DEF DInv, WillWrite
<1>6. ASSUME NEW a \in Ids, TreeDeveloper(a) PROVE Undeceived(a)'
  <2>1. Undeceived(a)
    BY <1>6 DEF DInv
  <2>2. CASE a = b /\ Launch(b)
    <3>1. disk'[b] = obj[b] /\ obj' = obj /\ wpc'[b] = "agent"
      BY <1>1, <2>2 DEF Launch, Save, Goto, TypeOK, Store
    <3>2. b \notin selected /\ (mpc = "fill" => b \notin todo)
      BY <1>1, <1>4 DEF MainHolds, TypeOK
    <3> QED
      BY <1>3, <1>4, <2>1, <2>2, <3>1, <3>2 DEF Undeceived, SameScope, Working, mvars
  <2>3. CASE Spared(a) /\ ~(a = b /\ Launch(b))
    <3>1. CASE a # b
      BY <1>3, <1>4, <2>1, <2>3, <3>1 DEF Undeceived, Spared, Working, Underway, mvars
    <3>2. CASE a = b
      <4>1. mpc = "fill" => a \notin todo \cup selected
        BY <1>1, <1>4, <3>2 DEF MainHolds
      <4>2. wpc'[a] \in {"begin", "rootSave", "launch"} => ~Underway(disk'[a])
        BY <1>3, <2>1, <2>3, <3>2 DEF Undeceived, Spared
      <4>3. wpc'[a] \in {"agent", "final"} /\ Underway(disk'[a]) => SameScope(disk'[a], obj'[a])
        BY <1>3, <2>1, <2>3, <3>2 DEF Undeceived
      <4>4. mpc = "fill" /\ a \in Working' /\ Underway(snap[a]) => SameScope(snap[a], obj'[a])
        BY <1>3, <1>6, <2>1, <3>2 DEF Undeceived, SameScope
      <4> QED
        BY <1>4, <4>1, <4>2, <4>3, <4>4 DEF Undeceived, mvars, Working
    <3> QED
      BY <3>1, <3>2
  <2> QED
    BY <1>1, <1>6, <2>2, <2>3, WorkerSpares
<1>7. Passed' \subseteq Passed
  BY <1>3, <1>4 DEF Passed, Working, mvars, TreeDeveloper, FeatureRoot
<1>8. \A a \in Passed' : SameScope(Checked(a)', Checked(a))
  <2> SUFFICES ASSUME NEW a \in Passed' PROVE SameScope(Checked(a)', Checked(a))
    OBVIOUS
  <2>1. a \in Ids /\ TreeDeveloper(a) /\ selected' = selected /\ snap' = snap
    BY <1>4 DEF Passed, mvars, TreeDeveloper, FeatureRoot
  <2>2. a \in selected \/ (a \in Working' /\ a \notin selected)
    BY <2>1 DEF Passed
  <2> QED
    BY <1>3, <2>1, <2>2 DEF Checked, SameScope
<1>9. PassedApart'
  BY <1>7, <1>8, PassedKept DEF DInv
<1> QED
  BY <1>1, <1>5, <1>6, <1>9 DEF DInv, TreeDeveloper, FeatureRoot

(* Two developers that work in one worktree at a time, neither of them its *)
(* feature root, have declared disjoint scopes, whatever operators do,     *)
(* whatever is killed and however stale the files are that the conflict    *)
(* check of _select_beads_for_dispatch reads.                              *)
THEOREM DevelopersDisjoint == Spec => []DevelopersApart
<1>1. Init => DInv
  <2> SUFFICES ASSUME Init PROVE DInv
    OBVIOUS
  <2>1. HInv
    BY InitFlow
  <2> QED
    BY <2>1 DEF Init, Idle, DInv, WillWrite, Undeceived, PassedApart, Passed, Working
<1>2. DInv /\ [Next]_vars => DInv'
  <2> SUFFICES ASSUME DInv, [Next]_vars PROVE DInv'
    OBVIOUS
  <2>1. HInv /\ HInv' /\ MainHolds
    BY StepFlow DEF DInv, HInv
  <2>2. CASE StartRun \/ Operator \/ Rest \/ UNCHANGED vars
    <3>1. UNCHANGED <<wvars, selected, snap, todo>> /\ (mpc' = "fill" => mpc = "fill")
      BY <2>2 DEF StartRun, Operator, OperatorRetry, OperatorStatus, Rest, vars, mvars
    <3> QED
      BY <2>1, <2>2, <3>1, OtherSpares, QuietStep DEF DInv
  <2>3. CASE Crash
    BY <2>1, <2>3, ReapApart DEF Crash, DInv
  <2>4. CASE Main
    BY <2>4, MainApart
  <2>5. CASE Workers
    BY <2>5, WorkerApart DEF Workers
  <2> QED
    BY <2>2, <2>3, <2>4, <2>5 DEF Next
<1>3. DInv => DevelopersApart
  <2> SUFFICES ASSUME DInv, NEW p \in Sharing, TreeDeveloper(p[1]), TreeDeveloper(p[2])
               PROVE  NoClash(obj[p[1]], obj[p[2]])
    BY DEF DevelopersApart, NoClash
  <2>1. p[1] \in Working /\ p[2] \in Working /\ p[1] # p[2] /\ SameTree(p[1], p[2])
    BY DEF Sharing
  <2>2. \A x \in Working : x \notin selected
    BY DEF DInv, HInv, MainHolds, Working
  <2>3. p[1] \in Passed /\ p[2] \in Passed /\ Checked(p[1]) = obj[p[1]] /\ Checked(p[2]) = obj[p[2]]
    BY <2>1, <2>2 DEF Passed, Checked, Working
  <2> QED
    BY <2>1, <2>3 DEF DInv, PassedApart
<1> QED
  BY <1>1, <1>2, <1>3, PTL DEF Spec

-----------------------------------------------------------------------------
(* The instances the theorems are about.                                   *)

Developer(b) == Agent[b] = "developer"

(* Feature roots are planners' beads or the like, which change no files.   *)
PlainRoots == \A b \in Ids : Tree[b] \in Ids => ~Mutating(Tree[b])

(* No recovery bead is about.                                              *)
NoRecoveries == \A store \in InitStores, b \in Ids : Kind[b] = "recovery" => ~Present(store[b])

(* A planned developer bead that completes has changed some file.          *)
DevelopersTouch ==
    \A s \in Ids : UsesPlannerOwned(s) =>
        /\ {} \notin Touches[s]
        /\ \A store \in InitStores : IsDone(store, s) => store[s].touched # {}

(* A developer bead has followups of its own only once it is done.         *)
StartsUnfollowed ==
    \A store \in InitStores, s \in Ids, a \in FollowupAgents :
        Developer(s) /\ ~IsCorrective(s) /\ ~IsDone(store, s) => LegacyFollowup(store, s, a) = {}

PlannedTrees ==
    /\ NoOperator /\ NeverRecovered /\ NoRecoveries
    /\ PlainRoots /\ DevelopersTouch /\ StartsUnfollowed

-----------------------------------------------------------------------------
(* The inductive invariant.                                                *)

Entering == {"begin", "rootSave", "launch"}
AtWork == {"agent", "final"}
FollowSteps == {"fuList", "fuPlan"} \cup PlannedSteps
DoneSteps == {"requeueLoad", "requeueSave"} \cup FollowSteps
Reevaluating == {"reeval", "reevalCreate", "reevalLink"}

(* A worker works on its own bead, and its object has the status that the  *)
(* worker last gave it.                                                    *)
Straight(b) ==
    /\ subj[b] = b
    /\ wpc[b] \notin {"recoveryCreate", "recLoad", "recSave"}
    /\ wpc[b] = "begin" => obj[b].status = "ready"
    /\ wpc[b] \in {"rootSave", "launch"} \cup AtWork => obj[b].status = "in_progress"
    /\ wpc[b] = "final" => res[b].touched \in Touches[b]
    /\ wpc[b] = "requeueSave" => Verdicts(Parent[b])
    /\ wpc[b] \in FollowSteps => Developer(b) /\ ~IsCorrective(b)
    /\ Kind[b] = "recovery" => ~Present(disk[b])

(* The followups a worker settled on are shared ones that wait for its     *)
(* bead, or its own, and these it has still to create.                     *)
Ahead(b) == CASE wpc[b] = "fuTest" -> {"tester", "documentation", "review"}
              [] wpc[b] = "fuDocs" -> {"documentation", "review"}
              [] wpc[b] = "fuReview" -> {"review"}
              [] OTHER -> {}
Aimed(b) ==
    wpc[b] \in PlannedSteps => \A a \in FollowupAgents :
        LET c == plan[b][a] IN
        IF Exists(seen[b], c)
        THEN b \in seen[b][c].deps /\ UsesPlannerOwned(b)
        ELSE Parent[c] = b /\ (a \in Ahead(b) => ~Exists(disk, c))

(* Nobody but its worker and the main thread writes a developer bead, and  *)
(* both know what they write over.                                         *)
Steady(s) ==
    /\ wpc[s] \in Entering => disk[s].status = "ready"
    /\ wpc[s] \in AtWork \cup {"failSave"} => disk[s].status = "in_progress"
    /\ wpc[s] \in DoneSteps => disk[s].status = "done"
    /\ mpc \in Reevaluating /\ s \in todo => disk[s].status = "blocked"
    /\ mpc \in {"reevalCreate", "reevalLink"} /\ s = target => disk[s].status = "blocked"
    /\ mpc = "fill" /\ s \in todo \cup selected => disk[s].status = "ready"
    /\ UsesPlannerOwned(s) /\ IsDone(disk, s) => disk[s].touched # {}
Unfollowed(s) ==
    ~IsCorrective(s) /\ (\E a \in FollowupAgents : LegacyFollowup(disk, s, a) # {}) =>
        IsDone(disk, s) /\ wpc[s] \notin {"fuList", "fuPlan"}

(* No copy of a mutating bead has other dependencies than its file.        *)
DepsFixed == \A x \in Ids : Mutating(x) => \A r \in CopiesOf(x) : Present(r) => r.deps = disk[x].deps

(* What is in flight was started in this cycle, and what this cycle        *)
(* started is not picked again.                                            *)
Pool ==
    /\ InFlight \subseteq started
    /\ InFlight # {} => mpc \notin {"idle", "cycle"} /\ MaxWorkers # 0
    /\ mpc = "fill" => (todo \cup selected) \cap started = {} /\ MaxWorkers # 0

(* Of a mutating bead not started in this cycle, the copies that may be    *)
(* written are as much in progress as the file.                            *)
Holding(b) == wpc[b] \in {"requeueSave", "fuPlan"} \cup PlannedSteps
Unstarted(a) ==
    /\ \A b \in Ids : Holding(b) /\ Present(seen[b][a]) => (Underway(seen[b][a]) <=> Underway(disk[a]))
    /\ mpc \in Reevaluating /\ a \in todo => ~Underway(disk[a])
    /\ mpc \in {"reevalCreate", "reevalLink"} /\ a = target => ~Underway(disk[a])
    /\ mpc = "fill" /\ a \in todo \cup selected => ~Underway(disk[a])

(* Until a worker has put its bead in progress, no copy that may be        *)
(* written is.                                                             *)
Awaited(a) ==
    wpc[a] \in Entering =>
        /\ ~Underway(disk[a]) /\ (mpc = "fill" => ~Underway(snap[a]))
        /\ \A b \in Ids : Holding(b) /\ Present(seen[b][a]) => ~Underway(seen[b][a])

(* The developers that a dispatched bead depends on are done, and from     *)
(* those the planner planned it takes a scope when it starts.              *)
AfterDevelopers(r) == \A s \in r.deps : Developer(s) => IsDone(disk, s)
Followed(a, r) == Agent[a] \in FollowupAgents /\ \E s \in r.deps : UsesPlannerOwned(s)
Scoped(a) ==
    /\ mpc = "fill" /\ a \in todo \cup selected => AfterDevelopers(snap[a])
    /\ wpc[a] = "begin" => AfterDevelopers(obj[a])
    /\ wpc[a] \in {"rootSave", "launch"} \cup AtWork /\ Followed(a, obj[a]) => HasScope(obj[a])

(* The records in progress by which the conflict check knows a bead in the *)
(* worktree agree with the bead: it has a scope if they have, and the same *)
(* one unless it is a followup that takes over scopes.                     *)
Plain(a, q) == Developer(a) \/ q.deps = {}
Agree(a, r, q) == (HasScope(r) => HasScope(q)) /\ (Plain(a, q) => SameScope(r, q))
KnownRight(a) ==
    wpc[a] \in AtWork =>
        /\ Underway(disk[a]) => Agree(a, disk[a], obj[a])
        /\ mpc = "fill" /\ Underway(snap[a]) => Agree(a, snap[a], obj[a])

Admitted == {b \in Ids : Mutating(b) /\ b \in Working \cup selected}
Fit(a, r, b, s) ==
    /\ ~Serialize /\ HasScope(r) /\ HasScope(s)
    /\ Plain(a, r) /\ Plain(b, s) => ~ScopesOverlap(r, s)
AdmittedFit == \A a, b \in Admitted : a # b /\ SameTree(a, b) => Fit(a, Checked(a), b, Checked(b))

Threads == \A b \in Ids : WillWrite(b) /\ Straight(b) /\ Aimed(b)
Developers == \A s \in Ids : Developer(s) => Steady(s) /\ Unfollowed(s)
Timely ==
    /\ \A a \in Ids \ started : Mutating(a) => Unstarted(a)
    /\ \A a \in Ids : Mutating(a) => Awaited(a)
ScopesKnown == \A a \in Ids : Mutating(a) => Scoped(a) /\ KnownRight(a)
ShInv == HInv /\ Threads /\ Developers /\ DepsFixed /\ Pool /\ Timely /\ ScopesKnown /\ AdmittedFit

-----------------------------------------------------------------------------
(* What a worker writes.                                                   *)

(* A save leaves the other files alone.                                    *)
LEMMA SaveOne ==
    ASSUME disk \in Store, NEW c, NEW r, Save(c, r)
    PROVE  (\A x \in Ids : x # c => disk'[x] = disk[x]) /\ (c \in Ids => disk'[c] = r)
BY DEF Save, Store

Requeues(b, x) ==
    /\ wpc[b] = "requeueSave" /\ x = Parent[b] /\ Verdicts(x)
    /\ seen[b] # Nothing /\ seen[b][x].status = "blocked"
    /\ disk'[x] = Requeued(seen[b][x], b)
Syncs(b, x) ==
    /\ wpc[b] \in PlannedSteps /\ seen[b] # Nothing /\ Exists(seen[b], x)
    /\ Agent[x] \in FollowupAgents /\ b \in seen[b][x].deps /\ UsesPlannerOwned(b)
    /\ Mutating(x) => disk'[x] = Synced(seen[b][x], obj[b])
Creates(b, x) ==
    /\ ~Exists(disk, x) /\ New(disk'[x])
    /\ \/ Kind[x] \in {"corrective", "subtask"}
       \/ \E a \in FollowupAgents : /\ wpc[b] \in PlannedSteps /\ a \in Ahead(b) /\ a \notin Ahead(b)'
                                     /\ Parent[x] = b /\ Kind[x] = SuffixOf(a)
Writes(b, x) ==
    \/ disk'[x] = disk[x]
    \/ ~Mutating(x) /\ Present(disk[x]) /\ Present(disk'[x])
    \/ Requeues(b, x) \/ Syncs(b, x) \/ Creates(b, x)

(* A followup the worker settled on is synchronized, or created.           *)
LEMMA FollowupWrites ==
    ASSUME ShInv, NEW b \in Ids, wpc[b] \in PlannedSteps, NEW agent \in Ahead(b), agent \notin Ahead(b)',
           NEW deps,
           \/ CreateOrSync(b, agent, deps)
           \/ /\ HasFollowup(b, agent) /\ agent = "review"
              /\ \/ disk' = disk
                 \/ Save(plan[b][agent], [Synced(seen[b][plan[b][agent]], obj[b]) EXCEPT !.deps = @ \cup deps]),
           NEW x \in Ids
    PROVE  Writes(b, x)
<1> DEFINE c == plan[b][agent]
<1>1. /\ disk \in Store /\ seen[b] # Nothing /\ agent \in FollowupAgents /\ c \in Ids
      /\ WorkerHolds(b) /\ Aimed(b)
  BY DEF ShInv, HInv, TypeOK, Threads, PlannedSteps, ReadingSteps, Ahead, FollowupAgents
<1>2. disk' = disk => Writes(b, x)
  BY DEF Writes
<1>3. CASE HasFollowup(b, agent)
  <2>1. Agent[c] = agent /\ b \in seen[b][c].deps /\ UsesPlannerOwned(b) /\ Exists(seen[b], c)
    BY <1>1, <1>3 DEF HasFollowup, WorkerHolds, Aimed
  <2>2. PICK q : /\ disk' = disk \/ Save(c, q)
                 /\ Mutating(c) => q = Synced(seen[b][c], obj[b])
    <3>1. agent = "review" => ~Mutating(c)
      BY <2>1 DEF Mutating, MutatingAgents
    <3> QED
      BY <1>3, <3>1 DEF CreateOrSync
  <2>3. Save(c, q) /\ x = c => Syncs(b, x)
    BY <1>1, <2>1, <2>2, SaveOne DEF Syncs
  <2> QED
    BY <1>1, <1>2, <2>2, <2>3, SaveOne DEF Writes
<1>4. CASE ~HasFollowup(b, agent)
  <2>1. Parent[c] = b /\ ~Exists(disk, c) /\ Kind[c] = SuffixOf(agent)
    BY <1>1, <1>4 DEF HasFollowup, WorkerHolds, Aimed
  <2>2. disk' = disk \/ Save(c, FollowupBead(obj[b], deps))
    BY <1>4 DEF CreateOrSync
  <2>3. Save(c, FollowupBead(obj[b], deps)) /\ x = c => Creates(b, x)
    BY <1>1, <2>1, NewChildren, SaveOne DEF Creates
  <2> QED
    BY <1>1, <1>2, <2>2, <2>3, SaveOne DEF Writes
<1> QED
  BY <1>3, <1>4

(* The files that a worker writes beside its own bead's: feature roots,    *)
(* the parent that a corrective requeues, followups and other children.    *)
LEMMA WorkerWrites ==
    ASSUME PlainRoots, ShInv, NEW b \in Ids, Worker(b), NEW x \in Ids, x # b
    PROVE  Writes(b, x)
<1>1. disk \in Store /\ WorkerHolds(b) /\ Straight(b) /\ OnFile /\ TypeOK
  BY DEF ShInv, HInv, TypeOK, Threads
<1>2. disk' = disk => Writes(b, x)
  BY DEF Writes
<1>3. \A r : Save(b, r) => Writes(b, x)
  BY <1>1, SaveOne DEF Writes
<1>4. ASSUME NEW c \in Ids, NEW kind \in {"corrective", "subtask"}, NEW r, New(r),
             IsFreshChild(disk, b, kind, c), Save(c, r)
      PROVE  Writes(b, x)
  <2>1. Kind[c] = kind /\ ~Exists(disk, c) /\ disk'[c] = r
    BY <1>1, <1>4, SaveOne DEF IsFreshChild, Children
  <2>2. Creates(b, c)
    BY <1>4, <2>1 DEF Creates
  <2> QED
    BY <1>1, <1>4, <2>2, SaveOne DEF Writes
<1>5. CASE \/ StartWithoutWorktree(b) \/ Start(b) \/ Launch(b) \/ AgentReturns(b) \/ UnsupportedVerdict(b)
           \/ FinalizeBlocked(b) \/ CheckCorrectives(b) \/ LinkCorrective(b) \/ FinalizeFailed(b) \/ SaveFailed(b)
           \/ CommitFails(b) \/ FinalizeDone(b) \/ LoadParent(b) \/ ListForFollowups(b) \/ PlanFollowups(b)
           \/ RefuseSubtask(b)
  <2>1. disk' = disk \/ \E r : Save(b, r)
    BY <1>5 DEF StartWithoutWorktree, Start, Launch, AgentReturns, UnsupportedVerdict, FinalizeBlocked,
                CheckCorrectives, LinkCorrective, FinalizeFailed, SaveFailed, CommitFails, FinalizeDone,
                LoadParent, ListForFollowups, PlanFollowups, RefuseSubtask
  <2> QED
    BY <1>2, <1>3, <2>1
<1>6. CASE SaveFeatureRoot(b)
  <2>1. wpc[b] = "rootSave" /\ Save(Tree[b], seen[b][Tree[b]])
    BY <1>6 DEF SaveFeatureRoot
  <2>2. Tree[b] \in Ids /\ Present(seen[b][Tree[b]]) /\ seen[b] # Nothing /\ ~Mutating(Tree[b])
    BY <1>1, <2>1 DEF WorkerHolds, TypeOK, ReadingSteps, PlainRoots
  <2>3. Present(disk[Tree[b]])
    BY <1>1, <2>2, HeldCopies DEF OnFile, ShInv
  <2> QED
    BY <1>1, <2>1, <2>2, <2>3, SaveOne DEF Writes
<1>7. CASE CreateCorrective(b)
  BY <1>4, <1>7, NewChildren DEF CreateCorrective
<1>8. CASE CreateSubtask(b)
  BY <1>1, <1>4, <1>8, NewChildren DEF CreateSubtask, Straight
<1>9. CASE CreateRecovery(b) \/ LoadOriginal(b) \/ CompleteOriginal(b)
  BY <1>1, <1>9 DEF CreateRecovery, LoadOriginal, CompleteOriginal, Straight
<1>10. CASE RequeueParent(b)
  <2>1. wpc[b] = "requeueSave" /\ Save(Parent[b], Requeued(seen[b][Parent[b]], b))
    BY <1>1, <1>10 DEF RequeueParent, Straight
  <2>2. x = Parent[b] => Requeues(b, x)
    BY <1>1, <2>1, SaveOne DEF Requeues, WorkerHolds, Straight, TypeOK, ReadingSteps
  <2> QED
    BY <1>1, <2>1, <2>2, SaveOne DEF Writes
<1>11. CASE FollowupTest(b)
  <2>1. /\ wpc[b] = "fuTest" /\ wpc'[b] = "fuDocs" /\ CreateOrSync(b, "tester", {subj[b]})
    BY <1>1, <1>11 DEF FollowupTest, Goto, TypeOK
  <2> QED
    BY <2>1, FollowupWrites DEF Ahead, PlannedSteps
<1>12. CASE FollowupDocs(b)
  <2>1. /\ wpc[b] = "fuDocs" /\ wpc'[b] = "fuReview" /\ CreateOrSync(b, "documentation", {subj[b]})
    BY <1>1, <1>12 DEF FollowupDocs, Goto, TypeOK
  <2> QED
    BY <2>1, FollowupWrites DEF Ahead, PlannedSteps
<1>13. CASE FollowupReview(b)
  <2>1. /\ wpc[b] = "fuReview" /\ wpc'[b] \in {"raised", "ended"}
        /\ \/ CreateOrSync(b, "review", ReviewDeps(b))
           \/ /\ HasFollowup(b, "review")
              /\ \/ disk' = disk
                 \/ Save(plan[b]["review"], [Synced(seen[b][plan[b]["review"]], obj[b]) EXCEPT !.deps = @ \cup ReviewDeps(b)])
    BY <1>1, <1>13 DEF FollowupReview, Goto, TypeOK
  <2> QED
    BY <2>1, FollowupWrites DEF Ahead, PlannedSteps
<1> QED
  BY <1>5, <1>6, <1>7, <1>8, <1>9, <1>10, <1>11, <1>12, <1>13 DEF Worker

(* What a worker does to its own bead, step by step.                       *)
Enters(b) ==
    /\ wpc[b] = "begin" /\ wpc'[b] \in {"rootSave", "launch", "raised"}
    /\ obj'[b] = Running(Populated(b, disk, obj[b]))
    /\ disk'[b] = disk[b] \/ (disk'[b] = Populated(b, disk, obj[b]) /\ disk'[b] # obj[b])
Proceeds(b) ==
    /\ obj'[b] = obj[b]
    /\ \/ wpc[b] = "rootSave" /\ wpc'[b] = "launch" /\ (Mutating(b) => disk'[b] = disk[b])
       \/ wpc[b] = "launch" /\ wpc'[b] = "agent" /\ disk'[b] = obj[b]
       \/ wpc[b] = "agent" /\ wpc'[b] = "final" /\ disk'[b] = disk[b] /\ res'[b].touched \in Touches[b]
Halts(b) ==
    \/ /\ wpc[b] = "begin" /\ wpc'[b] = "ended"
       /\ disk'[b].status = "blocked" /\ disk'[b].deps = obj[b].deps
    \/ /\ wpc[b] = "final" /\ wpc'[b] \in {"corrCheck", "ended"} /\ (wpc'[b] = "corrCheck" => Verdicts(b))
       /\ disk'[b].status = "blocked" /\ disk'[b].deps = obj[b].deps
    \/ wpc[b] = "final" /\ wpc'[b] \in {"raised", "failSave"} /\ disk'[b] = disk[b]
    \/ wpc[b] \in {"corrCheck", "corrCreate"} /\ wpc'[b] \in {"corrCreate", "corrLink", "ended"} /\ disk'[b] = disk[b]
    \/ wpc[b] \in {"corrLink", "failSave"} /\ wpc'[b] = "ended" /\ disk'[b] = obj[b]
Completes(b) ==
    /\ wpc[b] = "final" /\ wpc'[b] \in {"requeueLoad", "fuList", "ended"}
    /\ wpc'[b] = "fuList" => Developer(b) /\ ~IsCorrective(b)
    /\ disk'[b].status = "done" /\ disk'[b].touched = res[b].touched /\ disk'[b].deps = obj[b].deps
Follows(b) ==
    /\ wpc[b] \in DoneSteps /\ wpc'[b] \in DoneSteps \cup {"ended", "raised"} /\ disk'[b] = disk[b]
    /\ wpc'[b] \in FollowSteps => wpc[b] \in FollowSteps
    /\ wpc'[b] # "requeueLoad" /\ wpc'[b] # "fuList"
    /\ wpc'[b] = "fuPlan" => wpc[b] \in {"fuList", "fuPlan"}
    /\ wpc'[b] = "requeueSave" => Verdicts(Parent[b])
OwnStep(b) == Enters(b) \/ Proceeds(b) \/ Halts(b) \/ Completes(b) \/ Follows(b)

(* A worker in flight has a file for its bead, and a record of it.         *)
LEMMA FlightPresent ==
    ASSUME ShInv, NEW b \in Ids, wpc[b] # "none"
    PROVE  Present(disk[b]) /\ Present(obj[b]) /\ obj[b] \in Bead /\ subj[b] = b /\ Kind[b] # "recovery"
<1>1. subj[b] = b /\ (Kind[b] = "recovery" => ~Present(disk[b]))
  BY DEF ShInv, Threads, Straight
<1>2. Present(obj[b]) /\ obj[b] \in CopiesOf(b) /\ obj[b] \in Bead
  BY <1>1, HeldCopies DEF ShInv
<1> QED
  BY <1>1, <1>2 DEF ShInv, HInv, OnFile

(* The steps of a worker are these.                                        *)
LEMMA WorkerOwnSteps ==
    ASSUME PlainRoots, NeverRecovered, ShInv, NEW b \in Ids, Worker(b)
    PROVE  OwnStep(b)
<1>1. /\ disk \in Store /\ WorkerHolds(b) /\ Straight(b) /\ OnFile /\ TypeOK /\ wpc \in [Ids -> WorkerSteps]
      /\ obj \in Store /\ res[b].touched \subseteq Files
  BY DEF ShInv, HInv, TypeOK, Threads, Result
<1>2. wpc[b] # "none"
  BY WorkerMoves DEF Moves
<1>3. Present(disk[b]) /\ obj[b] \in Bead /\ subj[b] = b /\ Kind[b] # "recovery"
  BY <1>2, FlightPresent
<1>4. \A s : Goto(b, s) => wpc'[b] = s
  BY <1>1 DEF Goto
<1>5. \A r : (Hold(b, r) => obj'[b] = r) /\ (Save(b, r) => disk'[b] = r)
  BY <1>1, SaveOne DEF Hold, Store
<1>6. ASSUME NEW c, NEW r, Save(c, r), c # b PROVE disk'[b] = disk[b]
  BY <1>1, <1>6, SaveOne
<1>7. \A kind, c : IsFreshChild(disk, b, kind, c) => c # b
  BY <1>3 DEF IsFreshChild, Exists, Present
<1>8. Finalized(b).deps = obj[b].deps
  BY <1>1, <1>3, FinalizedShape
<1>9. Finalized(b) \in [status : {obj[b].status}, lease : BOOLEAN, deps : {obj[b].deps}, reason : {ReasonOf(res[b].outcome)},
                        touched : {Finalized(b).touched}, expected : SUBSET Files, globs : SUBSET Globs,
                        retried : SUBSET Ids, human : BOOLEAN, recov : BOOLEAN]
  BY <1>1, <1>3, FinalizedShape DEF Bead
<1>10. CASE StartWithoutWorktree(b)
  <2>1. Blocked(Populated(b, disk, obj[b]), "other").status = "blocked" /\ Blocked(Populated(b, disk, obj[b]), "other").deps = obj[b].deps
    BY <1>3 DEF Blocked, Populated, Bead
  <2> QED
    BY <1>4, <1>5, <1>10, <2>1 DEF StartWithoutWorktree, OwnStep, Halts
<1>11. CASE Start(b)
  BY <1>4, <1>5, <1>11 DEF Start, NeedsSave, OwnStep, Enters
<1>12. CASE SaveFeatureRoot(b)
  <2>1. Mutating(b) => Tree[b] # b
    BY DEF PlainRoots
  <2> QED
    BY <1>4, <1>6, <1>12, <2>1 DEF SaveFeatureRoot, OwnStep, Proceeds
<1>13. CASE Launch(b)
  BY <1>4, <1>5, <1>13 DEF Launch, OwnStep, Proceeds
<1>14. CASE AgentReturns(b)
  BY <1>1, <1>4, <1>14 DEF AgentReturns, OwnStep, Proceeds, TypeOK, Result
<1>15. CASE UnsupportedVerdict(b)
  BY <1>4, <1>15 DEF UnsupportedVerdict, Finalizing, OwnStep, Halts
<1>16. CASE FinalizeBlocked(b)
  <2>1. [Finalized(b) EXCEPT !.status = "blocked"].status = "blocked" /\ [Finalized(b) EXCEPT !.status = "blocked"].deps = obj[b].deps
    BY <1>9
  <2> QED
    BY <1>4, <1>5, <1>16, <2>1 DEF FinalizeBlocked, Finalizing, OwnStep, Halts
<1>17. CASE FinalizeFailed(b)
  BY <1>1, <1>4, <1>17 DEF FinalizeFailed, Finalizing, OwnStep, Halts, WorkerHolds, NeverRecovered
<1>18. CASE CommitFails(b)
  <2>1. /\ [Finalized(b) EXCEPT !.status = "blocked", !.reason = "other"].status = "blocked"
        /\ [Finalized(b) EXCEPT !.status = "blocked", !.reason = "other"].deps = obj[b].deps
    BY <1>9
  <2> QED
    BY <1>4, <1>5, <1>18, <2>1 DEF CommitFails, Finalizing, OwnStep, Halts
<1>19. CASE FinalizeDone(b)
  <2>1. [Finalized(b) EXCEPT !.status = "done"].status = "done" /\ [Finalized(b) EXCEPT !.status = "done"].deps = obj[b].deps
    BY <1>9
  <2>2. [Finalized(b) EXCEPT !.status = "done"].touched = Finalized(b).touched
    BY <1>9
  <2>3. Finalized(b).touched = res[b].touched
    <3>1. Rescoped(obj[b], res[b].scope) \in Bead
      BY <1>1, <1>3, RescopedType DEF TypeOK, Result
    <3> QED
      BY <3>1, <1>19 DEF FinalizeDone, Finalizing, Finalized, Bead
  <2> QED
    BY <1>3, <1>4, <1>5, <1>19, <2>1, <2>2, <2>3 DEF FinalizeDone, Finalizing, OwnStep, Completes, AfterDone, Developer
<1>20. CASE CheckCorrectives(b)
  BY <1>4, <1>20 DEF CheckCorrectives, OwnStep, Halts
<1>21. CASE CreateCorrective(b)
  BY <1>4, <1>6, <1>7, <1>21 DEF CreateCorrective, OwnStep, Halts
<1>22. CASE LinkCorrective(b) \/ SaveFailed(b)
  BY <1>4, <1>5, <1>22 DEF LinkCorrective, SaveFailed, OwnStep, Halts
<1>23. CASE CreateRecovery(b) \/ LoadOriginal(b) \/ CompleteOriginal(b)
  BY <1>1, <1>23 DEF CreateRecovery, LoadOriginal, CompleteOriginal, Straight
<1>24. CASE LoadParent(b)
  BY <1>3, <1>4, <1>24 DEF LoadParent, OwnStep, Follows, DoneSteps, FollowSteps, PlannedSteps
<1>25. CASE RequeueParent(b)
  <2>1. Parent[b] # b
    BY StoreAssumption
  <2> QED
    BY <1>3, <1>4, <1>6, <1>25, <2>1 DEF RequeueParent, OwnStep, Follows, DoneSteps, FollowSteps, PlannedSteps
<1>26. CASE ListForFollowups(b) \/ RefuseSubtask(b) \/ PlanFollowups(b)
  BY <1>4, <1>26 DEF ListForFollowups, RefuseSubtask, PlanFollowups, OwnStep, Follows, DoneSteps, FollowSteps, PlannedSteps
<1>27. CASE CreateSubtask(b)
  BY <1>3, <1>6, <1>7, <1>27 DEF CreateSubtask, OwnStep, Follows, DoneSteps, FollowSteps, PlannedSteps
<1>28. CASE FollowupTest(b) \/ FollowupDocs(b) \/ FollowupReview(b)
  <2>1. wpc[b] \in PlannedSteps
    BY <1>28 DEF FollowupTest, FollowupDocs, FollowupReview, PlannedSteps
  <2>2. \A a \in Ahead(b) : plan[b][a] # b
    <3>1. Developer(b) /\ Ahead(b) \subseteq FollowupAgents
      BY <1>1, <2>1 DEF Straight, FollowSteps, Ahead, FollowupAgents, PlannedSteps
    <3>2. \A a \in Ahead(b) : Exists(seen[b], plan[b][a]) => Agent[plan[b][a]] = a
      BY <1>1, <2>1, <3>1 DEF WorkerHolds
    <3>3. \A a \in Ahead(b) : ~Exists(seen[b], plan[b][a]) => Parent[plan[b][a]] = b
      BY <2>1, <3>1 DEF ShInv, Threads, Aimed
    <3> QED
      BY <3>1, <3>2, <3>3, StoreAssumption DEF Developer, FollowupAgents
  <2>3. disk' = disk \/ \E a \in Ahead(b) : \E r : Save(plan[b][a], r)
    BY <1>28 DEF FollowupTest, FollowupDocs, FollowupReview, CreateOrSync, Ahead
  <2>4. disk'[b] = disk[b]
    BY <1>6, <2>2, <2>3
  <2> QED
    BY <1>4, <1>28, <2>4 DEF FollowupTest, FollowupDocs, FollowupReview, OwnStep, Follows, DoneSteps, FollowSteps, PlannedSteps
<1> QED
  BY <1>10, <1>11, <1>12, <1>13, <1>14, <1>15, <1>16, <1>17, <1>18, <1>19, <1>20, <1>21, <1>22, <1>23, <1>24, <1>25,
     <1>26, <1>27, <1>28 DEF Worker

(* What a worker reads is on file at that moment, and it leaves the other  *)
(* workers and the main thread alone.                                      *)
LEMMA WorkerReads ==
    ASSUME ShInv, NEW b \in Ids, Worker(b)
    PROVE  /\ OthersKept(b) /\ UNCHANGED mvars /\ wpc[b] # "none"
           /\ Holding(b)' => \/ Holding(b) /\ seen'[b] = seen[b]
                             \/ disk' = disk /\ \A x \in Ids : Present(seen'[b][x]) => seen'[b][x] = disk[x]
           /\ wpc'[b] \in PlannedSteps => seen'[b] = seen[b]
           /\ wpc'[b] \in PlannedSteps /\ wpc[b] \in PlannedSteps => plan'[b] = plan[b]
           /\ wpc'[b] \in PlannedSteps /\ wpc[b] \notin PlannedSteps => PlanFollowups(b)
<1>1. TypeOK
  BY DEF ShInv, HInv
<1>2. wpc[b] # "none" /\ UNCHANGED mvars /\ (wpc' = wpc \/ \E s : wpc' = [wpc EXCEPT ![b] = s])
  BY WorkerMoves DEF Moves
<1>3. /\ seen' = seen \/ \E v : seen' = [seen EXCEPT ![b] = v]
      /\ plan' = plan \/ \E v : plan' = [plan EXCEPT ![b] = v]
      /\ obj' = obj \/ \E v : obj' = [obj EXCEPT ![b] = v]
      /\ subj' = subj \/ \E v : subj' = [subj EXCEPT ![b] = v]
      /\ res' = res \/ \E v : res' = [res EXCEPT ![b] = v]
  BY DEF Worker, StartWithoutWorktree, Start, SaveFeatureRoot, Launch, AgentReturns,
         UnsupportedVerdict, FinalizeBlocked, CheckCorrectives, CreateCorrective, LinkCorrective,
         FinalizeFailed, CreateRecovery, SaveFailed, CommitFails, FinalizeDone, LoadOriginal,
         CompleteOriginal, LoadParent, RequeueParent, ListForFollowups, CreateSubtask, RefuseSubtask, PlanFollowups,
         FollowupTest, FollowupDocs, FollowupReview, Hold
<1>4. OthersKept(b)
  BY <1>1, <1>2, <1>3 DEF OthersKept, TypeOK, Store
<1>5. \A s : Goto(b, s) => wpc'[b] = s
  BY <1>1 DEF Goto, TypeOK
<1>6. ASSUME NEW s, Goto(b, s), s \notin {"requeueSave", "fuPlan"} \cup PlannedSteps
      PROVE  ~Holding(b)' /\ wpc'[b] \notin PlannedSteps
  BY <1>5, <1>6 DEF Holding
<1>7. CASE \/ StartWithoutWorktree(b) \/ Start(b) \/ SaveFeatureRoot(b) \/ Launch(b) \/ AgentReturns(b)
           \/ UnsupportedVerdict(b) \/ FinalizeBlocked(b) \/ CheckCorrectives(b) \/ CreateCorrective(b)
           \/ LinkCorrective(b) \/ FinalizeFailed(b) \/ CreateRecovery(b) \/ SaveFailed(b) \/ CommitFails(b)
           \/ FinalizeDone(b) \/ LoadOriginal(b) \/ CompleteOriginal(b) \/ RequeueParent(b) \/ FollowupReview(b)
           \/ RefuseSubtask(b)
  <2>1. \E s \in {"ended", "raised", "launch", "rootSave", "agent", "final", "recLoad", "recSave", "corrCheck",
                  "corrCreate", "corrLink", "recoveryCreate", "failSave", "requeueLoad", "fuList"} : Goto(b, s)
    BY <1>7 DEF StartWithoutWorktree, Start, SaveFeatureRoot, Launch, AgentReturns, UnsupportedVerdict,
                FinalizeBlocked, CheckCorrectives, CreateCorrective, LinkCorrective, FinalizeFailed, CreateRecovery,
                SaveFailed, CommitFails, FinalizeDone, LoadOriginal, CompleteOriginal, RequeueParent, AfterDone, FollowupReview,
                RefuseSubtask
  <2> QED
    BY <1>2, <1>4, <1>6, <2>1 DEF PlannedSteps
<1>8. CASE LoadParent(b)
  <2>1. disk' = disk /\ wpc'[b] \in {"requeueSave", "ended"} /\ (wpc'[b] = "requeueSave" => seen'[b] = View(disk, {Parent[subj[b]]}))
    BY <1>1, <1>5, <1>8 DEF LoadParent, TypeOK
  <2> QED
    BY <1>2, <1>4, <2>1 DEF Holding, PlannedSteps, View, NoBead, Present
<1>9. CASE ListForFollowups(b)
  <2>1. disk' = disk /\ wpc'[b] = "fuPlan" /\ seen'[b] = disk
    BY <1>1, <1>5, <1>9 DEF ListForFollowups, TypeOK
  <2> QED
    BY <1>2, <1>4, <2>1 DEF Holding, PlannedSteps
<1>10. CASE CreateSubtask(b) \/ PlanFollowups(b)
  <2>1. wpc[b] = "fuPlan" /\ seen' = seen /\ (wpc'[b] = "fuPlan" \/ PlanFollowups(b))
    BY <1>1, <1>10 DEF CreateSubtask, RefuseSubtask, PlanFollowups
  <2> QED
    BY <1>2, <1>4, <2>1 DEF Holding, PlannedSteps
<1>11. CASE FollowupTest(b) \/ FollowupDocs(b)
  BY <1>2, <1>4, <1>11 DEF FollowupTest, FollowupDocs, Holding, PlannedSteps
<1> QED
  BY <1>7, <1>8, <1>9, <1>10, <1>11 DEF Worker

-----------------------------------------------------------------------------
(* What the other steps do.                                                *)

Quiet ==
    /\ UNCHANGED <<disk, wvars, snap, todo, target, selected, started>>
    /\ mpc' = mpc \/ (mpc = "idle" /\ mpc' = "cycle")

(* Left to itself the scheduler takes no other steps.                      *)
LEMMA StepKinds ==
    ASSUME NoOperator, ShInv, [Next]_vars
    PROVE  (\E b \in Ids : Worker(b)) \/ Main \/ Quiet \/ Crash
<1>1. ~Operator
  <2>1. ~(ops < MaxOps)
    BY DEF NoOperator, ShInv, HInv, TypeOK
  <2> QED
    BY <2>1 DEF Operator, OperatorRetry, OperatorStatus
<1>2. StartRun \/ Rest \/ UNCHANGED vars => Quiet
  BY DEF StartRun, Rest, vars, mvars, wvars, Quiet
<1> QED
  BY <1>1, <1>2 DEF Next, Workers

Same(b) ==
    /\ wpc'[b] = wpc[b] /\ obj'[b] = obj[b] /\ subj'[b] = subj[b]
    /\ res'[b] = res[b] /\ seen'[b] = seen[b] /\ plan'[b] = plan[b]
Submitted(b) ==
    /\ b \in selected /\ mpc = "fill" /\ mpc' = "wait" /\ wpc[b] = "none" /\ wpc'[b] = "begin"
    /\ obj'[b] = snap[b] /\ subj'[b] = subj[b] /\ disk' = disk /\ b \in started'
Reaped(b) == wpc'[b] = "none" /\ subj'[b] = b /\ seen'[b] = Nothing

(* Each worker is left alone, submitted or taken out of the pool.          *)
LEMMA PoolStep ==
    ASSUME ShInv, Main \/ Quiet \/ Crash, NEW b \in Ids
    PROVE  Same(b) \/ Submitted(b) \/ Reaped(b)
<1>1. TypeOK /\ MainHolds
  BY DEF ShInv, HInv
<1>2. UNCHANGED wvars => Same(b)
  BY DEF wvars, Same
<1>3. ASSUME NEW W, Reap(W) PROVE Same(b) \/ Reaped(b)
  BY <1>3 DEF Reap, Same, Reaped
<1>4. CASE EndFill
  <2>1. Submit => Same(b) \/ Submitted(b)
    BY <1>1, <1>4 DEF EndFill, Submit, Same, Submitted, MainHolds
  <2> QED
    BY <1>2, <1>4, <2>1 DEF EndFill, EndCycle
<1> QED
  BY <1>2, <1>3, <1>4
  DEF Main, BeginCycle, RetryTransient, ReevaluateCorrective, ReevalCreate, ReevalLink, BeginFill,
      DeferBead, SelectBead, WaitCompletion, Abort, Quiet, Crash

(* The files that the main thread writes: those it lists as expired, those *)
(* it has listed and not yet examined, and correctives.                    *)
MainWrites(x) ==
    \/ disk'[x] = disk[x]
    \/ /\ mpc = "cycle" /\ mpc' = "reeval"
       /\ disk'[x] = [disk[x] EXCEPT !.lease = FALSE, !.status = IF @ = "in_progress" THEN "ready" ELSE @]
    \/ /\ mpc = "reeval" /\ x \in todo /\ todo' = todo \ {x}
       /\ disk'[x].status \in {"ready", "blocked"} /\ disk'[x].deps = snap[x].deps
    \/ mpc = "reevalLink" /\ x = target /\ disk'[x] = snap[x]
    \/ /\ mpc = "fill" /\ x \in todo /\ todo' = todo \ {x}
       /\ disk'[x].status = "ready" /\ disk'[x].deps = snap[x].deps
    \/ ~Exists(disk, x) /\ New(disk'[x]) /\ Kind[x] = "corrective"

LEMMA MainWriting ==
    ASSUME ShInv, Main \/ Quiet \/ Crash, NEW x \in Ids
    PROVE  MainWrites(x)
<1>1. TypeOK /\ MainHolds /\ disk \in Store /\ \A b \in Ids : snap[b] \in Bead
  BY StoreTypes DEF ShInv, HInv, TypeOK
<1>2. disk' = disk => MainWrites(x)
  BY DEF MainWrites
<1>3. CASE BeginCycle
  BY <1>3 DEF BeginCycle, Expired, MainWrites
<1>4. ASSUME NEW b \in Ids, NEW r, Save(b, r), Examine(b), r.status \in {"ready", "blocked"}, r.deps = snap[b].deps
      PROVE  MainWrites(x)
  BY <1>1, <1>4, SaveOne DEF Examine, MainWrites
<1>5. ASSUME NEW b \in Ids, RetryTransient(b) PROVE MainWrites(x)
  <2>1. /\ [snap[b] EXCEPT !.status = "ready", !.reason = "none"].status = "ready"
        /\ [snap[b] EXCEPT !.status = "ready", !.reason = "none"].deps = snap[b].deps
    BY <1>1 DEF Bead
  <2> QED
    BY <1>4, <1>5, <2>1 DEF RetryTransient
<1>6. ASSUME NEW b \in Ids, ReevaluateCorrective(b) PROVE MainWrites(x)
  <2>1. snap[b].status = "blocked"
    BY <1>1, <1>6 DEF ReevaluateCorrective, Examine, MainHolds
  <2>2. /\ [snap[b] EXCEPT !.human = TRUE].status = "blocked" /\ [snap[b] EXCEPT !.human = TRUE].deps = snap[b].deps
        /\ \A c : Requeued(snap[b], c).status = "ready" /\ Requeued(snap[b], c).deps = snap[b].deps
    BY <1>1, <2>1 DEF Bead, Requeued
  <2> QED
    BY <1>2, <1>4, <1>6, <2>2 DEF ReevaluateCorrective
<1>7. CASE ReevalCreate
  <2>1. PICK c \in Ids : IsFreshChild(disk, target, "corrective", c) /\ Save(c, CorrectiveBead(snap[target]))
    BY <1>7 DEF ReevalCreate
  <2>2. ~Exists(disk, c) /\ Kind[c] = "corrective" /\ New(CorrectiveBead(snap[target]))
    BY <2>1, NewChildren DEF IsFreshChild, Children
  <2> QED
    BY <1>1, <2>1, <2>2, SaveOne DEF MainWrites
<1>8. CASE ReevalLink
  BY <1>1, <1>8, SaveOne DEF ReevalLink, MainWrites
<1>9. ASSUME NEW b \in Ids, DeferBead(b) PROVE MainWrites(x)
  <2>1. snap[b].status = "ready"
    BY <1>1, <1>9 DEF DeferBead, NextCandidate, MainHolds
  <2>2. [snap[b] EXCEPT !.reason = "other"].status = "ready" /\ [snap[b] EXCEPT !.reason = "other"].deps = snap[b].deps
    BY <1>1, <2>1 DEF Bead
  <2>3. disk' = disk \/ Save(b, [snap[b] EXCEPT !.reason = "other"])
    BY <1>9 DEF DeferBead
  <2>4. mpc = "fill" /\ b \in todo /\ todo' = todo \ {b}
    BY <1>9 DEF DeferBead, NextCandidate
  <2> QED
    BY <1>1, <1>2, <2>2, <2>3, <2>4, SaveOne DEF MainWrites
<1> QED
  BY <1>2, <1>3, <1>5, <1>6, <1>7, <1>8, <1>9
  DEF Main, BeginFill, SelectBead, EndFill, WaitCompletion, Abort, Quiet, Crash

(* A file that was not there is a corrective, a subtask, or a followup     *)
(* that the worker of its parent creates.                                  *)
LEMMA Appears ==
    ASSUME PlannedTrees, ShInv, [Next]_vars, NEW x \in Ids, ~Present(disk[x])
    PROVE  \/ ~Present(disk'[x])
           \/ New(disk'[x]) /\ Kind[x] \in {"corrective", "subtask"}
           \/ /\ New(disk'[x])
              /\ \E w \in Ids, a \in FollowupAgents :
                    /\ Worker(w) /\ wpc[w] \in PlannedSteps /\ a \in Ahead(w) /\ a \notin Ahead(w)'
                    /\ Parent[x] = w /\ Kind[x] = SuffixOf(a)
<1>1. OnFile /\ MainHolds /\ \A w \in Ids : WorkerHolds(w)
  BY DEF ShInv, HInv
<1>2. CASE \E b \in Ids : Worker(b)
  <2>1. PICK b \in Ids : Worker(b)
    BY <1>2
  <2>2. b # x
    BY <2>1, WorkerMoves, FlightPresent DEF Moves
  <2>3. Writes(b, x)
    BY <2>1, <2>2, WorkerWrites DEF PlannedTrees
  <2>4. \A r : seen[b] # Nothing /\ r = seen[b][x] => ~Present(r)
    BY <1>1, HeldCopies DEF ShInv, OnFile
  <2>5. ~Requeues(b, x)
    BY <2>4 DEF Requeues, Present
  <2>6. ~Syncs(b, x)
    BY <2>4 DEF Syncs, Present, Exists
  <2> QED
    BY <2>1, <2>3, <2>5, <2>6 DEF Writes, Creates
<1>3. CASE Main \/ Quiet \/ Crash
  <2>1. MainWrites(x)
    BY <1>3, MainWriting
  <2>2. ~Present(snap[x])
    BY <1>1, CopyMembers DEF OnFile
  <2>3. disk[x] \in Bead
    BY StoreTypes DEF ShInv, HInv, TypeOK
  <2>4. ~Present([disk[x] EXCEPT !.lease = FALSE, !.status = IF @ = "in_progress" THEN "ready" ELSE @])
    BY <2>3 DEF Present, Bead
  <2>5. mpc = "reeval" => x \notin todo
    BY <1>1, <2>2 DEF MainHolds, Present
  <2>6. mpc = "fill" => x \notin todo
    BY <1>1, <2>2 DEF MainHolds, Present
  <2> QED
    BY <2>1, <2>2, <2>4, <2>5, <2>6 DEF MainWrites
<1> QED
  BY <1>2, <1>3, StepKinds DEF PlannedTrees

-----------------------------------------------------------------------------
(* Threads.                                                                *)

(* A worker that has no recovery to finish stays with its bead.            *)
LEMMA SubjectKept ==
    ASSUME ShInv, NEW b \in Ids, Worker(b)
    PROVE  subj'[b] = b
<1>1. Straight(b)
  BY DEF ShInv, Threads
<1>2. subj' = subj
  BY <1>1 DEF Straight, Worker, StartWithoutWorktree, Start, SaveFeatureRoot, Launch, AgentReturns,
         UnsupportedVerdict, FinalizeBlocked, CheckCorrectives, CreateCorrective, LinkCorrective,
         FinalizeFailed, CreateRecovery, SaveFailed, CommitFails, FinalizeDone, LoadOriginal,
         CompleteOriginal, LoadParent, RequeueParent, ListForFollowups, CreateSubtask, RefuseSubtask, PlanFollowups,
         FollowupTest, FollowupDocs, FollowupReview
<1> QED
  BY <1>1, <1>2 DEF Straight

(* Every step keeps the workers to their own beads.                        *)
LEMMA StraightStep ==
    ASSUME PlannedTrees, ShInv, [Next]_vars, NEW b \in Ids
    PROVE  Straight(b)' /\ WillWrite(b)'
<1>1. Straight(b) /\ WillWrite(b) /\ HInv /\ MainHolds
  BY DEF ShInv, HInv, Threads
<1>2. Kind[b] = "recovery" => ~Present(disk'[b])
  <2>1. ASSUME NEW a \in FollowupAgents PROVE SuffixOf(a) # "recovery"
    BY DEF SuffixOf
  <2> QED
    BY <1>1, <2>1, Appears DEF Straight
<1>3. Same(b) => Straight(b)' /\ WillWrite(b)'
  BY <1>1, <1>2 DEF Same, Straight, WillWrite
<1>4. ASSUME NEW w \in Ids, Worker(w) PROVE Straight(b)' /\ WillWrite(b)'
  <2>1. CASE w # b
    BY <1>3, <1>4, <2>1, WorkerReads DEF OthersKept, Same
  <2>2. CASE w = b
    <3>1. WillWrite(b)'
      BY <1>1, <1>4, <2>2, WorkerWillWrite
    <3>2. OwnStep(b) /\ subj'[b] = b /\ obj[b] \in Bead
      BY <1>4, <2>2, WorkerOwnSteps, SubjectKept, HeldCopies DEF PlannedTrees, ShInv
    <3>3. Running(Populated(b, disk, obj[b])).status = "in_progress"
      BY <3>2, PopulatedType DEF Running, Bead, ShInv, HInv, TypeOK
    <3>4. CASE Enters(b)
      <4>1. wpc'[b] \in {"rootSave", "launch", "raised"} /\ obj'[b].status = "in_progress"
        BY <3>3, <3>4 DEF Enters
      <4> QED
        BY <1>2, <3>1, <3>2, <4>1 DEF Straight, AtWork, FollowSteps, PlannedSteps
    <3>5. CASE Proceeds(b)
      BY <1>1, <1>2, <3>1, <3>2, <3>5 DEF Proceeds, Straight, AtWork, FollowSteps, PlannedSteps
    <3>6. CASE Halts(b)
      BY <1>2, <3>1, <3>2, <3>6 DEF Halts, Straight, AtWork, FollowSteps, PlannedSteps
    <3>7. CASE Completes(b)
      BY <1>2, <3>1, <3>2, <3>7 DEF Completes, Straight, AtWork, FollowSteps, PlannedSteps
    <3>8. CASE Follows(b)
      BY <1>1, <1>2, <3>1, <3>2, <3>8 DEF Follows, Straight, AtWork, DoneSteps, FollowSteps, PlannedSteps
    <3> QED
      BY <3>1, <3>2, <3>4, <3>5, <3>6, <3>7, <3>8 DEF OwnStep
  <2> QED
    BY <2>1, <2>2
<1>5. CASE Main \/ Quiet \/ Crash
  <2>1. Submitted(b) => Straight(b)' /\ WillWrite(b)'
    BY <1>1, <1>2 DEF Submitted, Straight, WillWrite, MainHolds, AtWork, FollowSteps, PlannedSteps
  <2>2. Reaped(b) => Straight(b)' /\ WillWrite(b)'
    BY <1>2 DEF Reaped, Straight, WillWrite, AtWork, FollowSteps, PlannedSteps
  <2> QED
    BY <1>3, <1>5, <2>1, <2>2, PoolStep
<1> QED
  BY <1>4, <1>5, StepKinds DEF PlannedTrees

(* A worker takes the followups in their order.                            *)
LEMMA WorkerTurns ==
    ASSUME ShInv, NEW b \in Ids, Worker(b)
    PROVE  /\ wpc[b] = "fuTest" => wpc'[b] = "fuDocs"
           /\ wpc[b] = "fuDocs" => wpc'[b] = "fuReview"
           /\ wpc[b] = "fuReview" => wpc'[b] \in {"ended", "raised"}
<1>1. \A s : Goto(b, s) => wpc'[b] = s
  BY DEF ShInv, HInv, TypeOK, Goto
<1> QED
  BY <1>1 DEF Worker, StartWithoutWorktree, Start, SaveFeatureRoot, Launch, AgentReturns,
         UnsupportedVerdict, FinalizeBlocked, CheckCorrectives, CreateCorrective, LinkCorrective,
         FinalizeFailed, CreateRecovery, SaveFailed, CommitFails, FinalizeDone, LoadOriginal,
         CompleteOriginal, LoadParent, RequeueParent, ListForFollowups, CreateSubtask, RefuseSubtask, PlanFollowups,
         FollowupTest, FollowupDocs, FollowupReview, Finalizing

(* Every step keeps to the followups that workers settled on.              *)
LEMMA AimedStep ==
    ASSUME PlannedTrees, ShInv, [Next]_vars, NEW b \in Ids, wpc'[b] \in PlannedSteps, NEW a \in FollowupAgents
    PROVE  LET c == plan'[b][a] IN
           IF Exists(seen'[b], c)
           THEN b \in seen'[b][c].deps /\ UsesPlannerOwned(b)
           ELSE Parent[c] = b /\ (a \in Ahead(b)' => ~Exists(disk', c))
<1> DEFINE c == plan[b][a]
<1>1. TypeOK /\ OnFile /\ WorkerHolds(b) /\ Straight(b) /\ Aimed(b)
  BY DEF ShInv, HInv, Threads
<1>2. SuffixOf(a) \notin {"corrective", "subtask"} /\ \A o \in FollowupAgents : SuffixOf(o) = SuffixOf(a) => o = a
  BY DEF SuffixOf, FollowupAgents
(* What is still to be created stays absent until b creates it.            *)
<1>3. ASSUME wpc[b] \in PlannedSteps, a \in Ahead(b), a \in Ahead(b)', ~Exists(seen[b], c)
      PROVE  ~Exists(disk', c)
  <2>1. Parent[c] = b /\ ~Exists(disk, c) /\ Kind[c] = SuffixOf(a)
    BY <1>1, <1>3 DEF Aimed, WorkerHolds
  <2>2. CASE c \in Ids
    <3>1. ~Present(disk[c])
      BY <2>1, <2>2 DEF Exists, Present
    <3>2. ~Present(disk'[c])
      BY <1>2, <1>3, <2>1, <2>2, <3>1, Appears
    <3> QED
      BY <3>2 DEF Exists, Present
  <2> QED
    BY <2>2 DEF Exists
<1>4. ASSUME wpc[b] \in PlannedSteps, plan'[b] = plan[b], seen'[b] = seen[b], Ahead(b)' \subseteq Ahead(b)
      PROVE  IF Exists(seen'[b], plan'[b][a])
             THEN b \in seen'[b][plan'[b][a]].deps /\ UsesPlannerOwned(b)
             ELSE Parent[plan'[b][a]] = b /\ (a \in Ahead(b)' => ~Exists(disk', plan'[b][a]))
  BY <1>1, <1>3, <1>4 DEF Aimed
<1>5. ASSUME NEW w \in Ids, Worker(w), w # b \/ wpc[b] \in PlannedSteps
      PROVE  wpc[b] \in PlannedSteps /\ plan'[b] = plan[b] /\ seen'[b] = seen[b] /\ Ahead(b)' \subseteq Ahead(b)
  <2>1. CASE w # b
    BY <1>5, <2>1, WorkerReads DEF OthersKept, Ahead
  <2>2. CASE w = b /\ wpc[b] \in PlannedSteps
    <3>1. plan'[b] = plan[b] /\ seen'[b] = seen[b]
      BY <1>5, <2>2, WorkerReads
    <3>2. wpc[b] = "fuTest" => wpc'[b] \in {"fuTest", "fuDocs"}
      BY <1>1, <1>5, <2>2, WorkerTurns
    <3>3. wpc[b] = "fuDocs" => wpc'[b] \in {"fuDocs", "fuReview"}
      BY <1>1, <1>5, <2>2, WorkerTurns
    <3>4. wpc[b] = "fuReview" => wpc'[b] \notin PlannedSteps
      BY <1>1, <1>5, <2>2, WorkerTurns DEF PlannedSteps
    <3> QED
      BY <2>2, <3>1, <3>2, <3>3, <3>4 DEF Ahead, PlannedSteps
  <2> QED
    BY <1>5, <2>1, <2>2
<1>6. CASE PlanFollowups(b)
  <2>1. /\ seen' = seen /\ disk' = disk /\ wpc[b] = "fuPlan" /\ subj[b] = b
        /\ plan'[b][a] \in FollowupIds(b, a) /\ plan'[b][a] \in Ids
    <3>1. PICK t \in FollowupIds(b, "tester"), d \in FollowupIds(b, "documentation"), r \in FollowupIds(b, "review") :
             plan' = [plan EXCEPT ![b] = [NoPlan EXCEPT !["tester"] = t, !["documentation"] = d, !["review"] = r]]
      BY <1>6 DEF PlanFollowups
    <3>2. plan'[b] = [NoPlan EXCEPT !["tester"] = t, !["documentation"] = d, !["review"] = r]
      BY <1>1, <3>1 DEF TypeOK
    <3>3. plan'[b][a] \in FollowupIds(b, a)
      BY <3>2 DEF NoPlan, FollowupAgents
    <3>4. FollowupIds(b, a) \subseteq Ids
      BY DEF FollowupIds, ExistingFollowup, PlannerOwned, LegacyFollowup, Children, SharedFollowups
    <3> QED
      BY <1>1, <1>6, <3>3, <3>4 DEF PlanFollowups, Straight
  <2> DEFINE e == plan'[b][a]
  <2>2. Developer(b) /\ ~IsCorrective(b)
    BY <1>1, <2>1 DEF Straight, FollowSteps
  <2>3. seen[b] # Nothing
    BY <1>1, <2>1 DEF TypeOK, ReadingSteps
  <2>4. \A x \in Ids : Exists(seen[b], x) => Exists(disk, x)
    BY <1>1, <2>3, HeldCopies DEF ShInv, OnFile, Exists, Present
  <2>5. LegacyFollowup(seen[b], b, a) = {}
    <3>1. LegacyFollowup(seen[b], b, a) \subseteq LegacyFollowup(disk, b, a)
      BY <2>4 DEF LegacyFollowup, Children
    <3>2. LegacyFollowup(disk, b, a) = {}
      BY <2>1, <2>2 DEF ShInv, Developers, Unfollowed
    <3> QED
      BY <3>1, <3>2
  <2>6. CASE ExistingFollowup(seen[b], b, a) # {}
    <3>1. e \in SharedFollowups(seen[b], b) /\ e \in PlannerOwned(seen[b], b, a)
      BY <2>1, <2>5, <2>6 DEF FollowupIds, ExistingFollowup
    <3> QED
      BY <2>1, <3>1 DEF SharedFollowups, PlannerOwned
  <2>7. CASE ExistingFollowup(seen[b], b, a) = {}
    <3>1. IsFreshChild(disk, b, SuffixOf(a), e)
      BY <2>1, <2>7 DEF FollowupIds
    <3> QED
      BY <2>1, <2>4, <3>1 DEF IsFreshChild, Children
  <2> QED
    BY <2>6, <2>7
<1>7. CASE Main \/ Quiet \/ Crash
  <2>1. Same(b)
    BY <1>7, PoolStep DEF Submitted, Reaped, PlannedSteps
  <2> QED
    BY <1>4, <2>1 DEF Same, Ahead
<1>8. CASE \E w \in Ids : Worker(w)
  <2>1. PICK w \in Ids : Worker(w)
    BY <1>8
  <2>2. w # b \/ wpc[b] \in PlannedSteps \/ PlanFollowups(b)
    BY <2>1, WorkerReads
  <2> QED
    BY <1>4, <1>5, <1>6, <2>1, <2>2
<1> QED
  BY <1>7, <1>8, StepKinds DEF PlannedTrees

-----------------------------------------------------------------------------
(* What the main thread turns to next.                                     *)
MainTurn ==
    /\ mpc' \in Reevaluating => \/ todo' \subseteq BlockedBeads(disk')
                                \/ mpc \in Reevaluating /\ todo' \subseteq todo
    /\ mpc' \in {"reevalCreate", "reevalLink"} =>
           \/ mpc = "reeval" /\ target' \in todo /\ disk' = disk
           \/ mpc \in {"reevalCreate", "reevalLink"} /\ target' = target
    /\ mpc' = "fill" => \/ /\ mpc = "fill" /\ snap' = snap /\ started' = started
                           /\ todo' \subseteq todo /\ selected' \subseteq selected \cup todo
                        \/ /\ BeginFill /\ selected' = {} /\ started' = started /\ disk' = disk /\ UNCHANGED wvars
                           /\ todo' \subseteq ReadyBeads(disk) \ started
                           /\ snap' = View(disk, todo' \cup ActiveBeads(disk))
                           /\ MaxWorkers # 0
    /\ mpc' \in {"idle", "cycle"} => \/ InFlight = {} /\ UNCHANGED wvars
                                     \/ MaxWorkers = 0
                                     \/ \A b \in Ids : wpc'[b] = "none"
    /\ selected' # selected => mpc = "fill" \/ selected' = {}
    /\ \/ started' = started
       \/ started' = {} /\ mpc = "cycle"
       \/ started' = {} /\ mpc' = "idle" /\ \A b \in Ids : wpc'[b] = "none"
       \/ started' = started \cup selected /\ mpc = "fill" /\ mpc' = "wait"

(* The main thread takes these turns.                                      *)
LEMMA MainTurns ==
    ASSUME ShInv, Main \/ Quiet \/ Crash
    PROVE  MainTurn
<1>1. TypeOK /\ MainHolds
  BY DEF ShInv, HInv
<1>2. Pool
  BY DEF ShInv
<1>3. CASE BeginCycle
  BY <1>3 DEF BeginCycle, MainTurn, Reevaluating
<1>4. ASSUME NEW b \in Ids, RetryTransient(b) \/ ReevaluateCorrective(b) PROVE MainTurn
  <2>1. \/ mpc' = mpc /\ target' = target
        \/ mpc' = "reevalCreate" /\ target' = b /\ disk' = disk
    BY <1>4 DEF RetryTransient, ReevaluateCorrective, Examine
  <2> QED
    BY <1>4, <2>1 DEF RetryTransient, ReevaluateCorrective, Examine, MainTurn, Reevaluating
<1>5. CASE ReevalCreate \/ ReevalLink
  BY <1>5 DEF ReevalCreate, ReevalLink, MainTurn, Reevaluating
<1>6. CASE BeginFill
  <2>1. selected = {} /\ mpc = "reeval"
    BY <1>1, <1>6 DEF BeginFill, MainHolds
  <2> QED
    BY <1>2, <1>6, <2>1 DEF BeginFill, MainTurn, Reevaluating, Pool
<1>7. ASSUME NEW b \in Ids, DeferBead(b) PROVE MainTurn
  BY <1>7 DEF DeferBead, NextCandidate, MainTurn, Reevaluating
<1>8. ASSUME NEW b \in Ids, SelectBead(b) PROVE MainTurn
  BY <1>8 DEF SelectBead, NextCandidate, MainTurn, Reevaluating
<1>9. CASE EndFill
  <2>1. selected = {} /\ InFlight = {} /\ EndCycle => MainTurn
    BY <1>9 DEF EndFill, EndCycle, MainTurn, Reevaluating
  <2>2. Submit => MainTurn
    BY <1>9 DEF EndFill, Submit, MainTurn, Reevaluating
  <2> QED
    BY <1>9, <2>1, <2>2 DEF EndFill
<1>10. CASE WaitCompletion
  <2>1. mpc = "wait" /\ selected' = selected /\ started' = started /\ disk' = disk
        /\ (mpc' = "abort" \/ (mpc' = "reeval" /\ todo' = BlockedBeads(disk)))
    BY <1>10 DEF WaitCompletion
  <2> QED
    BY <2>1 DEF MainTurn, Reevaluating
<1>11. CASE Abort
  <2>1. mpc' = "idle" /\ selected' = selected /\ started' = started
    BY <1>11 DEF Abort
  <2>2. \A b \in Ids : wpc'[b] = "none"
    BY <1>11 DEF Abort, Reap, InFlight
  <2> QED
    BY <2>1, <2>2 DEF MainTurn, Reevaluating
<1>12. CASE Quiet
  <2>1. mpc = "idle" => InFlight = {}
    BY <1>2 DEF Pool
  <2>2. CASE mpc' = mpc
    <3>1. mpc \in {"idle", "cycle"} => InFlight = {}
      BY <1>2 DEF Pool
    <3> QED
      BY <1>12, <2>2, <3>1, <1>2 DEF Quiet, MainTurn, Reevaluating
  <2> QED
    BY <1>12, <2>1, <2>2 DEF Quiet, MainTurn, Reevaluating
<1>13. CASE Crash
  BY <1>13 DEF Crash, Reap, MainTurn, Reevaluating
<1> QED
  BY <1>3, <1>4, <1>5, <1>6, <1>7, <1>8, <1>9, <1>10, <1>11, <1>12, <1>13 DEF Main

-----------------------------------------------------------------------------
(* Developers.                                                             *)

(* Of a developer bead that has a file, the others write nothing.          *)
LEMMA DeveloperFile ==
    ASSUME PlannedTrees, ShInv, NEW s \in Ids, Developer(s), NEW b \in Ids, Worker(b), b # s
    PROVE  disk'[s] = disk[s] \/ (~Present(disk[s]) /\ New(disk'[s]))
<1>1. Writes(b, s)
  BY WorkerWrites DEF PlannedTrees
<1> QED
  BY <1>1 DEF Writes, Requeues, Syncs, Creates, Developer, Mutating, MutatingAgents, Verdicts, FollowupAgents, Exists, Present

(* Its own worker steps only as the file says.                             *)
LEMMA DeveloperOwn ==
    ASSUME PlannedTrees, ShInv, NEW s \in Ids, Developer(s), Worker(s)
    PROVE  \/ /\ wpc[s] \in Entering /\ wpc'[s] \in Entering \cup {"raised"} /\ disk[s].status = "ready"
              /\ disk'[s].status = "ready"
           \/ /\ wpc[s] = "begin" /\ wpc'[s] = "ended" /\ disk[s].status = "ready"
              /\ disk'[s].status = "blocked"
           \/ /\ wpc[s] = "launch" /\ wpc'[s] = "agent" /\ disk[s].status = "ready"
              /\ disk'[s].status = "in_progress"
           \/ /\ wpc[s] \in AtWork /\ wpc'[s] \in {"final", "raised", "failSave"}
              /\ disk[s].status = "in_progress" /\ disk'[s] = disk[s]
           \/ /\ wpc[s] \in {"final", "failSave"} /\ wpc'[s] = "ended"
              /\ disk[s].status = "in_progress" /\ disk'[s].status = "blocked"
           \/ Completes(s) /\ disk[s].status = "in_progress"
           \/ Follows(s) /\ disk[s].status = "done"
<1>1. /\ OwnStep(s) /\ Straight(s) /\ WillWrite(s) /\ Steady(s)
  BY WorkerOwnSteps DEF PlannedTrees, ShInv, Threads, Developers
<1>2. Mutating(s) /\ ~Verdicts(s)
  BY DEF Developer, Mutating, MutatingAgents, Verdicts
<1>3. CASE Enters(s)
  <2>1. obj[s] \in Bead /\ Populated(s, disk, obj[s]).status = obj[s].status
    <3>1. obj[s] \in Bead
      BY HeldCopies DEF ShInv
    <3> QED
      BY <3>1 DEF Populated, Bead
  <2> QED
    BY <1>1, <1>3, <2>1 DEF Enters, Straight, Steady, Entering
<1>4. CASE Proceeds(s)
  BY <1>1, <1>2, <1>4 DEF Proceeds, Straight, Steady, Entering, AtWork
<1>5. CASE Halts(s)
  BY <1>1, <1>2, <1>5 DEF Halts, WillWrite, Steady, Entering, AtWork
<1>6. CASE Completes(s) \/ Follows(s)
  BY <1>1, <1>6 DEF Completes, Follows, Steady, AtWork
<1> QED
  BY <1>1, <1>3, <1>4, <1>5, <1>6 DEF OwnStep

(* The main thread writes a developer bead while nobody works on it, and   *)
(* then it is ready or blocked, or it forgets its lease.                   *)
LEMMA DeveloperMain ==
    ASSUME PlannedTrees, ShInv, NEW s \in Ids, Developer(s), Main \/ Quiet \/ Crash
    PROVE  \/ disk'[s] = disk[s]
           \/ /\ InFlight = {} /\ mpc = "cycle" /\ mpc' = "reeval"
              /\ disk'[s].touched = disk[s].touched
              /\ disk'[s].status = IF disk[s].status = "in_progress" THEN "ready" ELSE disk[s].status
           \/ /\ mpc = "reeval" /\ todo' = todo \ {s} /\ disk[s].status = "blocked"
              /\ disk'[s].status \in {"ready", "blocked"}
           \/ mpc = "reevalLink" /\ disk[s].status = "blocked" /\ disk'[s].status = "blocked"
           \/ mpc = "fill" /\ wpc[s] = "none" /\ disk[s].status = "ready" /\ disk'[s].status = "ready"
           \/ ~Present(disk[s]) /\ New(disk'[s])
<1>1. MainWrites(s) /\ MainHolds /\ Pool /\ Steady(s) /\ disk[s] \in Bead
  BY MainWriting, StoreTypes DEF ShInv, HInv, TypeOK, Developers
<1>2. ASSUME disk'[s] = [disk[s] EXCEPT !.lease = FALSE, !.status = IF @ = "in_progress" THEN "ready" ELSE @]
      PROVE  /\ disk'[s].touched = disk[s].touched
             /\ disk'[s].status = IF disk[s].status = "in_progress" THEN "ready" ELSE disk[s].status
  BY <1>1, <1>2 DEF Bead
<1> QED
  BY <1>1, <1>2 DEF MainWrites, MainHolds, Pool, Steady, Reevaluating, Exists, Present

(* A developer bead that is done stays so, with the files it changed.      *)
LEMMA DoneStays ==
    ASSUME PlannedTrees, ShInv, [Next]_vars, NEW s \in Ids, Developer(s), IsDone(disk, s)
    PROVE  IsDone(disk', s) /\ disk'[s].touched = disk[s].touched
<1>1. disk[s].status = "done" /\ Present(disk[s])
  BY DEF IsDone, Exists, Present
<1>2. CASE Worker(s)
  BY <1>1, <1>2, DeveloperOwn DEF Completes, Follows, IsDone, Exists
<1>3. CASE \E b \in Ids : Worker(b) /\ b # s
  BY <1>1, <1>3, DeveloperFile DEF IsDone, Exists
<1>4. CASE Main \/ Quiet \/ Crash
  BY <1>1, <1>4, DeveloperMain DEF IsDone, Exists, Present
<1> QED
  BY <1>2, <1>3, <1>4, StepKinds DEF PlannedTrees

(* A developer bead that is done was so before, or has just been completed *)
(* by its worker.                                                          *)
LEMMA DoneBefore ==
    ASSUME PlannedTrees, ShInv, [Next]_vars, NEW s \in Ids, Developer(s), IsDone(disk', s)
    PROVE  IsDone(disk, s) \/ (Worker(s) /\ Completes(s))
<1>1. disk'[s].status = "done"
  BY DEF IsDone
<1>2. CASE Worker(s)
  BY <1>1, <1>2, DeveloperOwn DEF IsDone, Exists
<1>3. CASE \E b \in Ids : Worker(b) /\ b # s
  BY <1>1, <1>3, DeveloperFile DEF IsDone, Exists, New
<1>4. CASE Main \/ Quiet \/ Crash
  BY <1>1, <1>4, DeveloperMain DEF IsDone, Exists, New
<1> QED
  BY <1>2, <1>3, <1>4, StepKinds DEF PlannedTrees

(* Every step leaves developer beads to their workers.                     *)
LEMMA SteadyStep ==
    ASSUME PlannedTrees, ShInv, [Next]_vars, NEW s \in Ids, Developer(s)
    PROVE  Steady(s)'
<1>1. Steady(s) /\ Straight(s) /\ Pool /\ MainHolds /\ TypeOK /\ OnFile
  BY DEF ShInv, HInv, Threads, Developers
<1>2. UsesPlannerOwned(s) /\ IsDone(disk', s) => disk'[s].touched # {}
  <2>1. IsDone(disk, s) /\ UsesPlannerOwned(s) => disk'[s].touched # {}
    BY <1>1, DoneStays DEF Steady
  <2>2. Completes(s) /\ UsesPlannerOwned(s) => disk'[s].touched # {}
    BY <1>1 DEF Completes, Straight, PlannedTrees, DevelopersTouch
  <2> QED
    BY <2>1, <2>2, DoneBefore
<1>3. CASE \E b \in Ids : Worker(b) /\ b # s
  <2>1. PICK b \in Ids : Worker(b) /\ b # s
    BY <1>3
  <2>2. wpc'[s] = wpc[s] /\ UNCHANGED mvars
    BY <2>1, WorkerReads DEF OthersKept
  <2>3. disk'[s] = disk[s] \/ (~Present(disk[s]) /\ New(disk'[s]))
    BY <2>1, DeveloperFile
  <2> QED
    BY <1>1, <1>2, <2>2, <2>3 DEF Steady, mvars, Present
<1>4. CASE Worker(s)
  <2>1. UNCHANGED mvars /\ wpc[s] # "none"
    BY <1>4, WorkerReads
  <2>2. mpc = "fill" => s \notin todo \cup selected
    BY <1>1, <2>1 DEF MainHolds
  <2>3. \/ disk[s].status \notin {"ready", "in_progress"} /\ disk'[s] = disk[s]
        \/ disk[s].status \in {"ready", "in_progress"}
    BY <1>4, DeveloperOwn DEF Follows
  <2>4. /\ wpc'[s] \in Entering => disk'[s].status = "ready"
        /\ wpc'[s] \in AtWork \cup {"failSave"} => disk'[s].status = "in_progress"
        /\ wpc'[s] \in DoneSteps => disk'[s].status = "done"
    BY <1>1, <1>4, DeveloperOwn DEF Entering, AtWork, Completes, Follows, DoneSteps, FollowSteps, PlannedSteps
  <2> QED
    BY <1>1, <1>2, <2>1, <2>2, <2>3, <2>4 DEF Steady, mvars
<1>5. CASE Main \/ Quiet \/ Crash
  <2>1. MainTurn
    BY <1>5, MainTurns
  <2>2. wpc[s] # "none" => s \in InFlight
    BY DEF InFlight
  <2>3. Same(s) => /\ wpc'[s] \in Entering => disk'[s].status = "ready"
                   /\ wpc'[s] \in AtWork \cup {"failSave"} => disk'[s].status = "in_progress"
                   /\ wpc'[s] \in DoneSteps => disk'[s].status = "done"
    <3>1. Same(s) /\ wpc'[s] \in Entering \cup AtWork \cup {"failSave"} \cup DoneSteps =>
             wpc'[s] = wpc[s] /\ wpc[s] # "none" /\ Present(disk[s]) /\ disk[s].status # "blocked"
      BY <1>1, FlightPresent DEF Same, Entering, AtWork, DoneSteps, FollowSteps, PlannedSteps, Steady
    <3> QED
      BY <1>1, <1>5, <2>2, <3>1, DeveloperMain DEF Steady
  <2>4. Submitted(s) => disk'[s].status = "ready" /\ wpc'[s] = "begin"
    BY <1>1 DEF Submitted, Steady
  <2>5. /\ wpc'[s] \in Entering => disk'[s].status = "ready"
        /\ wpc'[s] \in AtWork \cup {"failSave"} => disk'[s].status = "in_progress"
        /\ wpc'[s] \in DoneSteps => disk'[s].status = "done"
    BY <1>5, <2>3, <2>4, PoolStep DEF Reaped, Entering, AtWork, DoneSteps, FollowSteps, PlannedSteps
  <2>6. mpc' \in Reevaluating /\ s \in todo' => disk'[s].status = "blocked"
    <3>1. todo' \subseteq BlockedBeads(disk') /\ s \in todo' => disk'[s].status = "blocked"
      BY DEF BlockedBeads
    <3>2. mpc \in Reevaluating /\ s \in todo /\ s \in todo' => disk'[s].status = "blocked"
      BY <1>1, <1>5, DeveloperMain DEF Reevaluating, Steady, Present
    <3> QED
      BY <2>1, <3>1, <3>2 DEF MainTurn
  <2>7. mpc' \in {"reevalCreate", "reevalLink"} /\ s = target' => disk'[s].status = "blocked"
    <3>1. mpc = "reeval" /\ s \in todo /\ disk' = disk => disk'[s].status = "blocked"
      BY <1>1 DEF Steady, Reevaluating
    <3>2. mpc \in {"reevalCreate", "reevalLink"} /\ s = target => disk'[s].status = "blocked"
      BY <1>1, <1>5, DeveloperMain DEF Steady, Present
    <3> QED
      BY <2>1, <3>1, <3>2 DEF MainTurn
  <2>8. mpc' = "fill" /\ s \in todo' \cup selected' => disk'[s].status = "ready"
    <3>1. mpc = "fill" /\ s \in todo \cup selected => disk'[s].status = "ready"
      BY <1>1, <1>5, DeveloperMain DEF Steady, Present
    <3>2. s \in ReadyBeads(disk) /\ disk' = disk => disk'[s].status = "ready"
      BY DEF ReadyBeads
    <3> QED
      BY <2>1, <3>1, <3>2 DEF MainTurn
  <2> QED
    BY <1>2, <2>5, <2>6, <2>7, <2>8 DEF Steady
<1> QED
  BY <1>3, <1>4, <1>5, StepKinds DEF PlannedTrees

(* A developer bead gets followups of its own only when it is done.        *)
LEMMA UnfollowedStep ==
    ASSUME PlannedTrees, ShInv, [Next]_vars, NEW s \in Ids, Developer(s)
    PROVE  Unfollowed(s)'
<1>1. Steady(s) /\ Unfollowed(s) /\ Straight(s)
  BY DEF ShInv, HInv, Threads, Developers
<1> SUFFICES ASSUME ~IsCorrective(s), NEW a \in FollowupAgents, NEW c \in LegacyFollowup(disk', s, a)
             PROVE  IsDone(disk', s) /\ wpc'[s] \notin {"fuList", "fuPlan"}
  BY DEF Unfollowed
<1>2. /\ c \in Ids /\ Parent[c] = s /\ Kind[c] = SuffixOf(a) /\ Rank[c] = 1 /\ Agent[c] = a
      /\ Present(disk'[c])
  BY DEF LegacyFollowup, Children, Exists, Present
<1>3. IsDone(disk, s) /\ wpc[s] \notin {"fuList", "fuPlan"}
  <2>1. CASE Present(disk[c])
    <3>1. c \in LegacyFollowup(disk, s, a)
      BY <1>2, <2>1 DEF LegacyFollowup, Children, Exists, Present
    <3> QED
      BY <1>1, <3>1 DEF Unfollowed
  <2>2. CASE ~Present(disk[c])
    <3>1. SuffixOf(a) \notin {"corrective", "subtask"}
      BY DEF SuffixOf
    <3>2. PICK w \in Ids : Worker(w) /\ wpc[w] \in PlannedSteps /\ Parent[c] = w
      BY <1>2, <2>2, <3>1, Appears
    <3> QED
      BY <1>1, <1>2, <3>2 DEF Steady, DoneSteps, FollowSteps, PlannedSteps, IsDone, Exists
  <2> QED
    BY <2>1, <2>2
<1>4. IsDone(disk', s)
  BY <1>3, DoneStays
<1>5. CASE Worker(s)
  BY <1>3, <1>4, <1>5, DeveloperOwn DEF IsDone, Entering, Completes, Follows
<1>6. CASE \E b \in Ids : Worker(b) /\ b # s
  BY <1>3, <1>4, <1>6, WorkerReads DEF OthersKept
<1>7. CASE Main \/ Quiet \/ Crash
  BY <1>3, <1>4, <1>7, PoolStep DEF Same, Submitted, Reaped
<1> QED
  BY <1>4, <1>5, <1>6, <1>7, StepKinds DEF PlannedTrees

-----------------------------------------------------------------------------
(* Dependencies.                                                           *)

(* The file of a mutating bead keeps its dependencies.                     *)
LEMMA FileDeps ==
    ASSUME PlannedTrees, ShInv, [Next]_vars, NEW x \in Ids, Mutating(x), Present(disk[x])
    PROVE  disk'[x].deps = disk[x].deps
<1>1. \A r \in CopiesOf(x) : Present(r) => r.deps = disk[x].deps
  BY DEF ShInv, DepsFixed
<1>2. TypeOK /\ MainHolds /\ disk[x] \in Bead
  BY StoreTypes DEF ShInv, HInv, TypeOK
<1>3. \A b \in Ids : seen[b] # Nothing => seen[b][x] \in Bead /\ seen[b][x] \in CopiesOf(x)
  BY HeldCopies DEF ShInv
<1>4. CASE Worker(x)
  <2>1. OwnStep(x) /\ wpc[x] # "none"
    BY <1>4, WorkerOwnSteps, WorkerReads DEF PlannedTrees
  <2>2. obj[x] \in Bead /\ obj[x].deps = disk[x].deps
    BY <1>1, <2>1, FlightPresent, HeldCopies DEF ShInv
  <2>3. Populated(x, disk, obj[x]).deps = obj[x].deps
    BY <2>2 DEF Populated, Bead
  <2> QED
    BY <2>1, <2>2, <2>3 DEF OwnStep, Enters, Proceeds, Halts, Completes, Follows
<1>5. ASSUME NEW b \in Ids, Worker(b), b # x PROVE disk'[x].deps = disk[x].deps
  <2>1. Writes(b, x)
    BY <1>5, WorkerWrites DEF PlannedTrees
  <2>2. \A r \in Bead : \A c : Requeued(r, c).deps = r.deps
    BY DEF Requeued, Bead
  <2>3. \A r \in Bead : \A q : Synced(r, q).deps = r.deps
    BY DEF Synced, Bead
  <2>4. Requeues(b, x) => disk'[x].deps = disk[x].deps
    BY <1>1, <1>3, <2>2 DEF Requeues, Present
  <2>5. Syncs(b, x) => disk'[x].deps = disk[x].deps
    BY <1>1, <1>3, <2>3 DEF Syncs, Exists, Present
  <2> QED
    BY <2>1, <2>4, <2>5 DEF Writes, Creates, Exists, Present
<1>6. CASE Main \/ Quiet \/ Crash
  <2>1. MainWrites(x) /\ snap[x] \in CopiesOf(x)
    BY <1>2, <1>6, MainWriting, SnapCopies
  <2>2. [disk[x] EXCEPT !.lease = FALSE, !.status = IF @ = "in_progress" THEN "ready" ELSE @].deps = disk[x].deps
    BY <1>2 DEF Bead
  <2>3. Present(snap[x]) => snap[x].deps = disk[x].deps
    BY <1>1, <2>1
  <2>4. \/ mpc = "reeval" /\ x \in todo
        \/ mpc = "reevalLink" /\ x = target
        \/ mpc = "fill" /\ x \in todo
        => Present(snap[x])
    BY <1>2 DEF MainHolds, Present
  <2> QED
    BY <2>1, <2>2, <2>3, <2>4 DEF MainWrites, Exists, Present
<1> QED
  BY <1>4, <1>5, <1>6, StepKinds DEF PlannedTrees

(* And so do its copies.                                                   *)
LEMMA DepsStep ==
    ASSUME PlannedTrees, ShInv, [Next]_vars
    PROVE  DepsFixed'
<1> SUFFICES ASSUME NEW x \in Ids, Mutating(x), NEW q \in CopiesOf(x)', Present(q)
             PROVE  q.deps = disk'[x].deps
  BY DEF DepsFixed
<1>1. Flow /\ OnFile /\ HInv
  BY StepFlow DEF ShInv, HInv
<1>2. q # disk'[x] => Derived(x, q)
  BY <1>1, FlowCopies
<1>3. Derived(x, q) => Present(disk[x]) /\ q.deps = disk[x].deps
  <2>1. \A r \in CopiesOf(x) : Present(r) => Present(disk[x]) /\ r.deps = disk[x].deps
    BY <1>1 DEF ShInv, DepsFixed, OnFile
  <2>2. ~Present(NoBead)
    BY DEF NoBead, Present
  <2> QED
    BY <2>1, <2>2 DEF Derived, Kin
<1> QED
  BY <1>2, <1>3, FileDeps

-----------------------------------------------------------------------------
(* The pool.                                                               *)

(* What is in flight has been started in the cycle.                        *)
LEMMA PoolKept ==
    ASSUME PlannedTrees, ShInv, [Next]_vars
    PROVE  Pool'
<1>1. Pool /\ MainHolds /\ TypeOK
  BY DEF ShInv, HInv
<1>2. CASE \E b \in Ids : Worker(b)
  <2>1. PICK b \in Ids : Worker(b)
    BY <1>2
  <2>2. UNCHANGED mvars /\ b \in InFlight /\ \A x \in Ids \ {b} : wpc'[x] = wpc[x]
    BY <2>1, WorkerReads DEF OthersKept, InFlight
  <2>3. InFlight' \subseteq InFlight
    BY <2>2 DEF InFlight
  <2> QED
    BY <1>1, <2>2, <2>3 DEF Pool, mvars
<1>3. CASE Main \/ Quiet \/ Crash
  <2>1. MainTurn /\ \A b \in Ids : Same(b) \/ Submitted(b) \/ Reaped(b)
    BY <1>3, MainTurns, PoolStep
  <2>2. InFlight' \subseteq started'
    <3> SUFFICES ASSUME NEW b \in Ids, wpc'[b] # "none" PROVE b \in started'
      BY DEF InFlight
    <3>1. Submitted(b) => b \in started'
      BY DEF Submitted
    <3>2. Same(b) => b \in started /\ mpc # "cycle"
      BY <1>1 DEF Same, InFlight, Pool
    <3> QED
      BY <2>1, <3>1, <3>2 DEF MainTurn, Reaped
  <2>3. InFlight' # {} => mpc' \notin {"idle", "cycle"} /\ MaxWorkers # 0
    <3> SUFFICES ASSUME NEW b \in Ids, wpc'[b] # "none" PROVE mpc' \notin {"idle", "cycle"} /\ MaxWorkers # 0
      BY DEF InFlight
    <3>1. Submitted(b) => mpc' \notin {"idle", "cycle"} /\ MaxWorkers # 0
      BY <1>1 DEF Submitted, Pool
    <3>2. Same(b) => b \in InFlight /\ MaxWorkers # 0
      BY <1>1 DEF Same, InFlight, Pool
    <3> QED
      BY <2>1, <3>1, <3>2 DEF MainTurn, Reaped, wvars, InFlight
  <2>4. mpc' = "fill" => (todo' \cup selected') \cap started' = {} /\ MaxWorkers # 0
    BY <1>1, <2>1 DEF MainTurn, Pool
  <2> QED
    BY <2>2, <2>3, <2>4 DEF Pool
<1> QED
  BY <1>2, <1>3, StepKinds DEF PlannedTrees

-----------------------------------------------------------------------------
(* Copies of mutating beads that are not at work.                          *)

(* A bead not started in the cycle is no more in progress than it was.     *)
LEMMA UnderwayKept ==
    ASSUME PlannedTrees, ShInv, [Next]_vars, mpc # "cycle", NEW a \in Ids \ started, Mutating(a), Present(disk[a])
    PROVE  Underway(disk'[a]) <=> Underway(disk[a])
<1>1. Pool /\ Unstarted(a) /\ MainHolds /\ wpc[a] = "none"
  BY DEF ShInv, HInv, Timely, Pool, InFlight
<1>2. ASSUME NEW b \in Ids, Worker(b) PROVE Underway(disk'[a]) <=> Underway(disk[a])
  <2>1. Writes(b, a)
    BY <1>1, <1>2, WorkerWrites, WorkerReads DEF PlannedTrees
  <2>2. seen[b] # Nothing => seen[b][a] \in Bead
    BY HeldCopies DEF ShInv
  <2>3. Requeues(b, a) => (Underway(disk'[a]) <=> Underway(disk[a]))
    <3>1. Requeues(b, a) => ~Underway(disk'[a])
      BY <2>2 DEF Requeues, Requeued, Underway, Bead
    <3>2. Requeues(b, a) => Holding(b) /\ Present(seen[b][a]) /\ ~Underway(seen[b][a])
      BY DEF Requeues, Holding, Present, Underway
    <3> QED
      BY <1>1, <3>1, <3>2 DEF Unstarted
  <2>4. Syncs(b, a) => (Underway(disk'[a]) <=> Underway(disk[a]))
    <3>1. Syncs(b, a) => (Underway(disk'[a]) <=> Underway(seen[b][a]))
      BY <2>2 DEF Syncs, Synced, Underway, Bead
    <3>2. Syncs(b, a) => Holding(b) /\ Present(seen[b][a])
      BY DEF Syncs, Holding, Present, Exists
    <3> QED
      BY <1>1, <3>1, <3>2 DEF Unstarted
  <2> QED
    BY <2>1, <2>3, <2>4 DEF Writes, Creates, Exists, Present
<1>3. CASE Main \/ Quiet \/ Crash
  <2>1. MainWrites(a)
    BY <1>3, MainWriting
  <2> QED
    BY <1>1, <2>1 DEF MainWrites, MainHolds, Unstarted, Reevaluating, Underway, Exists, Present
<1> QED
  BY <1>2, <1>3, StepKinds DEF PlannedTrees

(* What workers hold afterwards is what they held or what is on file.      *)
LEMMA HoldingStep ==
    ASSUME PlannedTrees, ShInv, [Next]_vars, NEW b \in Ids, Holding(b)', NEW a \in Ids
    PROVE  \/ Holding(b) /\ seen'[b] = seen[b]
           \/ disk' = disk /\ (Present(seen'[b][a]) => seen'[b][a] = disk[a])
<1>1. ASSUME NEW w \in Ids, Worker(w)
      PROVE  \/ Holding(b) /\ seen'[b] = seen[b]
             \/ disk' = disk /\ (Present(seen'[b][a]) => seen'[b][a] = disk[a])
  <2>1. CASE w = b
    BY <1>1, <2>1, WorkerReads
  <2>2. CASE w # b
    BY <1>1, <2>2, WorkerReads DEF OthersKept, Holding
  <2> QED
    BY <2>1, <2>2
<1>2. CASE Main \/ Quiet \/ Crash
  BY <1>2, PoolStep DEF Same, Submitted, Reaped, Holding, PlannedSteps
<1> QED
  BY <1>1, <1>2, StepKinds DEF PlannedTrees

(* A record that a worker holds is of a bead that has a file.              *)
LEMMA HeldPresent ==
    ASSUME ShInv, NEW b \in Ids, Holding(b), NEW a \in Ids, Present(seen[b][a])
    PROVE  Present(disk[a])
<1>1. seen[b] # Nothing
  BY DEF ShInv, HInv, TypeOK, Holding, ReadingSteps, PlannedSteps
<1> QED
  BY <1>1, HeldCopies DEF ShInv, HInv, OnFile

(* What may be written back over a bead not started in this cycle stays as *)
(* much in progress as its file: who changes the one has read the other.   *)
LEMMA UnstartedStep ==
    ASSUME PlannedTrees, ShInv, [Next]_vars, NEW a \in Ids \ started', Mutating(a)
    PROVE  Unstarted(a)'
<1>1. TypeOK /\ Pool /\ MainHolds /\ OnFile
  BY DEF ShInv, HInv
<1>2. snap[a] \in CopiesOf(a)
  BY <1>1, SnapCopies
<1>3. CASE a \notin started /\ mpc # "cycle"
  <2>1. Unstarted(a) /\ (Present(disk[a]) => (Underway(disk'[a]) <=> Underway(disk[a])))
    BY <1>3, UnderwayKept DEF ShInv, Timely
  <2>2. ASSUME NEW b \in Ids, Holding(b)', Present(seen'[b][a])
        PROVE  Underway(seen'[b][a]) <=> Underway(disk'[a])
    <3>1. CASE Holding(b) /\ seen'[b] = seen[b]
      BY <2>1, <2>2, <3>1, HeldPresent DEF Unstarted
    <3>2. CASE disk' = disk /\ seen'[b][a] = disk[a]
      BY <3>2
    <3> QED
      BY <2>2, <3>1, <3>2, HoldingStep
  <2>3. \/ mpc \in Reevaluating /\ a \in todo
        \/ mpc \in {"reevalCreate", "reevalLink"} /\ a = target
        \/ mpc = "fill" /\ a \in todo \cup selected
        => ~Underway(disk'[a])
    <3>1. \/ mpc \in Reevaluating /\ a \in todo
          \/ mpc \in {"reevalCreate", "reevalLink"} /\ a = target
          \/ mpc = "fill" /\ a \in todo \cup selected
          => Present(disk[a]) /\ ~Underway(disk[a])
      BY <1>1, <1>2, <2>1 DEF Unstarted, MainHolds, Reevaluating, OnFile, Present
    <3> QED
      BY <2>1, <3>1
  <2>4. CASE \E b \in Ids : Worker(b)
    BY <2>2, <2>3, <2>4, WorkerReads DEF Unstarted, mvars
  <2>5. CASE Main \/ Quiet \/ Crash
    <3>1. MainTurn
      BY <2>5, MainTurns
    <3>2. \/ mpc' \in Reevaluating /\ a \in todo'
          \/ mpc' \in {"reevalCreate", "reevalLink"} /\ a = target'
          => ~Underway(disk'[a])
      BY <2>3, <3>1 DEF MainTurn, Reevaluating, BlockedBeads, Underway
    <3>3. mpc' = "fill" /\ a \in todo' \cup selected' => ~Underway(disk'[a])
      BY <2>3, <3>1 DEF MainTurn, ReadyBeads, Underway
    <3> QED
      BY <2>2, <3>2, <3>3 DEF Unstarted
  <2> QED
    BY <2>4, <2>5, StepKinds DEF PlannedTrees
<1>4. CASE a \in started \/ mpc = "cycle"
  <2>1. ~\E b \in Ids : Worker(b)
    BY <1>1, <1>4, WorkerReads DEF Pool, InFlight, mvars
  <2>2. MainTurn /\ (Main \/ Quiet \/ Crash)
    BY <2>1, MainTurns, StepKinds DEF PlannedTrees
  <2>3. \A b \in Ids : ~Holding(b)'
    <3>1. mpc = "cycle" => \A b \in Ids : wpc[b] = "none"
      BY <1>1 DEF Pool, InFlight
    <3>2. mpc = "cycle" \/ \A b \in Ids : wpc'[b] = "none"
      BY <1>4, <2>2 DEF MainTurn
    <3> QED
      BY <2>2, <3>1, <3>2, PoolStep DEF Same, Submitted, Reaped, Holding, PlannedSteps
  <2>4. mpc' = "idle" \/ (mpc = "cycle" /\ mpc' # "fill")
    BY <1>4, <2>2 DEF MainTurn, BeginFill
  <2> QED
    BY <2>2, <2>3, <2>4 DEF MainTurn, Unstarted, BlockedBeads, Reevaluating, Underway
<1> QED
  BY <1>3, <1>4

(* A followup that is synchronized is put in progress only by a copy that  *)
(* is; every other writer of another's bead leaves it not in progress.     *)
LEMMA OthersWrite ==
    ASSUME PlannedTrees, ShInv, NEW b \in Ids, Worker(b), NEW a \in Ids, a # b, Mutating(a)
    PROVE  \/ Spared(a)
           \/ /\ Syncs(b, a) /\ Holding(b) /\ Present(seen[b][a]) /\ Underway(seen[b][a])
              /\ disk'[a] = Synced(seen[b][a], obj[b])
<1>1. Writes(b, a)
  BY WorkerWrites DEF PlannedTrees
<1>2. seen[b] # Nothing => seen[b][a] \in Bead
  BY HeldCopies DEF ShInv
<1>3. Requeues(b, a) => ~Underway(disk'[a])
  BY <1>2 DEF Requeues, Requeued, Underway, Bead
<1>4. Syncs(b, a) => /\ Holding(b) /\ Present(seen[b][a]) /\ disk'[a] = Synced(seen[b][a], obj[b])
                     /\ (Underway(disk'[a]) <=> Underway(seen[b][a]))
  BY <1>2 DEF Syncs, Synced, Holding, Underway, Bead, Exists, Present
<1> QED
  BY <1>1, <1>3, <1>4 DEF Writes, Creates, New, Underway, Spared

(* Until the worker of a bead launches its agent, nobody can put the bead  *)
(* in progress: all copies about were read before.                         *)
LEMMA AwaitedStep ==
    ASSUME PlannedTrees, ShInv, [Next]_vars, NEW a \in Ids, Mutating(a)
    PROVE  Awaited(a)'
<1> SUFFICES ASSUME wpc'[a] \in Entering
             PROVE  /\ ~Underway(disk'[a]) /\ (mpc' = "fill" => ~Underway(snap'[a]))
                    /\ \A b \in Ids : Holding(b)' /\ Present(seen'[b][a]) => ~Underway(seen'[b][a])
  BY DEF Awaited
<1>1. TypeOK /\ Pool /\ MainHolds /\ Straight(a) /\ Awaited(a) /\ (a \notin started => Unstarted(a))
  BY DEF ShInv, HInv, Threads, Timely
<1>2. ASSUME wpc[a] \in Entering, NEW b \in Ids, Holding(b)', Present(seen'[b][a])
      PROVE  ~Underway(seen'[b][a])
  BY <1>1, <1>2, HoldingStep DEF Awaited
<1>3. ASSUME NEW b \in Ids, Worker(b), b # a
      PROVE  wpc[a] \in Entering /\ ~Underway(disk'[a]) /\ UNCHANGED mvars
  <2>1. wpc[a] \in Entering /\ UNCHANGED mvars
    BY <1>3, WorkerReads DEF OthersKept
  <2>2. ~Underway(disk'[a])
    BY <1>1, <1>3, <2>1, OthersWrite DEF Awaited, Spared
  <2> QED
    BY <2>1, <2>2
<1>4. CASE Worker(a)
  <2>1. OwnStep(a) /\ UNCHANGED mvars
    BY <1>4, WorkerOwnSteps, WorkerReads DEF PlannedTrees
  <2>2. Enters(a) \/ (Proceeds(a) /\ wpc[a] = "rootSave")
    BY <2>1 DEF OwnStep, Proceeds, Halts, Completes, Follows, Entering, DoneSteps, FollowSteps, PlannedSteps
  <2>3. wpc[a] \in Entering
    BY <2>2 DEF Enters, Entering
  <2>4. Enters(a) => ~Underway(disk'[a])
    <3>1. obj[a] \in Bead
      BY HeldCopies DEF ShInv
    <3>2. Populated(a, disk, obj[a]).status = obj[a].status
      BY <3>1 DEF Populated, Bead
    <3> QED
      BY <1>1, <2>3, <3>2 DEF Enters, Straight, Awaited, Underway
  <2>5. ~Underway(disk'[a])
    BY <1>1, <2>2, <2>3, <2>4 DEF Proceeds, Awaited
  <2> QED
    BY <1>1, <1>2, <2>1, <2>3, <2>5 DEF Awaited, mvars
<1>5. CASE Main \/ Quiet \/ Crash
  <2>1. MainTurn /\ (Same(a) \/ Submitted(a))
    BY <1>5, MainTurns, PoolStep DEF Reaped, Entering
  <2>2. Spared(a)
    BY <1>5, MainSpares DEF ShInv, Quiet, Crash, Spared
  <2>3. CASE Same(a)
    <3>1. wpc[a] \in Entering
      BY <2>3 DEF Same
    <3>2. ~Underway(disk[a])
      BY <1>1, <3>1 DEF Awaited
    <3>3. mpc' = "fill" => ~Underway(snap'[a])
      <4>1. ~Underway(View(disk, todo' \cup ActiveBeads(disk))[a])
        BY <3>2 DEF View, NoBead, Underway
      <4> QED
        BY <1>1, <2>1, <3>1, <4>1 DEF MainTurn, Awaited
    <3> QED
      BY <1>2, <2>2, <3>1, <3>2, <3>3 DEF Spared
  <2>4. CASE Submitted(a)
    <3>1. Unstarted(a) /\ mpc = "fill" /\ a \in selected /\ disk' = disk /\ mpc' = "wait"
      BY <1>1, <2>4 DEF Submitted, Pool
    <3>2. ~Underway(disk[a])
      BY <3>1 DEF Unstarted
    <3>3. ASSUME NEW b \in Ids, Holding(b)', Present(seen'[b][a])
          PROVE  ~Underway(seen'[b][a])
      BY <3>1, <3>2, <3>3, HoldingStep DEF Unstarted
    <3> QED
      BY <3>1, <3>2, <3>3
  <2> QED
    BY <2>1, <2>3, <2>4
<1> QED
  BY <1>1, <1>2, <1>3, <1>4, <1>5, StepKinds DEF PlannedTrees, Awaited, mvars

-----------------------------------------------------------------------------
(* Scopes.                                                                 *)

(* Developers that are done stay done.                                     *)
LEMMA AfterStays ==
    ASSUME PlannedTrees, ShInv, [Next]_vars, NEW r, r.deps \subseteq Ids, AfterDevelopers(r)
    PROVE  \A s \in r.deps : Developer(s) => IsDone(disk', s)
BY DoneStays DEF AfterDevelopers

(* What a bead makes of its record when it starts.                         *)
Grows(a, r, q) ==
    /\ q.deps = r.deps /\ (HasScope(r) => HasScope(q))
    /\ Plain(a, r) => SameScope(r, q)

(* A bead that starts keeps its scope; a followup may gain files           *)
(* (_populate_shared_followup_touched_files).                              *)
LEMMA StartGrows ==
    ASSUME NEW a \in Ids, NEW r \in Bead
    PROVE  Grows(a, r, Running(Populated(a, disk, r)))
<1> DEFINE q == Running(Populated(a, disk, r))
<1>1. q.deps = r.deps /\ q.expected = r.expected /\ q.globs = r.globs /\ r.touched \subseteq q.touched
  BY DEF Running, Populated, Bead
<1>2. HasScope(r) => HasScope(q)
  BY <1>1 DEF HasScope, Source
<1>3. Plain(a, r) => q.touched = r.touched
  <2>1. Developer(a) => Agent[a] \notin FollowupAgents
    BY DEF Developer, FollowupAgents
  <2>2. r.deps = {} => UNION {disk[x].touched : x \in DoneDeps(disk, r)} = {}
    BY DEF DoneDeps
  <2> QED
    BY <2>1, <2>2 DEF Plain, Running, Populated, Bead
<1> QED
  BY <1>1, <1>2, <1>3 DEF Grows, SameScope

(* The developers that a picked bead waits for are done, so that a         *)
(* followup of planned developers starts with their files as its scope.    *)
LEMMA ScopedStep ==
    ASSUME PlannedTrees, ShInv, [Next]_vars, NEW a \in Ids, Mutating(a)
    PROVE  Scoped(a)'
<1>1. TypeOK /\ Scoped(a) /\ MainHolds /\ obj[a] \in Bead /\ snap[a] \in Bead /\ disk[a] \in Bead
  BY StoreTypes DEF ShInv, HInv, TypeOK, ScopesKnown
<1>2. obj[a].deps \subseteq Ids /\ snap[a].deps \subseteq Ids
  BY <1>1 DEF Bead
<1>3. CASE \E b \in Ids : Worker(b) /\ b # a
  <2>1. wpc'[a] = wpc[a] /\ obj'[a] = obj[a] /\ UNCHANGED mvars
    BY <1>3, WorkerReads DEF OthersKept
  <2> QED
    BY <1>1, <1>2, <2>1, AfterStays DEF Scoped, AfterDevelopers, mvars
<1>4. CASE Worker(a)
  <2>1. OwnStep(a) /\ UNCHANGED mvars /\ wpc[a] # "none"
    BY <1>4, WorkerOwnSteps, WorkerReads DEF PlannedTrees
  <2>2. mpc = "fill" => a \notin todo \cup selected
    BY <1>1, <2>1 DEF MainHolds
  <2>3. wpc'[a] # "begin"
    BY <2>1 DEF OwnStep, Enters, Proceeds, Halts, Completes, Follows, DoneSteps, FollowSteps, PlannedSteps
  <2>4. ASSUME wpc'[a] \in {"rootSave", "launch"} \cup AtWork, Followed(a, obj'[a])
        PROVE  HasScope(obj'[a])
    <3>1. Enters(a) \/ Proceeds(a)
      BY <2>1, <2>4 DEF OwnStep, Halts, Completes, Follows, AtWork, DoneSteps, FollowSteps, PlannedSteps
    <3>2. CASE Proceeds(a)
      BY <1>1, <2>4, <3>2 DEF Proceeds, Scoped, AtWork
    <3>3. CASE Enters(a)
      <4>1. obj'[a].deps = obj[a].deps
        BY <1>1, <3>3, StartGrows DEF Enters, Grows
      <4>2. PICK s \in obj[a].deps : UsesPlannerOwned(s) /\ Agent[a] \in FollowupAgents
        BY <2>4, <4>1 DEF Followed
      <4>3. s \in Ids /\ IsDone(disk, s) /\ disk[s].touched # {}
        <5>1. s \in Ids /\ IsDone(disk, s)
          BY <1>1, <1>2, <3>3, <4>2 DEF Scoped, Enters, AfterDevelopers, UsesPlannerOwned, Developer
        <5> QED
          BY <4>2, <5>1 DEF ShInv, Developers, Steady, UsesPlannerOwned, Developer
      <4>4. s \in DoneDeps(disk, obj[a])
        BY <4>2, <4>3 DEF DoneDeps
      <4>5. Populated(a, disk, obj[a]).touched # {}
        BY <1>1, <4>2, <4>3, <4>4 DEF Populated, Bead
      <4>6. obj'[a].touched # {}
        <5>1. Populated(a, disk, obj[a]) \in Bead
          BY <1>1, PopulatedType DEF TypeOK
        <5> QED
          BY <3>3, <4>5, <5>1 DEF Enters, Running, Bead
      <4> QED
        BY <4>6 DEF HasScope, Source
    <3> QED
      BY <3>1, <3>2, <3>3
  <2> QED
    BY <2>1, <2>2, <2>3, <2>4 DEF Scoped, mvars
<1>5. CASE Main \/ Quiet \/ Crash
  <2>1. MainTurn /\ (Same(a) \/ Submitted(a) \/ Reaped(a))
    BY <1>5, MainTurns, PoolStep
  <2>2. ASSUME mpc' = "fill", a \in todo' \cup selected'
        PROVE  \A s \in snap'[a].deps : Developer(s) => IsDone(disk', s)
    <3>1. CASE mpc = "fill" /\ snap' = snap /\ a \in todo \cup selected
      BY <1>1, <1>2, <3>1, AfterStays DEF Scoped
    <3>2. CASE a \in ReadyBeads(disk) /\ a \in todo' /\ disk' = disk /\ snap' = View(disk, todo' \cup ActiveBeads(disk))
      BY <3>2 DEF ReadyBeads, DepsDone, View
    <3> QED
      BY <2>1, <2>2, <3>1, <3>2 DEF MainTurn
  <2>3. wpc'[a] = "begin" => \A s \in obj'[a].deps : Developer(s) => IsDone(disk', s)
    BY <1>1, <1>2, <2>1, AfterStays DEF Same, Submitted, Reaped, Scoped
  <2>4. wpc'[a] \in {"rootSave", "launch"} \cup AtWork /\ Followed(a, obj'[a]) => HasScope(obj'[a])
    BY <1>1, <2>1 DEF Same, Submitted, Reaped, Scoped, AtWork
  <2> QED
    BY <2>2, <2>3, <2>4 DEF Scoped, AfterDevelopers
<1> QED
  BY <1>3, <1>4, <1>5, StepKinds DEF PlannedTrees

(* The records in progress agree with the beads at work.                   *)
LEMMA KnownStep ==
    ASSUME PlannedTrees, ShInv, [Next]_vars, NEW a \in Ids, Mutating(a)
    PROVE  KnownRight(a)'
<1> SUFFICES ASSUME wpc'[a] \in AtWork
             PROVE  /\ Underway(disk'[a]) => Agree(a, disk'[a], obj'[a])
                    /\ mpc' = "fill" /\ Underway(snap'[a]) => Agree(a, snap'[a], obj'[a])
  BY DEF KnownRight
<1>1. TypeOK /\ Scoped(a) /\ MainHolds /\ KnownRight(a) /\ Awaited(a)
  BY DEF ShInv, HInv, TypeOK, ScopesKnown, Timely
<1>2. CASE Worker(a)
  <2>1. OwnStep(a) /\ UNCHANGED mvars
    BY <1>2, WorkerOwnSteps, WorkerReads DEF PlannedTrees
  <2>2. Proceeds(a)
    BY <2>1 DEF OwnStep, Enters, Halts, Completes, Follows, AtWork, DoneSteps, FollowSteps, PlannedSteps
  <2>3. CASE wpc[a] = "launch"
    <3>1. disk'[a] = obj'[a]
      BY <2>2, <2>3 DEF Proceeds
    <3>2. Agree(a, disk'[a], obj'[a])
      BY <3>1 DEF Agree, SameScope
    <3>3. mpc = "fill" => ~Underway(snap[a])
      BY <1>1, <2>3 DEF Awaited, Entering
    <3> QED
      BY <2>1, <3>2, <3>3 DEF mvars
  <2>4. CASE wpc[a] = "agent"
    <3>1. disk'[a] = disk[a] /\ obj'[a] = obj[a] /\ wpc[a] \in AtWork
      BY <2>2, <2>4 DEF Proceeds, AtWork
    <3> QED
      BY <1>1, <2>1, <3>1 DEF KnownRight, mvars
  <2> QED
    BY <2>2, <2>3, <2>4 DEF Proceeds, AtWork
<1>3. ASSUME NEW b \in Ids, Worker(b), b # a
      PROVE  /\ Underway(disk'[a]) => Agree(a, disk'[a], obj'[a])
             /\ mpc' = "fill" /\ Underway(snap'[a]) => Agree(a, snap'[a], obj'[a])
  <2>1. wpc'[a] = wpc[a] /\ obj'[a] = obj[a] /\ UNCHANGED mvars /\ wpc[a] # "none"
    BY <1>3, WorkerReads DEF OthersKept, AtWork
  <2>2. mpc' = "fill" /\ Underway(snap'[a]) => Agree(a, snap'[a], obj'[a])
    BY <1>1, <2>1 DEF KnownRight, mvars
  <2>3. Spared(a) /\ Underway(disk'[a]) => Agree(a, disk'[a], obj'[a])
    BY <1>1, <2>1 DEF KnownRight, Spared
  <2>4. Syncs(b, a) /\ Present(seen[b][a]) => Agree(a, disk'[a], obj'[a])
    <3> SUFFICES ASSUME Syncs(b, a), Present(seen[b][a]) PROVE Agree(a, disk'[a], obj'[a])
      OBVIOUS
    <3>1. obj[a].deps = disk[a].deps /\ seen[b][a].deps = disk[a].deps
      <4>1. obj[a] \in CopiesOf(a) /\ Present(obj[a]) /\ seen[b][a] \in CopiesOf(a)
        BY <2>1, FlightPresent, HeldCopies DEF ShInv, Syncs
      <4> QED
        BY <4>1 DEF ShInv, DepsFixed
    <3>2. b \in obj[a].deps /\ Agent[a] \in FollowupAgents /\ UsesPlannerOwned(b)
      BY <3>1 DEF Syncs
    <3>3. HasScope(obj[a])
      BY <1>1, <2>1, <3>2 DEF Scoped, Followed
    <3>4. ~Plain(a, obj[a])
      BY <3>2 DEF Plain, Developer, FollowupAgents
    <3> QED
      BY <2>1, <3>3, <3>4 DEF Agree
  <2> QED
    BY <1>3, <2>2, <2>3, <2>4, OthersWrite
<1>4. CASE Main \/ Quiet \/ Crash
  <2>1. MainTurn /\ Same(a)
    BY <1>4, MainTurns, PoolStep DEF Reaped, Submitted, AtWork
  <2>2. Spared(a)
    BY <1>4, MainSpares DEF ShInv, Quiet, Crash, Spared
  <2>3. Underway(disk'[a]) => Agree(a, disk'[a], obj'[a])
    BY <1>1, <2>1, <2>2 DEF KnownRight, Spared, Same
  <2>4. mpc' = "fill" /\ Underway(snap'[a]) => Agree(a, snap'[a], obj'[a])
    <3>1. CASE mpc = "fill" /\ snap' = snap
      BY <1>1, <2>1, <3>1 DEF KnownRight, Same
    <3>2. CASE snap' = View(disk, todo' \cup ActiveBeads(disk))
      <4>1. Underway(snap'[a]) => snap'[a] = disk[a]
        BY <3>2 DEF View, NoBead, Underway
      <4> QED
        BY <1>1, <2>1, <4>1 DEF KnownRight, Same
    <3> QED
      BY <2>1, <3>1, <3>2 DEF MainTurn
  <2> QED
    BY <2>3, <2>4
<1> QED
  BY <1>2, <1>3, <1>4, StepKinds DEF PlannedTrees

-----------------------------------------------------------------------------
(* Beads let into a worktree.                                              *)

(* Beads that fit still do as their scopes grow, and either way round.     *)
LEMMA FitKept ==
    ASSUME NEW a, NEW r, NEW b, NEW s, Fit(a, r, b, s)
    PROVE  /\ Fit(b, s, a, r)
           /\ \A q, t : Grows(a, r, q) /\ Grows(b, s, t) => Fit(a, q, b, t)
<1>1. ScopesOverlap(s, r) => ScopesOverlap(r, s)
  BY DEF ScopesOverlap, FileSource, GlobSource, FilesMatchGlobs, GlobsOverlap
<1>2. ASSUME NEW q, NEW t, SameScope(r, q), SameScope(s, t), ScopesOverlap(q, t)
      PROVE  ScopesOverlap(r, s)
  <2>1. Source(q) = Source(r) /\ Entries(q) = Entries(r)
    BY <1>2 DEF SameScope, Source, Entries
  <2>2. Source(t) = Source(s) /\ Entries(t) = Entries(s)
    BY <1>2 DEF SameScope, Source, Entries
  <2> QED
    BY <1>2, <2>1, <2>2 DEF ScopesOverlap, FileSource, GlobSource
<1>3. \A q, t : Grows(a, r, q) /\ Grows(b, s, t) /\ Plain(a, q) /\ Plain(b, t) => Plain(a, r) /\ Plain(b, s)
  BY DEF Grows, Plain
<1> QED
  BY <1>1, <1>2, <1>3 DEF Fit, Grows

(* Beads stay fit for one worktree if none joins them and their records    *)
(* only grow.                                                              *)
LEMMA FitSame ==
    ASSUME AdmittedFit, Admitted' \subseteq Admitted, \A a \in Admitted' : Grows(a, Checked(a), Checked(a)')
    PROVE  AdmittedFit'
<1> SUFFICES ASSUME NEW a \in Admitted', NEW b \in Admitted', a # b, SameTree(a, b)
             PROVE  Fit(a, Checked(a)', b, Checked(b)')
  BY DEF AdmittedFit, Fit, SameTree, ScopesOverlap, HasScope, Plain, Developer
<1>1. Fit(a, Checked(a), b, Checked(b))
  BY DEF AdmittedFit
<1> QED
  BY <1>1, FitKept

(* The fill pass lets a bead in beside beads with which it fits.           *)
LEMMA SelectFits ==
    ASSUME PlannedTrees, ShInv, NEW b \in Ids, SelectBead(b)
    PROVE  AdmittedFit'
<1>1. mpc = "fill" /\ b \in todo /\ wpc' = wpc /\ snap' = snap /\ obj' = obj /\ selected' \subseteq selected \cup {b}
      /\ selected \subseteq selected'
  <2>1. selected' = selected \/ selected' = selected \cup {b}
    BY DEF SelectBead
  <2>2. mpc = "fill" /\ b \in todo /\ wpc' = wpc /\ snap' = snap /\ obj' = obj
    BY DEF SelectBead, NextCandidate, wvars
  <2> QED
    BY <2>1, <2>2
<1>2. MainHolds /\ AdmittedFit /\ selected \subseteq Ids
  BY DEF ShInv, HInv, TypeOK
<1>3. \A x \in Ids : x # b \/ b \in selected \/ b \notin selected' => Checked(x)' = Checked(x)
  BY <1>1 DEF Checked
<1>4. Admitted' \subseteq Admitted \cup {b} /\ (b \notin selected' => b \notin Admitted')
  <2>1. wpc[b] = "none"
    BY <1>1, <1>2 DEF MainHolds
  <2> QED
    BY <1>1, <2>1 DEF Admitted, Working
<1>5. ASSUME NEW a \in Admitted, a # b, SameTree(a, b), Mutating(b)
      PROVE  Fit(b, snap[b], a, Checked(a))
  <2>1. a \in InFlight \cup selected /\ a \in Ids /\ Mutating(a)
    BY <1>5 DEF Admitted, Working, InFlight
  <2>2. ~BeadsConflict(b, snap[b], a, Known[a])
    BY <1>5, <2>1 DEF SelectBead, Blockers, Conflicting
  <2>3. ~Serialize /\ HasScope(snap[b]) /\ HasScope(Known[a]) /\ ~ScopesOverlap(snap[b], Known[a])
    BY <1>5, <2>1, <2>2 DEF BeadsConflict
  <2>4. Agree(a, Known[a], Checked(a))
    <3>1. CASE a \in selected
      <4>1. wpc[a] = "none"
        BY <1>1, <1>2, <3>1 DEF MainHolds
      <4>2. Known[a] = snap[a] /\ Checked(a) = snap[a]
        BY <2>1, <3>1, <4>1 DEF Known, Checked, InFlight
      <4> QED
        BY <4>2 DEF Agree, SameScope
    <3>2. CASE a \notin selected /\ a \notin Listed
      <4>1. Known[a] = obj[a] /\ Checked(a) = obj[a]
        BY <2>1, <3>2 DEF Known, Checked
      <4> QED
        BY <4>1 DEF Agree, SameScope
    <3>3. CASE a \notin selected /\ a \in Listed
      <4>1. Known[a] = snap[a] /\ Checked(a) = obj[a] /\ Underway(snap[a])
        BY <2>1, <3>3 DEF Known, Checked, Listed, Underway
      <4>2. wpc[a] \in Entering \cup AtWork
        BY <1>5, <3>3 DEF Admitted, Working, Entering, AtWork
      <4>3. wpc[a] \in AtWork
        BY <1>1, <2>1, <4>1, <4>2 DEF ShInv, Timely, Awaited
      <4> QED
        BY <1>1, <2>1, <4>1, <4>3 DEF ShInv, ScopesKnown, KnownRight
    <3> QED
      BY <3>1, <3>2, <3>3
  <2>5. SameScope(Known[a], Checked(a)) => ~ScopesOverlap(snap[b], Checked(a))
    BY <2>3 DEF SameScope, ScopesOverlap, FileSource, GlobSource, FilesMatchGlobs, GlobsOverlap, Entries, Source
  <2> QED
    BY <2>3, <2>4, <2>5 DEF Fit, Agree
<1>6. CASE b \in selected \/ b \notin selected'
  <2>1. Admitted' \subseteq Admitted
    BY <1>1, <1>4, <1>6 DEF Admitted
  <2> QED
    BY <1>2, <1>3, <1>6, <2>1, FitSame DEF Grows, SameScope, Admitted
<1>7. CASE b \notin selected /\ b \in selected'
  <2> SUFFICES ASSUME NEW x \in Admitted', NEW y \in Admitted', x # y, SameTree(x, y)
               PROVE  Fit(x, Checked(x)', y, Checked(y)')
    BY DEF AdmittedFit, Fit, SameTree, ScopesOverlap, HasScope, Plain, Developer
  <2>1. Checked(b)' = snap[b] /\ \A z \in Ids \ {b} : Checked(z)' = Checked(z)
    BY <1>1, <1>7 DEF Checked
  <2>2. Mutating(x) /\ Mutating(y) /\ x \in Ids /\ y \in Ids
    BY DEF Admitted, Mutating
  <2>3. CASE x = b
    BY <1>4, <1>5, <2>1, <2>2, <2>3 DEF SameTree
  <2>4. CASE y = b
    <3>1. Fit(b, snap[b], x, Checked(x))
      BY <1>4, <1>5, <2>2, <2>4
    <3> QED
      BY <2>1, <2>2, <2>4, <3>1, FitKept
  <2>5. CASE x # b /\ y # b
    BY <1>2, <1>4, <2>1, <2>2, <2>5 DEF AdmittedFit
  <2> QED
    BY <2>3, <2>4, <2>5
<1> QED
  BY <1>6, <1>7

(* Who joins the beads at work has passed the conflict check of            *)
(* _select_beads_for_dispatch against records that agree with each of      *)
(* them.                                                                   *)
LEMMA FitStep ==
    ASSUME PlannedTrees, ShInv, [Next]_vars
    PROVE  AdmittedFit'
<1>1. AdmittedFit /\ MainHolds /\ TypeOK /\ selected \subseteq Ids
  BY DEF ShInv, HInv, TypeOK
<1>2. \A a, r : Grows(a, r, r)
  BY DEF Grows, SameScope
<1>3. ASSUME NEW b \in Ids, Worker(b) PROVE AdmittedFit'
  <2>1. OwnStep(b) /\ OthersKept(b) /\ UNCHANGED mvars /\ obj[b] \in Bead /\ wpc[b] # "none"
    BY <1>3, WorkerOwnSteps, WorkerReads, HeldCopies DEF PlannedTrees, ShInv
  <2>2. wpc'[b] \in Entering \cup AtWork => wpc[b] \in Entering \cup AtWork /\ Grows(b, obj[b], obj'[b])
    <3>1. wpc'[b] \in Entering \cup AtWork => Enters(b) \/ Proceeds(b)
      BY <2>1 DEF OwnStep, Halts, Completes, Follows, Entering, AtWork, DoneSteps, FollowSteps, PlannedSteps
    <3> QED
      BY <1>2, <2>1, <3>1, StartGrows DEF Enters, Proceeds, Entering, AtWork
  <2>3. b \notin selected
    BY <1>1, <2>1 DEF MainHolds
  <2>4. Working = {x \in Ids : wpc[x] \in Entering \cup AtWork}
        /\ Working' = {x \in Ids : wpc'[x] \in Entering \cup AtWork}
    BY DEF Working, Entering, AtWork
  <2>5. Admitted' \subseteq Admitted
    BY <2>1, <2>2, <2>4 DEF Admitted, OthersKept, mvars, Mutating
  <2>6. \A a \in Admitted' : Grows(a, Checked(a), Checked(a)')
    BY <1>2, <2>1, <2>2, <2>3, <2>4 DEF Admitted, OthersKept, mvars, Checked
  <2> QED
    BY <1>1, <2>5, <2>6, FitSame
<1>4. CASE Main \/ Quiet \/ Crash
  <2>1. MainTurn /\ \A b \in Ids : Same(b) \/ Submitted(b) \/ Reaped(b)
    BY <1>4, MainTurns, PoolStep
  <2>2. CASE \E b \in Ids : SelectBead(b)
    BY <2>2, SelectFits
  <2>3. CASE EndFill
    <3>1. Admitted' \subseteq Admitted /\ \A a \in Admitted' : Checked(a)' = Checked(a)
      <4>1. CASE EndCycle /\ selected = {}
        BY <4>1 DEF EndCycle, wvars, Admitted, Working, Checked
      <4>2. CASE Submit
        BY <4>2 DEF Submit, Admitted, Working, Checked
      <4> QED
        BY <2>3, <4>1, <4>2 DEF EndFill
    <3> QED
      BY <1>1, <1>2, <3>1, FitSame
  <2>4. CASE ~EndFill /\ ~\E b \in Ids : SelectBead(b)
    <3>1. \A b \in Ids : Same(b) \/ Reaped(b)
      <4>1. ASSUME NEW b \in Ids, Submitted(b) PROVE FALSE
        BY <1>4, <2>4, <4>1
        DEF Submitted, Main, BeginCycle, RetryTransient, ReevaluateCorrective, ReevalCreate, ReevalLink, BeginFill,
            DeferBead, Examine, NextCandidate, WaitCompletion, Abort, Quiet, Crash
      <4> QED
        BY <2>1, <4>1
    <3>2. selected' \subseteq selected /\ (selected' # {} => snap' = snap)
      <4>1. CASE Crash \/ Quiet
        BY <4>1 DEF Crash, Quiet
      <4>2. CASE \E b \in Ids : DeferBead(b)
        BY <4>2 DEF DeferBead
      <4>3. CASE Main /\ ~\E b \in Ids : DeferBead(b)
        <5>1. selected' = selected /\ mpc # "fill"
          BY <2>4, <4>3
          DEF Main, BeginCycle, RetryTransient, ReevaluateCorrective, ReevalCreate, ReevalLink, BeginFill,
              Examine, WaitCompletion, Abort
        <5> QED
          BY <1>1, <5>1 DEF MainHolds
      <4> QED
        BY <1>4, <4>1, <4>2, <4>3
    <3>3. Admitted' \subseteq Admitted
      BY <3>1, <3>2 DEF Admitted, Working, Same, Reaped
    <3>4. \A a \in Admitted' : Checked(a)' = Checked(a)
      <4> SUFFICES ASSUME NEW a \in Admitted' PROVE Checked(a)' = Checked(a)
        OBVIOUS
      <4>1. CASE a \in selected'
        BY <3>2, <4>1 DEF Checked
      <4>2. CASE a \notin selected'
        <5>1. a \in Ids /\ Same(a) /\ wpc[a] # "none"
          BY <3>1, <4>2 DEF Admitted, Working, Same, Reaped
        <5>2. a \notin selected
          BY <1>1, <5>1 DEF MainHolds
        <5> QED
          BY <4>2, <5>1, <5>2 DEF Checked, Same
      <4> QED
        BY <4>1, <4>2
    <3> QED
      BY <1>1, <1>2, <3>3, <3>4, FitSame
  <2> QED
    BY <2>2, <2>3, <2>4
<1> QED
  BY <1>3, <1>4, StepKinds DEF PlannedTrees

-----------------------------------------------------------------------------
(* The invariant and what it says.                                         *)

(* The invariant is inductive, over every step of the scheduler and its    *)
(* death.                                                                  *)
LEMMA SharingStep ==
    ASSUME PlannedTrees, ShInv, [Next]_vars
    PROVE  ShInv'
<1>1. HInv'
  BY StepFlow DEF ShInv
<1>2. Threads'
  BY StraightStep, AimedStep DEF Threads, Aimed
<1>3. Developers'
  BY SteadyStep, UnfollowedStep DEF Developers, Developer
<1>4. Timely'
  BY UnstartedStep, AwaitedStep DEF Timely, Mutating
<1>5. ScopesKnown'
  BY ScopedStep, KnownStep DEF ScopesKnown, Mutating
<1> QED
  BY <1>1, <1>2, <1>3, <1>4, <1>5, DepsStep, PoolKept, FitStep DEF ShInv

(* It holds of every store to start from.                                  *)
LEMMA SharingInit ==
    ASSUME PlannedTrees, Init
    PROVE  ShInv
<1>1. HInv /\ \A x \in Ids : \A r \in CopiesOf(x) : r = NoBead \/ r = disk[x]
  BY InitFlow
<1>2. PICK store \in InitStores : Idle(store)
  BY DEF Init
<1>3. /\ disk = store /\ mpc = "idle" /\ selected = {} /\ \A b \in Ids : wpc[b] = "none" /\ subj[b] = b
  BY <1>2 DEF Idle
<1>4. Threads
  BY <1>2, <1>3 DEF Threads, WillWrite, Straight, Aimed, AtWork, FollowSteps, PlannedSteps, PlannedTrees, NoRecoveries
<1>5. Developers
  BY <1>2, <1>3 DEF Developers, Steady, Unfollowed, Entering, AtWork, DoneSteps, FollowSteps, PlannedSteps, Reevaluating,
                    PlannedTrees, DevelopersTouch, StartsUnfollowed
<1>6. DepsFixed
  BY <1>1 DEF DepsFixed, NoBead, Present
<1>7. Pool /\ Timely /\ ScopesKnown /\ AdmittedFit
  <2>1. InFlight = {} /\ Admitted = {}
    BY <1>3 DEF InFlight, Admitted, Working
  <2>2. \A b \in Ids : ~Holding(b)
    BY <1>3 DEF Holding, PlannedSteps
  <2> QED
    BY <1>3, <2>1, <2>2 DEF Pool, Timely, Unstarted, Awaited, ScopesKnown, Scoped, KnownRight, AdmittedFit, Entering, AtWork, Reevaluating
<1> QED
  BY <1>1, <1>4, <1>5, <1>6, <1>7 DEF ShInv

(* So it holds always.                                                     *)
LEMMA SharingInvariant ==
    ASSUME PlannedTrees
    PROVE  Spec => []ShInv
<1>1. Init => ShInv
  BY SharingInit
<1>2. ShInv /\ [Next]_vars => ShInv'
  BY SharingStep
<1> QED
  BY <1>1, <1>2, PTL DEF Spec

(* Of two mutating beads at work in one worktree the objects are fit for   *)
(* it.                                                                     *)
LEMMA SharingFits ==
    ASSUME ShInv, NEW p \in Sharing
    PROVE  Fit(p[1], obj[p[1]], p[2], obj[p[2]])
<1>1. /\ p[1] \in Working /\ p[2] \in Working /\ p[1] # p[2] /\ SameTree(p[1], p[2])
      /\ Mutating(p[1]) /\ Mutating(p[2])
  BY DEF Sharing
<1>2. \A a \in Working : Mutating(a) => a \in Admitted /\ Checked(a) = obj[a]
  BY DEF Admitted, Checked, Working, ShInv, HInv, MainHolds
<1> QED
  BY <1>1, <1>2 DEF ShInv, AdmittedFit

(* With any number of workers, in planned feature trees, two mutating      *)
(* beads are inside one worktree at a time only if trees are not           *)
(* serialized and both have declared a scope, whatever copies the followup *)
(* sync and the main thread write back, and however often the scheduler is *)
(* killed: what _beads_conflict is for.                                    *)
THEOREM WorktreesShared ==
    ASSUME PlannedTrees
    PROVE  Spec => []WorktreeExclusive
<1>1. ShInv => WorktreeExclusive
  BY SharingFits DEF WorktreeExclusive, Fit
<1> QED
  BY <1>1, SharingInvariant, PTL

(* And those scopes are disjoint, unless one of the two is a followup that *)
(* takes over the files of its dependencies when it starts                 *)
(* (_populate_shared_followup_touched_files), after the check of           *)
(* _select_beads_for_dispatch that let it in.                              *)
THEOREM ScopesApart ==
    ASSUME PlannedTrees
    PROVE  Spec => []ScopesDisjoint
<1>1. \A b \in Ids : Mutating(b) /\ ~TakesOver(b) => Plain(b, obj[b])
  BY DEF Mutating, MutatingAgents, TakesOver, FollowupAgents, Plain, Developer
<1>2. ShInv => ScopesDisjoint
  BY <1>1, SharingFits DEF ScopesDisjoint, Fit, Sharing, Working
<1> QED
  BY <1>2, SharingInvariant, PTL

-----------------------------------------------------------------------------
(* What a followup waits for.                                              *)

(* A bead is worked on only while the developer beads it depends on are    *)
(* done.                                                                   *)
DevelopersFirst == \A b \in Working : \A s \in obj[b].deps : Developer(s) => IsDone(disk, s)

(* It was so of the record by which the bead was picked.                   *)
Waited(a) ==
    /\ mpc = "fill" /\ a \in todo \cup selected => AfterDevelopers(snap[a])
    /\ a \in Working => AfterDevelopers(obj[a])

(* Every step keeps to it, since developers that are done stay done.       *)
LEMMA WaitedStep ==
    ASSUME PlannedTrees, ShInv, [Next]_vars, NEW a \in Ids, Waited(a)
    PROVE  Waited(a)'
<1>1. TypeOK /\ MainHolds /\ obj[a] \in Bead /\ obj[a].deps \subseteq Ids /\ snap[a].deps \subseteq Ids
  BY StoreTypes DEF ShInv, HInv, TypeOK, Bead
<1>2. CASE \E b \in Ids : Worker(b) /\ b # a
  <2>1. wpc'[a] = wpc[a] /\ obj'[a] = obj[a] /\ UNCHANGED mvars
    BY <1>2, WorkerReads DEF OthersKept
  <2> QED
    BY <1>1, <2>1, AfterStays DEF Waited, Working, AfterDevelopers, mvars
<1>3. CASE Worker(a)
  <2>1. OwnStep(a) /\ UNCHANGED mvars /\ wpc[a] # "none"
    BY <1>3, WorkerOwnSteps, WorkerReads DEF PlannedTrees
  <2>2. mpc = "fill" => a \notin todo \cup selected
    BY <1>1, <2>1 DEF MainHolds
  <2>3. a \in Working' => a \in Working /\ obj'[a].deps = obj[a].deps
    <3>1. Enters(a) => obj'[a].deps = obj[a].deps
      BY <1>1, StartGrows DEF Enters, Grows
    <3> QED
      BY <2>1, <3>1 DEF OwnStep, Enters, Proceeds, Halts, Completes, Follows, Working, DoneSteps, FollowSteps, PlannedSteps
  <2> QED
    BY <1>1, <2>1, <2>2, <2>3, AfterStays DEF Waited, AfterDevelopers, mvars
<1>4. CASE Main \/ Quiet \/ Crash
  <2>1. MainTurn /\ (Same(a) \/ Submitted(a) \/ Reaped(a))
    BY <1>4, MainTurns, PoolStep
  <2>2. ASSUME mpc' = "fill", a \in todo' \cup selected'
        PROVE  \A s \in snap'[a].deps : Developer(s) => IsDone(disk', s)
    <3>1. CASE mpc = "fill" /\ snap' = snap /\ a \in todo \cup selected
      BY <1>1, <3>1, AfterStays DEF Waited
    <3>2. CASE a \in ReadyBeads(disk) /\ a \in todo' /\ disk' = disk /\ snap' = View(disk, todo' \cup ActiveBeads(disk))
      BY <3>2 DEF ReadyBeads, DepsDone, View
    <3> QED
      BY <2>1, <2>2, <3>1, <3>2 DEF MainTurn
  <2>3. a \in Working' => \A s \in obj'[a].deps : Developer(s) => IsDone(disk', s)
    BY <1>1, <2>1, AfterStays DEF Same, Submitted, Reaped, Waited, Working
  <2> QED
    BY <2>2, <2>3 DEF Waited, AfterDevelopers
<1> QED
  BY <1>2, <1>3, <1>4, StepKinds DEF PlannedTrees

(* In planned feature trees, with any number of workers and kills, nobody  *)
(* tests, documents or reviews what is not finished: a bead is worked on   *)
(* only while the developers it depends on are done, although ready_beads  *)
(* looks at them once and others write meanwhile.  (Of dependencies that   *)
(* are followups this is not so: _sync_followup_scope may undo them.)      *)
THEOREM DevelopersBeforeFollowups ==
    ASSUME PlannedTrees
    PROVE  Spec => []DevelopersFirst
<1>1. Init => \A a \in Ids : Waited(a)
  BY DEF Init, Idle, Waited, Working
<1>2. ShInv /\ (\A a \in Ids : Waited(a)) /\ [Next]_vars => (\A a \in Ids : Waited(a))'
  BY WaitedStep
<1>3. (\A a \in Ids : Waited(a)) => DevelopersFirst
  BY DEF Waited, DevelopersFirst, AfterDevelopers, Working
<1> QED
  BY <1>1, <1>2, <1>3, SharingInvariant, PTL DEF Spec
=============================================================================
