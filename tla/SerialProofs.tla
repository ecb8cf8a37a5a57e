---------------------------- MODULE SerialProofs ----------------------------
(***************************************************************************)
(* The scheduler with one worker, which is what takt run does unless       *)
(* --max-workers says otherwise, and with no operator at work beside it.   *)
(* Threads still write back whole records that they read before, and the   *)
(* process may still be killed between any two saves; but the main thread  *)
(* and the worker take turns, so that what one of them holds is never out  *)
(* of date when it is written.  That is the inductive invariant here, and  *)
(* it makes true, for every set of beads, what several workers can break:  *)
(* the scheduler implements the life of a bead (BeadLifecycle), and leaves *)
(* things in order when a run ends of its own accord: no lease without a   *)
(* worker, no recovery without effect, no blocked bead that waits for      *)
(* nothing, no completed developer bead without its followups.             *)
(***************************************************************************)
EXTENDS SchedulerProofs

OneWorker == MaxWorkers <= 1 /\ NoOperator

-----------------------------------------------------------------------------
(* Nothing held is stale.                                                  *)

(* There is one worker at most, and the main thread waits for it.          *)
Alone ==
    /\ \A b, c \in Ids : wpc[b] # "none" /\ wpc[c] # "none" => b = c
    /\ mpc \notin {"wait", "abort"} => \A b \in Ids : wpc[b] = "none"

(* The records the main thread listed and will still write are the files,  *)
(* and one bead is selected at most.                                       *)
MainCurrent ==
    /\ mpc = "fill" =>
        /\ MaxWorkers # 0 /\ selected \cap todo = {}
        /\ \A x, y \in selected : x = y
        /\ \A x \in todo \cup selected : snap[x] = disk[x] /\ DepsDone(disk, disk[x])
    /\ mpc \in {"reeval", "reevalCreate", "reevalLink"} => \A x \in todo : snap[x] = disk[x]
    /\ mpc \in {"reevalCreate", "reevalLink"} => target \notin todo /\ snap[target] = disk[target]
    /\ mpc = "reevalCreate" => /\ OpenCorrectives(disk, target) = {}
                               /\ disk[target].reason # "transient" /\ ~disk[target].recov

(* A record that a worker is about to save differs from the file only by   *)
(* what the worker did to it.                                              *)
Failing(r, q) ==
    /\ r.status = "in_progress" /\ q.status = "blocked" /\ ~q.lease
    /\ q.retried = r.retried /\ q.human = r.human

RootCurrent(b) ==
    /\ wpc[b] = "begin" => obj[b] = disk[b] /\ disk[b].status = "ready"
    /\ wpc[b] = "rootSave" => seen[b][Tree[b]] = disk[Tree[b]]
    /\ wpc[b] \in {"rootSave", "launch"} => obj[b] = Running(disk[b]) /\ disk[b].status = "ready"
    /\ wpc[b] \in {"agent", "final"} => obj[b] = disk[b] /\ disk[b].status = "in_progress"
    /\ b \in Working => \A x \in obj[b].deps : IsDone(disk, x)

RepairCurrent(b) ==
    /\ wpc[b] \in {"corrCheck", "corrCreate", "corrLink"} =>
        /\ obj[b] = disk[b] /\ disk[b].status = "blocked"
        /\ disk[b].reason # "transient" /\ ~disk[b].recov
    /\ wpc[b] = "corrCreate" => CorrectiveChildren(disk, b) = {}
    /\ wpc[b] \in {"recoveryCreate", "failSave"} =>
        /\ Failing(disk[b], obj[b])
        /\ res[b].outcome \in Outcomes[b] /\ obj[b].reason = ReasonOf(res[b].outcome)
        /\ obj[b].recov # disk[b].recov => obj[b].recov /\ res[b].outcome = "no_output"
    /\ wpc[b] = "recoveryCreate" => obj[b].recov /\ ~disk[b].recov

(* From there on the bead itself is done, and so is the bead it completed. *)
CompletionSteps == {"requeueLoad", "requeueSave", "fuList", "fuPlan"} \cup PlannedSteps
DoneSteps == {"recLoad", "recSave"} \cup CompletionSteps

DoneCurrent(b) ==
    /\ wpc[b] \in DoneSteps => disk[b].status = "done"
    /\ wpc[b] \in {"recLoad", "recSave"} => Kind[b] = "recovery"
    /\ wpc[b] = "recSave" =>
        subj[b] = Parent[b] /\ obj[b] = disk[subj[b]] /\ Exists(disk, subj[b])
    /\ wpc[b] \in CompletionSteps => disk[subj[b]].status = "done" /\ Agent[subj[b]] = "developer"
    /\ wpc[b] \in CompletionSteps => subj[b] = b \/ (subj[b] = Parent[b] /\ Kind[b] = "recovery")
    /\ wpc[b] \in {"requeueLoad", "requeueSave"} => Parent[subj[b]] \in Ids
    /\ wpc[b] = "requeueSave" =>
        /\ seen[b][Parent[subj[b]]] = disk[Parent[subj[b]]]
        /\ ~AlreadyRetried(disk[Parent[subj[b]]], subj[b])

(* The followups a worker has yet to write: the listed ones are as they    *)
(* were, the others are not there.                                         *)
Pending(step) ==
    CASE step = "fuTest" -> {"tester", "documentation", "review"}
      [] step = "fuDocs" -> {"documentation", "review"}
      [] step = "fuReview" -> {"review"}
      [] OTHER -> {}

PlanCurrent(b) ==
    /\ wpc[b] = "fuPlan" => \A x \in Ids : Exists(seen[b], x) => seen[b][x] = disk[x]
    /\ \A a \in Pending(wpc[b]) :
        IF HasFollowup(b, a) THEN seen[b][plan[b][a]] = disk[plan[b][a]]
        ELSE ~Exists(disk, plan[b][a])
    /\ wpc[b] \in PlannedSteps => \A a, e \in FollowupAgents : plan[b][a] = plan[b][e] => a = e

WorkerCurrent(b) == RootCurrent(b) /\ RepairCurrent(b) /\ DoneCurrent(b) /\ PlanCurrent(b)

Current == Alone /\ MainCurrent /\ \A b \in Ids : WorkerCurrent(b)
SerialInv == HInv /\ Current

-----------------------------------------------------------------------------
(* What a step does to the files, as they are when it is taken.            *)

SameStanding(r, q) ==
    /\ q.status = r.status /\ q.lease = r.lease /\ q.reason = r.reason
    /\ q.retried = r.retried /\ q.human = r.human /\ q.recov = r.recov

(* Its scope or its dependencies grow; it is put off; a transient failure  *)
(* is forgotten; a finished corrective buys a retry; a human is asked.     *)
Tended(x) == SameStanding(disk[x], disk'[x])
PutOff(x) == mpc = "fill" /\ disk[x].status = "ready" /\ disk'[x] = [disk[x] EXCEPT !.reason = "other"]
Woken(x) ==
    /\ mpc = "reeval" /\ disk[x].status = "blocked" /\ disk[x].reason = "transient"
    /\ disk'[x] = [disk[x] EXCEPT !.status = "ready", !.reason = "none"]
RetriedFor(x, c) ==
    /\ disk[x].status = "blocked" /\ disk'[x] = Requeued(disk[x], c) /\ ~AlreadyRetried(disk[x], c)
    /\ \/ /\ mpc = "reeval" /\ disk[x].reason # "transient"
          /\ OpenCorrectives(disk, x) = {} /\ c \in LatestDone(disk, x)
       \/ \E b \in Ids : /\ wpc[b] = "requeueSave" /\ c = subj[b] /\ Parent[c] = x
Escalated(x) ==
    /\ mpc = "reeval" /\ disk[x].status = "blocked" /\ disk[x].reason # "transient"
    /\ disk'[x] = [disk[x] EXCEPT !.human = TRUE]

(* A bead is created: a corrective for a bead that is blocked and has none *)
(* under way, a recovery for one that is about to be saved as failed.      *)
Made(c) ==
    /\ ~Exists(disk, c) /\ wpc[c] = "none"
    /\ New(disk'[c]) /\ ~disk'[c].lease /\ disk'[c].reason = "none"
    /\ Kind[c] = "corrective" =>
        /\ IsFreshChild(disk, Parent[c], "corrective", c) /\ OpenCorrectives(disk, Parent[c]) = {}
        /\ Parent[c] \in Ids /\ disk[Parent[c]].status = "blocked"
        /\ disk[Parent[c]].reason # "transient" /\ ~disk[Parent[c]].recov
    /\ Kind[c] = "recovery" =>
        /\ Parent[c] \in Ids /\ wpc[Parent[c]] = "recoveryCreate" /\ wpc'[Parent[c]] = "failSave"
        /\ obj' = obj

(* The worker moves its own bead on, or completes the one it recovered.    *)
Ended(x) ==
    /\ disk'[x].status \in {"blocked", "done"} /\ ~disk'[x].lease
    /\ disk'[x].retried = disk[x].retried /\ disk'[x].human = disk[x].human
    /\ disk'[x].reason = "transient" => Outcomes[x] \cap {"blocked_transient", "failed_transient"} # {}
Worked(x) ==
    /\ wpc[x] \in {"begin", "launch", "final", "failSave"}
    /\ wpc[x] = "begin" => /\ disk[x].status = "ready" /\ disk'[x].status = "blocked"
                           /\ disk'[x].recov = disk[x].recov
    /\ wpc[x] = "launch" => disk[x].status = "ready" /\ disk'[x] = Running(disk[x])
    /\ wpc[x] # "launch" => Ended(x)
    /\ wpc[x] = "final" => disk[x].status = "in_progress" /\ disk'[x].recov = disk[x].recov
    /\ wpc[x] = "failSave" => /\ disk[x].status = "in_progress" /\ disk'[x].status = "blocked"
                              /\ disk'[x] = obj[x]
Completed(x) ==
    /\ \E b \in Ids : /\ wpc[b] = "recSave" /\ subj[b] = x /\ Parent[b] = x /\ Kind[b] = "recovery"
                      /\ Exists(disk, b) /\ disk[b].status = "done"
    /\ Exists(disk, x) /\ disk'[x].status = "done" /\ ~disk'[x].lease
    /\ disk'[x].retried = disk[x].retried /\ disk'[x].human = disk[x].human
    /\ disk'[x].recov = disk[x].recov /\ disk'[x].reason = "none"

Only(x) == \A y \in Ids \ {x} : disk'[y] = disk[y]
Change(x) ==
    \/ Tended(x) \/ PutOff(x) \/ Woken(x) \/ Escalated(x) \/ Made(x) \/ Worked(x) \/ Completed(x)
    \/ \E c \in Ids : RetriedFor(x, c)

(* The pool does not change while a file does.                             *)
SamePool == \A b \in Ids : wpc'[b] = "none" <=> wpc[b] = "none"
Lapsed == /\ mpc = "cycle" /\ wpc' = wpc
          /\ \E E \in SUBSET Leased(disk) : disk' = Expired(disk, E)
Effect == disk' = disk \/ Lapsed \/ (SamePool /\ \E x \in Ids : Only(x) /\ Change(x))

-----------------------------------------------------------------------------
(* The worker.                                                             *)

(* A worker's step concerns its own state, and leaves it in the pool.      *)
LEMMA WorkerKeeps ==
    ASSUME TypeOK, NEW b \in Ids, Worker(b)
    PROVE  /\ OthersKept(b) /\ UNCHANGED mvars
           /\ wpc[b] # "none" /\ wpc'[b] # "none" /\ wpc'[b] \in WorkerSteps
<1> USE DEF OthersKept, Goto, Hold, TypeOK, WorkerSteps, Store
<1>1. CASE StartWithoutWorktree(b) \/ Start(b) \/ SaveFeatureRoot(b) \/ Launch(b) \/ AgentReturns(b)
  BY <1>1 DEF StartWithoutWorktree, Start, SaveFeatureRoot, Launch, AgentReturns
<1>2. CASE UnsupportedVerdict(b) \/ FinalizeBlocked(b) \/ FinalizeFailed(b) \/ CommitFails(b) \/ FinalizeDone(b)
  BY <1>2 DEF UnsupportedVerdict, FinalizeBlocked, FinalizeFailed, CommitFails, FinalizeDone, AfterDone, Finalizing
<1>3. CASE CheckCorrectives(b) \/ CreateCorrective(b) \/ LinkCorrective(b) \/ CreateRecovery(b) \/ SaveFailed(b)
  BY <1>3 DEF CheckCorrectives, CreateCorrective, LinkCorrective, CreateRecovery, SaveFailed
<1>4. CASE LoadOriginal(b) \/ CompleteOriginal(b) \/ LoadParent(b) \/ RequeueParent(b)
  BY <1>4 DEF LoadOriginal, CompleteOriginal, LoadParent, RequeueParent, AfterDone
<1>5. CASE ListForFollowups(b) \/ CreateSubtask(b) \/ RefuseSubtask(b) \/ PlanFollowups(b)
  BY <1>5 DEF ListForFollowups, CreateSubtask, RefuseSubtask, PlanFollowups
<1>6. CASE FollowupTest(b) \/ FollowupDocs(b) \/ FollowupReview(b)
  BY <1>6 DEF FollowupTest, FollowupDocs, FollowupReview
<1> QED
  BY <1>1, <1>2, <1>3, <1>4, <1>5, <1>6 DEF Worker

(* It is the only worker, so nobody else's records can go stale.           *)
LEMMA WorkerSerial ==
    ASSUME SerialInv, NEW b \in Ids, Worker(b), WorkerCurrent(b)'
    PROVE  Current' /\ SamePool
<1>1. TypeOK
  BY DEF SerialInv, HInv
<1>2. OthersKept(b) /\ UNCHANGED mvars /\ wpc[b] # "none" /\ wpc'[b] # "none"
  BY <1>1, WorkerKeeps
<1>3. Alone
  BY DEF SerialInv, Current
<1>4. mpc \in {"wait", "abort"} /\ mpc' = mpc /\ \A c \in Ids \ {b} : wpc[c] = "none" /\ wpc'[c] = "none"
  BY <1>2, <1>3 DEF Alone, OthersKept, mvars
<1>5. Alone' /\ SamePool
  BY <1>2, <1>4 DEF Alone, SamePool
<1>6. MainCurrent'
  BY <1>4 DEF MainCurrent
<1>7. ASSUME NEW c \in Ids \ {b} PROVE WorkerCurrent(c)'
  BY <1>4 DEF WorkerCurrent, RootCurrent, RepairCurrent, DoneCurrent, PlanCurrent, Pending,
              Working, DoneSteps, CompletionSteps, PlannedSteps
<1> QED
  BY <1>5, <1>6, <1>7 DEF Current

(* Steps at which a worker holds nothing that it will write.               *)
LEMMA NothingToWrite ==
    ASSUME NEW b \in Ids, wpc'[b] \in {"none", "ended", "raised"}
    PROVE  WorkerCurrent(b)'
BY DEF WorkerCurrent, RootCurrent, RepairCurrent, DoneCurrent, PlanCurrent, Pending,
       Working, DoneSteps, CompletionSteps, PlannedSteps

(* Populating a bead changes its scope only.                               *)
LEMMA PopulatedStanding ==
    ASSUME NEW b, NEW r \in Bead, NEW q, q = Populated(b, disk, r)
    PROVE  SameStanding(r, q) /\ q.deps = r.deps
BY DEF Populated, SameStanding, Bead

(* A single file is written.                                               *)
LEMMA SavesOnly ==
    ASSUME disk \in Store, NEW b \in Ids, NEW r, Save(b, r)
    PROVE  Only(b) /\ disk'[b] = r
BY DEF Only, Save, Store

(* Before and while the agent runs.                                        *)
LEMMA HeadSerial ==
    ASSUME SerialInv, NEW b \in Ids, Worker(b),
           \/ StartWithoutWorktree(b) \/ Start(b) \/ SaveFeatureRoot(b)
           \/ Launch(b) \/ AgentReturns(b)
    PROVE  Effect /\ Current'
<1> DEFINE full == Populated(b, disk, obj[b])
<1>1. TypeOK /\ disk \in Store /\ disk[b] \in Bead /\ obj[b] \in Bead /\ RootCurrent(b)
  BY StoreTypes DEF SerialInv, HInv, TypeOK, Current, WorkerCurrent
<1>2. SameStanding(obj[b], full) /\ full.deps = obj[b].deps
  BY <1>1, PopulatedStanding
<1>3. full \in Bead
  BY <1>1, PopulatedType
<1>4. CASE StartWithoutWorktree(b)
  <2>1. Save(b, Blocked(full, "other")) /\ wpc[b] = "begin" /\ wpc' = [wpc EXCEPT ![b] = "ended"]
    BY <1>4 DEF StartWithoutWorktree, Goto
  <2>2. obj[b] = disk[b] /\ disk[b].status = "ready"
    BY <1>1, <2>1 DEF RootCurrent
  <2> HIDE DEF full
  <2>3. Only(b) /\ disk'[b] = Blocked(full, "other")
    BY <1>1, <2>1, SavesOnly
  <2>4. Worked(b)
    BY <1>2, <1>3, <2>1, <2>2, <2>3 DEF Worked, Ended, Blocked, SameStanding, Bead
  <2>5. WorkerCurrent(b)'
    BY <1>1, <2>1, NothingToWrite DEF TypeOK
  <2> QED
    BY <2>3, <2>4, <2>5, WorkerSerial DEF Effect, Change
<1>5. CASE Start(b)
  <2>1. wpc[b] = "begin" /\ obj[b] = disk[b] /\ disk[b].status = "ready"
    BY <1>1, <1>5 DEF Start, RootCurrent
  <2>2. disk' = [disk EXCEPT ![b] = full]
    BY <1>1, <1>5, <2>1 DEF Start, NeedsSave, Save, Store
  <2>3. obj' = [obj EXCEPT ![b] = Running(full)]
    BY <1>5 DEF Start, Hold
  <2>4. \/ wpc'[b] \in {"launch", "raised"}
        \/ wpc'[b] = "rootSave" /\ Tree[b] # b /\ seen'[b] = View(disk, {Tree[b]}) /\ Tree[b] \in Ids
    BY <1>1, <1>5 DEF Start, Goto, TypeOK, Exists
  <2>5. \A x \in obj[b].deps : IsDone(disk, x)
    BY <1>1, <2>1 DEF RootCurrent, Working
  <2> HIDE DEF full
  <2>6. Only(b) /\ disk'[b] = full /\ obj'[b] = Running(full)
    BY <1>1, <2>2, <2>3 DEF Only, Store, TypeOK
  <2>7. Tended(b)
    BY <1>2, <2>1, <2>6 DEF Tended
  <2>8. obj'[b].deps = obj[b].deps /\ disk'[b].status = "ready"
    BY <1>2, <1>3, <2>1, <2>6 DEF Running, SameStanding, Bead
  <2>9. \A x \in obj'[b].deps : IsDone(disk', x)
    BY <2>1, <2>5, <2>6, <2>8 DEF IsDone, Exists, Only
  <2>10. wpc'[b] = "rootSave" => seen'[b][Tree[b]] = disk'[Tree[b]]
    BY <2>4, <2>6 DEF View, Only
  <2>11. WorkerCurrent(b)'
    BY <2>4, <2>6, <2>8, <2>9, <2>10
    DEF WorkerCurrent, RootCurrent, RepairCurrent, DoneCurrent, PlanCurrent, Pending,
        DoneSteps, CompletionSteps, PlannedSteps
  <2> QED
    BY <2>6, <2>7, <2>11, WorkerSerial DEF Effect, Change
<1>6. CASE SaveFeatureRoot(b)
  <2>1. wpc[b] = "rootSave" /\ seen[b][Tree[b]] = disk[Tree[b]]
    BY <1>1, <1>6 DEF SaveFeatureRoot, RootCurrent
  <2>2. disk' = disk /\ obj' = obj /\ wpc'[b] = "launch"
    BY <1>1, <1>6, <2>1 DEF SaveFeatureRoot, Save, Store, Goto, TypeOK
  <2>3. WorkerCurrent(b)'
    BY <1>1, <2>1, <2>2
    DEF WorkerCurrent, RootCurrent, RepairCurrent, DoneCurrent, PlanCurrent, Pending, Working,
        DoneSteps, CompletionSteps, PlannedSteps
  <2> QED
    BY <2>2, <2>3, WorkerSerial DEF Effect
<1>7. CASE Launch(b)
  <2>1. wpc[b] = "launch" /\ obj[b] = Running(disk[b]) /\ disk[b].status = "ready"
    BY <1>1, <1>7 DEF Launch, RootCurrent
  <2>2. Only(b) /\ disk'[b] = obj[b] /\ obj' = obj /\ wpc'[b] = "agent"
    BY <1>1, <1>7, SavesOnly DEF Launch, Goto, TypeOK
  <2>3. Worked(b)
    BY <2>1, <2>2 DEF Worked
  <2>4. \A x \in obj[b].deps : IsDone(disk, x)
    BY <1>1, <2>1 DEF RootCurrent, Working
  <2>5. \A x \in obj'[b].deps : IsDone(disk', x)
    BY <2>1, <2>2, <2>4 DEF IsDone, Exists, Only
  <2>6. disk'[b].status = "in_progress"
    BY <1>1, <2>1, <2>2 DEF Running, Bead
  <2>7. WorkerCurrent(b)'
    BY <2>2, <2>5, <2>6
    DEF WorkerCurrent, RootCurrent, RepairCurrent, DoneCurrent, PlanCurrent, Pending,
        DoneSteps, CompletionSteps, PlannedSteps
  <2> QED
    BY <2>2, <2>3, <2>7, WorkerSerial DEF Effect, Change
<1>8. CASE AgentReturns(b)
  <2>1. wpc[b] = "agent" /\ disk' = disk /\ obj' = obj /\ wpc'[b] = "final"
    BY <1>1, <1>8 DEF AgentReturns, Goto, TypeOK
  <2>2. WorkerCurrent(b)'
    BY <1>1, <2>1
    DEF WorkerCurrent, RootCurrent, RepairCurrent, DoneCurrent, PlanCurrent, Pending, Working,
        DoneSteps, CompletionSteps, PlannedSteps
  <2> QED
    BY <2>1, <2>2, WorkerSerial DEF Effect
<1> QED
  BY <1>4, <1>5, <1>6, <1>7, <1>8

(* Finalization of an agent's answer.                                      *)
LEMMA FinalizedFields ==
    ASSUME TypeOK, NEW b \in Ids, res[b].outcome \in Outcomes[b]
    PROVE  /\ Finalized(b) \in Bead
           /\ ~Finalized(b).lease /\ Finalized(b).reason = ReasonOf(res[b].outcome)
           /\ Finalized(b).retried = obj[b].retried /\ Finalized(b).human = obj[b].human
           /\ Finalized(b).recov = obj[b].recov /\ Finalized(b).deps = obj[b].deps
<1>1. obj[b] \in Bead
  BY StoreTypes DEF TypeOK
<1>2. Finalized(b) \in Bead
  BY FinalizedType, SchedulerAssumption
<1> QED
  BY <1>1, <1>2, FinalizedShape

LEMMA OutcomeSerial ==
    ASSUME SerialInv, NEW b \in Ids, Worker(b),
           \/ UnsupportedVerdict(b) \/ FinalizeBlocked(b) \/ FinalizeFailed(b)
           \/ CommitFails(b) \/ FinalizeDone(b)
    PROVE  Effect /\ Current'
<1> DEFINE f == Finalized(b)
<1>1. TypeOK /\ disk \in Store /\ disk[b] \in Bead /\ RootCurrent(b) /\ WorkerHolds(b)
  BY StoreTypes DEF SerialInv, HInv, TypeOK, Current, WorkerCurrent
<1>2. wpc[b] = "final" /\ res[b].outcome \in Outcomes[b] /\ subj[b] = b
  BY <1>1 DEF UnsupportedVerdict, FinalizeBlocked, FinalizeFailed, CommitFails, FinalizeDone,
              Finalizing, WorkerHolds, OwnSteps
<1>3. obj[b] = disk[b] /\ disk[b].status = "in_progress"
  BY <1>1, <1>2 DEF RootCurrent
<1>4. /\ f \in Bead /\ ~f.lease /\ f.reason = ReasonOf(res[b].outcome)
      /\ f.retried = disk[b].retried /\ f.human = disk[b].human /\ f.recov = disk[b].recov
  BY <1>1, <1>2, <1>3, FinalizedFields
<1>5. f.reason = "transient" => Outcomes[b] \cap {"blocked_transient", "failed_transient"} # {}
  BY <1>2, <1>4 DEF ReasonOf
<1> HIDE DEF f
<1>6. CASE UnsupportedVerdict(b)
  BY <1>1, <1>6, NothingToWrite, WorkerSerial DEF UnsupportedVerdict, Goto, TypeOK, Effect
<1>7. CASE FinalizeBlocked(b)
  <2> DEFINE q == [f EXCEPT !.status = "blocked"]
  <2>1. Save(b, q) /\ Hold(b, q) /\ UNCHANGED <<subj, res, seen, plan>>
    BY <1>7 DEF FinalizeBlocked, f
  <2>2. \/ wpc'[b] = "ended"
        \/ wpc'[b] = "corrCheck" /\ res[b].outcome = "needs_changes" /\ CanPlanCorrective(b, q)
    BY <1>1, <1>7 DEF FinalizeBlocked, f, Goto, TypeOK
  <2>3. /\ q.status = "blocked" /\ ~q.lease /\ q.reason = f.reason /\ q.retried = disk[b].retried
        /\ q.human = disk[b].human /\ q.recov = disk[b].recov
    BY <1>4 DEF Bead
  <2> HIDE DEF q
  <2>4. Only(b) /\ disk'[b] = q /\ obj'[b] = q
    BY <1>1, <2>1, SavesOnly DEF Hold, TypeOK, Store
  <2>5. Worked(b)
    BY <1>2, <1>3, <1>5, <2>3, <2>4 DEF Worked, Ended
  <2>6. wpc'[b] = "corrCheck" => q.reason # "transient" /\ ~q.recov
    BY <1>4, <2>2, <2>3 DEF ReasonOf, CanPlanCorrective
  <2>7. WorkerCurrent(b)'
    BY <2>2, <2>3, <2>4, <2>6
    DEF WorkerCurrent, RootCurrent, RepairCurrent, DoneCurrent, PlanCurrent, Pending, Working,
        DoneSteps, CompletionSteps, PlannedSteps
  <2> QED
    BY <2>4, <2>5, <2>7, WorkerSerial DEF Effect, Change
<1>8. CASE FinalizeFailed(b)
  <2> DEFINE r == [f EXCEPT !.status = "blocked"]
             recover == res[b].outcome = "no_output" /\ ~r.recov /\ Kind[b] # "recovery"
             q == [r EXCEPT !.recov = @ \/ recover]
  <2>1. Hold(b, q) /\ disk' = disk /\ res' = res
    BY <1>8 DEF FinalizeFailed, f
  <2>2. IF recover THEN wpc'[b] = "recoveryCreate" ELSE wpc'[b] = "failSave"
    BY <1>1, <1>8 DEF FinalizeFailed, f, Goto, TypeOK
  <2>3. recover \in BOOLEAN /\ r \in Bead /\ r.recov = disk[b].recov
    BY <1>4 DEF Bead, Statuses
  <2>4. Failing(disk[b], q) /\ q.reason = ReasonOf(res[b].outcome)
    BY <1>3, <1>4 DEF Bead, Failing
  <2>5. q.recov = (disk[b].recov \/ recover) /\ disk[b].recov \in BOOLEAN
    BY <1>1, <2>3 DEF Bead
  <2>6. recover => res[b].outcome = "no_output" /\ ~disk[b].recov
    BY <2>3
  <2> HIDE DEF q, recover
  <2>7. obj'[b] = q
    BY <1>1, <2>1 DEF Hold, TypeOK, Store
  <2>8. q.recov # disk[b].recov => q.recov /\ res[b].outcome = "no_output"
    BY <2>3, <2>5, <2>6
  <2>9. wpc'[b] = "recoveryCreate" => q.recov /\ ~disk[b].recov
    BY <2>2, <2>3, <2>5, <2>6
  <2>10. RepairCurrent(b)'
    BY <1>2, <2>1, <2>2, <2>4, <2>7, <2>8, <2>9 DEF RepairCurrent
  <2>11. WorkerCurrent(b)'
    BY <2>2, <2>10
    DEF WorkerCurrent, RootCurrent, DoneCurrent, PlanCurrent, Pending, Working,
        DoneSteps, CompletionSteps, PlannedSteps
  <2> QED
    BY <2>1, <2>11, WorkerSerial DEF Effect
<1>9. CASE CommitFails(b)
  <2> DEFINE q == [f EXCEPT !.status = "blocked", !.reason = "other"]
  <2>1. Save(b, q) /\ wpc'[b] = "ended"
    BY <1>1, <1>9 DEF CommitFails, f, Goto, TypeOK
  <2>2. /\ q.status = "blocked" /\ ~q.lease /\ q.reason = "other" /\ q.retried = disk[b].retried
        /\ q.human = disk[b].human /\ q.recov = disk[b].recov
    BY <1>4 DEF Bead
  <2> HIDE DEF q
  <2>3. Only(b) /\ disk'[b] = q
    BY <1>1, <2>1, SavesOnly
  <2>4. Worked(b)
    BY <1>2, <1>3, <2>2, <2>3 DEF Worked, Ended
  <2> QED
    BY <2>1, <2>3, <2>4, NothingToWrite, WorkerSerial DEF Effect, Change
<1>10. CASE FinalizeDone(b)
  <2> DEFINE q == [f EXCEPT !.status = "done"]
  <2>1. Save(b, q) /\ Hold(b, q) /\ UNCHANGED <<subj, res, seen, plan>>
    BY <1>10 DEF FinalizeDone, f
  <2>2. wpc'[b] = IF Kind[b] = "recovery" THEN "recLoad" ELSE AfterDone(b)
    BY <1>1, <1>10 DEF FinalizeDone, Goto, TypeOK
  <2>3. /\ q.status = "done" /\ ~q.lease /\ q.reason = f.reason /\ q.retried = disk[b].retried
        /\ q.human = disk[b].human /\ q.recov = disk[b].recov
    BY <1>4 DEF Bead
  <2> HIDE DEF q
  <2>4. Only(b) /\ disk'[b] = q /\ obj'[b] = q
    BY <1>1, <2>1, SavesOnly DEF Hold, TypeOK, Store
  <2>5. Worked(b)
    BY <1>2, <1>3, <1>5, <2>3, <2>4 DEF Worked, Ended
  <2>6. /\ wpc'[b] \in {"recLoad", "requeueLoad", "fuList", "ended"}
        /\ wpc'[b] = "recLoad" => Kind[b] = "recovery"
        /\ wpc'[b] \in {"requeueLoad", "fuList"} => Agent[b] = "developer"
        /\ wpc'[b] = "requeueLoad" => Parent[b] \in Ids
    BY <2>2, StoreAssumption DEF AfterDone
  <2>7. WorkerCurrent(b)'
    BY <1>2, <2>1, <2>3, <2>4, <2>6
    DEF WorkerCurrent, RootCurrent, RepairCurrent, DoneCurrent, PlanCurrent, Pending, Working,
        DoneSteps, CompletionSteps, PlannedSteps
  <2> QED
    BY <2>4, <2>5, <2>7, WorkerSerial DEF Effect, Change
<1> QED
  BY <1>6, <1>7, <1>8, <1>9, <1>10

(* A child is created beside the beads that the worker is about.           *)
LEMMA ChildMade ==
    ASSUME SerialInv, NEW b \in Ids, Worker(b), NEW c \in Ids, ~Exists(disk, c), NEW r,
           New(r), ~r.lease, r.reason = "none", Save(c, r), Exists(disk, b)
    PROVE  /\ c # b /\ Only(c) /\ disk'[c] = r /\ wpc[c] = "none"
           /\ ~Exists(disk, c) /\ New(disk'[c]) /\ ~disk'[c].lease /\ disk'[c].reason = "none"
<1>1. TypeOK /\ disk \in Store /\ Alone
  BY DEF SerialInv, HInv, TypeOK, Current
<1>2. wpc[b] # "none"
  BY <1>1, WorkerKeeps
<1> QED
  BY <1>1, <1>2, SavesOnly DEF Alone

(* Correctives, recoveries and requeues.                                   *)
LEMMA RepairSerial ==
    ASSUME SerialInv, NEW b \in Ids, Worker(b),
           \/ CheckCorrectives(b) \/ CreateCorrective(b) \/ LinkCorrective(b)
           \/ CreateRecovery(b) \/ SaveFailed(b) \/ LoadOriginal(b) \/ CompleteOriginal(b)
           \/ LoadParent(b) \/ RequeueParent(b)
    PROVE  Effect /\ Current'
<1>1. TypeOK /\ disk \in Store /\ disk[b] \in Bead /\ obj[b] \in Bead /\ subj[b] \in Ids
  BY StoreTypes DEF SerialInv, HInv, TypeOK
<1>2. WorkerHolds(b) /\ RepairCurrent(b) /\ DoneCurrent(b) /\ OnFile
  BY DEF SerialInv, HInv, Current, WorkerCurrent
<1>3. CASE CheckCorrectives(b)
  <2>1. /\ wpc[b] = "corrCheck" /\ disk' = disk /\ obj' = obj
        /\ wpc'[b] = IF CorrectiveChildren(disk, b) = {} THEN "corrCreate" ELSE "ended"
    BY <1>1, <1>3 DEF CheckCorrectives, Goto, TypeOK
  <2>2. WorkerCurrent(b)'
    BY <1>2, <2>1
    DEF WorkerCurrent, RootCurrent, RepairCurrent, DoneCurrent, PlanCurrent, Pending, Working,
        DoneSteps, CompletionSteps, PlannedSteps
  <2> QED
    BY <2>1, <2>2, WorkerSerial DEF Effect
<1>4. CASE CreateCorrective(b)
  <2>1. PICK c \in Ids : IsFreshChild(disk, b, "corrective", c) /\ Save(c, CorrectiveBead(obj[b]))
    BY <1>4 DEF CreateCorrective
  <2>2. wpc[b] = "corrCreate" /\ obj' = obj /\ wpc'[b] = "corrLink"
    BY <1>1, <1>4 DEF CreateCorrective, Goto, TypeOK
  <2>3. /\ obj[b] = disk[b] /\ disk[b].status = "blocked" /\ disk[b].reason # "transient"
        /\ ~disk[b].recov /\ CorrectiveChildren(disk, b) = {}
    BY <1>2, <2>2 DEF RepairCurrent
  <2>4. ~CorrectiveBead(obj[b]).lease /\ CorrectiveBead(obj[b]).reason = "none"
    BY DEF CorrectiveBead, NewBead, NoBead
  <2>5. ~Exists(disk, c) /\ Parent[c] = b /\ Kind[c] = "corrective" /\ Exists(disk, b)
    BY <2>1, <2>3 DEF IsFreshChild, Children, Exists
  <2>6. /\ c # b /\ Only(c) /\ wpc[c] = "none" /\ New(disk'[c])
        /\ ~disk'[c].lease /\ disk'[c].reason = "none"
    BY <2>1, <2>4, <2>5, NewChildren, ChildMade
  <2>7. OpenCorrectives(disk, b) = {}
    BY <2>3 DEF OpenCorrectives
  <2>8. Made(c)
    BY <2>1, <2>3, <2>5, <2>6, <2>7 DEF Made
  <2>9. disk'[b] = disk[b]
    BY <2>6 DEF Only
  <2>10. WorkerCurrent(b)'
    BY <2>2, <2>3, <2>9
    DEF WorkerCurrent, RootCurrent, RepairCurrent, DoneCurrent, PlanCurrent, Pending, Working,
        DoneSteps, CompletionSteps, PlannedSteps
  <2> QED
    BY <2>6, <2>8, <2>10, WorkerSerial DEF Effect, Change
<1>5. CASE LinkCorrective(b)
  <2>1. wpc[b] = "corrLink" /\ Save(b, obj[b]) /\ wpc'[b] = "ended"
    BY <1>1, <1>5 DEF LinkCorrective, Goto, TypeOK
  <2>2. disk' = disk
    BY <1>1, <1>2, <2>1 DEF RepairCurrent, Save, Store
  <2> QED
    BY <2>1, <2>2, NothingToWrite, WorkerSerial DEF Effect
<1>6. CASE CreateRecovery(b)
  <2>1. PICK c \in Ids : IsFreshChild(disk, b, "recovery", c) /\ Save(c, RecoveryBead(obj[b]))
    BY <1>6 DEF CreateRecovery
  <2>2. wpc[b] = "recoveryCreate" /\ obj' = obj /\ res' = res /\ wpc'[b] = "failSave"
    BY <1>1, <1>6 DEF CreateRecovery, Goto, TypeOK
  <2>3. ~RecoveryBead(obj[b]).lease /\ RecoveryBead(obj[b]).reason = "none"
    BY DEF RecoveryBead, NewBead, NoBead
  <2>4. ~Exists(disk, c) /\ Parent[c] = b /\ Kind[c] = "recovery" /\ Exists(disk, b)
    BY <1>2, <2>1, <2>2 DEF IsFreshChild, Children, Exists, RepairCurrent, Failing
  <2>5. /\ c # b /\ Only(c) /\ wpc[c] = "none" /\ New(disk'[c])
        /\ ~disk'[c].lease /\ disk'[c].reason = "none"
    BY <2>1, <2>3, <2>4, NewChildren, ChildMade
  <2>6. Made(c)
    BY <2>2, <2>4, <2>5 DEF Made
  <2>7. disk'[b] = disk[b]
    BY <2>5 DEF Only
  <2>8. RepairCurrent(b)'
    BY <1>2, <2>2, <2>7 DEF RepairCurrent
  <2>9. WorkerCurrent(b)'
    BY <2>2, <2>8
    DEF WorkerCurrent, RootCurrent, DoneCurrent, PlanCurrent, Pending, Working,
        DoneSteps, CompletionSteps, PlannedSteps
  <2> QED
    BY <2>5, <2>6, <2>9, WorkerSerial DEF Effect, Change
<1>7. CASE SaveFailed(b)
  <2>1. wpc[b] = "failSave" /\ Save(b, obj[b]) /\ wpc'[b] = "ended"
    BY <1>1, <1>7 DEF SaveFailed, Goto, TypeOK
  <2>2. Only(b) /\ disk'[b] = obj[b]
    BY <1>1, <2>1, SavesOnly
  <2>3. /\ Failing(disk[b], obj[b]) /\ res[b].outcome \in Outcomes[b]
        /\ obj[b].reason = ReasonOf(res[b].outcome)
    BY <1>2, <2>1 DEF RepairCurrent
  <2>4. Worked(b)
    BY <2>1, <2>2, <2>3 DEF Worked, Ended, Failing, ReasonOf
  <2> QED
    BY <2>1, <2>2, <2>4, NothingToWrite, WorkerSerial DEF Effect, Change
<1>8. CASE LoadOriginal(b)
  <2>1. wpc[b] = "recLoad" /\ disk' = disk /\ disk[b].status = "done" /\ Kind[b] = "recovery"
    BY <1>2, <1>8 DEF LoadOriginal, DoneCurrent, DoneSteps
  <2>2. CASE Exists(disk, Parent[b])
    <3>1. obj'[b] = disk[Parent[b]] /\ subj'[b] = Parent[b] /\ wpc'[b] = "recSave"
      BY <1>1, <1>8, <2>2 DEF LoadOriginal, Hold, Goto, TypeOK, Store, Exists
    <3>2. WorkerCurrent(b)'
      BY <2>1, <2>2, <3>1
      DEF WorkerCurrent, RootCurrent, RepairCurrent, DoneCurrent, PlanCurrent, Pending, Working,
          DoneSteps, CompletionSteps, PlannedSteps
    <3> QED
      BY <2>1, <3>2, WorkerSerial DEF Effect
  <2>3. CASE ~Exists(disk, Parent[b])
    BY <1>1, <1>8, <2>1, <2>3, NothingToWrite, WorkerSerial DEF LoadOriginal, Goto, TypeOK, Effect
  <2> QED
    BY <2>2, <2>3
<1>9. CASE CompleteOriginal(b)
  <2> DEFINE s == subj[b]
             q == [Rescoped(obj[b], res[b].scope) EXCEPT
                                 !.status = "done", !.lease = FALSE, !.reason = "none",
                                 !.touched = IF res[b].touched = {} THEN @ ELSE res[b].touched]
  <2>1. /\ wpc[b] = "recSave" /\ Save(s, q) /\ Hold(b, q) /\ subj' = subj
        /\ wpc'[b] = AfterDone(s)
    BY <1>1, <1>9 DEF CompleteOriginal, Goto, TypeOK
  <2>2. /\ disk[b].status = "done" /\ s = Parent[b] /\ obj[b] = disk[s] /\ Exists(disk, s)
        /\ Kind[b] = "recovery" /\ s # b
    BY <1>2, <2>1, StoreAssumption DEF DoneCurrent, DoneSteps
  <2>3. /\ q.status = "done" /\ ~q.lease /\ q.reason = "none" /\ q.retried = disk[s].retried
        /\ q.human = disk[s].human /\ q.recov = disk[s].recov
    BY <1>1, <2>2 DEF Rescoped, Bead
  <2> HIDE DEF q
  <2>4. Only(s) /\ disk'[s] = q /\ obj'[b] = q
    BY <1>1, <2>1, SavesOnly DEF Hold, TypeOK, Store
  <2>5. Exists(disk, b) /\ disk'[b] = disk[b]
    BY <2>2, <2>4 DEF Exists, Only
  <2>6. Completed(s)
    BY <2>1, <2>2, <2>3, <2>4, <2>5 DEF Completed
  <2>7. /\ wpc'[b] \in {"requeueLoad", "fuList", "ended"}
        /\ wpc'[b] \in {"requeueLoad", "fuList"} => Agent[s] = "developer"
        /\ wpc'[b] = "requeueLoad" => Parent[s] \in Ids
    BY <1>1, <2>1, StoreAssumption DEF AfterDone
  <2>8. WorkerCurrent(b)'
    BY <2>1, <2>2, <2>3, <2>4, <2>5, <2>7
    DEF WorkerCurrent, RootCurrent, RepairCurrent, DoneCurrent, PlanCurrent, Pending, Working,
        DoneSteps, CompletionSteps, PlannedSteps
  <2> QED
    BY <1>1, <2>4, <2>6, <2>8, WorkerSerial DEF Effect, Change
<1>10. CASE LoadParent(b)
  <2> DEFINE p == Parent[subj[b]]
  <2>1. /\ wpc[b] = "requeueLoad" /\ disk' = disk /\ obj' = obj /\ subj' = subj
        /\ \/ wpc'[b] = "ended"
           \/ wpc'[b] = "requeueSave" /\ seen'[b] = View(disk, {p}) /\ ~AlreadyRetried(disk[p], subj[b])
    BY <1>1, <1>10 DEF LoadParent, Goto, TypeOK
  <2>2. /\ disk[b].status = "done" /\ disk[subj[b]].status = "done" /\ p \in Ids
        /\ Agent[subj[b]] = "developer"
        /\ subj[b] = b \/ (subj[b] = Parent[b] /\ Kind[b] = "recovery")
    BY <1>2, <2>1 DEF DoneCurrent, DoneSteps, CompletionSteps
  <2>3. wpc'[b] = "requeueSave" => seen'[b][p] = disk[p]
    BY <2>1, <2>2 DEF View
  <2>4. WorkerCurrent(b)'
    BY <2>1, <2>2, <2>3
    DEF WorkerCurrent, RootCurrent, RepairCurrent, DoneCurrent, PlanCurrent, Pending, Working,
        DoneSteps, CompletionSteps, PlannedSteps
  <2> QED
    BY <2>1, <2>4, WorkerSerial DEF Effect
<1>11. CASE RequeueParent(b)
  <2> DEFINE p == Parent[subj[b]]
  <2>1. wpc[b] = "requeueSave" /\ Save(p, Requeued(seen[b][p], subj[b])) /\ wpc'[b] = "ended"
    BY <1>1, <1>11 DEF RequeueParent, Goto, TypeOK
  <2>2. p \in Ids /\ seen[b][p] = disk[p] /\ ~AlreadyRetried(disk[p], subj[b]) /\ disk[p].status = "blocked"
    BY <1>2, <2>1 DEF DoneCurrent, WorkerHolds
  <2>3. Only(p) /\ disk'[p] = Requeued(disk[p], subj[b])
    BY <1>1, <2>1, <2>2, SavesOnly
  <2>4. RetriedFor(p, subj[b])
    BY <2>1, <2>2, <2>3 DEF RetriedFor
  <2> QED
    BY <1>1, <2>1, <2>2, <2>3, <2>4, NothingToWrite, WorkerSerial DEF Effect, Change
<1> QED
  BY <1>3, <1>4, <1>5, <1>6, <1>7, <1>8, <1>9, <1>10, <1>11

(* The ids a worker settles on: a bead it listed, or one that is free.     *)
LEMMA SettledIds ==
    ASSUME NEW b \in Ids, NEW agent \in FollowupAgents, NEW c \in FollowupIds(b, agent),
           \A x \in Ids : Exists(seen[b], x) => seen[b][x] = disk[x]
    PROVE  \/ Exists(seen[b], c) /\ seen[b][c] = disk[c] /\ Exists(disk, c) /\ Agent[c] = agent
           \/ ~Exists(seen[b], c) /\ ~Exists(disk, c) /\ Kind[c] = SuffixOf(agent)
<1>1. \A x \in ExistingFollowup(seen[b], subj[b], agent) : Exists(seen[b], x) /\ Agent[x] = agent
  BY DEF ExistingFollowup, PlannerOwned, LegacyFollowup
<1>2. \/ Exists(seen[b], c) /\ Agent[c] = agent
      \/ IsFreshChild(disk, subj[b], SuffixOf(agent), c)
  BY <1>1 DEF FollowupIds
<1> QED
  BY <1>2 DEF Exists, IsFreshChild, Children

(* A followup is brought up to date as it is, or made.                     *)
LEMMA FollowupWritten ==
    ASSUME SerialInv, NEW b \in Ids, Worker(b), wpc[b] \in PlannedSteps,
           NEW agent \in Pending(wpc[b]), NEW deps, NEW c, c = plan[b][agent],
           \/ CreateOrSync(b, agent, deps)
           \/ /\ HasFollowup(b, agent)
              /\ disk' = disk \/ Save(c, [Synced(seen[b][c], obj[b]) EXCEPT !.deps = @ \cup deps])
    PROVE  /\ c \in Ids
           /\ disk' = disk \/ (Only(c) /\ (Tended(c) \/ Made(c)))
<1>1. TypeOK /\ disk \in Store /\ obj[b] \in Bead
  BY StoreTypes DEF SerialInv, HInv, TypeOK
<1>2. WorkerHolds(b) /\ DoneCurrent(b) /\ PlanCurrent(b)
  BY DEF SerialInv, HInv, Current, WorkerCurrent
<1>3. agent \in FollowupAgents
  BY DEF Pending, FollowupAgents, PlannedSteps
<1>4. c \in Ids /\ seen[b] \in Store
  BY <1>1, <1>3 DEF TypeOK, PlannedSteps, ReadingSteps
<1>5. CASE HasFollowup(b, agent)
  <2>1. seen[b][c] = disk[c] /\ disk[c] \in Bead
    BY <1>1, <1>2, <1>4, <1>5, StoreTypes DEF PlanCurrent
  <2>2. /\ SameStanding(disk[c], Synced(disk[c], obj[b]))
        /\ SameStanding(disk[c], [Synced(disk[c], obj[b]) EXCEPT !.deps = @ \cup deps])
    BY <2>1 DEF SameStanding, Synced, Bead
  <2>3. \/ disk' = disk \/ Save(c, Synced(disk[c], obj[b]))
        \/ Save(c, [Synced(disk[c], obj[b]) EXCEPT !.deps = @ \cup deps])
    BY <1>5, <2>1 DEF CreateOrSync
  <2> QED
    BY <1>1, <1>4, <2>2, <2>3, SavesOnly DEF Tended
<1>6. CASE ~HasFollowup(b, agent)
  <2>1. ~Exists(disk, c) /\ Kind[c] = SuffixOf(agent)
    BY <1>2, <1>3, <1>6 DEF PlanCurrent, WorkerHolds, HasFollowup
  <2>2. disk' = disk \/ Save(c, FollowupBead(obj[b], deps))
    BY <1>6 DEF CreateOrSync
  <2>3. ~FollowupBead(obj[b], deps).lease /\ FollowupBead(obj[b], deps).reason = "none"
    BY DEF FollowupBead, NewBead, NoBead
  <2>4. Exists(disk, b)
    BY <1>2 DEF DoneCurrent, DoneSteps, CompletionSteps, PlannedSteps, Exists
  <2>5. Save(c, FollowupBead(obj[b], deps)) =>
          Only(c) /\ wpc[c] = "none" /\ New(disk'[c]) /\ ~disk'[c].lease /\ disk'[c].reason = "none"
    BY <1>4, <2>1, <2>3, <2>4, NewChildren, ChildMade
  <2>6. Kind[c] # "corrective" /\ Kind[c] # "recovery"
    BY <2>1 DEF SuffixOf
  <2> QED
    BY <1>4, <2>1, <2>2, <2>5, <2>6 DEF Made
<1> QED
  BY <1>4, <1>5, <1>6

(* Followups.                                                              *)
LEMMA FollowupSerial ==
    ASSUME SerialInv, NEW b \in Ids, Worker(b),
           \/ ListForFollowups(b) \/ CreateSubtask(b) \/ RefuseSubtask(b) \/ PlanFollowups(b)
           \/ FollowupTest(b) \/ FollowupDocs(b) \/ FollowupReview(b)
    PROVE  Effect /\ Current'
<1>1. TypeOK /\ disk \in Store /\ obj[b] \in Bead /\ subj[b] \in Ids
  BY StoreTypes DEF SerialInv, HInv, TypeOK
<1>2. WorkerHolds(b) /\ DoneCurrent(b) /\ PlanCurrent(b)
  BY DEF SerialInv, HInv, Current, WorkerCurrent
<1>3. /\ wpc[b] \in CompletionSteps /\ disk[b].status = "done" /\ disk[subj[b]].status = "done"
      /\ Agent[subj[b]] = "developer"
      /\ subj[b] = b \/ (subj[b] = Parent[b] /\ Kind[b] = "recovery")
  BY <1>2 DEF ListForFollowups, CreateSubtask, RefuseSubtask, PlanFollowups, FollowupTest, FollowupDocs, FollowupReview,
              DoneCurrent, DoneSteps, CompletionSteps, PlannedSteps
<1>4. CASE ListForFollowups(b)
  <2>1. disk' = disk /\ obj' = obj /\ subj' = subj /\ wpc'[b] = "fuPlan" /\ seen'[b] = disk
    BY <1>1, <1>4 DEF ListForFollowups, Goto, TypeOK
  <2>2. WorkerCurrent(b)'
    BY <1>3, <2>1
    DEF WorkerCurrent, RootCurrent, RepairCurrent, DoneCurrent, PlanCurrent, Pending, Working,
        DoneSteps, CompletionSteps, PlannedSteps
  <2> QED
    BY <2>1, <2>2, WorkerSerial DEF Effect
<1>5. CASE CreateSubtask(b)
  <2>1. PICK c \in Ids, p \in Proposals : /\ IsFreshChild(disk, subj[b], "subtask", c)
                                          /\ Save(c, NewBead(p.deps, {}, p.expected, p.globs))
    BY <1>5 DEF CreateSubtask
  <2> DEFINE r == NewBead(p.deps, {}, p.expected, p.globs)
  <2>2. wpc[b] = "fuPlan" /\ wpc' = wpc /\ obj' = obj /\ subj' = subj /\ seen' = seen
    BY <1>5 DEF CreateSubtask
  <2>3. New(r) /\ ~r.lease /\ r.reason = "none"
    BY NewChildren DEF NewBead, NoBead
  <2> HIDE DEF r
  <2>4. ~Exists(disk, c) /\ Kind[c] = "subtask" /\ Exists(disk, b)
    BY <1>3, <2>1 DEF IsFreshChild, Children, Exists
  <2>5. Only(c) /\ wpc[c] = "none" /\ New(disk'[c]) /\ ~disk'[c].lease /\ disk'[c].reason = "none"
    BY <2>1, <2>3, <2>4, ChildMade DEF r
  <2>6. Made(c)
    BY <2>4, <2>5 DEF Made
  <2>7. disk'[b].status = "done" /\ disk'[subj[b]].status = "done"
    BY <1>1, <1>3, <2>4, <2>5 DEF Only, Exists
  <2>8. \A x \in Ids : Exists(seen[b], x) => seen[b][x] = disk'[x]
    BY <1>2, <2>2, <2>4, <2>5 DEF PlanCurrent, Only, Exists
  <2>9. WorkerCurrent(b)'
    BY <1>3, <2>2, <2>7, <2>8
    DEF WorkerCurrent, RootCurrent, RepairCurrent, DoneCurrent, PlanCurrent, Pending, Working,
        DoneSteps, CompletionSteps, PlannedSteps, Exists
  <2> QED
    BY <2>5, <2>6, <2>9, WorkerSerial DEF Effect, Change
<1>6. CASE PlanFollowups(b)
  <2>1. PICK t \in FollowupIds(b, "tester"), d \in FollowupIds(b, "documentation"),
             r \in FollowupIds(b, "review") :
                 plan' = [plan EXCEPT ![b] = [NoPlan EXCEPT !["tester"] = t, !["documentation"] = d, !["review"] = r]]
    BY <1>6 DEF PlanFollowups
  <2>2. /\ wpc[b] = "fuPlan" /\ disk' = disk /\ obj' = obj /\ subj' = subj /\ seen' = seen
        /\ wpc'[b] = "fuTest"
        /\ plan'[b]["tester"] = t /\ plan'[b]["documentation"] = d /\ plan'[b]["review"] = r
    BY <1>1, <1>6, <2>1 DEF PlanFollowups, Goto, TypeOK, NoPlan, FollowupAgents
  <2>3. \A x \in Ids : Exists(seen[b], x) => seen[b][x] = disk[x]
    BY <1>2, <2>2 DEF PlanCurrent
  <2>4. \A a \in FollowupAgents :
            \/ /\ Exists(seen[b], plan'[b][a]) /\ seen[b][plan'[b][a]] = disk[plan'[b][a]]
               /\ Exists(disk, plan'[b][a]) /\ Agent[plan'[b][a]] = a
            \/ /\ ~Exists(seen[b], plan'[b][a]) /\ ~Exists(disk, plan'[b][a])
               /\ Kind[plan'[b][a]] = SuffixOf(a)
    BY <2>2, <2>3, SettledIds DEF FollowupAgents
  <2>5. \A a, e \in FollowupAgents : SuffixOf(a) = SuffixOf(e) => a = e
    BY DEF FollowupAgents, SuffixOf
  <2>6. \A a, e \in FollowupAgents : plan'[b][a] = plan'[b][e] => a = e
    BY <2>4, <2>5
  <2>7. PlanCurrent(b)'
    BY <2>2, <2>4, <2>6 DEF PlanCurrent, Pending, HasFollowup, FollowupAgents
  <2>8. WorkerCurrent(b)'
    BY <1>3, <2>2, <2>7
    DEF WorkerCurrent, RootCurrent, RepairCurrent, DoneCurrent, Working, DoneSteps, CompletionSteps, PlannedSteps
  <2> QED
    BY <2>2, <2>8, WorkerSerial DEF Effect
<1>7. ASSUME NEW agent \in {"tester", "documentation"}, NEW step,
             agent = "tester" => wpc[b] = "fuTest" /\ step = "fuDocs",
             agent = "documentation" => wpc[b] = "fuDocs" /\ step = "fuReview",
             CreateOrSync(b, agent, {subj[b]}), Goto(b, step), UNCHANGED <<obj, subj, res, seen, plan>>
      PROVE  Effect /\ Current'
  <2> DEFINE c == plan[b][agent]
  <2>1. wpc[b] \in PlannedSteps /\ agent \in Pending(wpc[b]) /\ wpc'[b] = step
    BY <1>1, <1>7 DEF PlannedSteps, Pending, Goto, TypeOK
  <2>2. c \in Ids /\ (disk' = disk \/ (Only(c) /\ (Tended(c) \/ Made(c))))
    BY <1>7, <2>1, FollowupWritten
  <2>3. disk'[b].status = "done" /\ disk'[subj[b]].status = "done"
    BY <1>1, <1>3, <2>2 DEF Only, Tended, SameStanding, Made, Exists
  <2>4. Pending(step) \subseteq FollowupAgents /\ Pending(step) \subseteq Pending(wpc[b]) \ {agent}
    BY <1>7 DEF Pending, FollowupAgents
  <2>5. \A a, e \in FollowupAgents : plan[b][a] = plan[b][e] => a = e
    BY <1>2, <2>1 DEF PlanCurrent
  <2>6. agent \in FollowupAgents /\ \A a \in FollowupAgents : plan[b][a] \in Ids
    BY <1>1, <1>7, <2>1 DEF FollowupAgents, TypeOK
  <2>7. \A a \in Pending(step) : plan[b][a] # c /\ plan[b][a] \in Ids
    BY <2>4, <2>5, <2>6
  <2>8. \A a \in Pending(step) : disk'[plan[b][a]] = disk[plan[b][a]]
    BY <2>2, <2>7 DEF Only
  <2>9. \A a \in Pending(step) :
            IF HasFollowup(b, a) THEN seen[b][plan[b][a]] = disk'[plan[b][a]]
            ELSE ~Exists(disk', plan[b][a])
    BY <1>2, <2>4, <2>8 DEF PlanCurrent, Exists
  <2>10. PlanCurrent(b)'
    BY <1>7, <2>1, <2>5, <2>9 DEF PlanCurrent, HasFollowup
  <2>11. WorkerCurrent(b)'
    BY <1>3, <1>7, <2>1, <2>3, <2>10
    DEF WorkerCurrent, RootCurrent, RepairCurrent, DoneCurrent, Working, DoneSteps, CompletionSteps, PlannedSteps
  <2>12. SamePool /\ Current'
    BY <2>11, WorkerSerial
  <2> QED
    BY <2>2, <2>12 DEF Effect, Change
<1>8. CASE FollowupTest(b)
  BY <1>7, <1>8 DEF FollowupTest
<1>9. CASE FollowupDocs(b)
  BY <1>7, <1>9 DEF FollowupDocs
<1>10. CASE FollowupReview(b)
  <2> DEFINE c == plan[b]["review"]
             q == [Synced(seen[b][c], obj[b]) EXCEPT !.deps = @ \cup ReviewDeps(b)]
  <2>1. wpc[b] \in PlannedSteps /\ "review" \in Pending(wpc[b]) /\ wpc'[b] \in {"raised", "ended"}
    BY <1>1, <1>10 DEF FollowupReview, PlannedSteps, Pending, Goto, TypeOK
  <2>2. \/ CreateOrSync(b, "review", ReviewDeps(b))
        \/ HasFollowup(b, "review") /\ (disk' = disk \/ Save(c, q))
    BY <1>10 DEF FollowupReview
  <2>3. c \in Ids /\ (disk' = disk \/ (Only(c) /\ (Tended(c) \/ Made(c))))
    BY <2>1, <2>2, FollowupWritten
  <2>4. SamePool /\ Current'
    BY <2>1, NothingToWrite, WorkerSerial
  <2> QED
    BY <2>3, <2>4 DEF Effect, Change
<1>11. CASE RefuseSubtask(b)
  BY <1>1, <1>11, NothingToWrite, WorkerSerial DEF RefuseSubtask, Goto, TypeOK, Effect
<1> QED
  BY <1>4, <1>5, <1>6, <1>8, <1>9, <1>10, <1>11

-----------------------------------------------------------------------------
(* The main thread.                                                        *)

(* It acts while no worker does.                                           *)
LEMMA NobodyWorks ==
    ASSUME \A b \in Ids : wpc'[b] = "none", MainCurrent'
    PROVE  Current'
<1>1. \A b \in Ids : WorkerCurrent(b)'
  BY NothingToWrite
<1>2. Alone'
  BY DEF Alone
<1> QED
  BY <1>1, <1>2 DEF Current

LEMMA MainTurn ==
    ASSUME SerialInv, mpc \notin {"wait", "abort"}, wpc' = wpc, MainCurrent'
    PROVE  Current' /\ SamePool /\ \A b \in Ids : wpc[b] = "none"
<1>1. \A b \in Ids : wpc[b] = "none"
  BY DEF SerialInv, Current, Alone
<1> QED
  BY <1>1, NobodyWorks DEF SamePool

(* The last finished corrective is one, and the decision is about it.      *)
LEMMA OneLatest ==
    ASSUME NEW d, NEW b, NEW c \in LatestDone(d, b), NEW o \in LatestDone(d, b)
    PROVE  c = o
<1>1. /\ c \in Ids /\ o \in Ids /\ Parent[c] = b /\ Parent[o] = b
      /\ Kind[c] = "corrective" /\ Kind[o] = "corrective"
      /\ Rank[c] <= Rank[o] /\ Rank[o] <= Rank[c] /\ Rank[c] \in Nat /\ Rank[o] \in Nat
  BY StoreAssumption DEF LatestDone, CorrectiveChildren, Children
<1>2. Rank[c] = Rank[o]
  BY <1>1
<1> QED
  BY <1>1, <1>2, StoreAssumption

LEMMA Decided ==
    ASSUME NEW d, NEW b, NEW r
    PROVE  /\ CorrectiveDecision(d, b, r) = "retry" =>
                  OpenCorrectives(d, b) = {} /\ \A c \in LatestDone(d, b) : ~AlreadyRetried(r, c)
           /\ CorrectiveDecision(d, b, r) = "create" =>
                  OpenCorrectives(d, b) = {} /\ CanPlanCorrective(b, r)
<1>1. CorrectiveDecision(d, b, r) = "retry" =>
          OpenCorrectives(d, b) = {} /\ \E c \in LatestDone(d, b) : ~AlreadyRetried(r, c)
  BY DEF CorrectiveDecision, DecisionWithin
<1>2. CorrectiveDecision(d, b, r) = "create" =>
          OpenCorrectives(d, b) = {} /\ CanPlanCorrective(b, r)
  BY DEF CorrectiveDecision, DecisionWithin
<1> QED
  BY <1>1, <1>2, OneLatest

(* Re-evaluating the blocked beads.                                        *)
LEMMA ReevalSerial ==
    ASSUME SerialInv,
           \/ BeginCycle \/ ReevalCreate \/ ReevalLink
           \/ \E b \in Ids : RetryTransient(b) \/ ReevaluateCorrective(b)
    PROVE  Effect /\ Current'
<1>1. TypeOK /\ disk \in Store /\ MainHolds /\ MainCurrent
  BY DEF SerialInv, HInv, TypeOK, Current
<1>2. CASE BeginCycle
  <2>1. Lapsed /\ wpc' = wpc
    BY <1>2 DEF BeginCycle, Lapsed, wvars
  <2>2. MainCurrent'
    BY <1>2 DEF BeginCycle, MainCurrent, View, BlockedBeads
  <2> QED
    BY <1>2, <2>1, <2>2, MainTurn DEF BeginCycle, Effect
<1>3. ASSUME NEW b \in Ids, Examine(b), wpc' = wpc, snap' = snap, NEW q, Save(b, q), mpc' = mpc, Change(b)
      PROVE  Effect /\ Current'
  <2>1. mpc = "reeval" /\ todo' = todo \ {b} /\ Only(b)
    BY <1>1, <1>3, SavesOnly DEF Examine
  <2>2. MainCurrent'
    BY <1>1, <1>3, <2>1 DEF MainCurrent, Only, TypeOK
  <2> QED
    BY <1>3, <2>1, <2>2, MainTurn DEF Effect
<1>4. ASSUME NEW b \in Ids, RetryTransient(b) PROVE Effect /\ Current'
  <2>1. b \in todo /\ mpc = "reeval" /\ snap[b].status = "blocked" /\ snap[b] = disk[b]
    BY <1>1, <1>4 DEF RetryTransient, Examine, MainHolds, MainCurrent
  <2>2. Woken(b)
    BY <1>1, <1>4, <2>1, SavesOnly DEF RetryTransient, Woken
  <2> QED
    BY <1>3, <1>4, <2>2 DEF RetryTransient, Change, wvars
<1>5. ASSUME NEW b \in Ids, ReevaluateCorrective(b) PROVE Effect /\ Current'
  <2>1. /\ b \in todo /\ mpc = "reeval" /\ snap[b].status = "blocked" /\ snap[b] = disk[b]
        /\ disk[b].reason # "transient"
        /\ Examine(b) /\ wpc' = wpc /\ snap' = snap
    BY <1>1, <1>5 DEF ReevaluateCorrective, Examine, MainHolds, MainCurrent, wvars
  <2>2. CASE /\ CorrectiveDecision(disk, b, snap[b]) = "retry" /\ mpc' = mpc
             /\ \E c \in LatestDone(disk, b) : Save(b, Requeued(snap[b], c))
    <3>1. PICK c \in LatestDone(disk, b) : Save(b, Requeued(snap[b], c))
      BY <2>2
    <3>2. OpenCorrectives(disk, b) = {} /\ ~AlreadyRetried(disk[b], c)
      BY <2>1, <2>2, Decided
    <3>3. RetriedFor(b, c)
      BY <1>1, <2>1, <3>1, <3>2, SavesOnly DEF RetriedFor
    <3>4. c \in Ids
      BY DEF LatestDone, CorrectiveChildren, Children
    <3> QED
      BY <1>3, <2>1, <2>2, <3>1, <3>3, <3>4 DEF Change
  <2>3. CASE /\ CorrectiveDecision(disk, b, snap[b]) = "create"
             /\ mpc' = "reevalCreate" /\ target' = b /\ UNCHANGED disk
    <3>1. OpenCorrectives(disk, b) = {} /\ ~disk[b].recov
      BY <2>1, <2>3, Decided DEF CanPlanCorrective
    <3>2. MainCurrent'
      BY <1>1, <2>1, <2>3, <3>1 DEF MainCurrent, Examine
    <3> QED
      BY <2>1, <2>3, <3>2, MainTurn DEF Effect
  <2>4. CASE Save(b, [snap[b] EXCEPT !.human = TRUE]) /\ mpc' = mpc
    <3>1. Escalated(b)
      BY <1>1, <2>1, <2>4, SavesOnly DEF Escalated
    <3> QED
      BY <1>3, <2>1, <2>4, <3>1 DEF Change
  <2>5. CASE UNCHANGED <<disk, mpc, target>>
    <3>1. MainCurrent'
      BY <1>1, <2>1, <2>5 DEF MainCurrent, Examine
    <3> QED
      BY <2>1, <2>5, <3>1, MainTurn DEF Effect
  <2> QED
    BY <1>5, <2>2, <2>3, <2>4, <2>5 DEF ReevaluateCorrective
<1>6. CASE ReevalCreate
  <2>1. PICK c \in Ids : IsFreshChild(disk, target, "corrective", c) /\ Save(c, CorrectiveBead(snap[target]))
    BY <1>6 DEF ReevalCreate
  <2>2. mpc = "reevalCreate" /\ mpc' = "reevalLink" /\ UNCHANGED <<todo, target, snap, selected>> /\ wpc' = wpc
    BY <1>6 DEF ReevalCreate, wvars
  <2>3. /\ target \in Ids /\ target \notin todo /\ snap[target] = disk[target]
        /\ disk[target].status = "blocked" /\ disk[target].reason # "transient" /\ ~disk[target].recov
        /\ OpenCorrectives(disk, target) = {}
    BY <1>1, <2>2 DEF MainCurrent, MainHolds, TypeOK
  <2>4. ~Exists(disk, c) /\ Parent[c] = target /\ Kind[c] = "corrective"
    BY <2>1 DEF IsFreshChild, Children
  <2>5. Only(c) /\ disk'[c] = CorrectiveBead(snap[target])
    BY <1>1, <2>1, SavesOnly
  <2>6. New(disk'[c]) /\ ~disk'[c].lease /\ disk'[c].reason = "none"
    BY <2>5 DEF CorrectiveBead, NewBead, NoBead, New
  <2>7. \A x \in todo \cup {target} : disk'[x] = disk[x]
    <3>1. \A x \in todo \cup {target} : x \in Ids /\ disk[x].status = "blocked"
      BY <1>1, <2>2, <2>3 DEF MainHolds, MainCurrent, TypeOK
    <3> QED
      BY <2>4, <2>5, <3>1 DEF Only, Exists
  <2>8. MainCurrent'
    BY <1>1, <2>2, <2>3, <2>7 DEF MainCurrent
  <2>9. Current' /\ SamePool /\ wpc[c] = "none"
    BY <2>2, <2>8, MainTurn
  <2>10. Made(c)
    BY <2>1, <2>3, <2>4, <2>6, <2>9 DEF Made
  <2> QED
    BY <2>5, <2>9, <2>10 DEF Effect, Change
<1>7. CASE ReevalLink
  <2>1. disk' = disk
    BY <1>1, <1>7 DEF ReevalLink, MainCurrent, Save, Store
  <2>2. MainCurrent' /\ wpc' = wpc
    BY <1>1, <1>7, <2>1 DEF ReevalLink, MainCurrent, wvars
  <2> QED
    BY <1>7, <2>1, <2>2, MainTurn DEF ReevalLink, Effect
<1> QED
  BY <1>2, <1>4, <1>5, <1>6, <1>7

(* Picking a bead and giving it to the worker.                             *)
LEMMA FillSerial ==
    ASSUME FiniteIds, OneWorker, SerialInv,
           \/ BeginFill \/ EndFill \/ WaitCompletion \/ Abort
           \/ \E b \in Ids : DeferBead(b) \/ SelectBead(b)
    PROVE  Effect /\ Current'
<1>1. TypeOK /\ disk \in Store /\ MainHolds /\ MainCurrent /\ Alone
  BY DEF SerialInv, HInv, TypeOK, Current
<1>2. CASE BeginFill
  <2>1. mpc = "reeval" /\ selected = {} /\ selected' = {} /\ wpc' = wpc /\ disk' = disk
    BY <1>1, <1>2 DEF BeginFill, MainHolds, wvars
  <2>2. CASE mpc' \in {"idle", "wait"}
    BY <1>1, <2>1, <2>2, MainTurn DEF MainCurrent, Effect
  <2>3. CASE mpc' = "fill"
    <3>1. /\ MaxWorkers # 0 /\ todo' = {b \in ReadyBeads(disk) : InFilter(b)} \ (InFlight \cup started)
          /\ snap' = View(disk, todo' \cup ActiveBeads(disk))
      BY <1>2, <2>3 DEF BeginFill
    <3>2. \A x \in todo' : snap'[x] = disk[x] /\ DepsDone(disk, disk[x])
      BY <3>1 DEF ReadyBeads, View
    <3>3. MainCurrent'
      BY <2>1, <2>3, <3>1, <3>2 DEF MainCurrent
    <3> QED
      BY <2>1, <3>3, MainTurn DEF Effect
  <2> QED
    BY <1>2, <2>2, <2>3 DEF BeginFill
<1>3. ASSUME NEW b \in Ids, DeferBead(b) PROVE Effect /\ Current'
  <2>1. /\ mpc = "fill" /\ mpc' = mpc /\ b \in todo /\ todo' = todo \ {b} /\ wpc' = wpc
        /\ snap' = snap /\ selected' = selected /\ b \notin selected
        /\ snap[b] = disk[b] /\ disk[b].status = "ready"
    BY <1>1, <1>3 DEF DeferBead, NextCandidate, MainCurrent, MainHolds, wvars
  <2>2. disk' = disk \/ (Only(b) /\ disk'[b] = [disk[b] EXCEPT !.reason = "other"])
    BY <1>1, <1>3, <2>1, SavesOnly DEF DeferBead
  <2>3. disk' = disk \/ (Only(b) /\ PutOff(b))
    BY <2>1, <2>2 DEF PutOff
  <2>4. \A x \in Ids : disk'[x].status = disk[x].status
    BY <1>1, <2>2, StoreTypes DEF Only, Bead
  <2>5. \A x \in todo' \cup selected' : snap'[x] = disk'[x] /\ DepsDone(disk', disk'[x])
    <3> SUFFICES ASSUME NEW x \in todo' \cup selected'
                 PROVE  snap'[x] = disk'[x] /\ DepsDone(disk', disk'[x])
      OBVIOUS
    <3>1. x \in Ids \ {b} /\ snap[x] = disk[x] /\ DepsDone(disk, disk[x])
      BY <1>1, <2>1 DEF MainCurrent, TypeOK
    <3>2. disk'[x] = disk[x]
      BY <2>2, <3>1 DEF Only
    <3> QED
      BY <2>1, <2>4, <3>1, <3>2 DEF DepsDone, IsDone, Exists
  <2>6. MainCurrent'
    BY <1>1, <2>1, <2>5 DEF MainCurrent
  <2> QED
    BY <2>1, <2>3, <2>6, MainTurn DEF Effect, Change
<1>4. ASSUME NEW b \in Ids, SelectBead(b) PROVE Effect /\ Current'
  <2>1. /\ mpc = "fill" /\ mpc' = mpc /\ b \in todo /\ todo' = todo \ {b} /\ wpc' = wpc /\ disk' = disk
        /\ snap' = snap /\ selected' = IF Cardinality(selected) < FreeSlots THEN selected \cup {b} ELSE selected
    BY <1>4 DEF SelectBead, NextCandidate, wvars
  <2>2. InFlight = {}
    BY <1>1, <2>1 DEF Alone, InFlight
  <2>3. IsFiniteSet(selected) /\ Cardinality(selected) \in Nat
    BY <1>1, FS_Subset, FS_CardinalityType DEF FiniteIds, TypeOK
  <2>4. FreeSlots <= 1
    BY <2>2, FS_EmptySet, SchedulerAssumption DEF OneWorker, FreeSlots
  <2>5. Cardinality(selected) < FreeSlots => selected = {}
    <3>1. FreeSlots \in Int
      BY <2>2, FS_EmptySet, SchedulerAssumption DEF FreeSlots
    <3>2. Cardinality(selected) < FreeSlots => Cardinality(selected) = 0
      BY <2>3, <2>4, <3>1
    <3> QED
      BY <2>3, <3>2, FS_EmptySet
  <2>6. selected' \in {selected, {b}}
    BY <2>1, <2>5
  <2>7. selected' \subseteq selected \cup {b} /\ \A x, y \in selected' : x = y
    BY <1>1, <2>1, <2>6 DEF MainCurrent
  <2>8. MainCurrent'
    BY <1>1, <2>1, <2>7 DEF MainCurrent
  <2> QED
    BY <2>1, <2>8, MainTurn DEF Effect
<1>5. CASE EndFill
  <2>1. mpc = "fill" /\ disk' = disk /\ \A b \in Ids : wpc[b] = "none"
    BY <1>1, <1>5 DEF EndFill, Alone
  <2>2. CASE EndCycle
    <3>1. mpc' \in {"cycle", "idle"} /\ wpc' = wpc
      BY <2>2 DEF EndCycle, wvars
    <3>2. MainCurrent'
      BY <3>1 DEF MainCurrent
    <3> QED
      BY <2>1, <3>1, <3>2, MainTurn DEF Effect
  <2>3. CASE Submit
    <3>1. mpc' = "wait" /\ MainCurrent'
      BY <2>3 DEF Submit, MainCurrent
    <3>2. Alone'
      BY <1>1, <2>1, <2>3 DEF Alone, Submit, MainCurrent
    <3>3. ASSUME NEW b \in selected PROVE WorkerCurrent(b)'
      <4>1. b \in Ids /\ wpc'[b] = "begin" /\ obj'[b] = snap[b]
        BY <1>1, <2>3 DEF Submit, TypeOK
      <4>2. snap[b] = disk[b] /\ disk[b].status = "ready" /\ DepsDone(disk, disk[b])
        BY <1>1, <2>1 DEF MainCurrent, MainHolds
      <4> QED
        BY <2>1, <4>1, <4>2
        DEF WorkerCurrent, RootCurrent, RepairCurrent, DoneCurrent, PlanCurrent, Pending, Working,
            DoneSteps, CompletionSteps, PlannedSteps, DepsDone
    <3>4. ASSUME NEW b \in Ids \ selected PROVE WorkerCurrent(b)'
      BY <2>1, <2>3, NothingToWrite DEF Submit
    <3> QED
      BY <2>1, <3>1, <3>2, <3>3, <3>4 DEF Current, Effect
  <2> QED
    BY <1>5, <2>2, <2>3 DEF EndFill
<1>6. CASE WaitCompletion \/ Abort
  <2>1. Reap(Finished) /\ disk' = disk /\ mpc' \in {"abort", "reeval", "idle"}
        /\ (mpc' = "reeval" => todo' = BlockedBeads(disk) /\ snap' = View(disk, todo'))
    BY <1>6 DEF WaitCompletion, Abort
  <2>2. \A b \in Ids : wpc[b] = "none" \/ b \in Finished
    BY <1>1, <1>6 DEF WaitCompletion, Abort, Alone, Finished, InFlight
  <2>3. \A b \in Ids : wpc'[b] = "none"
    BY <2>1, <2>2 DEF Reap
  <2>4. MainCurrent'
    BY <2>1 DEF MainCurrent, View, BlockedBeads
  <2> QED
    BY <2>1, <2>3, <2>4, NobodyWorks DEF Effect
<1> QED
  BY <1>2, <1>3, <1>4, <1>5, <1>6

-----------------------------------------------------------------------------
(* Every step.                                                             *)

(* A new run, a kill, or nothing.                                          *)
LEMMA OtherSerial ==
    ASSUME OneWorker, SerialInv, StartRun \/ Operator \/ Crash \/ Rest \/ UNCHANGED vars
    PROVE  Effect /\ Current'
<1>1. TypeOK /\ Current
  BY DEF SerialInv, HInv
<1>2. CASE StartRun
  <2>1. MainCurrent' /\ wpc' = wpc /\ disk' = disk
    BY <1>2 DEF StartRun, MainCurrent, wvars
  <2> QED
    BY <1>2, <2>1, MainTurn DEF StartRun, Effect
<1>3. CASE Operator
  <2>1. ~(ops < MaxOps)
    BY <1>1 DEF OneWorker, NoOperator, TypeOK
  <2> QED
    BY <1>3, <2>1 DEF Operator, OperatorRetry, OperatorStatus
<1>4. CASE Crash
  <2>1. MainCurrent' /\ disk' = disk /\ \A b \in Ids : wpc'[b] = "none"
    BY <1>4 DEF Crash, Reap, MainCurrent
  <2> QED
    BY <2>1, NobodyWorks DEF Effect
<1>5. CASE Rest \/ UNCHANGED vars
  <2>1. UNCHANGED <<disk, mvars, wvars>>
    BY <1>5 DEF Rest, vars
  <2>2. Alone' /\ MainCurrent'
    BY <1>1, <2>1 DEF Current, Alone, MainCurrent, mvars, wvars
  <2>3. \A b \in Ids : WorkerCurrent(b)'
    BY <1>1, <2>1
    DEF Current, WorkerCurrent, RootCurrent, RepairCurrent, DoneCurrent, PlanCurrent, Working,
        HasFollowup, mvars, wvars
  <2> QED
    BY <2>1, <2>2, <2>3 DEF Current, Effect
<1> QED
  BY <1>2, <1>3, <1>4, <1>5

(* With one worker nothing that is written is stale.                       *)
LEMMA SerialStep ==
    ASSUME FiniteIds, OneWorker, SerialInv, [Next]_vars
    PROVE  SerialInv' /\ Effect
<1>1. HInv'
  BY StepFlow DEF SerialInv
<1>2. Effect /\ Current'
  <2>1. ASSUME NEW b \in Ids, Worker(b) PROVE Effect /\ Current'
    BY <2>1, HeadSerial, OutcomeSerial, RepairSerial, FollowupSerial DEF Worker
  <2>2. CASE Main
    BY <2>2, ReevalSerial, FillSerial DEF Main
  <2> QED
    BY <2>1, <2>2, OtherSerial DEF Next, Workers
<1> QED
  BY <1>1, <1>2 DEF SerialInv

LEMMA SerialInit ==
    ASSUME Init
    PROVE  SerialInv
<1>1. HInv /\ Alone /\ MainCurrent
  BY InitFlow DEF Init, Idle, Alone, MainCurrent
<1>2. \A b \in Ids : WorkerCurrent(b)
  BY DEF Init, Idle, WorkerCurrent, RootCurrent, RepairCurrent, DoneCurrent, PlanCurrent, Pending,
         Working, DoneSteps, CompletionSteps, PlannedSteps
<1> QED
  BY <1>1, <1>2 DEF SerialInv, Current

(* A bead is being worked on only while everything it depends on is done:  *)
(* ready_beads looks once, when the bead is listed, and what was done then *)
(* is done until the agent's answer has been taken.                        *)
THEOREM WorksOnDone ==
    ASSUME FiniteIds, OneWorker
    PROVE  Spec => []WorksOnDoneDeps
<1>1. Init => SerialInv
  BY SerialInit
<1>2. SerialInv /\ [Next]_vars => SerialInv'
  BY SerialStep
<1>3. SerialInv => WorksOnDoneDeps
  BY DEF SerialInv, Current, WorkerCurrent, RootCurrent, WorksOnDoneDeps, Working
<1> QED
  BY <1>1, <1>2, <1>3, PTL DEF Spec

-----------------------------------------------------------------------------
(* Retries.                                                                *)

(* The only developers among the ids below a corrective are correctives:   *)
(* a corrective gets a recovery at most, never followups or subtasks.      *)
CorrectiveDevelopers == \A c \in CorrectiveIds : Agent[c] = "developer" => Kind[c] = "corrective"

(* What a step does to one bead.                                           *)
Expires(x) ==
    disk'[x] = [disk[x] EXCEPT !.lease = FALSE, !.status = IF @ = "in_progress" THEN "ready" ELSE @]

LEMMA EachBead ==
    ASSUME Effect, NEW x \in Ids
    PROVE  \/ disk'[x] = disk[x]
           \/ Lapsed /\ disk[x].lease /\ Expires(x)
           \/ SamePool /\ Only(x) /\ Change(x)
BY DEF Effect, Lapsed, Expired, Expires, Leased, Only

(* A retry is bought by a corrective that is done.                         *)
LEMMA RetryBought ==
    ASSUME SerialInv, CorrectiveDevelopers, NEW x \in Ids, NEW c \in Ids, RetriedFor(x, c)
    PROVE  c \in CorrectiveChildren(disk, x) /\ disk[c].status = "done"
<1>1. CASE c \in LatestDone(disk, x)
  BY <1>1 DEF LatestDone
<1>2. ASSUME NEW b \in Ids, wpc[b] = "requeueSave", c = subj[b], Parent[c] = x
      PROVE  c \in CorrectiveChildren(disk, x) /\ disk[c].status = "done"
  <2>1. disk[c].status = "done" /\ Agent[c] = "developer" /\ IsCorrective(c)
    BY <1>2 DEF SerialInv, HInv, WorkerHolds, Current, WorkerCurrent, DoneCurrent, CompletionSteps
  <2> QED
    BY <1>2, <2>1 DEF CorrectiveDevelopers, IsCorrective, CorrectiveChildren, Children, Exists
<1> QED
  BY <1>1, <1>2 DEF RetriedFor

LEMMA RetryBySteps ==
    ASSUME FiniteIds, OneWorker, CorrectiveDevelopers, SerialInv, [Next]_vars, NEW x \in Ids
    PROVE  RetryStep(x)
<1>1. Effect /\ disk[x] \in Bead
  BY SerialStep, StoreTypes DEF SerialInv, HInv, TypeOK
<1> SUFFICES ASSUME disk[x].status = "blocked", disk'[x].status = "ready", disk[x].reason # "transient"
             PROVE  \E c \in CorrectiveChildren(disk, x) :
                        disk[c].status = "done" /\ c \notin disk[x].retried /\ c \in disk'[x].retried
  BY DEF RetryStep
<1>2. ~(Lapsed /\ Expires(x))
  BY <1>1 DEF Expires, Bead
<1>3. Change(x)
  BY <1>1, <1>2, EachBead
<1>4. PICK c \in Ids : RetriedFor(x, c)
  BY <1>1, <1>3 DEF Change, Tended, SameStanding, PutOff, Woken, Escalated, Made, Exists, Worked, Ended,
                    Completed, Bead
<1>5. c \in disk'[x].retried /\ c \notin disk[x].retried
  BY <1>1, <1>4 DEF RetriedFor, Requeued, AlreadyRetried, Bead
<1> QED
  BY <1>4, <1>5, RetryBought

(* Unless its failure was transient, a blocked bead becomes ready again    *)
(* only for a corrective that is done, and each corrective buys one retry: *)
(* the worker that finishes a corrective (RequeueParent) and the main      *)
(* thread (ReevaluateCorrective) never both requeue the bead for it.       *)
THEOREM RetriesJustified ==
    ASSUME FiniteIds, OneWorker, CorrectiveDevelopers
    PROVE  Spec => RetryJustified
<1>1. Init => SerialInv
  BY SerialInit
<1>2. SerialInv /\ [Next]_vars => SerialInv'
  BY SerialStep
<1>3. SerialInv /\ [Next]_vars => [ops' = ops => \A b \in Ids : RetryStep(b)]_vars
  BY RetryBySteps
<1> QED
  BY <1>1, <1>2, <1>3, PTL DEF Spec, RetryJustified

-----------------------------------------------------------------------------
(* One corrective at a time.                                               *)

(* Correctives are numbered without gaps, one that is under way is the     *)
(* last, and none waits for the end of a transient failure: it would be    *)
(* woken beside the one that was made in its place.                        *)
Gapless(d) ==
    \A c, o \in Ids :
        /\ Kind[c] = "corrective" /\ Kind[o] = "corrective" /\ Parent[c] = Parent[o]
        /\ Exists(d, c) /\ Rank[o] < Rank[c]
        => Exists(d, o)
IsOpen(d, c) == d[c].status \in {"ready", "in_progress"}
OpenLast(d) ==
    \A c \in Ids : Kind[c] = "corrective" /\ IsOpen(d, c) =>
        \A o \in CorrectiveChildren(d, Parent[c]) : Rank[o] <= Rank[c]
NeverTransient(d) == \A c \in Ids : Kind[c] = "corrective" => d[c].reason # "transient"

InOrder(d) == Gapless(d) /\ OpenLast(d) /\ NeverTransient(d)
OrderInv == SerialInv /\ Plannable /\ InOrder(disk)

NoTransientCorrectives ==
    \A c \in Ids : Kind[c] = "corrective" =>
        Outcomes[c] \cap {"blocked_transient", "failed_transient"} = {}
StartsInOrder ==
    \A store \in InitStores :
        InOrder(store) /\ \A x \in Ids : CorrectiveChildren(store, x) # {} => MayHave(x)

(* A file appears by being made, and does not disappear.                   *)
LEMMA FilesStay ==
    ASSUME SerialInv, Effect, NEW x \in Ids
    PROVE  /\ Exists(disk, x) => Exists(disk', x)
           /\ Exists(disk', x) => Exists(disk, x) \/ (Only(x) /\ Made(x))
<1>1. disk[x] \in Bead
  BY StoreTypes DEF SerialInv, HInv, TypeOK
<1>2. CASE disk'[x] = disk[x]
  BY <1>2 DEF Exists
<1>3. CASE Expires(x)
  BY <1>1, <1>3 DEF Expires, Exists, Bead
<1>4. CASE Only(x) /\ Change(x)
  <2>1. CASE Made(x)
    BY <1>4, <2>1 DEF Made, New, Exists
  <2>2. CASE ~Made(x)
    BY <1>1, <1>4, <2>2
    DEF Change, Tended, SameStanding, PutOff, Woken, RetriedFor, Requeued, Escalated, Worked, Ended,
        Running, Completed, Exists, Bead
  <2> QED
    BY <2>1, <2>2
<1> QED
  BY <1>2, <1>3, <1>4, EachBead

(* A corrective that is over stays so.                                     *)
LEMMA NoReopening ==
    ASSUME CorrectiveDevelopers, OrderInv, Effect, NEW c \in Ids, Kind[c] = "corrective", IsOpen(disk', c)
    PROVE  IsOpen(disk, c) \/ (Only(c) /\ Made(c))
<1>1. disk[c] \in Bead /\ SerialInv
  BY StoreTypes DEF OrderInv, SerialInv, HInv, TypeOK
<1>2. CASE disk'[c] = disk[c]
  BY <1>2 DEF IsOpen
<1>3. CASE Expires(c)
  BY <1>1, <1>3 DEF Expires, IsOpen, Bead
<1>4. CASE Only(c) /\ Change(c)
  <2>1. \A o \in Ids : ~RetriedFor(c, o)
    <3> SUFFICES ASSUME NEW o \in Ids, RetriedFor(c, o) PROVE FALSE
      OBVIOUS
    <3>1. MayHave(c)
      BY <1>1, RetryBought DEF OrderInv, Plannable
    <3> QED
      BY <3>1, StoreAssumption DEF MayHave, IsCorrective
  <2>2. ~Woken(c)
    BY DEF Woken, OrderInv, InOrder, NeverTransient
  <2> QED
    BY <1>1, <1>4, <2>1, <2>2
    DEF Change, Tended, SameStanding, PutOff, Escalated, Worked, Ended, Completed, IsOpen, Bead
<1> QED
  BY <1>2, <1>3, <1>4, EachBead

LEMMA OrderStep ==
    ASSUME FiniteIds, OneWorker, CorrectiveDevelopers, NoTransientCorrectives, OrderInv, [Next]_vars
    PROVE  OrderInv'
<1>1. SerialInv /\ SerialInv' /\ Effect /\ Plannable' /\ Gapless(disk) /\ OpenLast(disk) /\ NeverTransient(disk)
  BY SerialStep, PlannableStep DEF OrderInv, SerialInv, InOrder
<1>2. Gapless(disk')
  <2> SUFFICES ASSUME NEW c \in Ids, NEW o \in Ids, Kind[c] = "corrective", Kind[o] = "corrective",
                      Parent[c] = Parent[o], Exists(disk', c), Rank[o] < Rank[c]
               PROVE  Exists(disk', o)
    BY DEF Gapless
  <2>1. CASE Exists(disk, c)
    BY <1>1, <2>1, FilesStay DEF Gapless
  <2>2. CASE Made(c)
    BY <1>1, <2>2, FilesStay DEF Made, IsFreshChild, Children
  <2> QED
    BY <1>1, <2>1, <2>2, FilesStay
<1>3. OpenLast(disk')
  <2> SUFFICES ASSUME NEW c \in Ids, Kind[c] = "corrective", IsOpen(disk', c),
                      NEW o \in CorrectiveChildren(disk', Parent[c])
               PROVE  Rank[o] <= Rank[c]
    BY DEF OpenLast
  <2>1. o \in Ids /\ Kind[o] = "corrective" /\ Parent[o] = Parent[c] /\ Exists(disk', o)
        /\ Rank[o] \in Nat /\ Rank[c] \in Nat
    BY StoreAssumption DEF CorrectiveChildren, Children
  <2>2. CASE Only(c) /\ Made(c)
    <3>1. CASE Rank[c] < Rank[o]
      <4>1. o # c /\ ~Exists(disk, c)
        BY <2>1, <2>2, <3>1 DEF Made
      <4>2. Exists(disk, o)
        BY <2>1, <2>2, <4>1 DEF Only, Exists
      <4> QED
        BY <1>1, <2>1, <3>1, <4>1, <4>2 DEF Gapless
    <3> QED
      BY <2>1, <3>1
  <2>3. CASE IsOpen(disk, c)
    <3>1. CASE Exists(disk, o)
      BY <1>1, <2>1, <2>3, <3>1 DEF OpenLast, CorrectiveChildren, Children
    <3>2. CASE Made(o)
      BY <2>1, <2>3, <3>2 DEF Made, OpenCorrectives, CorrectiveChildren, Children, IsOpen, Exists
    <3> QED
      BY <1>1, <2>1, <3>1, <3>2, FilesStay
  <2> QED
    BY <1>1, <2>2, <2>3, NoReopening
<1>4. NeverTransient(disk')
  <2> SUFFICES ASSUME NEW c \in Ids, Kind[c] = "corrective" PROVE disk'[c].reason # "transient"
    BY DEF NeverTransient
  <2>1. disk[c] \in Bead /\ disk[c].reason # "transient"
    BY <1>1, StoreTypes DEF NeverTransient, SerialInv, HInv, TypeOK
  <2>2. CASE Expires(c)
    BY <2>1, <2>2 DEF Expires, Bead
  <2>3. CASE Change(c)
    BY <2>1, <2>3
    DEF Change, Tended, SameStanding, PutOff, Woken, RetriedFor, Requeued, Escalated, Made, Worked, Ended,
        Running, Completed, NoTransientCorrectives, Bead
  <2> QED
    BY <1>1, <2>1, <2>2, <2>3, EachBead
<1> QED
  BY <1>1, <1>2, <1>3, <1>4 DEF OrderInv, InOrder

LEMMA OrderInit ==
    ASSUME StartsInOrder, Init
    PROVE  OrderInv
<1>1. PICK store \in InitStores : Idle(store)
  BY DEF Init
<1>2. disk = store /\ mpc = "idle" /\ wpc = [b \in Ids |-> "none"]
  BY <1>1 DEF Idle
<1>3. InOrder(disk) /\ Plannable
  BY <1>2 DEF StartsInOrder, Plannable
<1> QED
  BY <1>3, SerialInit DEF OrderInv

(* A blocked bead has at most one corrective under way: the one finalize   *)
(* creates for a needs_changes verdict, or the one the main thread creates *)
(* when it re-evaluates the bead, and the next only when that one is over. *)
THEOREM OneCorrective ==
    ASSUME FiniteIds, OneWorker, CorrectiveDevelopers, NoTransientCorrectives, StartsInOrder
    PROVE  Spec => []OneOpenCorrective
<1>1. Init => OrderInv
  BY OrderInit
<1>2. OrderInv /\ [Next]_vars => OrderInv'
  BY OrderStep
<1>3. ASSUME OrderInv PROVE OneOpenCorrective
  <2> SUFFICES ASSUME NEW b \in Ids PROVE Cardinality(OpenCorrectives(disk, b)) <= 1
    BY DEF OneOpenCorrective
  <2>1. \A c, o \in OpenCorrectives(disk, b) :
            /\ Rank[o] <= Rank[c] /\ Rank[c] \in Nat
            /\ c \in Ids /\ Parent[c] = b /\ Kind[c] = "corrective"
    BY <1>3, StoreAssumption
    DEF OrderInv, InOrder, OpenLast, OpenCorrectives, CorrectiveChildren, Children, IsOpen
  <2>2. \A c, o \in OpenCorrectives(disk, b) : Rank[c] = Rank[o]
    BY <2>1
  <2>3. \A c, o \in OpenCorrectives(disk, b) : c = o
    BY <2>1, <2>2, StoreAssumption
  <2>4. OpenCorrectives(disk, b) = {} \/ \E c \in OpenCorrectives(disk, b) : OpenCorrectives(disk, b) = {c}
    BY <2>3
  <2> QED
    BY <2>4, FS_EmptySet, FS_Singleton
<1> QED
  BY <1>1, <1>2, <1>3, PTL DEF Spec

-----------------------------------------------------------------------------
(* The pool and the files, as a step of BeadLifecycle.                     *)

(* The pool grows by a bead that is ready, when it is empty, or shrinks;   *)
(* the files do not change then.                                           *)
PoolGrows ==
    /\ disk' = disk /\ InFlight = {}
    /\ \E b \in Ids : InFlight' = {b} /\ disk[b].status = "ready"
    /\ MaxWorkers # 0
PoolShrinks == disk' = disk /\ InFlight' \subseteq InFlight

LEMMA PoolStep ==
    ASSUME FiniteIds, OneWorker, SerialInv, [Next]_vars
    PROVE  InFlight' = InFlight \/ PoolGrows \/ PoolShrinks
<1>1. TypeOK /\ Alone /\ MainCurrent /\ MainHolds
  BY DEF SerialInv, HInv, Current
<1>2. ASSUME NEW b \in Ids, Worker(b) PROVE InFlight' = InFlight
  BY <1>1, <1>2, WorkerKeeps DEF OthersKept, InFlight
<1>3. ASSUME NEW W \in SUBSET Ids, Reap(W), disk' = disk PROVE PoolShrinks
  BY <1>3 DEF Reap, InFlight, PoolShrinks
<1>4. CASE EndFill
  <2>1. CASE EndCycle
    BY <2>1 DEF EndCycle, InFlight, wvars
  <2>2. CASE Submit
    <3>1. InFlight = {} /\ InFlight' = selected /\ disk' = disk /\ MaxWorkers # 0
      BY <1>1, <1>4, <2>2 DEF EndFill, Submit, InFlight, Alone, MainCurrent, TypeOK
    <3>2. selected = {} \/ \E b \in Ids : selected = {b} /\ disk[b].status = "ready"
      <4>1. mpc = "fill" /\ todo = {} /\ selected \subseteq Ids
        BY <1>1, <1>4 DEF EndFill, TypeOK
      <4>2. \A x, y \in selected : x = y /\ disk[x].status = "ready"
        BY <1>1, <4>1 DEF MainCurrent, MainHolds
      <4>3. ASSUME NEW x \in selected PROVE selected = {x} /\ x \in Ids /\ disk[x].status = "ready"
        BY <4>1, <4>2
      <4> QED
        BY <4>3
    <3> QED
      BY <3>1, <3>2 DEF PoolGrows
  <2> QED
    BY <1>4, <2>1, <2>2 DEF EndFill
<1>5. CASE Main
  BY <1>3, <1>4, <1>5
  DEF Main, BeginCycle, RetryTransient, ReevaluateCorrective, ReevalCreate, ReevalLink, BeginFill,
      DeferBead, SelectBead, WaitCompletion, Abort, Finished, InFlight, wvars
<1>6. CASE StartRun \/ Operator \/ Crash \/ Rest \/ UNCHANGED vars
  BY <1>3, <1>6 DEF StartRun, Operator, OperatorRetry, OperatorStatus, Crash, Rest, InFlight, vars, wvars
<1> QED
  BY <1>2, <1>5, <1>6 DEF Next, Workers

(* A recovery completes a bead that is blocked, or one that is done.       *)
RecoversBlocked == \A b \in Ids : wpc[b] = "recSave" => disk[subj[b]].status \in {"blocked", "done"}

(* What a step does to the status of the one bead it changes.              *)
LEMMA StatusMoves ==
    ASSUME SerialInv, RecoversBlocked, NEW x \in Ids, Only(x), Change(x), disk'[x].status # disk[x].status
    PROVE  \/ x \notin InFlight /\ disk[x].status = "absent" /\ disk'[x].status = "ready"
           \/ x \notin InFlight /\ disk[x].status = "blocked" /\ disk'[x].status \in {"ready", "done"}
           \/ x \in InFlight /\ disk[x].status = "ready" /\ disk'[x].status \in {"in_progress", "blocked"}
           \/ x \in InFlight /\ disk[x].status = "in_progress" /\ disk'[x].status \in {"blocked", "done"}
<1>1. disk[x] \in Bead /\ Alone /\ TypeOK
  BY StoreTypes DEF SerialInv, HInv, TypeOK, Current
<1>2. CASE Tended(x) \/ PutOff(x) \/ Escalated(x)
  BY <1>1, <1>2 DEF Tended, SameStanding, PutOff, Escalated, Bead
<1>3. CASE Woken(x)
  BY <1>1, <1>3 DEF Woken, Alone, InFlight, Bead
<1>4. CASE Made(x)
  BY <1>4 DEF Made, New, Exists, InFlight
<1>5. CASE Worked(x)
  BY <1>1, <1>5 DEF Worked, Ended, Running, InFlight, Bead
<1>6. CASE Completed(x)
  <2>1. PICK b \in Ids : wpc[b] = "recSave" /\ subj[b] = x /\ Parent[b] = x
    BY <1>6 DEF Completed
  <2>2. x # b /\ x \notin InFlight
    BY <1>1, <2>1, StoreAssumption DEF Alone, InFlight
  <2> QED
    BY <1>6, <2>1, <2>2 DEF Completed, RecoversBlocked
<1>7. ASSUME NEW c \in Ids, RetriedFor(x, c)
      PROVE  x \notin InFlight /\ disk[x].status = "blocked" /\ disk'[x].status = "ready"
  <2>1. disk[x].status = "blocked" /\ disk'[x].status = "ready"
    BY <1>1, <1>7 DEF RetriedFor, Requeued, Bead
  <2>2. ASSUME NEW b \in Ids, wpc[b] = "requeueSave" PROVE x \notin InFlight
    <3>1. disk[b].status = "done"
      BY <2>2 DEF SerialInv, Current, WorkerCurrent, DoneCurrent, DoneSteps, CompletionSteps
    <3> QED
      BY <1>1, <2>1, <2>2, <3>1 DEF Alone, InFlight
  <2> QED
    BY <1>1, <1>7, <2>1, <2>2 DEF RetriedFor, Alone, InFlight
<1> QED
  BY <1>2, <1>3, <1>4, <1>5, <1>6, <1>7 DEF Change

(* Every step is one of BeadLifecycle, or changes nothing that it shows.   *)
LEMMA LifecycleStep ==
    ASSUME FiniteIds, OneWorker, SerialInv, RecoversBlocked, [Next]_vars
    PROVE  [Lifecycle!LNext]_(Lifecycle!lifecycle)
<1> DEFINE life == [b \in Ids |-> disk[b].status]
<1>1. Effect /\ disk \in Store /\ Alone
  BY SerialStep DEF SerialInv, HInv, TypeOK, Current
<1>2. CASE PoolGrows
  <2>1. PICK b \in Ids : InFlight' = {b} /\ disk[b].status = "ready"
    BY <1>2 DEF PoolGrows
  <2>2. Cardinality(InFlight') <= MaxWorkers
    <3>1. Cardinality({b}) = 1
      BY FS_Singleton
    <3>2. MaxWorkers \in Nat /\ MaxWorkers # 0
      BY <1>2, SchedulerAssumption DEF PoolGrows
    <3> QED
      BY <2>1, <3>1, <3>2
  <2> QED
    <3>1. InFlight # InFlight' /\ InFlight \subseteq InFlight' /\ life' = life
      BY <1>2, <2>1 DEF PoolGrows
    <3>2. \A x \in InFlight' \ InFlight : x \in Ids /\ life[x] = "ready"
      BY <2>1
    <3>3. Lifecycle!Hold
      BY <2>2, <3>1, <3>2 DEF Lifecycle!Hold, Lifecycle!Cardinality, Cardinality
    <3> QED
      BY <3>3 DEF Lifecycle!LNext
<1>3. CASE PoolShrinks
  BY <1>3 DEF PoolShrinks, Lifecycle!LNext, Lifecycle!LetGo, Lifecycle!lifecycle
<1>4. CASE InFlight' = InFlight
  <2>1. CASE disk' = disk
    BY <1>4, <2>1 DEF Lifecycle!lifecycle
  <2>2. CASE Lapsed
    <3>1. InFlight = {}
      BY <1>1, <2>2 DEF Lapsed, Alone, InFlight
    <3>2. \A x \in Ids : \/ disk'[x].status = disk[x].status
                         \/ disk[x].status = "in_progress" /\ disk'[x].status = "ready"
      <4> SUFFICES ASSUME NEW x \in Ids
                   PROVE  \/ disk'[x].status = disk[x].status
                          \/ disk[x].status = "in_progress" /\ disk'[x].status = "ready"
        OBVIOUS
      <4>1. disk[x] \in Bead
        BY <1>1, StoreTypes
      <4>2. disk'[x] = disk[x] \/ Expires(x)
        BY <2>2 DEF Lapsed, Expired, Expires
      <4> QED
        BY <4>1, <4>2 DEF Expires, Bead
    <3>3. Lifecycle!Lapse
      BY <1>4, <3>1, <3>2 DEF Lifecycle!Lapse
    <3> QED
      BY <3>3 DEF Lifecycle!LNext
  <2>3. ASSUME NEW x \in Ids, Only(x), Change(x) PROVE [Lifecycle!LNext]_(Lifecycle!lifecycle)
    <3>1. life' = [life EXCEPT ![x] = disk'[x].status] /\ life[x] = disk[x].status
      BY <2>3 DEF Only
    <3>2. CASE disk'[x].status = disk[x].status
      BY <1>4, <3>1, <3>2 DEF Lifecycle!lifecycle
    <3>3. CASE disk'[x].status # disk[x].status
      <4>1. \/ x \notin InFlight /\ disk[x].status = "absent" /\ disk'[x].status = "ready"
            \/ x \notin InFlight /\ disk[x].status = "blocked" /\ disk'[x].status \in {"ready", "done"}
            \/ x \in InFlight /\ disk[x].status = "ready" /\ disk'[x].status \in {"in_progress", "blocked"}
            \/ x \in InFlight /\ disk[x].status = "in_progress" /\ disk'[x].status \in {"blocked", "done"}
        BY <2>3, <3>3, StatusMoves
      <4>2. Lifecycle!Create(x) \/ Lifecycle!Work(x) \/ Lifecycle!Resume(x)
        BY <1>4, <3>1, <4>1 DEF Lifecycle!Create, Lifecycle!Work, Lifecycle!Resume, Lifecycle!Move
      <4> QED
        BY <4>2 DEF Lifecycle!LNext
    <3> QED
      BY <3>2, <3>3
  <2> QED
    BY <1>1, <2>1, <2>2, <2>3 DEF Effect
<1> QED
  BY <1>2, <1>3, <1>4, PoolStep

LEMMA LifecycleInit ==
    ASSUME Init
    PROVE  Lifecycle!LInit
<1>1. disk \in Store /\ InFlight = {}
  BY SchedulerAssumption DEF Init, Idle, InFlight
<1>2. [b \in Ids |-> disk[b].status] \in [Ids -> Statuses]
  BY <1>1, StoreTypes DEF Bead
<1> QED
  BY <1>1, <1>2 DEF Lifecycle!LInit, Statuses

-----------------------------------------------------------------------------
(* What a worker does when it is its turn.                                 *)

SameWorker(b) ==
    /\ wpc'[b] = wpc[b] /\ obj'[b] = obj[b] /\ subj'[b] = subj[b]
    /\ res'[b] = res[b] /\ seen'[b] = seen[b] /\ plan'[b] = plan[b]
Released(b) == wpc'[b] = "none" /\ (wpc[b] \in {"ended", "raised"} \/ crashes' = crashes + 1)

(* While a bead has a worker the files change by that worker alone.        *)
LEMMA WorkersTurn ==
    ASSUME OneWorker, SerialInv, [Next]_vars, NEW b \in Ids, wpc[b] # "none"
    PROVE  Worker(b) \/ (disk' = disk /\ (Released(b) \/ SameWorker(b)))
<1>1. Alone /\ TypeOK /\ mpc \in {"wait", "abort"}
  BY DEF SerialInv, HInv, Current, Alone
<1>2. ASSUME NEW c \in Ids, Worker(c) PROVE c = b
  BY <1>1, <1>2, WorkerKeeps DEF Alone
<1>3. ASSUME WaitCompletion \/ Abort PROVE disk' = disk /\ (Released(b) \/ SameWorker(b))
  BY <1>3 DEF WaitCompletion, Abort, Reap, Finished, Released, SameWorker
<1>4. CASE Main
  BY <1>1, <1>3, <1>4
  DEF Main, BeginCycle, RetryTransient, ReevaluateCorrective, Examine, ReevalCreate, ReevalLink, BeginFill,
      DeferBead, SelectBead, NextCandidate, EndFill
<1>5. CASE StartRun \/ Rest
  BY <1>1, <1>5 DEF StartRun, Rest
<1>6. CASE Operator
  BY <1>1, <1>6 DEF Operator, OperatorRetry, OperatorStatus, OneWorker, NoOperator, TypeOK
<1>7. CASE Crash
  BY <1>7 DEF Crash, Reap, Released
<1>8. CASE UNCHANGED vars
  BY <1>8 DEF vars, wvars, SameWorker
<1> QED
  BY <1>2, <1>4, <1>5, <1>6, <1>7, <1>8 DEF Next, Workers

(* A bead that gets a worker starts at the beginning.                      *)
LEMMA WorkerStarts ==
    ASSUME OneWorker, SerialInv, [Next]_vars, NEW b \in Ids, wpc[b] = "none", wpc'[b] # "none"
    PROVE  wpc'[b] = "begin" /\ disk' = disk
<1>1. TypeOK
  BY DEF SerialInv, HInv
<1>2. ASSUME NEW c \in Ids, Worker(c) PROVE FALSE
  BY <1>1, <1>2, WorkerKeeps DEF OthersKept
<1>3. CASE Main
  BY <1>3
  DEF Main, BeginCycle, RetryTransient, ReevaluateCorrective, ReevalCreate, ReevalLink, BeginFill,
      DeferBead, SelectBead, EndFill, EndCycle, Submit, WaitCompletion, Abort, Reap, wvars
<1>4. CASE StartRun \/ Operator \/ Crash \/ Rest \/ UNCHANGED vars
  BY <1>4 DEF StartRun, Operator, OperatorRetry, OperatorStatus, Crash, Reap, Rest, vars, wvars
<1> QED
  BY <1>2, <1>3, <1>4 DEF Next, Workers

(* A bead that is being saved as failed is saved so.                       *)
LEMMA FailureSaved ==
    ASSUME OneWorker, SerialInv, [Next]_vars, NEW b \in Ids, wpc[b] = "failSave"
    PROVE  \/ disk'[b] = obj[b]
           \/ wpc'[b] = "failSave" /\ obj'[b] = obj[b]
           \/ crashes' = crashes + 1
<1>1. disk \in Store
  BY DEF SerialInv, HInv, TypeOK
<1>2. ASSUME Worker(b) PROVE SaveFailed(b)
  BY <1>2
  DEF Worker, StartWithoutWorktree, Start, SaveFeatureRoot, Launch, AgentReturns, UnsupportedVerdict,
      FinalizeBlocked, CheckCorrectives, CreateCorrective, LinkCorrective, FinalizeFailed, CreateRecovery,
      CommitFails, FinalizeDone, Finalizing, LoadOriginal, CompleteOriginal, LoadParent, RequeueParent,
      ListForFollowups, CreateSubtask, RefuseSubtask, PlanFollowups, FollowupTest, FollowupDocs, FollowupReview
<1>3. CASE SaveFailed(b)
  BY <1>1, <1>3, SavesOnly DEF SaveFailed
<1> QED
  BY <1>2, <1>3, WorkersTurn DEF Released, SameWorker

(* How a worker comes to requeue the parent of the bead it completed.      *)
RequeueSteps == {"requeueLoad", "requeueSave"}
Requeues(s) == IsCorrective(s) /\ Agent[s] = "developer"

LEMMA RequeueReached ==
    ASSUME OneWorker, SerialInv, [Next]_vars, NEW b \in Ids, wpc'[b] \in RequeueSteps
    PROVE  \/ wpc[b] \in RequeueSteps /\ subj'[b] = subj[b] /\ disk' = disk
           \/ /\ wpc[b] = "final" /\ subj'[b] = b /\ Requeues(b)
              /\ Only(b) /\ disk'[b].status = "done"
           \/ wpc[b] = "recSave" /\ Requeues(subj[b])
<1> USE DEF RequeueSteps
<1>1. TypeOK /\ disk \in Store /\ WorkerHolds(b)
  BY DEF SerialInv, HInv, TypeOK
<1>2. wpc[b] # "none"
  BY WorkerStarts
<1>3. CASE FinalizeDone(b)
  <2>1. res[b].outcome \in Outcomes[b] /\ subj[b] = b /\ wpc[b] = "final"
    BY <1>1, <1>3 DEF FinalizeDone, Finalizing, WorkerHolds, OwnSteps
  <2>2. Finalized(b) \in Bead
    BY <1>1, <2>1, FinalizedFields
  <2>3. Only(b) /\ disk'[b].status = "done"
    BY <1>1, <1>3, <2>2, SavesOnly DEF FinalizeDone, Bead
  <2>4. Requeues(b)
    BY <1>1, <1>3 DEF FinalizeDone, Goto, AfterDone, Requeues, TypeOK
  <2> QED
    BY <1>3, <2>1, <2>3, <2>4 DEF FinalizeDone
<1>4. CASE CompleteOriginal(b)
  BY <1>1, <1>4 DEF CompleteOriginal, Goto, AfterDone, Requeues, TypeOK
<1>5. CASE LoadParent(b) \/ RequeueParent(b)
  BY <1>1, <1>5 DEF LoadParent, RequeueParent, Goto, TypeOK
<1>6. CASE Worker(b)
  BY <1>1, <1>3, <1>4, <1>5, <1>6
  DEF Worker, StartWithoutWorktree, Start, SaveFeatureRoot, Launch, AgentReturns, UnsupportedVerdict,
      FinalizeBlocked, CheckCorrectives, CreateCorrective, LinkCorrective, FinalizeFailed, CreateRecovery,
      SaveFailed, CommitFails, Finalizing, LoadOriginal, ListForFollowups, CreateSubtask, RefuseSubtask,
      PlanFollowups, FollowupTest, FollowupDocs, FollowupReview, Goto, TypeOK
<1> QED
  BY <1>2, <1>6, WorkersTurn DEF Released, SameWorker

-----------------------------------------------------------------------------
(* A recovered bead is still blocked when its recovery completes it.       *)

(* No corrective of p is under way, and the last one has had its retry.    *)
Settled(d, p) == OpenCorrectives(d, p) = {} /\ \A c \in LatestDone(d, p) : AlreadyRetried(d[p], c)

(* Correctives have a parent.  A bead that is not blocked, or that may not *)
(* get correctives now, is settled.  A bead with a recovery stays blocked  *)
(* until it is done: nothing is left that could requeue it.                *)
Fostered(d) == \A c \in Ids : Kind[c] = "corrective" /\ Exists(d, c) => Exists(d, Parent[c])
Calm(d) ==
    \A p \in Ids : /\ d[p].status # "done"
                   /\ d[p].status = "blocked" => d[p].recov \/ d[p].reason = "transient"
                   => Settled(d, p)
Rested(d) ==
    \A p \in Ids : d[p].recov =>
        d[p].status = "done" \/ (d[p].status = "blocked" /\ d[p].reason # "transient")

(* Only beads that are none of the correctives get recoveries, and they    *)
(* say so, or are about to.                                                *)
Recovering ==
    \A c \in Ids : Kind[c] = "recovery" /\ Exists(disk, c) =>
        /\ Parent[c] \in Ids /\ Kind[Parent[c]] # "corrective"
        /\ \/ disk[Parent[c]].recov
           \/ wpc[Parent[c]] = "failSave" /\ obj[Parent[c]].recov
Requeueing ==
    \A b \in Ids : wpc[b] \in RequeueSteps =>
        /\ OpenCorrectives(disk, Parent[subj[b]]) = {}
        /\ subj[b] \in LatestDone(disk, Parent[subj[b]])

LifeInv == OrderInv /\ Fostered(disk) /\ Calm(disk) /\ Rested(disk) /\ Recovering /\ Requeueing

(* Nothing is killed, and correctives answer, well or badly: a recovery of *)
(* one that does not would complete it long after it was replaced.         *)
NoKills == MaxCrashes = 0
CorrectivesAnswer == \A c \in Ids : Kind[c] = "corrective" => "no_output" \notin Outcomes[c]
Hypotheses ==
    FiniteIds /\ OneWorker /\ CorrectiveDevelopers /\ NoTransientCorrectives /\ NoKills /\ CorrectivesAnswer
StartsSettled ==
    \A store \in InitStores :
        /\ Fostered(store) /\ Calm(store) /\ Rested(store)
        /\ \A c \in Ids : Kind[c] = "recovery" /\ Exists(store, c) =>
               Parent[c] \in Ids /\ Kind[Parent[c]] # "corrective" /\ store[Parent[c]].recov

LEMMA LifeFacts ==
    ASSUME LifeInv
    PROVE  /\ OrderInv /\ SerialInv /\ TypeOK /\ Alone /\ disk \in Store
           /\ \A x \in Ids : disk[x] \in Bead
BY StoreTypes DEF LifeInv, OrderInv, SerialInv, HInv, TypeOK, Current

(* A corrective that is over keeps its status.                             *)
LEMMA CorrectiveStill ==
    ASSUME CorrectiveDevelopers, LifeInv, Effect, NEW c \in Ids, Kind[c] = "corrective",
           ~IsOpen(disk, c), ~(Only(c) /\ Made(c))
    PROVE  disk'[c].status = disk[c].status
<1>1. ~IsOpen(disk', c) /\ OrderInv /\ disk[c] \in Bead
  BY LifeFacts, NoReopening
<1>2. CASE Expires(c)
  BY <1>1, <1>2 DEF Expires, IsOpen, Bead
<1>3. CASE Only(c) /\ Change(c)
  <2>1. ~Completed(c)
    BY DEF Completed, LifeInv, Recovering
  <2>2. ~Woken(c)
    BY <1>1 DEF Woken, OrderInv, InOrder, NeverTransient
  <2>3. \A o \in Ids : ~RetriedFor(c, o)
    BY <1>1 DEF RetriedFor, Requeued, IsOpen, Bead
  <2>4. ~Worked(c)
    BY DEF Worked, IsOpen
  <2> QED
    BY <1>1, <1>3, <2>1, <2>2, <2>3, <2>4 DEF Change, Tended, SameStanding, PutOff, Escalated, IsOpen, Bead
<1> QED
  BY <1>2, <1>3, EachBead

(* The correctives of a settled bead stay as they are while none is made.  *)
LEMMA SettledStays ==
    ASSUME CorrectiveDevelopers, LifeInv, Effect, NEW p \in Ids, Settled(disk, p),
           disk'[p].retried = disk[p].retried,
           \A c \in Ids : Kind[c] = "corrective" /\ Parent[c] = p => ~(Only(c) /\ Made(c))
    PROVE  Settled(disk', p)
<1>1. SerialInv
  BY LifeFacts
<1>2. ASSUME NEW c \in CorrectiveChildren(disk', p)
      PROVE  c \in CorrectiveChildren(disk, p) /\ disk'[c].status = disk[c].status
  <2>1. c \in Ids /\ Kind[c] = "corrective" /\ Parent[c] = p /\ Exists(disk', c)
    BY DEF CorrectiveChildren, Children
  <2>2. c \in CorrectiveChildren(disk, p)
    BY <1>1, <2>1, FilesStay DEF CorrectiveChildren, Children
  <2>3. ~IsOpen(disk, c)
    BY <2>2 DEF Settled, OpenCorrectives, IsOpen
  <2> QED
    BY <2>1, <2>2, <2>3, CorrectiveStill
<1>3. \A c \in CorrectiveChildren(disk, p) : c \in CorrectiveChildren(disk', p)
  BY <1>1, FilesStay DEF CorrectiveChildren, Children
<1>4. OpenCorrectives(disk', p) = {}
  BY <1>2 DEF Settled, OpenCorrectives
<1>5. LatestDone(disk', p) = LatestDone(disk, p)
  BY <1>2, <1>3 DEF LatestDone
<1> QED
  BY <1>4, <1>5 DEF Settled, AlreadyRetried

(* A retry is bought by the last corrective, and none is under way.        *)
LEMMA RetryLatest ==
    ASSUME LifeInv, NEW x \in Ids, NEW c \in Ids, RetriedFor(x, c)
    PROVE  OpenCorrectives(disk, x) = {} /\ c \in LatestDone(disk, x)
BY DEF RetriedFor, LifeInv, Requeueing, RequeueSteps

(* The correctives of a bead are not touched by a change of the bead.      *)
LEMMA OwnCorrectives ==
    ASSUME NEW x \in Ids, Only(x)
    PROVE  /\ CorrectiveChildren(disk', x) = CorrectiveChildren(disk, x)
           /\ OpenCorrectives(disk', x) = OpenCorrectives(disk, x)
           /\ LatestDone(disk', x) = LatestDone(disk, x)
<1>1. \A c \in Ids : Parent[c] = x => disk'[c] = disk[c]
  BY StoreAssumption DEF Only
<1>2. CorrectiveChildren(disk', x) = CorrectiveChildren(disk, x)
  BY <1>1 DEF CorrectiveChildren, Children, Exists
<1>3. \A c \in CorrectiveChildren(disk, x) : disk'[c] = disk[c]
  BY <1>1 DEF CorrectiveChildren, Children
<1> QED
  BY <1>2, <1>3 DEF OpenCorrectives, LatestDone

LEMMA FosteredStep ==
    ASSUME LifeInv, Effect
    PROVE  Fostered(disk')
<1> SUFFICES ASSUME NEW c \in Ids, Kind[c] = "corrective", Exists(disk', c)
             PROVE  Exists(disk', Parent[c])
  BY DEF Fostered
<1>1. Exists(disk, c) \/ Made(c)
  BY LifeFacts, FilesStay
<1>2. Exists(disk, Parent[c])
  BY <1>1 DEF LifeInv, Fostered, Made, Exists
<1> QED
  BY <1>2, LifeFacts, FilesStay DEF Exists

LEMMA CalmStep ==
    ASSUME CorrectiveDevelopers, LifeInv, Effect
    PROVE  Calm(disk')
<1> SUFFICES ASSUME NEW p \in Ids, disk'[p].status # "done",
                    disk'[p].status = "blocked" => disk'[p].recov \/ disk'[p].reason = "transient"
             PROVE  Settled(disk', p)
  BY DEF Calm
<1>1. SerialInv /\ disk[p] \in Bead
  BY LifeFacts
<1>2. CASE ~Exists(disk, p)
  <2>1. ASSUME NEW c \in Ids, Kind[c] = "corrective", Parent[c] = p, Exists(disk', c) PROVE FALSE
    <3>1. Exists(disk, c) \/ Made(c)
      BY <1>1, <2>1, FilesStay
    <3> QED
      BY <1>2, <2>1, <3>1 DEF LifeInv, Fostered, Made, Exists
  <2>2. CorrectiveChildren(disk', p) = {}
    BY <2>1 DEF CorrectiveChildren, Children
  <2> QED
    BY <2>2 DEF Settled, OpenCorrectives, LatestDone
<1>3. CASE Exists(disk, p) /\ \E c \in Ids : RetriedFor(p, c) /\ Only(p)
  <2>1. PICK c \in Ids : RetriedFor(p, c) /\ Only(p)
    BY <1>3
  <2>2. OpenCorrectives(disk', p) = {} /\ c \in LatestDone(disk', p)
    BY <2>1, RetryLatest, OwnCorrectives
  <2>3. c \in disk'[p].retried
    BY <1>1, <2>1 DEF RetriedFor, Requeued, Bead
  <2> QED
    BY <2>2, <2>3, OneLatest DEF Settled, AlreadyRetried
<1>4. CASE Exists(disk, p) /\ ~(\E c \in Ids : RetriedFor(p, c) /\ Only(p))
  <2>1. /\ disk'[p].retried = disk[p].retried
        /\ disk[p].status # "done"
        /\ disk[p].status = "blocked" => disk[p].recov \/ disk[p].reason = "transient"
    <3>1. CASE disk'[p] = disk[p]
      BY <3>1
    <3>2. CASE Expires(p)
      BY <1>1, <3>2 DEF Expires, Bead
    <3>3. CASE Only(p) /\ Change(p)
      BY <1>1, <1>4, <3>3
      DEF Change, Tended, SameStanding, PutOff, Woken, Escalated, Made, Worked, Ended, Running, Completed, Bead
    <3> QED
      BY <3>1, <3>2, <3>3, EachBead
  <2>2. Settled(disk, p)
    BY <2>1 DEF LifeInv, Calm
  <2>3. ASSUME NEW c \in Ids, Kind[c] = "corrective", Parent[c] = p, Only(c), Made(c) PROVE FALSE
    <3>1. disk'[p] = disk[p]
      BY <2>3, StoreAssumption DEF Only
    <3> QED
      BY <2>1, <2>3 DEF Made
  <2> QED
    BY <2>1, <2>2, <2>3, SettledStays
<1> QED
  BY <1>2, <1>3, <1>4

LEMMA RestedStep ==
    ASSUME LifeInv, Effect
    PROVE  Rested(disk')
<1> SUFFICES ASSUME NEW p \in Ids, disk'[p].recov
             PROVE  disk'[p].status = "done" \/ (disk'[p].status = "blocked" /\ disk'[p].reason # "transient")
  BY DEF Rested
<1>1. disk[p] \in Bead /\ SerialInv
  BY LifeFacts
<1>2. disk[p].recov => disk[p].status = "done" \/ (disk[p].status = "blocked" /\ disk[p].reason # "transient")
  BY DEF LifeInv, Rested
<1>3. CASE Expires(p)
  BY <1>1, <1>2, <1>3 DEF Expires, Bead
<1>4. CASE Worked(p)
  <2>1. CASE wpc[p] = "failSave"
    <3>1. disk[p].status = "in_progress" /\ disk'[p] = obj[p] /\ disk'[p].status = "blocked"
      BY <1>4, <2>1 DEF Worked
    <3>2. obj[p].recov # disk[p].recov /\ obj[p].reason = ReasonOf(res[p].outcome)
          /\ res[p].outcome = "no_output"
      BY <1>1, <1>2, <2>1, <3>1 DEF SerialInv, Current, WorkerCurrent, RepairCurrent
    <3> QED
      BY <3>1, <3>2 DEF ReasonOf
  <2> QED
    BY <1>1, <1>2, <1>4, <2>1 DEF Worked, Ended, Running, Bead
<1>5. ASSUME NEW c \in Ids, RetriedFor(p, c) PROVE FALSE
  <2>1. disk[p].recov /\ disk[p].status = "blocked"
    BY <1>1, <1>5 DEF RetriedFor, Requeued, Bead
  <2>2. Settled(disk, p) /\ c \in LatestDone(disk, p)
    BY <1>5, <2>1, RetryLatest DEF LifeInv, Calm
  <2> QED
    BY <1>5, <2>2 DEF Settled, RetriedFor
<1>6. CASE Change(p)
  BY <1>1, <1>2, <1>4, <1>5, <1>6
  DEF Change, Tended, SameStanding, PutOff, Woken, Escalated, Made, New, Completed, Bead
<1> QED
  BY <1>2, <1>3, <1>6, EachBead

(* Nothing takes back that a bead has had a recovery.                      *)
LEMMA RecoveryKept ==
    ASSUME SerialInv, Effect, NEW x \in Ids, Exists(disk, x), disk[x].recov
    PROVE  disk'[x].recov
<1>1. disk[x] \in Bead
  BY StoreTypes DEF SerialInv, HInv, TypeOK
<1>2. CASE Expires(x)
  BY <1>1, <1>2 DEF Expires, Bead
<1>3. CASE Worked(x)
  <2>1. wpc[x] = "failSave" => obj[x].recov
    BY <1>1 DEF SerialInv, Current, WorkerCurrent, RepairCurrent
  <2> QED
    BY <1>1, <1>3, <2>1 DEF Worked, Running, Bead
<1>4. CASE Change(x)
  BY <1>1, <1>3, <1>4
  DEF Change, Tended, SameStanding, PutOff, Woken, RetriedFor, Requeued, Escalated, Made, Completed, Bead
<1> QED
  BY <1>2, <1>4, EachBead

LEMMA NoCrash ==
    ASSUME TypeOK, NoKills, [Next]_vars
    PROVE  crashes' = crashes
<1>1. crashes \in Nat
  BY DEF TypeOK
<1>2. ~Crash
  BY <1>1 DEF Crash, NoKills
<1>3. ASSUME NEW b \in Ids, Worker(b) PROVE crashes' = crashes
  BY <1>3, WorkerMoves DEF Moves, bounds, Workers
<1>4. CASE Main
  BY <1>4
  DEF Main, BeginCycle, RetryTransient, ReevaluateCorrective, ReevalCreate, ReevalLink, BeginFill,
      DeferBead, SelectBead, EndFill, WaitCompletion, Abort, bounds
<1>5. CASE StartRun \/ Operator \/ Rest \/ UNCHANGED vars
  BY <1>5 DEF StartRun, Operator, OperatorRetry, OperatorStatus, Rest, vars, bounds
<1> QED
  BY <1>2, <1>3, <1>4, <1>5 DEF Next, Workers

LEMMA RecoveringStep ==
    ASSUME Hypotheses, LifeInv, [Next]_vars
    PROVE  Recovering'
<1>1. SerialInv /\ TypeOK /\ Effect /\ OneWorker
  BY LifeFacts, SerialStep DEF Hypotheses
<1>2. crashes \in Nat /\ crashes' = crashes
  BY <1>1, NoCrash DEF Hypotheses, TypeOK
<1> SUFFICES ASSUME NEW c \in Ids, Kind[c] = "recovery", Exists(disk', c)
             PROVE  /\ Parent[c] \in Ids /\ Kind[Parent[c]] # "corrective"
                    /\ disk'[Parent[c]].recov \/ (wpc'[Parent[c]] = "failSave" /\ obj'[Parent[c]].recov)
  BY DEF Recovering
<1>3. CASE Exists(disk, c)
  <2>1. /\ Parent[c] \in Ids /\ Kind[Parent[c]] # "corrective"
        /\ disk[Parent[c]].recov \/ (wpc[Parent[c]] = "failSave" /\ obj[Parent[c]].recov)
    BY <1>3 DEF LifeInv, Recovering
  <2>2. ASSUME disk[Parent[c]].recov PROVE disk'[Parent[c]].recov
    <3>1. Exists(disk, Parent[c])
      BY <2>1, <2>2 DEF LifeInv, Rested, Exists
    <3> QED
      BY <1>1, <2>1, <2>2, <3>1, RecoveryKept
  <2>3. ASSUME wpc[Parent[c]] = "failSave", obj[Parent[c]].recov
        PROVE  disk'[Parent[c]].recov \/ (wpc'[Parent[c]] = "failSave" /\ obj'[Parent[c]].recov)
    BY <1>1, <1>2, <2>1, <2>3, FailureSaved
  <2> QED
    BY <2>1, <2>2, <2>3
<1>4. CASE Made(c)
  <2>1. /\ Parent[c] \in Ids /\ wpc[Parent[c]] = "recoveryCreate"
        /\ wpc'[Parent[c]] = "failSave" /\ obj' = obj
    BY <1>4 DEF Made
  <2>2. obj[Parent[c]].recov /\ ~disk[Parent[c]].recov
    BY <1>1, <2>1 DEF SerialInv, Current, WorkerCurrent, RepairCurrent
  <2>3. "no_output" \in Outcomes[Parent[c]]
    BY <1>1, <2>1, <2>2 DEF SerialInv, Current, WorkerCurrent, RepairCurrent
  <2> QED
    BY <2>1, <2>2, <2>3 DEF Hypotheses, CorrectivesAnswer
<1> QED
  BY <1>1, <1>3, <1>4, FilesStay

(* A corrective that completes was the only one under way, and the last.   *)
LEMMA RequeueingStep ==
    ASSUME Hypotheses, LifeInv, [Next]_vars
    PROVE  Requeueing'
<1>1. SerialInv /\ OrderInv /\ OneWorker
  BY LifeFacts DEF Hypotheses
<1> SUFFICES ASSUME NEW b \in Ids, wpc'[b] \in RequeueSteps
             PROVE  /\ OpenCorrectives(disk', Parent[subj'[b]]) = {}
                    /\ subj'[b] \in LatestDone(disk', Parent[subj'[b]])
  BY DEF Requeueing, OpenCorrectives, LatestDone, CorrectiveChildren, Children, Exists
<1>2. CASE wpc[b] \in RequeueSteps /\ subj'[b] = subj[b] /\ disk' = disk
  BY <1>2 DEF LifeInv, Requeueing
<1>3. CASE wpc[b] = "recSave" /\ Requeues(subj[b])
  <2>1. subj[b] = Parent[b] /\ Kind[b] = "recovery" /\ Exists(disk, b)
    BY <1>1, <1>3
    DEF SerialInv, Current, WorkerCurrent, DoneCurrent, DoneSteps, Exists
  <2>2. Kind[subj[b]] # "corrective"
    BY <2>1 DEF LifeInv, Recovering
  <2> QED
    BY <1>3, <2>2 DEF Requeues, IsCorrective, Hypotheses, CorrectiveDevelopers
<1>4. CASE /\ wpc[b] = "final" /\ subj'[b] = b /\ Requeues(b)
           /\ Only(b) /\ disk'[b].status = "done"
  <2> DEFINE p == Parent[b]
  <2>1. Kind[b] = "corrective"
    BY <1>4 DEF Requeues, IsCorrective, Hypotheses, CorrectiveDevelopers
  <2>2. IsOpen(disk, b) /\ Exists(disk, b)
    BY <1>1, <1>4 DEF SerialInv, Current, WorkerCurrent, RootCurrent, IsOpen, Exists
  <2>3. ASSUME NEW o \in CorrectiveChildren(disk', p), o # b
        PROVE  /\ o \in CorrectiveChildren(disk, p) /\ disk'[o] = disk[o]
               /\ Rank[o] <= Rank[b] /\ ~IsOpen(disk, o)
    <3>1. o \in Ids /\ Parent[o] = p /\ Kind[o] = "corrective" /\ disk'[o] = disk[o] /\ Exists(disk, o)
      BY <1>4, <2>3 DEF CorrectiveChildren, Children, Only, Exists
    <3>2. o \in CorrectiveChildren(disk, p) /\ b \in CorrectiveChildren(disk, p)
      BY <2>1, <2>2, <3>1 DEF CorrectiveChildren, Children
    <3>3. Rank[o] <= Rank[b]
      BY <1>1, <2>1, <2>2, <3>2 DEF OrderInv, InOrder, OpenLast
    <3>4. IsOpen(disk, o) => Rank[b] <= Rank[o]
      BY <1>1, <3>1, <3>2 DEF OrderInv, InOrder, OpenLast
    <3>5. Rank[o] # Rank[b] /\ Rank[o] \in Nat /\ Rank[b] \in Nat
      BY <2>1, <2>3, <3>1, StoreAssumption
    <3> QED
      BY <3>1, <3>2, <3>3, <3>4, <3>5
  <2>4. OpenCorrectives(disk', p) = {}
    BY <1>4, <2>3 DEF OpenCorrectives, IsOpen
  <2>5. b \in CorrectiveChildren(disk', p)
    BY <1>4, <2>1 DEF CorrectiveChildren, Children, Exists
  <2>6. b \in LatestDone(disk', p)
    BY <1>4, <2>3, <2>5, StoreAssumption DEF LatestDone
  <2> QED
    BY <1>4, <2>4, <2>6
<1> QED
  BY <1>1, <1>2, <1>3, <1>4, RequeueReached

LEMMA LifeStep ==
    ASSUME Hypotheses, LifeInv, [Next]_vars
    PROVE  LifeInv'
<1>1. OrderInv /\ Effect
  BY LifeFacts, SerialStep DEF Hypotheses
<1>2. OrderInv'
  BY <1>1, OrderStep DEF Hypotheses
<1>3. Fostered(disk') /\ Calm(disk') /\ Rested(disk')
  BY <1>1, FosteredStep, CalmStep, RestedStep DEF Hypotheses
<1>4. Fostered(disk)' /\ Calm(disk)' /\ Rested(disk)'
  BY <1>3 DEF Fostered, Calm, Rested, Settled, OpenCorrectives, LatestDone, CorrectiveChildren, Children,
              AlreadyRetried, Exists
<1> QED
  BY <1>2, <1>4, RecoveringStep, RequeueingStep DEF LifeInv

LEMMA LifeInit ==
    ASSUME StartsInOrder, StartsSettled, Init
    PROVE  LifeInv
<1>1. PICK store \in InitStores : Idle(store)
  BY DEF Init
<1>2. disk = store /\ wpc = [b \in Ids |-> "none"]
  BY <1>1 DEF Idle
<1>3. Fostered(disk) /\ Calm(disk) /\ Rested(disk) /\ Recovering /\ Requeueing
  BY <1>2 DEF StartsSettled, Recovering, Requeueing, RequeueSteps
<1> QED
  BY <1>3, OrderInit DEF LifeInv

LEMMA RecoversBlockedHolds ==
    ASSUME LifeInv
    PROVE  RecoversBlocked
<1> SUFFICES ASSUME NEW b \in Ids, wpc[b] = "recSave"
             PROVE  disk[subj[b]].status \in {"blocked", "done"}
  BY DEF RecoversBlocked
<1>1. /\ subj[b] = Parent[b] /\ Kind[b] = "recovery" /\ Exists(disk, b)
      /\ Parent[b] \in Ids /\ Parent[b] # b
  BY LifeFacts, StoreAssumption DEF SerialInv, Current, WorkerCurrent, DoneCurrent, DoneSteps, Exists, LifeInv, Recovering
<1>2. wpc[Parent[b]] # "failSave"
  BY <1>1, LifeFacts DEF Alone
<1> QED
  BY <1>1, <1>2 DEF LifeInv, Recovering, Rested

(* The scheduler implements BeadLifecycle: a bead file changes only as the *)
(* life of a bead allows, and a bead in flight by its worker alone.  What  *)
(* has to be shown is that a recovery does not complete a bead that was    *)
(* requeued in the meantime.                                               *)
THEOREM LifecycleImplemented ==
    ASSUME Hypotheses, StartsInOrder, StartsSettled
    PROVE  Spec => ImplementsLifecycle
<1>1. Init => LifeInv /\ Lifecycle!LInit
  BY LifeInit, LifecycleInit
<1>2. LifeInv /\ [Next]_vars => LifeInv'
  BY LifeStep
<1>3. LifeInv /\ [Next]_vars => [Lifecycle!LNext]_(Lifecycle!lifecycle)
  BY LifeFacts, RecoversBlockedHolds, LifecycleStep DEF Hypotheses
<1> QED
  BY <1>1, <1>2, <1>3, PTL DEF Spec, ImplementsLifecycle, Lifecycle!LSpec

-----------------------------------------------------------------------------
(* The same without recoveries, and then with kills at any point.          *)

AllAnswer == \A b \in Ids : "no_output" \notin Outcomes[b]
StartsUnrecovered == \A store \in InitStores, c \in Ids : Kind[c] = "recovery" => ~Exists(store, c)
Unrecovered == \A c \in Ids : Kind[c] = "recovery" => ~Exists(disk, c)

LEMMA UnrecoveredStep ==
    ASSUME FiniteIds, OneWorker, AllAnswer, SerialInv, Unrecovered, [Next]_vars
    PROVE  SerialInv' /\ Unrecovered'
<1>1. SerialInv' /\ Effect
  BY SerialStep
<1> SUFFICES ASSUME NEW c \in Ids, Kind[c] = "recovery", Exists(disk', c) PROVE FALSE
  BY <1>1 DEF Unrecovered, Exists
<1>2. Made(c)
  BY <1>1, FilesStay DEF Unrecovered
<1>3. Parent[c] \in Ids /\ wpc[Parent[c]] = "recoveryCreate"
  BY <1>2 DEF Made
<1>4. "no_output" \in Outcomes[Parent[c]]
  BY <1>3 DEF SerialInv, Current, WorkerCurrent, RepairCurrent
<1> QED
  BY <1>3, <1>4 DEF AllAnswer

(* Where every agent answers, so that nothing is ever recovered, the       *)
(* scheduler implements BeadLifecycle although it is killed and restarted  *)
(* at any point, and whatever the correctives do.                          *)
THEOREM LifecycleWithoutRecovery ==
    ASSUME FiniteIds, OneWorker, AllAnswer, StartsUnrecovered
    PROVE  Spec => ImplementsLifecycle
<1>1. Init => SerialInv /\ Unrecovered /\ Lifecycle!LInit
  BY SerialInit, LifecycleInit DEF Init, Idle, StartsUnrecovered, Unrecovered
<1>2. SerialInv /\ Unrecovered /\ [Next]_vars => SerialInv' /\ Unrecovered'
  BY UnrecoveredStep
<1>3. SerialInv /\ Unrecovered => RecoversBlocked
  BY DEF SerialInv, Current, WorkerCurrent, DoneCurrent, DoneSteps, Unrecovered, RecoversBlocked, Exists
<1>4. SerialInv /\ Unrecovered /\ [Next]_vars => [Lifecycle!LNext]_(Lifecycle!lifecycle)
  BY <1>3, LifecycleStep
<1> QED
  BY <1>1, <1>2, <1>4, PTL DEF Spec, ImplementsLifecycle, Lifecycle!LSpec

-----------------------------------------------------------------------------
(* What a run leaves behind: leases.                                       *)

(* A lease is borne out by a worker, unless one was killed.                *)
LeaseSteps == {"agent", "final", "recoveryCreate", "failSave"}
Held == crashes = 0 => \A b \in Ids : disk[b].lease => wpc[b] \in LeaseSteps
VerdictsKnown == \A b \in Ids : "bad_verdict" \notin Outcomes[b]
StartsUnleased == \A store \in InitStores : Leased(store) = {}

(* A count of kills that is zero was zero before.                          *)
LEMMA CrashesCounted ==
    ASSUME TypeOK, [Next]_vars, crashes' = 0
    PROVE  crashes = 0 /\ ~Crash
<1>1. crashes \in Nat
  BY DEF TypeOK
<1>2. ~Crash
  BY <1>1 DEF Crash
<1>3. ASSUME Workers PROVE crashes' = crashes
  BY <1>3, WorkerMoves DEF Moves, bounds, Workers
<1>4. ASSUME Main PROVE crashes' = crashes
  BY <1>4
  DEF Main, BeginCycle, RetryTransient, ReevaluateCorrective, ReevalCreate, ReevalLink, BeginFill,
      DeferBead, SelectBead, EndFill, WaitCompletion, Abort, bounds
<1>5. ASSUME StartRun \/ Operator \/ Rest \/ UNCHANGED vars PROVE crashes' = crashes
  BY <1>5 DEF StartRun, Operator, OperatorRetry, OperatorStatus, Rest, vars, bounds
<1> QED
  BY <1>2, <1>3, <1>4, <1>5 DEF Next

(* A lease is there before a step, or the worker sets out.                 *)
LEMMA LeaseWritten ==
    ASSUME SerialInv, Effect, NEW b \in Ids, disk'[b].lease
    PROVE  disk[b].lease \/ wpc[b] = "launch"
<1>1. disk[b] \in Bead
  BY StoreTypes DEF SerialInv, HInv, TypeOK
<1>2. CASE Expires(b)
  BY <1>1, <1>2 DEF Expires, Bead
<1>3. CASE Change(b)
  BY <1>1, <1>3
  DEF Change, Tended, SameStanding, PutOff, Woken, RetriedFor, Requeued, Escalated, Made, Worked, Ended,
      Completed, Bead
<1> QED
  BY <1>2, <1>3, EachBead

(* The worker of a leased bead keeps at it, or saves it without a lease.   *)
LEMMA LeaseWorked ==
    ASSUME SerialInv, VerdictsKnown, NEW b \in Ids, Worker(b), wpc[b] \in LeaseSteps \cup {"launch"},
           disk'[b].lease
    PROVE  wpc'[b] \in LeaseSteps
<1> USE DEF LeaseSteps
<1>1. TypeOK /\ disk \in Store /\ RootCurrent(b) /\ RepairCurrent(b) /\ WorkerHolds(b)
  BY DEF SerialInv, HInv, TypeOK, Current, WorkerCurrent
<1>2. wpc[b] = "final" => /\ res[b].outcome \in Outcomes[b] /\ Finalized(b) \in Bead
                          /\ ~Finalized(b).lease
  BY <1>1, FinalizedFields DEF WorkerHolds
<1>3. CASE Launch(b) \/ AgentReturns(b) \/ FinalizeFailed(b) \/ CreateRecovery(b)
  BY <1>1, <1>3 DEF Launch, AgentReturns, FinalizeFailed, CreateRecovery, Goto, TypeOK
<1>4. CASE UnsupportedVerdict(b)
  BY <1>2, <1>4 DEF UnsupportedVerdict, Finalizing, VerdictsKnown
<1>5. CASE FinalizeBlocked(b) \/ CommitFails(b) \/ FinalizeDone(b)
  <2> DEFINE f == Finalized(b)
  <2>1. \/ disk'[b] = [f EXCEPT !.status = "blocked"]
        \/ disk'[b] = [f EXCEPT !.status = "blocked", !.reason = "other"]
        \/ disk'[b] = [f EXCEPT !.status = "done"]
    BY <1>1, <1>5, SavesOnly DEF FinalizeBlocked, CommitFails, FinalizeDone
  <2>2. f \in Bead /\ ~f.lease
    BY <1>2, <1>5 DEF FinalizeBlocked, CommitFails, FinalizeDone, Finalizing
  <2> HIDE DEF f
  <2> QED
    BY <2>1, <2>2 DEF Bead
<1>6. CASE SaveFailed(b)
  BY <1>1, <1>6, SavesOnly DEF SaveFailed, RepairCurrent, Failing
<1> QED
  BY <1>3, <1>4, <1>5, <1>6
  DEF Worker, StartWithoutWorktree, Start, SaveFeatureRoot, CheckCorrectives, CreateCorrective,
      LinkCorrective, LoadOriginal, CompleteOriginal, LoadParent, RequeueParent, ListForFollowups,
      CreateSubtask, RefuseSubtask, PlanFollowups, FollowupTest, FollowupDocs, FollowupReview

LEMMA HeldStep ==
    ASSUME FiniteIds, OneWorker, VerdictsKnown, SerialInv, Held, [Next]_vars
    PROVE  Held'
<1>1. TypeOK /\ Effect
  BY SerialStep DEF SerialInv, HInv
<1> SUFFICES ASSUME crashes' = 0, NEW b \in Ids, disk'[b].lease
             PROVE  wpc'[b] \in LeaseSteps
  BY DEF Held, LeaseSteps
<1>2. crashes = 0
  BY <1>1, CrashesCounted
<1>3. wpc[b] \in LeaseSteps \/ (wpc[b] = "launch" /\ ~disk[b].lease)
  BY <1>1, <1>2, LeaseWritten DEF Held
<1>4. wpc[b] \notin {"none", "ended", "raised"}
  BY <1>3 DEF LeaseSteps
<1>5. Worker(b) \/ (disk' = disk /\ wpc'[b] = wpc[b])
  BY <1>2, <1>4, WorkersTurn DEF Released, SameWorker
<1> QED
  BY <1>3, <1>5, LeaseWorked

(* A run that ends of its own accord, with no kill before, leaves no bead  *)
(* leased: the worker that holds a lease saves its bead without it, and    *)
(* the run does not end before.  (A verdict that finalize does not know    *)
(* makes it raise, and the lease stays.)                                   *)
THEOREM LeasesReturned ==
    ASSUME FiniteIds, OneWorker, VerdictsKnown, StartsUnleased
    PROVE  Spec => NoOrphanLease
<1>1. Init => SerialInv /\ Held
  BY SerialInit DEF Init, Idle, StartsUnleased, Held, Leased
<1>2. SerialInv /\ Held /\ [Next]_vars => SerialInv' /\ Held'
  BY SerialStep, HeldStep
<1>3. SerialInv /\ Held => (RunFinishes /\ NeverKilled => Leased(disk) = {})
  BY DEF SerialInv, Current, Alone, Held, RunFinishes, NeverKilled, Leased, LeaseSteps
<1> QED
  BY <1>1, <1>2, <1>3, PTL DEF Spec, NoOrphanLease

-----------------------------------------------------------------------------
(* What a run leaves behind: blocked beads.                                *)

(* Of finitely many numbered beads one has the greatest number.            *)
LEMMA Greatest ==
    ASSUME FiniteIds, NEW S \in SUBSET Ids, S # {}
    PROVE  \E c \in S : \A o \in S : Rank[o] <= Rank[c]
<1> DEFINE From(c) == {o \in S : Rank[c] <= Rank[o]}
           family == {From(c) : c \in S}
<1>1. IsFiniteSet(S) /\ \A c \in S : Rank[c] \in Nat
  BY FS_Subset, StoreAssumption DEF FiniteIds
<1>2. family \subseteq FiniteSubsetsOf(S)
  BY <1>1, FS_FiniteSubsetsOfFinite
<1>3. PICK T \in family : \A U \in family : <<U, T>> \notin StrictSubsetOrdering(S)
  <2>1. IsWellFoundedOn(StrictSubsetOrdering(S), FiniteSubsetsOf(S))
    BY FS_StrictSubsetOrderingWellFounded
  <2>2. family # {}
    OBVIOUS
  <2> HIDE DEF family
  <2> QED
    BY <1>2, <2>1, <2>2, WFMin
<1>4. PICK c \in S : T = From(c)
  BY <1>3
<1>5. ASSUME NEW o \in S, ~(Rank[o] <= Rank[c]) PROVE FALSE
  <2>1. From(o) \subseteq From(c) /\ c \in From(c) /\ c \notin From(o)
    BY <1>1, <1>5
  <2>2. <<From(o), T>> \in StrictSubsetOrdering(S)
    BY <1>4, <2>1 DEF StrictSubsetOrdering
  <2> QED
    BY <1>3, <2>2
<1> QED
  BY <1>5

(* If a bead that may have correctives is left as it is, there is a reason.*)
LEMMA LeftForAReason ==
    ASSUME FiniteIds, NEW d, NEW b, NEW r, CanPlanCorrective(b, r),
           CorrectiveDecision(d, b, r) \notin {"retry", "create", "escalate"}
    PROVE  r.human \/ \E c \in CorrectiveChildren(d, b) : d[c].status # "done"
<1> SUFFICES ASSUME ~r.human, \A c \in CorrectiveChildren(d, b) : d[c].status = "done"
             PROVE  FALSE
  OBVIOUS
<1>1. OpenCorrectives(d, b) = {}
  BY DEF OpenCorrectives
<1>2. CASE CorrectiveChildren(d, b) = {}
  <2>1. LatestDone(d, b) = {}
    BY <1>2 DEF LatestDone
  <2> QED
    BY <1>1, <1>2, <2>1 DEF CorrectiveDecision, DecisionWithin
<1>3. CASE CorrectiveChildren(d, b) # {}
  <2>1. CorrectiveChildren(d, b) \in SUBSET Ids
    BY DEF CorrectiveChildren, Children
  <2>2. PICK c \in CorrectiveChildren(d, b) : \A o \in CorrectiveChildren(d, b) : Rank[o] <= Rank[c]
    BY <1>3, <2>1, Greatest
  <2>3. LatestDone(d, b) # {}
    BY <2>2 DEF LatestDone
  <2> QED
    BY <1>1, <2>3 DEF CorrectiveDecision, DecisionWithin
<1> QED
  BY <1>2, <1>3

(* A blocked bead has no lease.                                            *)
BlockedUnleased(d) == \A x \in Ids : d[x].status = "blocked" => ~d[x].lease

LEMMA BlockedUnleasedStep ==
    ASSUME SerialInv, Effect, BlockedUnleased(disk)
    PROVE  BlockedUnleased(disk')
<1> SUFFICES ASSUME NEW x \in Ids, disk'[x].status = "blocked" PROVE ~disk'[x].lease
  BY DEF BlockedUnleased
<1>1. disk[x] \in Bead /\ (disk[x].status = "blocked" => ~disk[x].lease)
  BY StoreTypes DEF SerialInv, HInv, TypeOK, BlockedUnleased
<1>2. CASE Expires(x)
  BY <1>1, <1>2 DEF Expires, Bead
<1>3. CASE Change(x)
  BY <1>1, <1>3
  DEF Change, Tended, SameStanding, PutOff, Woken, RetriedFor, Requeued, Escalated, Made, New, Worked,
      Ended, Running, Completed, Bead
<1> QED
  BY <1>1, <1>2, <1>3, EachBead

(* The beads this cycle has examined: those that are blocked wait for      *)
(* something.                                                              *)
Waiting(x) == x \in MayBeHelped => Attended(x) \/ Stalled(x)
Examined ==
    CASE mpc \in {"reeval", "reevalLink"} -> Ids \ todo
      [] mpc = "reevalCreate" -> Ids \ (todo \cup {target})
      [] mpc = "fill" -> Ids
      [] OTHER -> {}
WholeProject == \A b \in Ids : InFilter(b)
StartsBlockedUnleased == \A store \in InitStores : BlockedUnleased(store)
WaitInv == SerialInv /\ BlockedUnleased(disk) /\ \A x \in Examined : Waiting(x)

(* To wait is to have a corrective that is not done: open, or blocked too. *)
LEMMA WaitingFor ==
    ASSUME disk \in Store, disk' \in Store, NEW x \in Ids
    PROVE  /\ Waiting(x) <=> (x \in MayBeHelped => \/ disk[x].human \/ disk[x].reason = "transient"
                                                   \/ \E c \in CorrectiveChildren(disk, x) : disk[c].status # "done")
           /\ Waiting(x)' <=> ((x \in MayBeHelped)' =>
                                  \/ disk'[x].human \/ disk'[x].reason = "transient"
                                  \/ \E c \in CorrectiveChildren(disk', x) : disk'[c].status # "done")
<1>1. /\ OpenCorrectives(disk, x) # {} \/ Stalled(x) <=> \E c \in CorrectiveChildren(disk, x) : disk[c].status # "done"
      /\ (OpenCorrectives(disk, x) # {} \/ Stalled(x))' <=> \E c \in CorrectiveChildren(disk', x) : disk'[c].status # "done"
  BY StoreTypes DEF OpenCorrectives, Stalled, CorrectiveChildren, Children, Exists, Bead, Statuses
<1> QED
  BY <1>1 DEF Waiting, Attended

(* A bead keeps what it waits for while another one is changed, unless the *)
(* other is a corrective that is done.                                     *)
LEMMA WaitingStays ==
    ASSUME disk \in Store, disk' \in Store, NEW x \in Ids, NEW y \in Ids, Only(y), Waiting(x), Exists(disk', y),
           \/ y # x /\ disk'[y].status # "done"
           \/ y = x /\ disk'[x].status # "blocked"
           \/ y = x /\ disk'[x].human
    PROVE  Waiting(x)'
<1>1. CASE y = x
  BY <1>1 DEF Waiting, MayBeHelped, Attended, OpenCorrectives, Stalled
<1>2. CASE y # x
  <2>1. disk'[x] = disk[x]
    BY <1>2 DEF Only
  <2>2. ASSUME NEW c \in CorrectiveChildren(disk, x), disk[c].status # "done"
        PROVE  c \in CorrectiveChildren(disk', x) /\ disk'[c].status # "done"
    BY <1>2, <2>2 DEF Only, CorrectiveChildren, Children, Exists
  <2> QED
    BY <2>1, <2>2, WaitingFor DEF MayBeHelped
<1> QED
  BY <1>1, <1>2

LEMMA ReevalWaiting ==
    ASSUME FiniteIds, WaitInv, disk' \in Store, NEW b \in Ids, RetryTransient(b) \/ ReevaluateCorrective(b)
    PROVE  \A x \in Examined' : Waiting(x)'
<1>1. disk \in Store /\ disk[b] \in Bead /\ mpc = "reeval" /\ b \in todo /\ todo' = todo \ {b}
  BY StoreTypes DEF WaitInv, SerialInv, HInv, TypeOK, RetryTransient, ReevaluateCorrective, Examine
<1>2. snap[b] = disk[b] /\ disk[b].status = "blocked"
  BY <1>1 DEF WaitInv, SerialInv, HInv, MainHolds, Current, MainCurrent
<1>3. \A x \in Ids \ todo : Waiting(x)
  BY <1>1 DEF WaitInv, Examined
<1>4. ASSUME NEW r, Save(b, r), r.status = "ready" \/ (r.human /\ r.status = "blocked"),
             mpc' = "reeval"
      PROVE  \A x \in Examined' : Waiting(x)'
  <2>1. Only(b) /\ disk'[b] = r
    BY <1>1, <1>4, SavesOnly
  <2>2. Exists(disk', b) /\ disk'[b].status # "done"
    BY <1>4, <2>1 DEF Exists
  <2>3. ASSUME NEW x \in Ids \ todo' PROVE Waiting(x)'
    <3>1. CASE x = b
      BY <1>4, <2>1, <3>1 DEF Waiting, MayBeHelped, Attended, OpenCorrectives, Stalled
    <3>2. CASE x # b
      BY <1>1, <1>3, <2>1, <2>2, <3>2, WaitingStays
    <3> QED
      BY <3>1, <3>2
  <2> QED
    BY <1>4, <2>3 DEF Examined
<1>5. CASE RetryTransient(b)
  <2>1. Save(b, [disk[b] EXCEPT !.status = "ready", !.reason = "none"]) /\ mpc' = "reeval"
    BY <1>1, <1>2, <1>5 DEF RetryTransient
  <2> QED
    BY <1>1, <1>4, <2>1 DEF Bead
<1>6. CASE ReevaluateCorrective(b)
  <2> DEFINE decision == CorrectiveDecision(disk, b, disk[b])
  <2>1. CASE decision = "retry"
    <3>1. PICK c : Save(b, Requeued(disk[b], c)) /\ mpc' = "reeval"
      BY <1>1, <1>2, <1>6, <2>1 DEF ReevaluateCorrective
    <3>2. Requeued(disk[b], c).status = "ready"
      BY <1>1 DEF Requeued, Bead
    <3> QED
      BY <1>4, <3>1, <3>2
  <2>2. CASE decision = "create"
    <3>1. mpc' = "reevalCreate" /\ target' = b /\ disk' = disk
      BY <1>1, <1>2, <1>6, <2>2 DEF ReevaluateCorrective
    <3>2. \A x \in Ids \ (todo' \cup {target'}) : Waiting(x)
      BY <1>1, <1>3, <3>1
    <3> QED
      BY <3>1, <3>2 DEF Examined, Waiting, MayBeHelped, Attended, OpenCorrectives, Stalled
  <2>3. CASE decision = "escalate"
    <3>1. Save(b, [disk[b] EXCEPT !.human = TRUE]) /\ mpc' = "reeval"
      BY <1>1, <1>2, <1>6, <2>3 DEF ReevaluateCorrective
    <3>2. [disk[b] EXCEPT !.human = TRUE].human /\ [disk[b] EXCEPT !.human = TRUE].status = "blocked"
      BY <1>1, <1>2 DEF Bead
    <3> QED
      BY <1>4, <3>1, <3>2
  <2>4. CASE decision \notin {"retry", "create", "escalate"}
    <3>1. mpc' = "reeval" /\ disk' = disk
      BY <1>1, <1>2, <1>6, <2>4 DEF ReevaluateCorrective
    <3>2. Waiting(b)
      BY <1>1, <1>2, <2>4, LeftForAReason, WaitingFor DEF MayBeHelped
    <3>3. \A x \in Ids \ todo' : Waiting(x)
      BY <1>1, <1>3, <3>2
    <3> QED
      BY <3>1, <3>3 DEF Examined, Waiting, MayBeHelped, Attended, OpenCorrectives, Stalled
  <2> QED
    BY <2>1, <2>2, <2>3, <2>4
<1> QED
  BY <1>5, <1>6

LEMMA MainWaiting ==
    ASSUME FiniteIds, OneWorker, WholeProject, WaitInv, BlockedUnleased(disk'), disk' \in Store, Main
    PROVE  \A x \in Examined' : Waiting(x)'
<1>1. disk \in Store /\ SerialInv
  BY DEF WaitInv, SerialInv, HInv, TypeOK
<1>2. ASSUME mpc' = "reeval", todo' = BlockedBeads(disk') PROVE \A x \in Examined' : Waiting(x)'
  BY <1>2 DEF Examined, BlockedBeads, BlockedUnleased, WholeProject, Waiting, MayBeHelped
<1>3. CASE BeginCycle \/ WaitCompletion
  BY <1>2, <1>3 DEF BeginCycle, WaitCompletion, Examined
<1>4. CASE Abort \/ EndFill
  BY <1>4 DEF Abort, EndFill, EndCycle, Submit, Examined
<1>5. CASE ReevalCreate
  <2>1. mpc = "reevalCreate" /\ mpc' = "reevalLink" /\ todo' = todo /\ target \in Ids
    BY <1>1, <1>5 DEF ReevalCreate, SerialInv, HInv, TypeOK
  <2>2. PICK c \in Ids : IsFreshChild(disk, target, "corrective", c) /\ Save(c, CorrectiveBead(snap[target]))
    BY <1>5 DEF ReevalCreate
  <2>3. Only(c) /\ disk'[c].status = "ready"
    <3>1. CorrectiveBead(snap[target]).status = "ready"
      BY DEF CorrectiveBead, NewBead, NoBead
    <3> QED
      BY <1>1, <2>2, <3>1, SavesOnly
  <2>4. c \in CorrectiveChildren(disk', target) /\ Exists(disk', c)
    BY <2>2, <2>3 DEF IsFreshChild, CorrectiveChildren, Children, Exists
  <2>5. Waiting(target)'
    <3>1. \E o \in CorrectiveChildren(disk', target) : disk'[o].status # "done"
      BY <2>3, <2>4
    <3>2. target' = target
      BY <1>5 DEF ReevalCreate
    <3> QED
      BY <1>1, <2>1, <3>1, <3>2, WaitingFor
  <2>6. ASSUME NEW x \in Ids \ (todo \cup {target}) PROVE Waiting(x)'
    <3>1. Waiting(x)
      BY <2>1, <2>6 DEF WaitInv, Examined
    <3> QED
      BY <1>1, <2>3, <2>4, <3>1, WaitingStays
  <2> QED
    BY <2>1, <2>5, <2>6, <1>5 DEF Examined, ReevalCreate
<1>6. CASE ReevalLink
  <2>1. disk' = disk /\ mpc = "reevalLink" /\ mpc' = "reeval" /\ todo' = todo
    BY <1>1, <1>6 DEF ReevalLink, Save, Store, SerialInv, Current, MainCurrent
  <2> QED
    BY <2>1 DEF WaitInv, Examined, Waiting, MayBeHelped, Attended, OpenCorrectives, Stalled
<1>7. CASE BeginFill \/ \E b \in Ids : SelectBead(b)
  <2>1. disk' = disk /\ \/ mpc' \notin {"reeval", "reevalLink", "reevalCreate", "fill"}
                        \/ mpc' = "fill" /\ Examined = Ids
    BY <1>7 DEF BeginFill, SelectBead, NextCandidate, Examined
  <2> QED
    BY <2>1 DEF WaitInv, Examined, Waiting, MayBeHelped, Attended, OpenCorrectives, Stalled
<1>8. ASSUME NEW b \in Ids, DeferBead(b) PROVE \A x \in Examined' : Waiting(x)'
  <2>1. /\ mpc = "fill" /\ mpc' = "fill" /\ disk[b] \in Bead
        /\ snap[b] = disk[b] /\ disk[b].status = "ready"
    BY <1>1, <1>8, StoreTypes
    DEF DeferBead, NextCandidate, SerialInv, HInv, MainHolds, Current, MainCurrent
  <2>2. CASE disk' = disk
    BY <2>1, <2>2 DEF WaitInv, Examined, Waiting, MayBeHelped, Attended, OpenCorrectives, Stalled
  <2>3. CASE Save(b, [disk[b] EXCEPT !.reason = "other"])
    <3>1. Only(b) /\ disk'[b] = [disk[b] EXCEPT !.reason = "other"]
      BY <1>1, <2>3, SavesOnly
    <3>2. disk'[b].status = "ready" /\ Exists(disk', b)
      BY <2>1, <3>1 DEF Bead, Exists
    <3>3. \A x \in Ids : Waiting(x)'
      BY <1>1, <2>1, <3>1, <3>2, WaitingStays DEF WaitInv, Examined
    <3> QED
      BY <2>1, <3>3 DEF Examined
  <2> QED
    BY <1>8, <2>1, <2>2, <2>3 DEF DeferBead
<1> QED
  BY <1>3, <1>4, <1>5, <1>6, <1>7, <1>8, ReevalWaiting DEF Main

LEMMA WaitStep ==
    ASSUME FiniteIds, OneWorker, WholeProject, WaitInv, [Next]_vars
    PROVE  WaitInv'
<1>1. SerialInv' /\ Effect /\ TypeOK
  BY SerialStep DEF WaitInv, SerialInv, HInv
<1>2. BlockedUnleased(disk') /\ BlockedUnleased(disk)'
  BY <1>1, BlockedUnleasedStep DEF WaitInv, BlockedUnleased
<1>3. ASSUME NEW b \in Ids, Worker(b) PROVE Examined' = {}
  <2>1. mpc \in {"wait", "abort"} /\ mpc' = mpc
    BY <1>1, <1>3, WorkerKeeps DEF WaitInv, SerialInv, Current, Alone, mvars
  <2> QED
    BY <2>1 DEF Examined
<1>4. ASSUME StartRun \/ Operator \/ Crash PROVE Examined' = {}
  <2>1. ~(ops < MaxOps)
    BY <1>1 DEF OneWorker, NoOperator, TypeOK
  <2>2. ~Operator
    BY <2>1 DEF Operator, OperatorRetry, OperatorStatus
  <2>3. mpc' \in {"cycle", "idle"}
    BY <1>4, <2>2 DEF StartRun, Crash
  <2> QED
    BY <2>3 DEF Examined
<1>5. ASSUME Rest \/ UNCHANGED vars PROVE \A x \in Examined' : Waiting(x)'
  BY <1>5 DEF Rest, vars, mvars, WaitInv, Examined, Waiting, MayBeHelped, Attended, OpenCorrectives, Stalled
<1>6. \A x \in Examined' : Waiting(x)'
  BY <1>1, <1>2, <1>3, <1>4, <1>5, MainWaiting DEF Next, Workers, SerialInv, HInv, TypeOK
<1> QED
  BY <1>1, <1>2, <1>6 DEF WaitInv

(* When a run that works on the whole project ends of its own accord, a    *)
(* blocked bead that may have correctives waits for something, or one of   *)
(* its correctives is blocked itself, and that whatever was killed before. *)
(* That such a bead is left so at all, the run Stranded shows.             *)
THEOREM BlockedBeadsAttended ==
    ASSUME FiniteIds, OneWorker, WholeProject, StartsBlockedUnleased
    PROVE  Spec => OnlyCorrectivesStall
<1>1. Init => WaitInv
  BY SerialInit DEF Init, Idle, StartsBlockedUnleased, WaitInv, Examined
<1>2. WaitInv /\ [Next]_vars => WaitInv'
  BY WaitStep
<1>3. WaitInv => (RunFinishes => \A b \in MayBeHelped : Attended(b) \/ Stalled(b))
  BY DEF WaitInv, Examined, Waiting, RunFinishes, MayBeHelped
<1> QED
  BY <1>1, <1>2, <1>3, PTL DEF Spec, OnlyCorrectivesStall

-----------------------------------------------------------------------------
(* What a run leaves behind: recoveries.                                   *)

(* A done bead is never reopened, and becomes done by its worker's doing   *)
(* or by its recovery's.                                                   *)
LEMMA DoneStays ==
    ASSUME SerialInv, Effect, NEW x \in Ids, disk[x].status = "done"
    PROVE  disk'[x].status = "done"
<1>1. disk[x] \in Bead
  BY StoreTypes DEF SerialInv, HInv, TypeOK
<1>2. CASE Expires(x)
  BY <1>1, <1>2 DEF Expires, Bead
<1>3. CASE Change(x)
  BY <1>1, <1>3
  DEF Change, Tended, SameStanding, PutOff, Woken, RetriedFor, Escalated, Made, Exists, Worked, Completed
<1> QED
  BY <1>2, <1>3, EachBead

LEMMA DoneReached ==
    ASSUME SerialInv, Effect, NEW x \in Ids, disk[x].status # "done", disk'[x].status = "done"
    PROVE  (wpc[x] = "final" /\ disk' # disk) \/ Completed(x)
<1>1. disk[x] \in Bead
  BY StoreTypes DEF SerialInv, HInv, TypeOK
<1>2. CASE Expires(x)
  BY <1>1, <1>2 DEF Expires, Bead
<1>3. CASE Change(x)
  BY <1>1, <1>3
  DEF Change, Tended, SameStanding, PutOff, Woken, RetriedFor, Requeued, Escalated, Made, New, Worked,
      Ended, Running, Bead
<1> QED
  BY <1>2, <1>3, EachBead

(* A bead that its worker completes goes on to what follows.               *)
LEMMA FinalDone ==
    ASSUME SerialInv, NEW b \in Ids, Worker(b), wpc[b] = "final", disk'[b].status = "done"
    PROVE  FinalizeDone(b)
<1>1. TypeOK /\ disk \in Store /\ RootCurrent(b) /\ WorkerHolds(b)
  BY DEF SerialInv, HInv, TypeOK, Current, WorkerCurrent
<1>2. Finalized(b) \in Bead /\ disk[b].status = "in_progress"
  BY <1>1, FinalizedFields DEF WorkerHolds, RootCurrent
<1>3. ~UnsupportedVerdict(b) /\ ~FinalizeFailed(b)
  BY <1>2 DEF UnsupportedVerdict, FinalizeFailed
<1>4. ~FinalizeBlocked(b) /\ ~CommitFails(b)
  <2> DEFINE f == Finalized(b)
  <2>1. FinalizeBlocked(b) => disk'[b] = [f EXCEPT !.status = "blocked"]
    BY <1>1, SavesOnly DEF FinalizeBlocked
  <2>2. CommitFails(b) => disk'[b] = [f EXCEPT !.status = "blocked", !.reason = "other"]
    BY <1>1, SavesOnly DEF CommitFails
  <2>3. f \in Bead
    BY <1>2
  <2> HIDE DEF f
  <2> QED
    BY <2>1, <2>2, <2>3 DEF Bead
<1> QED
  BY <1>3, <1>4
  DEF Worker, StartWithoutWorktree, Start, SaveFeatureRoot, Launch, AgentReturns, CheckCorrectives,
      CreateCorrective, LinkCorrective, CreateRecovery, SaveFailed, LoadOriginal, CompleteOriginal,
      LoadParent, RequeueParent, ListForFollowups, CreateSubtask, RefuseSubtask, PlanFollowups, FollowupTest,
      FollowupDocs, FollowupReview

(* Recoveries are of beads that exist and are no recoveries themselves;    *)
(* one that is done has completed its bead, or is about to.                *)
RecoveryParents(d) ==
    \A c \in Ids : Kind[c] = "recovery" /\ Exists(d, c) =>
        Exists(d, Parent[c]) /\ Kind[Parent[c]] # "recovery"
RecoveryMakers == \A b \in Ids : wpc[b] = "recoveryCreate" => Kind[b] # "recovery"
Recovered ==
    \A c \in Ids : Kind[c] = "recovery" /\ disk[c].status = "done" =>
        disk[Parent[c]].status = "done" \/ wpc[c] \in {"recLoad", "recSave"}
RecoveryInv ==
    SerialInv /\ RecoveryParents(disk) /\ RecoveryMakers /\ (crashes = 0 => Recovered)
StartsRecovered ==
    \A store \in InitStores :
        /\ RecoveryParents(store)
        /\ \A c \in Ids : Kind[c] = "recovery" /\ store[c].status = "done" => store[Parent[c]].status = "done"

LEMMA RecoveredStep ==
    ASSUME FiniteIds, OneWorker, RecoveryInv, [Next]_vars, crashes' = 0
    PROVE  Recovered'
<1>1. SerialInv /\ Effect /\ TypeOK /\ disk \in Store
  BY SerialStep DEF RecoveryInv, SerialInv, HInv, TypeOK
<1>2. crashes = 0
  BY <1>1, CrashesCounted
<1> SUFFICES ASSUME NEW c \in Ids, Kind[c] = "recovery", disk'[c].status = "done"
             PROVE  disk'[Parent[c]].status = "done" \/ wpc'[c] \in {"recLoad", "recSave"}
  BY DEF Recovered
<1>3. ASSUME disk[c].status # "done" PROVE wpc'[c] = "recLoad"
  <2>1. ~Completed(c)
    BY DEF Completed, RecoveryInv, RecoveryParents
  <2>2. wpc[c] = "final" /\ disk' # disk
    BY <1>1, <1>3, <2>1, DoneReached
  <2>3. Worker(c)
    BY <1>1, <2>2, WorkersTurn
  <2> QED
    BY <1>1, <2>2, <2>3, FinalDone DEF FinalizeDone, Goto, TypeOK
<1>4. ASSUME disk[c].status = "done", wpc[c] \in {"recLoad", "recSave"}
      PROVE  disk'[Parent[c]].status = "done" \/ wpc'[c] \in {"recLoad", "recSave"}
  <2>1. Exists(disk, Parent[c])
    BY <1>4 DEF RecoveryInv, RecoveryParents, Exists
  <2>2. CASE SameWorker(c)
    BY <1>4, <2>2 DEF SameWorker
  <2>3. CASE LoadOriginal(c)
    BY <1>1, <2>1, <2>3 DEF LoadOriginal, Goto, TypeOK
  <2>4. CASE CompleteOriginal(c)
    <3>1. subj[c] = Parent[c] /\ obj[c] \in Bead
      BY <1>1, <2>4, StoreTypes DEF CompleteOriginal, SerialInv, Current, WorkerCurrent, DoneCurrent, TypeOK
    <3> DEFINE r == [Rescoped(obj[c], res[c].scope) EXCEPT
                            !.status = "done", !.lease = FALSE, !.reason = "none",
                            !.touched = IF res[c].touched = {} THEN @ ELSE res[c].touched]
    <3>2. Save(Parent[c], r)
      BY <2>4, <3>1 DEF CompleteOriginal
    <3>3. r.status = "done"
      BY <3>1 DEF Rescoped, Bead
    <3> HIDE DEF r
    <3> QED
      BY <1>1, <2>1, <3>2, <3>3, SavesOnly DEF Exists
  <2>5. CASE Worker(c)
    BY <1>4, <2>3, <2>4, <2>5
    DEF Worker, StartWithoutWorktree, Start, SaveFeatureRoot, Launch, AgentReturns, UnsupportedVerdict,
        FinalizeBlocked, CheckCorrectives, CreateCorrective, LinkCorrective, FinalizeFailed, CreateRecovery,
        SaveFailed, CommitFails, FinalizeDone, Finalizing, LoadParent, RequeueParent,
        ListForFollowups, CreateSubtask, RefuseSubtask, PlanFollowups, FollowupTest, FollowupDocs, FollowupReview
  <2> QED
    BY <1>1, <1>2, <1>4, <2>2, <2>5, WorkersTurn DEF Released
<1>5. ASSUME disk[c].status = "done", disk[Parent[c]].status = "done" PROVE disk'[Parent[c]].status = "done"
  <2>1. Parent[c] \in Ids
    BY <1>5 DEF RecoveryInv, RecoveryParents, Exists
  <2> QED
    BY <1>1, <1>5, <2>1, DoneStays
<1> QED
  BY <1>2, <1>3, <1>4, <1>5 DEF RecoveryInv, Recovered

LEMMA RecoveryParentsStep ==
    ASSUME RecoveryInv, Effect
    PROVE  RecoveryParents(disk')
<1> SUFFICES ASSUME NEW c \in Ids, Kind[c] = "recovery", Exists(disk', c)
             PROVE  Exists(disk', Parent[c]) /\ Kind[Parent[c]] # "recovery"
  BY DEF RecoveryParents
<1>1. SerialInv
  BY DEF RecoveryInv
<1>2. Exists(disk, Parent[c]) /\ Kind[Parent[c]] # "recovery"
  <2>1. CASE Exists(disk, c)
    BY <2>1 DEF RecoveryInv, RecoveryParents
  <2>2. CASE Made(c)
    BY <1>1, <2>2
    DEF Made, RecoveryInv, RecoveryMakers, SerialInv, Current, WorkerCurrent, RepairCurrent, Failing, Exists
  <2> QED
    BY <1>1, <2>1, <2>2, FilesStay
<1> QED
  BY <1>1, <1>2, FilesStay DEF Exists

LEMMA RecoveryMakersStep ==
    ASSUME OneWorker, RecoveryInv, [Next]_vars
    PROVE  RecoveryMakers'
<1>1. SerialInv /\ TypeOK
  BY DEF RecoveryInv, SerialInv, HInv
<1> SUFFICES ASSUME NEW b \in Ids, wpc'[b] = "recoveryCreate" PROVE Kind[b] # "recovery"
  BY DEF RecoveryMakers
<1>2. CASE wpc[b] = "recoveryCreate"
  BY <1>2 DEF RecoveryInv, RecoveryMakers
<1>3. CASE FinalizeFailed(b)
  BY <1>1, <1>3 DEF FinalizeFailed, Goto, TypeOK
<1>4. CASE Worker(b) /\ ~FinalizeFailed(b)
  BY <1>1, <1>4
  DEF Worker, StartWithoutWorktree, Start, SaveFeatureRoot, Launch, AgentReturns, UnsupportedVerdict,
      FinalizeBlocked, CheckCorrectives, CreateCorrective, LinkCorrective, CreateRecovery,
      SaveFailed, CommitFails, FinalizeDone, LoadOriginal, CompleteOriginal, AfterDone, LoadParent,
      RequeueParent, ListForFollowups, CreateSubtask, RefuseSubtask, PlanFollowups, FollowupTest, FollowupDocs,
      FollowupReview, Goto, TypeOK
<1>5. wpc[b] # "none"
  BY <1>1, WorkerStarts
<1> QED
  BY <1>1, <1>2, <1>3, <1>4, <1>5, WorkersTurn DEF Released, SameWorker

(* When a run ends of its own accord, with no kill before, a recovery that *)
(* is done has completed the bead it recovers (_handle_recovery_completion *)
(* is never skipped), and nothing has reopened that bead.                  *)
THEOREM RecoveriesEffective ==
    ASSUME FiniteIds, OneWorker, StartsRecovered
    PROVE  Spec => RecoveryCompletes
<1>1. Init => RecoveryInv
  BY SerialInit DEF Init, Idle, StartsRecovered, RecoveryInv, RecoveryMakers, Recovered
<1>2. RecoveryInv /\ [Next]_vars => RecoveryInv'
  <2>1. ASSUME RecoveryInv, [Next]_vars PROVE RecoveryParents(disk)'
    BY <2>1, SerialStep, RecoveryParentsStep DEF RecoveryInv, RecoveryParents, Exists
  <2> QED
    BY <2>1, SerialStep, RecoveryMakersStep, RecoveredStep DEF RecoveryInv
<1>3. RecoveryInv => (RunFinishes /\ NeverKilled =>
          \A c \in Ids : Kind[c] = "recovery" /\ IsDone(disk, c) => IsDone(disk, Parent[c]))
  BY DEF RecoveryInv, RecoveryParents, Recovered, SerialInv, Current, Alone, RunFinishes, NeverKilled, IsDone, Exists
<1> QED
  BY <1>1, <1>2, <1>3, PTL DEF Spec, RecoveryCompletes

-----------------------------------------------------------------------------
(* What a run leaves behind: followups.                                    *)

(* An id with the suffix of a followup is of that followup's agent and in  *)
(* its parent's tree; a recovery bead is no developer (finalize makes it   *)
(* for the recovery agent).                                                *)
FollowupKinds == {SuffixOf(a) : a \in FollowupAgents}
FamilyAgents ==
    \A c \in Ids :
        /\ \A a \in FollowupAgents : Kind[c] = SuffixOf(a) => Agent[c] = a
        /\ Kind[c] \in FollowupKinds /\ Parent[c] \in Ids => Tree[c] = Tree[Parent[c]]
        /\ Kind[c] = "recovery" => Agent[c] # "developer"

(* No bead that an agent proposes passes for a followup that the planner   *)
(* made for several beads: for a tester right under the root of a feature, *)
(* with the dependencies the agent likes, PlannerOwned would take it.      *)
SubtasksApart ==
    \A c \in Ids, s \in Ids :
        Kind[c] = "subtask" /\ Agent[c] \in FollowupAgents /\ UsesPlannerOwned(s) =>
            ~(Tree[c] = Tree[s] /\ Parent[c] = Tree[s])

(* A bead's own followups depend on it; of the shared followups the plan   *)
(* made for a bead there are all three kinds, or none.                     *)
OwnDeps(d) == \A c \in Ids : Kind[c] \in FollowupKinds /\ Exists(d, c) => Parent[c] \in d[c].deps
SharedWhole(d, s) ==
    SharedFollowups(d, s) # {} => \A a \in FollowupAgents : PlannerOwned(d, s, a) # {}
StartsFollowedUp ==
    \A store \in InitStores :
        /\ OwnDeps(store)
        /\ \A s \in Ids : SharedWhole(store, s)
        /\ \A s \in Ids : Agent[s] = "developer" /\ ~IsCorrective(s) /\ IsDone(store, s) =>
               \A a \in FollowupAgents : HasFollowupOf(store, s, a)

FollowSteps == {"fuList", "fuPlan"} \cup PlannedSteps
Following(s) == \E b \in Ids : wpc[b] \in FollowSteps /\ subj[b] = s

(* A developer bead that is the root of its tree, under a planner's epic:  *)
(* its own followups are at the same time those of its feature, and it     *)
(* gets them one after the other.                                          *)
Branching(s) == Tree[s] = s /\ \E b \in Ids : wpc[b] \in {"fuDocs", "fuReview"} /\ subj[b] = s

Follows(d, c, s, a) ==
    Exists(d, c) /\ Agent[c] = a /\ Parent[c] \in {s, Tree[s]} /\ Tree[c] = Tree[s] /\ s \in d[c].deps
Linked(s, a) == \E c \in Ids : Follows(disk, c, s, a)

(* What _create_followups settled on: a listed followup, or an id for one  *)
(* that it will make.                                                      *)
Aimed(b, a) ==
    LET c == plan[b][a]
        s == subj[b]
    IN /\ Agent[c] = a /\ Parent[c] \in {s, Tree[s]} /\ Tree[c] = Tree[s]
       /\ IF HasFollowup(b, a) THEN s \in seen[b][c].deps
          ELSE Kind[c] = SuffixOf(a) /\ Parent[c] = s /\ ~LeavesOut(b)

FailingDeps == \A b \in Ids : wpc[b] \in {"recoveryCreate", "failSave"} => obj[b].deps = disk[b].deps
ListedWhole(b) == wpc[b] = "fuPlan" => OwnDeps(seen[b]) /\ SharedWhole(seen[b], subj[b])
Pursued(b) ==
    /\ wpc[b] \in PlannedSteps => \A a \in FollowupAgents : Aimed(b, a)
    /\ wpc[b] \in {"fuDocs", "fuReview"} => Linked(subj[b], "tester")
    /\ wpc[b] = "fuReview" => Linked(subj[b], "documentation")
Followed ==
    /\ OwnDeps(disk) /\ FailingDeps
    /\ \A s \in Ids : Agent[s] = "developer" => SharedWhole(disk, s) \/ Branching(s)
    /\ \A b \in Ids : ListedWhole(b) /\ Pursued(b)
    /\ \A s \in DoneDevelopers \ forsaken : FollowedUp(s) \/ Following(s)
FollowInv == SerialInv /\ (crashes = 0 => Followed)

(* A step leaves the dependencies of beads alone, and makes beads that are *)
(* no followups, and without any but what an agent names for its subtask;  *)
(* or it brings a followup up to date.                                     *)
DepsKept ==
    \A c \in Ids :
        /\ Exists(disk, c) => disk'[c].deps = disk[c].deps
        /\ ~Exists(disk, c) /\ Exists(disk', c) =>
               Kind[c] \notin FollowupKinds /\ (disk'[c].deps = {} \/ Kind[c] = "subtask")
Links(b, a) ==
    LET c == plan[b][a] IN
    /\ wpc[b] \in PlannedSteps /\ c \in Ids /\ Only(c) /\ Exists(disk', c)
    /\ disk'[c].deps \subseteq disk[c].deps \cup ReviewDeps(b)
    /\ IF HasFollowup(b, a) THEN Exists(disk, c) /\ seen[b][c] = disk[c] /\ disk[c].deps \subseteq disk'[c].deps
       ELSE /\ ~Exists(disk, c) /\ ~LeavesOut(b)
            /\ subj[b] \in disk'[c].deps /\ disk'[c].deps \subseteq ReviewDeps(b)

LEMMA SavedDeps ==
    ASSUME disk \in Store, NEW x \in Ids, NEW r, Save(x, r), Exists(disk, x), r.deps = disk[x].deps
    PROVE  DepsKept
<1>1. Only(x) /\ disk'[x] = r
  BY SavesOnly
<1>2. ASSUME NEW c \in Ids \ {x} PROVE disk'[c] = disk[c]
  BY <1>1 DEF Only
<1> QED
  BY <1>1, <1>2 DEF DepsKept, Exists

LEMMA ChildDeps ==
    ASSUME disk \in Store, NEW p, NEW kind, kind \notin FollowupKinds, NEW c, IsFreshChild(disk, p, kind, c),
           NEW r, Save(c, r), r.deps = {} \/ kind = "subtask"
    PROVE  DepsKept
<1>1. c \in Ids /\ ~Exists(disk, c) /\ Kind[c] = kind
  BY DEF IsFreshChild, Children
<1>2. Only(c) /\ disk'[c] = r
  BY <1>1, SavesOnly
<1>3. ASSUME NEW x \in Ids \ {c} PROVE disk'[x] = disk[x]
  BY <1>2 DEF Only
<1> QED
  BY <1>1, <1>2, <1>3 DEF DepsKept, Exists

LEMMA ChildrenBare ==
    /\ \A r : CorrectiveBead(r).deps = {} /\ RecoveryBead(r).deps = {}
    /\ \A r, deps : FollowupBead(r, deps).deps = deps /\ FollowupBead(r, deps).status = "ready"
    /\ {"corrective", "recovery", "subtask"} \cap FollowupKinds = {}
<1>1. \A deps, t, e, g : NewBead(deps, t, e, g).deps = deps /\ NewBead(deps, t, e, g).status = "ready"
  BY DEF NewBead, NoBead
<1>2. FollowupKinds = {"test", "docs", "review"}
  BY DEF FollowupKinds, FollowupAgents, SuffixOf
<1> QED
  BY <1>1, <1>2 DEF CorrectiveBead, RecoveryBead, FollowupBead

LEMMA MainDeps ==
    ASSUME SerialInv, Main
    PROVE  DepsKept
<1>1. disk \in Store /\ \A x \in Ids : disk[x] \in Bead
  BY StoreTypes DEF SerialInv, HInv, TypeOK
<1>2. TypeOK /\ MainHolds /\ MainCurrent
  BY DEF SerialInv, HInv, Current
<1>3. CASE BeginCycle
  <2>1. PICK E \in SUBSET Leased(disk) : disk' = Expired(disk, E)
    BY <1>3 DEF BeginCycle
  <2>2. ASSUME NEW c \in Ids
        PROVE  disk'[c].deps = disk[c].deps /\ (Exists(disk', c) => Exists(disk, c))
    <3>1. disk[c] \in Bead
      BY <1>1
    <3>2. disk'[c] = disk[c] \/ disk'[c] = [disk[c] EXCEPT !.lease = FALSE,
                                    !.status = IF @ = "in_progress" THEN "ready" ELSE @]
      BY <2>1 DEF Expired
    <3> QED
      BY <3>1, <3>2 DEF Exists, Bead
  <2> QED
    BY <2>2 DEF DepsKept
<1>4. ASSUME NEW b \in Ids, RetryTransient(b) \/ ReevaluateCorrective(b) PROVE DepsKept
  <2>1. snap[b] = disk[b] /\ disk[b] \in Bead /\ Exists(disk, b)
    BY <1>1, <1>2, <1>4 DEF RetryTransient, ReevaluateCorrective, Examine, MainHolds, MainCurrent, Exists
  <2>2. CASE RetryTransient(b)
    BY <1>1, <2>1, <2>2, SavedDeps DEF RetryTransient, Bead
  <2>3. CASE ReevaluateCorrective(b)
    <3>1. \/ disk' = disk
          \/ \E c : Save(b, Requeued(disk[b], c))
          \/ Save(b, [disk[b] EXCEPT !.human = TRUE])
      BY <2>1, <2>3 DEF ReevaluateCorrective
    <3>2. \A c : Requeued(disk[b], c).deps = disk[b].deps
      BY <2>1 DEF Requeued, Bead
    <3>3. [disk[b] EXCEPT !.human = TRUE].deps = disk[b].deps
      BY <2>1 DEF Bead
    <3> QED
      BY <1>1, <2>1, <3>1, <3>2, <3>3, SavedDeps DEF DepsKept
  <2> QED
    BY <1>4, <2>2, <2>3
<1>5. CASE ReevalCreate
  BY <1>1, <1>5, ChildrenBare, ChildDeps DEF ReevalCreate
<1>6. CASE ReevalLink
  <2>1. target \in Ids /\ snap[target] = disk[target] /\ disk[target].status = "blocked"
    BY <1>2, <1>6 DEF ReevalLink, TypeOK, MainHolds, MainCurrent
  <2> QED
    BY <1>1, <1>6, <2>1, SavedDeps DEF ReevalLink, Exists
<1>7. ASSUME NEW b \in Ids, DeferBead(b) PROVE DepsKept
  <2>1. snap[b] = disk[b] /\ disk[b] \in Bead /\ disk[b].status = "ready"
    BY <1>1, <1>2, <1>7 DEF DeferBead, NextCandidate, MainHolds, MainCurrent
  <2>2. disk' = disk \/ Save(b, [disk[b] EXCEPT !.reason = "other"])
    BY <1>7, <2>1 DEF DeferBead
  <2>3. [disk[b] EXCEPT !.reason = "other"].deps = disk[b].deps
    BY <2>1 DEF Bead
  <2> QED
    BY <1>1, <2>1, <2>2, <2>3, SavedDeps DEF DepsKept, Exists
<1>8. CASE BeginFill \/ (\E b \in Ids : SelectBead(b)) \/ EndFill \/ WaitCompletion \/ Abort
  BY <1>8 DEF BeginFill, SelectBead, EndFill, WaitCompletion, Abort, DepsKept
<1> QED
  BY <1>3, <1>4, <1>5, <1>6, <1>7, <1>8 DEF Main

LEMMA WorkerDeps ==
    ASSUME SerialInv, FailingDeps, NEW b \in Ids, Worker(b), wpc[b] \notin PlannedSteps
    PROVE  DepsKept
<1>1. TypeOK /\ disk \in Store /\ disk[b] \in Bead /\ obj[b] \in Bead
  BY StoreTypes DEF SerialInv, HInv, TypeOK
<1>2. WorkerHolds(b) /\ RootCurrent(b) /\ RepairCurrent(b) /\ DoneCurrent(b)
  BY DEF SerialInv, HInv, Current, WorkerCurrent
<1>3. ASSUME disk' = disk PROVE DepsKept
  BY <1>3 DEF DepsKept
<1>4. CASE StartWithoutWorktree(b) \/ Start(b)
  <2> DEFINE full == Populated(b, disk, obj[b])
  <2>1. obj[b] = disk[b] /\ Exists(disk, b)
    BY <1>2, <1>4 DEF StartWithoutWorktree, Start, RootCurrent, Exists
  <2>2. full \in Bead /\ full.deps = disk[b].deps
    BY <1>1, <2>1, PopulatedStanding, PopulatedType
  <2>3. disk' = disk \/ Save(b, full) \/ Save(b, Blocked(full, "other"))
    BY <1>4 DEF StartWithoutWorktree, Start
  <2> HIDE DEF full
  <2>4. Blocked(full, "other").deps = full.deps
    BY <2>2 DEF Blocked, Bead
  <2> QED
    BY <1>1, <1>3, <2>1, <2>2, <2>3, <2>4, SavedDeps
<1>5. CASE SaveFeatureRoot(b)
  <2>1. Tree[b] \in Ids /\ seen[b][Tree[b]] = disk[Tree[b]] /\ Exists(disk, Tree[b])
    BY <1>2, <1>5 DEF SaveFeatureRoot, WorkerHolds, RootCurrent, Present, Exists
  <2> QED
    BY <1>1, <1>5, <2>1, SavedDeps DEF SaveFeatureRoot
<1>6. CASE Launch(b)
  <2>1. obj[b] = Running(disk[b]) /\ Exists(disk, b)
    BY <1>2, <1>6 DEF Launch, RootCurrent, Exists
  <2>2. obj[b].deps = disk[b].deps
    BY <1>1, <2>1 DEF Running, Bead
  <2> QED
    BY <1>1, <1>6, <2>1, <2>2, SavedDeps DEF Launch
<1>7. CASE FinalizeBlocked(b) \/ CommitFails(b) \/ FinalizeDone(b)
  <2> DEFINE f == Finalized(b)
  <2>1. obj[b] = disk[b] /\ Exists(disk, b)
    BY <1>2, <1>7 DEF FinalizeBlocked, CommitFails, FinalizeDone, Finalizing, RootCurrent, Exists
  <2>2. f.deps = disk[b].deps
    BY <1>1, <2>1, FinalizedShape
  <2>3. f \in Bead
    BY <1>1, <1>2, <1>7, FinalizedFields DEF FinalizeBlocked, CommitFails, FinalizeDone, Finalizing, WorkerHolds
  <2>4. \/ Save(b, [f EXCEPT !.status = "blocked"])
        \/ Save(b, [f EXCEPT !.status = "blocked", !.reason = "other"])
        \/ Save(b, [f EXCEPT !.status = "done"])
    BY <1>7 DEF FinalizeBlocked, CommitFails, FinalizeDone
  <2> HIDE DEF f
  <2>5. /\ [f EXCEPT !.status = "blocked"].deps = f.deps
        /\ [f EXCEPT !.status = "blocked", !.reason = "other"].deps = f.deps
        /\ [f EXCEPT !.status = "done"].deps = f.deps
    BY <2>3 DEF Bead
  <2> QED
    BY <1>1, <2>1, <2>2, <2>4, <2>5, SavedDeps
<1>8. CASE LinkCorrective(b) \/ SaveFailed(b)
  <2>1. obj[b].deps = disk[b].deps /\ Exists(disk, b)
    BY <1>2, <1>8 DEF LinkCorrective, SaveFailed, RepairCurrent, FailingDeps, Failing, Exists
  <2> QED
    BY <1>1, <1>8, <2>1, SavedDeps DEF LinkCorrective, SaveFailed
<1>9. CASE CompleteOriginal(b)
  <2> DEFINE q == [Rescoped(obj[b], res[b].scope) EXCEPT
                            !.status = "done", !.lease = FALSE, !.reason = "none",
                            !.touched = IF res[b].touched = {} THEN @ ELSE res[b].touched]
  <2>1. subj[b] \in Ids /\ obj[b] = disk[subj[b]] /\ Exists(disk, subj[b])
    BY <1>2, <1>9 DEF CompleteOriginal, DoneCurrent, Exists
  <2>2. Save(subj[b], q) /\ q.deps = disk[subj[b]].deps
    BY <1>1, <1>9, <2>1 DEF CompleteOriginal, Rescoped, Bead
  <2> HIDE DEF q
  <2> QED
    BY <1>1, <2>1, <2>2, SavedDeps
<1>10. CASE RequeueParent(b)
  <2> DEFINE p == Parent[subj[b]]
  <2>1. p \in Ids /\ seen[b][p] = disk[p] /\ disk[p].status = "blocked" /\ disk[p] \in Bead
    BY <1>1, <1>2, <1>10, StoreTypes DEF RequeueParent, DoneCurrent, WorkerHolds
  <2>2. Save(p, Requeued(disk[p], subj[b])) /\ Requeued(disk[p], subj[b]).deps = disk[p].deps
    BY <1>10, <2>1 DEF RequeueParent, Requeued, Bead
  <2> QED
    BY <1>1, <2>1, <2>2, SavedDeps DEF Exists
<1>11. CASE CreateCorrective(b) \/ CreateRecovery(b) \/ CreateSubtask(b)
  <2>1. CASE CreateCorrective(b) \/ CreateRecovery(b)
    BY <1>1, <2>1, ChildrenBare, ChildDeps DEF CreateCorrective, CreateRecovery
  <2>2. CASE CreateSubtask(b)
    BY <1>1, <2>2, ChildrenBare, ChildDeps DEF CreateSubtask
  <2> QED
    BY <1>11, <2>1, <2>2
<1>12. CASE \/ AgentReturns(b) \/ UnsupportedVerdict(b) \/ CheckCorrectives(b) \/ FinalizeFailed(b)
            \/ LoadOriginal(b) \/ LoadParent(b) \/ ListForFollowups(b) \/ RefuseSubtask(b) \/ PlanFollowups(b)
  BY <1>3, <1>12 DEF AgentReturns, UnsupportedVerdict, CheckCorrectives, FinalizeFailed, LoadOriginal, LoadParent,
                     ListForFollowups, RefuseSubtask, PlanFollowups
<1> QED
  BY <1>4, <1>5, <1>6, <1>7, <1>8, <1>9, <1>10, <1>11, <1>12
  DEF Worker, FollowupTest, FollowupDocs, FollowupReview, PlannedSteps

(* The worker's turn at a followup: it is linked afterwards.               *)
LEMMA FollowupLinked ==
    ASSUME SerialInv, NEW b \in Ids, Worker(b), wpc[b] \in PlannedSteps,
           NEW a \in Pending(wpc[b]), Aimed(b, a), NEW c, c = plan[b][a],
           NEW deps, subj[b] \in deps, deps \subseteq ReviewDeps(b),
           \/ CreateOrSync(b, a, deps)
           \/ /\ HasFollowup(b, a)
              /\ disk' = disk \/ Save(c, [Synced(seen[b][c], obj[b]) EXCEPT !.deps = @ \cup deps])
    PROVE  (disk' = disk \/ Links(b, a)) /\ Follows(disk', c, subj[b], a)
<1>1. TypeOK /\ disk \in Store /\ obj[b] \in Bead
  BY StoreTypes DEF SerialInv, HInv, TypeOK
<1>2. WorkerHolds(b) /\ PlanCurrent(b)
  BY DEF SerialInv, HInv, Current, WorkerCurrent
<1>3. a \in FollowupAgents
  BY DEF Pending, FollowupAgents, PlannedSteps
<1>4. c \in Ids /\ disk[c] \in Bead
  BY <1>1, <1>3, StoreTypes DEF TypeOK, PlannedSteps
<1>5. Agent[c] = a /\ Parent[c] \in {subj[b], Tree[subj[b]]} /\ Tree[c] = Tree[subj[b]]
  BY DEF Aimed
<1>6. CASE HasFollowup(b, a)
  <2>1. seen[b][c] = disk[c] /\ Exists(disk, c) /\ subj[b] \in disk[c].deps
    BY <1>2, <1>4, <1>6 DEF PlanCurrent, Aimed, HasFollowup, Exists
  <2> DEFINE q == Synced(disk[c], obj[b])
             m == [q EXCEPT !.deps = @ \cup deps]
  <2>2. disk' = disk \/ Save(c, q) \/ Save(c, m)
    BY <1>6, <2>1 DEF CreateOrSync
  <2>3. q.deps = disk[c].deps /\ m.deps = disk[c].deps \cup deps /\ q.status = disk[c].status
        /\ m.status = disk[c].status
    BY <1>4 DEF Synced, Bead
  <2> HIDE DEF q, m
  <2>4. CASE disk' = disk
    BY <1>5, <2>1, <2>4 DEF Follows
  <2>5. ASSUME NEW r \in {q, m}, Save(c, r) PROVE Links(b, a) /\ Follows(disk', c, subj[b], a)
    <3>1. Only(c) /\ disk'[c] = r
      BY <1>1, <1>4, <2>5, SavesOnly
    <3>2. disk[c].deps \subseteq r.deps /\ r.deps \subseteq disk[c].deps \cup ReviewDeps(b)
          /\ r.status = disk[c].status
      BY <2>3
    <3> QED
      BY <1>4, <1>5, <1>6, <2>1, <3>1, <3>2 DEF Links, Follows, Exists
  <2> QED
    BY <2>2, <2>4, <2>5
<1>7. CASE ~HasFollowup(b, a)
  <2>1. ~Exists(disk, c) /\ ~LeavesOut(b)
    BY <1>2, <1>7 DEF PlanCurrent, Aimed
  <2>2. Only(c) /\ disk'[c] = FollowupBead(obj[b], deps)
    BY <1>1, <1>4, <1>7, <2>1, SavesOnly DEF CreateOrSync
  <2>3. disk'[c].deps = deps /\ Exists(disk', c)
    BY <1>4, <2>2, ChildrenBare DEF Exists
  <2> QED
    BY <1>4, <1>5, <1>7, <2>1, <2>2, <2>3 DEF Links, Follows
<1> QED
  BY <1>6, <1>7

AgentAt(step) == CASE step = "fuTest" -> "tester"
                   [] step = "fuDocs" -> "documentation"
                   [] OTHER -> "review"

LEMMA FollowupTurn ==
    ASSUME SerialInv, NEW b \in Ids, Worker(b), wpc[b] \in PlannedSteps, NEW a, a = AgentAt(wpc[b]), Aimed(b, a)
    PROVE  /\ disk' = disk \/ Links(b, a)
           /\ Follows(disk', plan[b][a], subj[b], a)
           /\ subj' = subj /\ plan' = plan /\ obj' = obj
           /\ \/ wpc[b] = "fuTest" /\ wpc'[b] = "fuDocs" /\ seen' = seen
              \/ wpc[b] = "fuDocs" /\ wpc'[b] = "fuReview" /\ seen' = seen
              \/ wpc[b] = "fuReview" /\ wpc'[b] \in {"ended", "raised"}
<1>1. TypeOK
  BY DEF SerialInv, HInv
<1>2. FollowupTest(b) \/ FollowupDocs(b) \/ FollowupReview(b)
  BY DEF PlannedSteps, Worker, StartWithoutWorktree, Start, SaveFeatureRoot, Launch, AgentReturns,
         UnsupportedVerdict, FinalizeBlocked, CheckCorrectives, CreateCorrective, LinkCorrective,
         FinalizeFailed, CreateRecovery, SaveFailed, CommitFails, FinalizeDone, Finalizing, LoadOriginal,
         CompleteOriginal, LoadParent, RequeueParent, ListForFollowups, CreateSubtask, RefuseSubtask, PlanFollowups
<1>3. CASE FollowupTest(b)
  <2>1. a = "tester" /\ a \in Pending(wpc[b])
    BY <1>3 DEF FollowupTest, AgentAt, Pending
  <2>2. (disk' = disk \/ Links(b, a)) /\ Follows(disk', plan[b][a], subj[b], a)
    BY <1>3, <2>1, FollowupLinked DEF FollowupTest, ReviewDeps
  <2> QED
    BY <1>1, <1>3, <2>2 DEF FollowupTest, Goto, TypeOK
<1>4. CASE FollowupDocs(b)
  <2>1. a = "documentation" /\ a \in Pending(wpc[b])
    BY <1>4 DEF FollowupDocs, AgentAt, Pending
  <2>2. (disk' = disk \/ Links(b, a)) /\ Follows(disk', plan[b][a], subj[b], a)
    BY <1>4, <2>1, FollowupLinked DEF FollowupDocs, ReviewDeps
  <2> QED
    BY <1>1, <1>4, <2>2 DEF FollowupDocs, Goto, TypeOK
<1>5. CASE FollowupReview(b)
  <2>1. a = "review" /\ a \in Pending(wpc[b])
    BY <1>5 DEF FollowupReview, AgentAt, Pending
  <2>2. \/ CreateOrSync(b, a, ReviewDeps(b))
        \/ /\ HasFollowup(b, a)
           /\ \/ disk' = disk
              \/ Save(plan[b][a], [Synced(seen[b][plan[b][a]], obj[b]) EXCEPT !.deps = @ \cup ReviewDeps(b)])
    BY <1>5, <2>1 DEF FollowupReview
  <2>3. (disk' = disk \/ Links(b, a)) /\ Follows(disk', plan[b][a], subj[b], a)
    BY <2>1, <2>2, FollowupLinked DEF ReviewDeps
  <2> QED
    BY <1>1, <1>5, <2>3 DEF FollowupReview, Goto, TypeOK
<1> QED
  BY <1>2, <1>3, <1>4, <1>5

LEMMA DepsWritten ==
    ASSUME OneWorker, SerialInv, Followed, [Next]_vars
    PROVE  DepsKept \/ \E b \in Ids : LET a == AgentAt(wpc[b]) IN Worker(b) /\ Links(b, a)
<1>1. CASE disk' = disk
  BY <1>1 DEF DepsKept
<1>2. ASSUME NEW b \in Ids, Worker(b), wpc[b] \in PlannedSteps
      PROVE  disk' = disk \/ Links(b, AgentAt(wpc[b]))
  <2>1. Aimed(b, AgentAt(wpc[b]))
    BY <1>2 DEF Followed, Pursued, AgentAt, FollowupAgents
  <2> QED
    BY <1>2, <2>1, FollowupTurn
<1>3. CASE Operator
  BY <1>3 DEF Operator, OperatorRetry, OperatorStatus, OneWorker, NoOperator, SerialInv, HInv, TypeOK
<1>4. CASE StartRun \/ Crash \/ Rest \/ UNCHANGED vars
  BY <1>1, <1>4 DEF StartRun, Crash, Rest, vars
<1> QED
  BY <1>1, <1>2, <1>3, <1>4, MainDeps, WorkerDeps DEF Next, Workers, Followed

(* A followup stays one.                                                   *)
LEMMA DepsStay ==
    ASSUME FiniteIds, OneWorker, SerialInv, Followed, [Next]_vars, NEW c, Exists(disk, c), NEW s, s \in disk[c].deps
    PROVE  Exists(disk', c) /\ s \in disk'[c].deps
<1>1. Exists(disk', c) /\ c \in Ids
  BY SerialStep, FilesStay DEF Exists
<1>2. ASSUME NEW b \in Ids, NEW a, Links(b, a) PROVE s \in disk'[c].deps
  BY <1>1, <1>2 DEF Links, Only
<1> QED
  BY <1>1, <1>2, DepsWritten DEF DepsKept

LEMMA FollowsStay ==
    ASSUME FiniteIds, OneWorker, SerialInv, Followed, [Next]_vars
    PROVE  /\ \A c, s, a : Follows(disk, c, s, a) => Follows(disk', c, s, a)
           /\ \A s, a : Linked(s, a) => Linked(s, a)'
           /\ \A s \in Ids : FollowedUp(s) => FollowedUp(s)'
<1>1. ASSUME NEW c, NEW s, Exists(disk, c), s \in disk[c].deps
      PROVE  Exists(disk', c) /\ s \in disk'[c].deps
  BY <1>1, DepsStay
<1> QED
  BY <1>1 DEF Follows, Linked, FollowedUp, HasFollowupOf

LEMMA OwnDepsStep ==
    ASSUME FiniteIds, OneWorker, SerialInv, Followed, [Next]_vars
    PROVE  OwnDeps(disk')
<1> SUFFICES ASSUME NEW c \in Ids, Kind[c] \in FollowupKinds, Exists(disk', c)
             PROVE  Parent[c] \in disk'[c].deps
  BY DEF OwnDeps
<1>1. CASE Exists(disk, c)
  BY <1>1, DepsStay DEF Followed, OwnDeps
<1>2. CASE ~Exists(disk, c)
  <2>1. ~DepsKept
    BY <1>2 DEF DepsKept
  <2>2. PICK b \in Ids : Worker(b) /\ Links(b, AgentAt(wpc[b]))
    BY <2>1, DepsWritten
  <2> DEFINE a == AgentAt(wpc[b])
  <2>3. c = plan[b][a] /\ ~HasFollowup(b, a)
    BY <1>2, <2>2 DEF Links, Only, Exists
  <2>4. Aimed(b, a)
    BY <2>2 DEF Links, Followed, Pursued, AgentAt, FollowupAgents
  <2> QED
    BY <2>2, <2>3, <2>4 DEF Links, Aimed
<1> QED
  BY <1>1, <1>2

LEMMA FailingDepsStep ==
    ASSUME FiniteIds, OneWorker, SerialInv, Followed, [Next]_vars
    PROVE  FailingDeps'
<1>1. TypeOK
  BY DEF SerialInv, HInv
<1> SUFFICES ASSUME NEW b \in Ids, wpc'[b] \in {"recoveryCreate", "failSave"}
             PROVE  obj'[b].deps = disk'[b].deps
  BY DEF FailingDeps
<1>2. wpc[b] # "none" /\ obj[b] \in Bead
  BY <1>1, WorkerStarts, StoreTypes DEF TypeOK
<1>3. CASE disk' = disk /\ SameWorker(b)
  BY <1>3 DEF SameWorker, Followed, FailingDeps
<1>4. CASE FinalizeFailed(b)
  <2> DEFINE f == Finalized(b)
  <2>1. obj[b] = disk[b]
    BY <1>4 DEF FinalizeFailed, Finalizing, SerialInv, Current, WorkerCurrent, RootCurrent
  <2>2. f.deps = obj[b].deps
    BY <1>1, <1>2, FinalizedShape
  <2>3. f \in Bead
    BY <1>1, <1>4, FinalizedFields DEF FinalizeFailed, Finalizing, SerialInv, HInv, WorkerHolds
  <2>4. disk' = disk /\ \E x : obj'[b] = [f EXCEPT !.status = "blocked", !.recov = x]
    <3> DEFINE r == [f EXCEPT !.status = "blocked"]
               recover == res[b].outcome = "no_output" /\ ~r.recov /\ Kind[b] # "recovery"
    <3>1. disk' = disk /\ obj'[b] = [r EXCEPT !.recov = r.recov \/ recover]
      BY <1>1, <1>4 DEF FinalizeFailed, Hold, TypeOK, Store
    <3> HIDE DEF f, recover
    <3> QED
      BY <2>3, <3>1 DEF Bead
  <2> HIDE DEF f
  <2> QED
    BY <2>1, <2>2, <2>3, <2>4 DEF Bead
<1>5. CASE CreateRecovery(b)
  <2>1. wpc[b] = "recoveryCreate" /\ obj' = obj /\ Exists(disk, b)
    BY <1>5 DEF CreateRecovery, SerialInv, Current, WorkerCurrent, RepairCurrent, Failing, Exists
  <2>2. DepsKept
    BY <1>5, <2>1, WorkerDeps DEF Followed, Worker, PlannedSteps
  <2> QED
    BY <2>1, <2>2 DEF Followed, FailingDeps, DepsKept
<1>6. CASE Worker(b) /\ ~FinalizeFailed(b) /\ ~CreateRecovery(b)
  BY <1>1, <1>6
  DEF Worker, StartWithoutWorktree, Start, SaveFeatureRoot, Launch, AgentReturns, UnsupportedVerdict,
      FinalizeBlocked, CheckCorrectives, CreateCorrective, LinkCorrective,
      SaveFailed, CommitFails, FinalizeDone, LoadOriginal, CompleteOriginal, AfterDone, LoadParent,
      RequeueParent, ListForFollowups, CreateSubtask, RefuseSubtask, PlanFollowups, FollowupTest, FollowupDocs,
      FollowupReview, Goto, TypeOK
<1> QED
  BY <1>2, <1>3, <1>4, <1>5, <1>6, WorkersTurn DEF Released

(* Who follows what the plan says: a followup that is made for another     *)
(* bead does not depend on s.                                              *)
LEMMA LinksOthers ==
    ASSUME SerialInv, Followed, NEW b \in Ids, NEW a, a = AgentAt(wpc[b]), Links(b, a),
           NEW s \in Ids, Agent[s] = "developer", ~(s = subj[b] /\ Tree[s] = s), NEW e
    PROVE  PlannerOwned(disk', s, e) = PlannerOwned(disk, s, e)
<1> DEFINE c == plan[b][a]
<1>1. \A x \in FollowupAgents : Aimed(b, x)
  BY DEF Links, Followed, Pursued
<1>2. s \in ReviewDeps(b) => s = subj[b]
  BY <1>1 DEF ReviewDeps, Aimed, FollowupAgents
<1>3. Aimed(b, a)
  BY <1>1 DEF AgentAt, FollowupAgents
<1>4. c \in Ids /\ Only(c) /\ Exists(disk', c)
  BY DEF Links
<1>5. c \in PlannerOwned(disk', s, e) <=> c \in PlannerOwned(disk, s, e)
  <2>1. CASE HasFollowup(b, a)
    <3>1. Exists(disk, c) /\ seen[b][c] = disk[c] /\ disk[c].deps \subseteq disk'[c].deps
          /\ disk'[c].deps \subseteq disk[c].deps \cup ReviewDeps(b)
      BY <2>1 DEF Links
    <3>2. subj[b] \in disk[c].deps
      BY <1>3, <2>1, <3>1 DEF Aimed
    <3>3. s \in disk'[c].deps <=> s \in disk[c].deps
      BY <1>2, <3>1, <3>2
    <3> QED
      BY <1>4, <3>1, <3>3 DEF PlannerOwned
  <2>2. CASE ~HasFollowup(b, a)
    <3>1. ~Exists(disk, c) /\ disk'[c].deps \subseteq ReviewDeps(b) /\ Parent[c] = subj[b]
      BY <1>3, <2>2 DEF Links, Aimed
    <3> QED
      BY <1>2, <3>1 DEF PlannerOwned
  <2> QED
    BY <2>1, <2>2
<1>6. ASSUME NEW x \in Ids \ {c} PROVE x \in PlannerOwned(disk', s, e) <=> x \in PlannerOwned(disk, s, e)
  BY <1>4, <1>6 DEF Only, PlannerOwned, Exists
<1> QED
  BY <1>5, <1>6 DEF PlannerOwned

LEMMA KeptOthers ==
    ASSUME FiniteIds, OneWorker, SubtasksApart, SerialInv, Followed, [Next]_vars, DepsKept,
           NEW s \in Ids, UsesPlannerOwned(s), NEW e \in FollowupAgents
    PROVE  PlannerOwned(disk', s, e) = PlannerOwned(disk, s, e)
<1>1. ASSUME NEW x \in Ids PROVE Exists(disk, x) => Exists(disk', x)
  BY SerialStep, FilesStay
<1>2. ASSUME NEW c \in PlannerOwned(disk', s, e), ~Exists(disk, c) PROVE FALSE
  <2>1. /\ c \in Ids /\ Exists(disk', c) /\ Agent[c] = e /\ Tree[c] = Tree[s] /\ Parent[c] = Tree[s]
        /\ s \in disk'[c].deps
    BY <1>2 DEF PlannerOwned
  <2>2. Kind[c] = "subtask"
    BY <1>2, <2>1 DEF DepsKept
  <2> QED
    BY <2>1, <2>2 DEF SubtasksApart
<1> QED
  BY <1>1, <1>2 DEF DepsKept, PlannerOwned

(* The last followup of a bead completes them.                             *)
LEMMA AllLinked ==
    ASSUME FiniteIds, OneWorker, SerialInv, Followed, [Next]_vars, NEW b \in Ids, Worker(b), wpc[b] = "fuReview"
    PROVE  /\ \A e \in FollowupAgents : \E c \in Ids : Follows(disk', c, subj[b], e)
           /\ \A s : s = subj[b] => FollowedUp(s)'
<1>1. Pursued(b)
  BY DEF Followed
<1>2. Follows(disk', plan[b]["review"], subj[b], "review")
  BY <1>1, FollowupTurn DEF Pursued, PlannedSteps, AgentAt, FollowupAgents
<1>3. Linked(subj[b], "tester")' /\ Linked(subj[b], "documentation")'
  <2>1. Linked(subj[b], "tester") /\ Linked(subj[b], "documentation")
    BY <1>1 DEF Pursued
  <2>2. subj' = subj
    BY <1>1, FollowupTurn DEF Pursued, PlannedSteps, AgentAt, FollowupAgents
  <2> QED
    BY <2>1, <2>2, FollowsStay DEF Linked
<1>4. subj' = subj
  BY <1>1, FollowupTurn DEF Pursued, PlannedSteps, AgentAt, FollowupAgents
<1>5. \A e \in FollowupAgents : \E c \in Ids : Follows(disk', c, subj[b], e)
  BY <1>2, <1>3, <1>4 DEF FollowupAgents, Linked, Follows, Exists
<1> QED
  BY <1>4, <1>5 DEF Follows, FollowedUp, HasFollowupOf

LEMMA SharedStep ==
    ASSUME FiniteIds, OneWorker, SubtasksApart, SerialInv, Followed, [Next]_vars, crashes' = crashes,
           NEW s \in Ids, Agent[s] = "developer"
    PROVE  SharedWhole(disk', s) \/ Branching(s)'
<1>1. TypeOK
  BY DEF SerialInv, HInv
<1>2. ASSUME NEW b \in Ids, Worker(b), wpc[b] \in PlannedSteps, s = subj[b], Tree[s] = s
      PROVE  SharedWhole(disk', s) \/ Branching(s)'
  <2>1. Aimed(b, AgentAt(wpc[b]))
    BY <1>2 DEF Followed, Pursued, AgentAt, FollowupAgents
  <2>2. subj' = subj /\ (wpc'[b] \in {"fuDocs", "fuReview"} \/ wpc[b] = "fuReview")
    BY <1>2, <2>1, FollowupTurn
  <2>3. CASE wpc'[b] \in {"fuDocs", "fuReview"}
    BY <1>2, <2>2, <2>3 DEF Branching
  <2>4. CASE wpc[b] = "fuReview"
    <3>1. \A e \in FollowupAgents : \E c \in Ids : Follows(disk', c, s, e)
      BY <1>2, <2>4, AllLinked
    <3>2. \A e \in FollowupAgents : PlannerOwned(disk', s, e) # {}
      BY <1>2, <3>1, StoreAssumption DEF Follows, PlannerOwned, FollowupAgents
    <3> QED
      BY <3>2 DEF SharedWhole
  <2> QED
    BY <2>2, <2>3, <2>4
<1>3. CASE Branching(s)
  <2>1. PICK b \in Ids : wpc[b] \in {"fuDocs", "fuReview"} /\ subj[b] = s /\ Tree[s] = s
    BY <1>3 DEF Branching
  <2>2. CASE Worker(b)
    BY <1>2, <2>1, <2>2 DEF PlannedSteps
  <2>3. CASE SameWorker(b)
    BY <2>1, <2>3 DEF SameWorker, Branching
  <2>4. crashes' # crashes + 1
    BY <1>1 DEF TypeOK
  <2> QED
    BY <2>1, <2>2, <2>3, <2>4, WorkersTurn DEF Released
<1>4. CASE SharedWhole(disk, s)
  <2>1. ASSUME UsesPlannerOwned(s) => \A e \in FollowupAgents : PlannerOwned(disk', s, e) = PlannerOwned(disk, s, e)
        PROVE  SharedWhole(disk', s)
    BY <1>4, <2>1 DEF SharedWhole, SharedFollowups
  <2>2. CASE DepsKept
    BY <2>1, <2>2, KeptOthers
  <2>3. CASE ~DepsKept
    <3>1. PICK b \in Ids : Worker(b) /\ Links(b, AgentAt(wpc[b]))
      BY <2>3, DepsWritten
    <3>2. CASE s = subj[b] /\ Tree[s] = s
      BY <1>2, <3>1, <3>2 DEF Links
    <3>3. CASE ~(s = subj[b] /\ Tree[s] = s)
      BY <2>1, <3>1, <3>3, LinksOthers
    <3> QED
      BY <3>2, <3>3
  <2> QED
    BY <2>2, <2>3
<1> QED
  BY <1>3, <1>4 DEF Followed

(* The ids _create_followups settles on.                                   *)
LEMMA AimedIds ==
    ASSUME FamilyAgents, SerialInv, NEW b \in Ids, wpc[b] = "fuPlan", ListedWhole(b),
           NEW a \in FollowupAgents, NEW c \in FollowupIds(b, a)
    PROVE  LET s == subj[b] IN
           /\ Agent[c] = a /\ Parent[c] \in {s, Tree[s]} /\ Tree[c] = Tree[s]
           /\ IF Exists(seen[b], c) THEN s \in seen[b][c].deps
              ELSE Kind[c] = SuffixOf(a) /\ Parent[c] = s /\ ~LeavesOut(b)
<1> DEFINE s == subj[b]
<1>1. s \in Ids /\ OwnDeps(seen[b]) /\ SharedWhole(seen[b], s)
  BY DEF ListedWhole, SerialInv, HInv, TypeOK
<1>2. \A x \in Ids : Exists(seen[b], x) => seen[b][x] = disk[x]
  BY DEF SerialInv, Current, WorkerCurrent, PlanCurrent
<1>3. SuffixOf(a) \in FollowupKinds
  BY DEF FollowupKinds
<1>4. ASSUME c \in PlannerOwned(seen[b], s, a)
      PROVE  Exists(seen[b], c) /\ Agent[c] = a /\ Parent[c] = Tree[s] /\ Tree[c] = Tree[s] /\ s \in seen[b][c].deps
  BY <1>4 DEF PlannerOwned
<1>5. ASSUME c \in LegacyFollowup(seen[b], s, a)
      PROVE  Exists(seen[b], c) /\ Agent[c] = a /\ Parent[c] = s /\ Tree[c] = Tree[s] /\ s \in seen[b][c].deps
  <2>1. c \in Ids /\ Exists(seen[b], c) /\ Agent[c] = a /\ Parent[c] = s /\ Kind[c] = SuffixOf(a)
    BY <1>5 DEF LegacyFollowup, Children
  <2> QED
    BY <1>1, <1>3, <2>1 DEF OwnDeps, FamilyAgents
<1>6. ASSUME ExistingFollowup(seen[b], s, a) # {} PROVE c \in ExistingFollowup(seen[b], s, a)
  BY <1>6 DEF FollowupIds
<1>7. ASSUME ExistingFollowup(seen[b], s, a) = {}
      PROVE  /\ ~Exists(seen[b], c) /\ Kind[c] = SuffixOf(a) /\ Parent[c] = s /\ Agent[c] = a
             /\ Tree[c] = Tree[s] /\ ~LeavesOut(b)
  <2>1. IsFreshChild(disk, s, SuffixOf(a), c)
    BY <1>7 DEF FollowupIds
  <2>2. c \in Ids /\ Kind[c] = SuffixOf(a) /\ Parent[c] = s /\ ~Exists(disk, c)
    BY <2>1 DEF IsFreshChild, Children
  <2>3. ~Exists(seen[b], c)
    BY <1>2, <2>2 DEF Exists
  <2>4. ~LeavesOut(b)
    <3>1. SharedFollowups(seen[b], s) \cap PlannerOwned(seen[b], s, a) = {}
      BY <1>7 DEF ExistingFollowup
    <3>2. SharedFollowups(seen[b], s) # {} => PlannerOwned(seen[b], s, a) \subseteq SharedFollowups(seen[b], s)
      BY DEF SharedFollowups
    <3> QED
      BY <1>1, <3>1, <3>2 DEF SharedWhole, LeavesOut
  <2> QED
    BY <1>1, <1>3, <2>2, <2>3, <2>4 DEF FamilyAgents
<1> QED
  BY <1>4, <1>5, <1>6, <1>7 DEF ExistingFollowup

LEMMA ListedStep ==
    ASSUME FiniteIds, OneWorker, SerialInv, Followed, [Next]_vars, NEW b \in Ids
    PROVE  ListedWhole(b)'
<1>1. TypeOK
  BY DEF SerialInv, HInv
<1> SUFFICES ASSUME wpc'[b] = "fuPlan" PROVE OwnDeps(seen'[b]) /\ SharedWhole(seen'[b], subj'[b])
  BY DEF ListedWhole, OwnDeps, SharedWhole, SharedFollowups, PlannerOwned, Exists
<1>2. CASE ListForFollowups(b)
  <2>1. wpc[b] = "fuList" /\ seen'[b] = disk /\ subj' = subj
    BY <1>1, <1>2 DEF ListForFollowups, TypeOK
  <2>2. Agent[subj[b]] = "developer" /\ subj[b] \in Ids
    BY <1>1, <2>1 DEF SerialInv, Current, WorkerCurrent, DoneCurrent, CompletionSteps, TypeOK
  <2>3. ~Branching(subj[b])
    BY <2>1 DEF Branching, SerialInv, Current, Alone
  <2> QED
    BY <2>1, <2>2, <2>3 DEF Followed
<1>3. CASE SameWorker(b) \/ CreateSubtask(b)
  BY <1>3 DEF SameWorker, CreateSubtask, Followed, ListedWhole
<1>4. CASE RefuseSubtask(b)
  BY <1>1, <1>4 DEF RefuseSubtask, Goto, TypeOK
<1>5. CASE Worker(b) /\ ~ListForFollowups(b) /\ ~CreateSubtask(b) /\ ~RefuseSubtask(b)
  BY <1>1, <1>5
  DEF Worker, StartWithoutWorktree, Start, SaveFeatureRoot, Launch, AgentReturns, UnsupportedVerdict,
      FinalizeBlocked, CheckCorrectives, CreateCorrective, LinkCorrective, FinalizeFailed, CreateRecovery,
      SaveFailed, CommitFails, FinalizeDone, LoadOriginal, CompleteOriginal, AfterDone, LoadParent,
      RequeueParent, PlanFollowups, FollowupTest, FollowupDocs, FollowupReview, Goto, TypeOK
<1>6. wpc[b] # "none"
  BY WorkerStarts
<1> QED
  BY <1>2, <1>3, <1>4, <1>5, <1>6, WorkersTurn DEF Released

LEMMA PursuedStep ==
    ASSUME FiniteIds, OneWorker, FamilyAgents, SerialInv, Followed, [Next]_vars, NEW b \in Ids
    PROVE  Pursued(b)'
<1>1. TypeOK
  BY DEF SerialInv, HInv
<1> SUFFICES ASSUME wpc'[b] \in PlannedSteps PROVE Pursued(b)'
  BY DEF Pursued, PlannedSteps
<1>2. CASE SameWorker(b)
  BY <1>2, FollowsStay DEF SameWorker, Followed, Pursued, Aimed, HasFollowup, LeavesOut
<1>3. CASE PlanFollowups(b)
  <2>1. PICK t \in FollowupIds(b, "tester"), d \in FollowupIds(b, "documentation"),
             r \in FollowupIds(b, "review") :
                 plan' = [plan EXCEPT ![b] = [NoPlan EXCEPT !["tester"] = t, !["documentation"] = d, !["review"] = r]]
    BY <1>3 DEF PlanFollowups
  <2>2. /\ wpc[b] = "fuPlan" /\ wpc'[b] = "fuTest" /\ subj' = subj /\ seen' = seen
        /\ plan'[b]["tester"] = t /\ plan'[b]["documentation"] = d /\ plan'[b]["review"] = r
    BY <1>1, <1>3, <2>1 DEF PlanFollowups, Goto, TypeOK, NoPlan, FollowupAgents
  <2>3. ASSUME NEW a \in FollowupAgents PROVE plan'[b][a] \in FollowupIds(b, a)
    BY <2>2, <2>3 DEF FollowupAgents
  <2>4. ListedWhole(b)
    BY DEF Followed
  <2>5. ASSUME NEW a \in FollowupAgents PROVE Aimed(b, a)'
    <3> DEFINE c == plan'[b][a]
    <3>1. /\ Agent[c] = a /\ Parent[c] \in {subj[b], Tree[subj[b]]} /\ Tree[c] = Tree[subj[b]]
          /\ IF Exists(seen[b], c) THEN subj[b] \in seen[b][c].deps
             ELSE Kind[c] = SuffixOf(a) /\ Parent[c] = subj[b] /\ ~LeavesOut(b)
      BY <2>2, <2>3, <2>4, AimedIds
    <3> QED
      BY <2>2, <3>1 DEF Aimed, HasFollowup, LeavesOut
  <2> QED
    BY <2>2, <2>5 DEF Pursued
<1>4. CASE Worker(b) /\ wpc[b] \in PlannedSteps
  <2>1. Pursued(b)
    BY DEF Followed
  <2>2. /\ Follows(disk', plan[b][AgentAt(wpc[b])], subj[b], AgentAt(wpc[b]))
        /\ subj' = subj /\ plan' = plan
        /\ \/ wpc[b] = "fuTest" /\ wpc'[b] = "fuDocs" /\ seen' = seen
           \/ wpc[b] = "fuDocs" /\ wpc'[b] = "fuReview" /\ seen' = seen
    <3>1. Aimed(b, AgentAt(wpc[b]))
      BY <1>4, <2>1 DEF Pursued, AgentAt, FollowupAgents
    <3> QED
      BY <1>4, <3>1, FollowupTurn DEF PlannedSteps
  <2>3. \A a \in FollowupAgents : Aimed(b, a)'
    BY <1>4, <2>1, <2>2 DEF Pursued, Aimed, HasFollowup, LeavesOut
  <2>4. /\ wpc[b] = "fuTest" => Linked(subj[b], "tester")'
        /\ wpc[b] = "fuDocs" => Linked(subj[b], "documentation")'
    BY <2>2 DEF Linked, Follows, Exists, AgentAt
  <2>5. Linked(subj[b], "tester") => Linked(subj[b], "tester")'
    BY <2>2, FollowsStay DEF Linked
  <2> QED
    BY <2>1, <2>2, <2>3, <2>4, <2>5 DEF Pursued
<1>5. CASE Worker(b) /\ wpc[b] \notin PlannedSteps /\ ~PlanFollowups(b)
  BY <1>1, <1>5
  DEF Worker, StartWithoutWorktree, Start, SaveFeatureRoot, Launch, AgentReturns, UnsupportedVerdict,
      FinalizeBlocked, CheckCorrectives, CreateCorrective, LinkCorrective, FinalizeFailed, CreateRecovery,
      SaveFailed, CommitFails, FinalizeDone, LoadOriginal, CompleteOriginal, AfterDone, LoadParent,
      RequeueParent, ListForFollowups, CreateSubtask, RefuseSubtask, FollowupTest, FollowupDocs, FollowupReview, Goto,
      TypeOK, PlannedSteps
<1>6. wpc[b] # "none"
  BY WorkerStarts DEF PlannedSteps
<1> QED
  BY <1>2, <1>3, <1>4, <1>5, <1>6, WorkersTurn DEF Released, PlannedSteps

(* What was lost to a refused proposal stays lost.                         *)
LEMMA ForsakenKept ==
    ASSUME SerialInv, [Next]_vars
    PROVE  forsaken \subseteq forsaken'
<1>1. CASE Operator
  BY <1>1 DEF Operator, OperatorRetry, OperatorStatus, bounds
<1>2. CASE StartRun \/ Crash \/ Rest \/ UNCHANGED vars
  BY <1>2 DEF StartRun, Crash, Rest, vars, bounds
<1>3. CASE Main
  BY <1>3 DEF Main, BeginCycle, RetryTransient, ReevaluateCorrective, ReevalCreate, ReevalLink, BeginFill,
              DeferBead, SelectBead, EndFill, Submit, EndCycle, WaitCompletion, Abort, bounds
<1>4. ASSUME NEW b \in Ids, Worker(b) PROVE forsaken \subseteq forsaken'
  BY <1>4
  DEF Worker, StartWithoutWorktree, Start, SaveFeatureRoot, Launch, AgentReturns, UnsupportedVerdict,
      FinalizeBlocked, CheckCorrectives, CreateCorrective, LinkCorrective, FinalizeFailed, CreateRecovery,
      SaveFailed, CommitFails, FinalizeDone, LoadOriginal, CompleteOriginal, LoadParent,
      RequeueParent, ListForFollowups, CreateSubtask, RefuseSubtask, PlanFollowups, FollowupTest, FollowupDocs,
      FollowupReview, bounds
<1> QED
  BY <1>1, <1>2, <1>3, <1>4 DEF Next, Workers

(* A bead that is done has its followups, its worker gets to them, or it   *)
(* has raised over a bead the agent proposed.                              *)
LEMMA FollowedStep ==
    ASSUME FiniteIds, OneWorker, FamilyAgents, SerialInv, Followed, [Next]_vars, crashes' = crashes,
           NEW s \in DoneDevelopers', s \notin forsaken'
    PROVE  FollowedUp(s)' \/ Following(s)'
<1>1. TypeOK /\ Effect /\ disk \in Store
  BY SerialStep DEF SerialInv, HInv, TypeOK
<1>2. s \in Ids /\ Agent[s] = "developer" /\ ~IsCorrective(s) /\ disk'[s].status = "done"
  BY DEF DoneDevelopers, IsDone
<1>3. crashes' # crashes + 1
  BY <1>1 DEF TypeOK
<1>4. CASE disk[s].status = "done"
  <2>1. FollowedUp(s) \/ Following(s)
    BY <1>2, <1>4, ForsakenKept DEF Followed, DoneDevelopers, IsDone, Exists
  <2>2. ASSUME Following(s) PROVE FollowedUp(s)' \/ Following(s)'
    <3>1. PICK b \in Ids : wpc[b] \in FollowSteps /\ subj[b] = s
      BY <2>2 DEF Following
    <3>2. CASE SameWorker(b)
      BY <3>1, <3>2 DEF SameWorker, Following
    <3>3. CASE Worker(b) /\ wpc[b] = "fuReview"
      BY <3>1, <3>3, AllLinked
    <3>4. CASE Worker(b) /\ wpc[b] \in {"fuTest", "fuDocs"}
      <4>1. Aimed(b, AgentAt(wpc[b]))
        BY <3>4 DEF Followed, Pursued, AgentAt, FollowupAgents, PlannedSteps
      <4> QED
        BY <3>1, <3>4, <4>1, FollowupTurn DEF Following, FollowSteps, PlannedSteps
    <3>5. CASE Worker(b) /\ wpc[b] \in {"fuList", "fuPlan"}
      <4>1. ~RefuseSubtask(b)
        BY <3>1 DEF RefuseSubtask
      <4>2. subj' = subj /\ wpc'[b] \in {"fuPlan", "fuTest"}
        BY <1>1, <3>5, <4>1
        DEF Worker, StartWithoutWorktree, Start, SaveFeatureRoot, Launch, AgentReturns, UnsupportedVerdict,
            FinalizeBlocked, CheckCorrectives, CreateCorrective, LinkCorrective, FinalizeFailed, CreateRecovery,
            SaveFailed, CommitFails, FinalizeDone, Finalizing, LoadOriginal, CompleteOriginal, LoadParent,
            RequeueParent, ListForFollowups, CreateSubtask, PlanFollowups, FollowupTest, FollowupDocs,
            FollowupReview, Goto, TypeOK
      <4> QED
        BY <3>1, <4>2 DEF Following, FollowSteps, PlannedSteps
    <3> QED
      BY <1>3, <3>1, <3>2, <3>3, <3>4, <3>5, WorkersTurn DEF Released, FollowSteps, PlannedSteps
  <2> QED
    BY <1>2, <2>1, <2>2, FollowsStay
<1>5. CASE disk[s].status # "done"
  <2>1. CASE wpc[s] = "final" /\ disk' # disk
    <3>1. Worker(s) /\ FinalizeDone(s)
      BY <1>1, <1>2, <2>1, WorkersTurn, FinalDone
    <3>2. Kind[s] # "recovery"
      BY <1>2 DEF FamilyAgents
    <3>3. subj[s] = s
      BY <1>2, <2>1 DEF SerialInv, HInv, WorkerHolds, OwnSteps
    <3> QED
      BY <1>1, <1>2, <3>1, <3>2, <3>3 DEF FinalizeDone, Goto, AfterDone, TypeOK, Following, FollowSteps
  <2>2. CASE Completed(s)
    <3>1. PICK b \in Ids : wpc[b] = "recSave" /\ subj[b] = s
      BY <2>2 DEF Completed
    <3>2. disk' # disk
      BY <1>2, <1>5
    <3>3. Worker(b)
      BY <3>1, <3>2, WorkersTurn
    <3>4. CompleteOriginal(b)
      BY <3>1, <3>3
      DEF Worker, StartWithoutWorktree, Start, SaveFeatureRoot, Launch, AgentReturns, UnsupportedVerdict,
          FinalizeBlocked, CheckCorrectives, CreateCorrective, LinkCorrective, FinalizeFailed, CreateRecovery,
          SaveFailed, CommitFails, FinalizeDone, Finalizing, LoadOriginal, LoadParent,
          RequeueParent, ListForFollowups, CreateSubtask, RefuseSubtask, PlanFollowups, FollowupTest, FollowupDocs,
          FollowupReview
    <3> QED
      BY <1>1, <1>2, <3>1, <3>4 DEF CompleteOriginal, Goto, AfterDone, TypeOK, Following, FollowSteps
  <2> QED
    BY <1>1, <1>2, <1>5, <2>1, <2>2, DoneReached
<1> QED
  BY <1>4, <1>5

(* When a run ends of its own accord, with no kill before, every developer *)
(* bead that is done, by its own worker or by that of its recovery, has    *)
(* the tester, documentation and review beads that depend on it, whether   *)
(* they were made for it, found, or planned for several beads at once; but *)
(* for those whose worker raised over a bead that the agent proposed.      *)
THEOREM CompletedBeadsFollowed ==
    ASSUME FiniteIds, OneWorker, FamilyAgents, SubtasksApart, StartsFollowedUp
    PROVE  Spec => FollowupsExist
<1>1. Init => FollowInv
  <2> SUFFICES ASSUME Init PROVE FollowInv
    OBVIOUS
  <2>1. SerialInv
    BY SerialInit
  <2>2. disk \in InitStores /\ \A b \in Ids : wpc[b] = "none"
    BY DEF Init, Idle
  <2>3. /\ OwnDeps(disk) /\ \A s \in Ids : SharedWhole(disk, s)
        /\ \A s \in DoneDevelopers : FollowedUp(s)
    BY <2>2 DEF StartsFollowedUp, DoneDevelopers, FollowedUp
  <2> QED
    BY <2>1, <2>2, <2>3 DEF FollowInv, Followed, FailingDeps, ListedWhole, Pursued, PlannedSteps
<1>2. FollowInv /\ [Next]_vars => FollowInv'
  <2> SUFFICES ASSUME FollowInv, [Next]_vars, crashes' = 0 PROVE Followed'
    BY SerialStep DEF FollowInv
  <2>1. SerialInv /\ Followed /\ crashes' = crashes
    BY CrashesCounted DEF FollowInv, SerialInv, HInv
  <2>2. OwnDeps(disk)' /\ FailingDeps'
    BY <2>1, OwnDepsStep, FailingDepsStep DEF OwnDeps, Exists
  <2>3. ASSUME NEW s \in Ids, Agent[s] = "developer" PROVE (SharedWhole(disk, s) \/ Branching(s))'
    BY <2>1, <2>3, SharedStep DEF SharedWhole, SharedFollowups, PlannerOwned, Exists
  <2>4. \A b \in Ids : ListedWhole(b)' /\ Pursued(b)'
    BY <2>1, ListedStep, PursuedStep
  <2>5. \A s \in DoneDevelopers' \ forsaken' : FollowedUp(s)' \/ Following(s)'
    BY <2>1, FollowedStep
  <2> QED
    BY <2>2, <2>3, <2>4, <2>5 DEF Followed
<1>3. FollowInv => (RunFinishes /\ NeverKilled => \A s \in DoneDevelopers \ forsaken : FollowedUp(s))
  BY DEF FollowInv, Followed, Following, SerialInv, Current, Alone, RunFinishes, NeverKilled, FollowSteps, PlannedSteps
<1> QED
  BY <1>1, <1>2, <1>3, PTL DEF Spec, FollowupsExist
=============================================================================
