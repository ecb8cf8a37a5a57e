----------------------------- MODULE Scheduler -----------------------------
(***************************************************************************)
(* One scheduler process (takt run): the main thread of Scheduler.run_once *)
(* inside the cycle loop of command_run, and the pool of worker threads    *)
(* that execute and finalize beads, all reading and writing whole bead     *)
(* files.  An action is what one thread does between two points where      *)
(* another thread's file access can matter; a thread that writes back a    *)
(* record it read in an earlier step overwrites what came in between, as   *)
(* the code does.  Operators act on the same files from other processes,   *)
(* and the scheduler process may be killed and started again.              *)
(***************************************************************************)
EXTENDS BeadStore

CONSTANTS
    InitStores,     \* the stores an instance may start from
    MaxWorkers,     \* --max-workers
    High,           \* ids with priority "high"
    Filter,         \* the feature trees this run works on (--feature-root; all trees without it)
    Outcomes,       \* Outcomes[b]: the agent outcomes an instance explores for b
    Touches,        \* Touches[b]: the sets of files an instance lets b's agent change
    Reports,        \* Reports[b]: the scopes an instance lets b's agent report
    GitFails,       \* the beads for which ensure_worktree and commit_all may raise GitError
    MaxSubtasks,    \* bound: new_beads in one agent result
    Proposals,      \* what an agent may ask of a new bead: dependencies and scope
    MaxRuns,        \* bound: takt run invocations
    MaxCycles,      \* --max-cycles
    MaxOps,         \* bound: operator commands
    MaxCrashes      \* bound: kills of the scheduler process

AgentOutcomes == {"completed", "needs_changes", "bad_verdict", "blocked", "blocked_transient",
                  "failed", "failed_transient", "no_output"}

(* The scope in a result, which replaces that of the bead where it is not  *)
(* empty.                                                                  *)
Report == [expected : SUBSET Files, globs : SUBSET Globs]
NoReport == [expected |-> {}, globs |-> {}]
Rescoped(r, report) ==
    [r EXCEPT !.expected = IF report.expected = {} THEN @ ELSE report.expected,
              !.globs = IF report.globs = {} THEN @ ELSE report.globs]

ASSUME SchedulerAssumption ==
    /\ InitStores \subseteq Store
    /\ \A store \in InitStores, b \in Ids : store[b].status = "in_progress" => store[b].lease
    /\ MaxWorkers \in Nat /\ MaxSubtasks \in Nat
    /\ MaxRuns \in Nat /\ MaxCycles \in Nat /\ MaxOps \in Nat /\ MaxCrashes \in Nat
    /\ High \subseteq Ids
    /\ GitFails \subseteq Ids
    /\ Outcomes \in [Ids -> SUBSET AgentOutcomes]
    /\ \A b \in Ids : Outcomes[b] \cap {"needs_changes", "bad_verdict"} # {} => Verdicts(b)
    /\ Touches \in [Ids -> SUBSET SUBSET Files]
    /\ Reports \in [Ids -> SUBSET Report]
    /\ Proposals \subseteq [deps : SUBSET Ids, expected : SUBSET Files, globs : SUBSET Globs]

VARIABLES
    disk,       \* the bead files
    mpc,        \* where the main thread is
    snap,       \* the records the main thread last listed
    todo,       \* those of them it has not yet examined
    target,     \* the blocked bead the main thread is making a corrective for
    selected,   \* beads picked by this fill pass
    started,    \* started_this_cycle
    deferred,   \* deferred_this_cycle
    wpc,        \* wpc[b]: where the worker thread of b is, "none" if b is not in flight
    obj,        \* obj[b]: the Bead object b's worker holds
    subj,       \* subj[b]: the id of obj[b]: b, or the bead that b recovers
    res,        \* res[b]: the agent's result
    seen,       \* seen[b]: records of other beads b's worker listed or loaded
    plan,       \* plan[b]: the ids _create_followups settled on
    runs, cycle, ops, crashes,
    forsaken    \* (history) beads that were done when their worker raised over a proposal

mvars == <<mpc, snap, todo, target, selected, started, deferred>>
wvars == <<wpc, obj, subj, res, seen, plan>>
bounds == <<runs, cycle, ops, crashes, forsaken>>
vars == <<disk, mvars, wvars, bounds>>

FollowupAgents == {"tester", "documentation", "review"}
SuffixOf(agent) == CASE agent = "tester" -> "test"
                     [] agent = "documentation" -> "docs"
                     [] OTHER -> "review"
NoPlan == [a \in FollowupAgents |-> NoId]
Nothing == [b \in {} |-> NoBead]
NoResult == [outcome |-> "none", touched |-> {}, scope |-> NoReport, subtasks |-> 0]
Result == [outcome : AgentOutcomes \cup {"none"}, touched : SUBSET Files, scope : Report, subtasks : Nat]

MainSteps == {"idle", "cycle", "reeval", "reevalCreate", "reevalLink", "fill", "wait", "abort"}
WorkerSteps == {"none", "begin", "rootSave", "launch", "agent", "final",
                "recoveryCreate", "failSave", "corrCheck", "corrCreate", "corrLink",
                "recLoad", "recSave", "requeueLoad", "requeueSave",
                "fuList", "fuPlan", "fuTest", "fuDocs", "fuReview", "ended", "raised"}

(* The steps that still need the records in seen, and the ids in plan.     *)
PlannedSteps == {"fuTest", "fuDocs", "fuReview"}
ReadingSteps == {"rootSave", "requeueSave", "fuPlan", "fuTest", "fuDocs", "fuReview"}

TypeOK ==
    /\ disk \in Store
    /\ mpc \in MainSteps
    /\ snap \in Store
    /\ todo \in SUBSET Ids
    /\ target \in Ids \cup {NoId}
    /\ mpc \in {"reevalCreate", "reevalLink"} => target \in Ids
    /\ selected \in SUBSET Ids
    /\ started \in SUBSET Ids
    /\ deferred \in SUBSET Ids
    /\ wpc \in [Ids -> WorkerSteps]
    /\ obj \in Store
    /\ subj \in [Ids -> Ids]
    /\ res \in [Ids -> Result]
    /\ seen \in [Ids -> Store \cup {Nothing}]
    /\ \A b \in Ids : wpc[b] \in ReadingSteps => seen[b] # Nothing
    /\ plan \in [Ids -> [FollowupAgents -> Ids \cup {NoId}]]
    /\ \A b \in Ids : wpc[b] \in PlannedSteps => plan[b] \in [FollowupAgents -> Ids]
    /\ runs \in Nat /\ cycle \in Nat /\ ops \in Nat /\ crashes \in Nat
    /\ forsaken \in SUBSET Ids

Idle(store) ==
    /\ disk = store
    /\ mpc = "idle" /\ snap = EmptyStore /\ todo = {} /\ target = NoId
    /\ selected = {} /\ started = {} /\ deferred = {}
    /\ wpc = [b \in Ids |-> "none"]
    /\ obj = EmptyStore
    /\ subj = [b \in Ids |-> b]
    /\ res = [b \in Ids |-> NoResult]
    /\ seen = [b \in Ids |-> Nothing]
    /\ plan = [b \in Ids |-> NoPlan]

Init == /\ \E store \in InitStores : Idle(store)
        /\ runs = 0 /\ cycle = 0 /\ ops = 0 /\ crashes = 0 /\ forsaken = {}

InFlight == {b \in Ids : wpc[b] # "none"}
InFilter(b) == Tree[b] \in Filter
Save(b, r) == disk' = [disk EXCEPT ![b] = r]

-----------------------------------------------------------------------------
(* Main thread.                                                            *)

StartRun ==
    /\ mpc = "idle" /\ runs < MaxRuns
    /\ mpc' = "cycle" /\ runs' = runs + 1 /\ cycle' = 1
    /\ UNCHANGED <<disk, snap, todo, target, selected, started, deferred, wvars, ops, crashes, forsaken>>

Expired(d, E) ==
    [b \in Ids |-> IF b \notin E THEN d[b]
                   ELSE [d[b] EXCEPT !.lease = FALSE,
                                     !.status = IF @ = "in_progress" THEN "ready" ELSE @]]

BlockedBeads(d) == {b \in Ids : d[b].status = "blocked" /\ ~d[b].lease /\ InFilter(b)}

(* The beginning of run_once: expire the leases whose time has passed (any *)
(* set of them: the clock is not modelled), then list the blocked beads.   *)
BeginCycle ==
    /\ mpc = "cycle"
    /\ \E E \in SUBSET Leased(disk) : disk' = Expired(disk, E)
    /\ todo' = BlockedBeads(disk')
    /\ snap' = View(disk', todo')
    /\ started' = {} /\ deferred' = {}
    /\ mpc' = "reeval"
    /\ UNCHANGED <<target, selected, wvars, bounds>>

(* _reevaluate_blocked examines the records it listed, one by one.  Only   *)
(* the corrective children are read afresh.                                *)
Examine(b) ==
    /\ mpc = "reeval" /\ b \in todo
    /\ todo' = todo \ {b}

RetryTransient(b) ==
    /\ Examine(b)
    /\ snap[b].reason = "transient"
    /\ Save(b, [snap[b] EXCEPT !.status = "ready", !.reason = "none"])
    /\ UNCHANGED <<mpc, snap, target, selected, started, deferred, wvars, bounds>>

(* reevaluate_corrective_state, with b's children read from disk and the   *)
(* rest from the listed record: an open corrective is left to finish, a    *)
(* finished one requeues the bead once, and otherwise the next corrective  *)
(* is made, a human is asked, or nothing happens.                          *)
ReevaluateCorrective(b) ==
    /\ Examine(b)
    /\ snap[b].reason # "transient"
    /\ CASE CorrectiveDecision(disk, b, snap[b]) = "retry" ->
                /\ \E c \in LatestDone(disk, b) : Save(b, Requeued(snap[b], c))
                /\ UNCHANGED <<mpc, target>>
         [] CorrectiveDecision(disk, b, snap[b]) = "create" ->
                mpc' = "reevalCreate" /\ target' = b /\ UNCHANGED disk
         [] CorrectiveDecision(disk, b, snap[b]) = "escalate" ->
                /\ Save(b, [snap[b] EXCEPT !.human = TRUE])
                /\ UNCHANGED <<mpc, target>>
         [] OTHER -> UNCHANGED <<disk, mpc, target>>
    /\ UNCHANGED <<snap, selected, started, deferred, wvars, bounds>>

ReevalCreate ==
    /\ mpc = "reevalCreate"
    /\ \E c \in Ids : /\ IsFreshChild(disk, target, "corrective", c)
                      /\ Save(c, CorrectiveBead(snap[target]))
    /\ mpc' = "reevalLink"
    /\ UNCHANGED <<snap, todo, target, selected, started, deferred, wvars, bounds>>

ReevalLink ==
    /\ mpc = "reevalLink"
    /\ Save(target, snap[target])
    /\ mpc' = "reeval" /\ target' = NoId
    /\ UNCHANGED <<snap, todo, selected, started, deferred, wvars, bounds>>

(* A fill pass begins: list the ready beads and the active ones; report    *)
(* the ready beads whose dependencies are not done.                        *)
FreeSlots == MaxWorkers - Cardinality(InFlight)
WaitingForDeps(d) ==
    {b \in Ids \ InFlight : d[b].status = "ready" /\ ~d[b].lease /\ InFilter(b) /\ ~DepsDone(d, d[b])}

BeginFill ==
    /\ mpc = "reeval" /\ todo = {}
    /\ IF MaxWorkers = 0
       THEN mpc' = "idle" /\ UNCHANGED <<todo, snap, deferred>>
       ELSE IF Cardinality(InFlight) >= MaxWorkers
       THEN mpc' = "wait" /\ UNCHANGED <<todo, snap, deferred>>
       ELSE /\ mpc' = "fill"
            /\ todo' = {b \in ReadyBeads(disk) : InFilter(b)} \ (InFlight \cup started)
            /\ snap' = View(disk, todo' \cup ActiveBeads(disk))
            /\ deferred' = deferred \cup WaitingForDeps(disk)
    /\ UNCHANGED <<disk, target, selected, started, wvars, bounds>>

(* The active beads of the pass: those storage listed in progress, and     *)
(* those in flight, whose object the worker shares with the main thread.   *)
Listed == {a \in Ids : snap[a].status = "in_progress"}
Known == [a \in Ids |-> IF a \in InFlight \ Listed THEN obj[a] ELSE snap[a]]

NextCandidate(b) ==
    /\ mpc = "fill" /\ b \in todo
    /\ b \in High \/ todo \cap High = {}
    /\ todo' = todo \ {b}

(* Deviation: beads in flight are left out.                                *)
BlockersListed(b) == Conflicting(b, snap[b], Listed \cup selected, Known)
Blockers(b) == Conflicting(b, snap[b], Listed \cup InFlight \cup selected, Known)

DeferBead(b) ==
    /\ NextCandidate(b)
    /\ Blockers(b) # {}
    /\ IF b \in deferred
       THEN UNCHANGED <<disk, deferred>>
       ELSE Save(b, [snap[b] EXCEPT !.reason = "other"]) /\ deferred' = deferred \cup {b}
    /\ UNCHANGED <<mpc, snap, target, selected, started, wvars, bounds>>

SelectBead(b) ==
    /\ NextCandidate(b)
    /\ Blockers(b) = {}
    /\ selected' = IF Cardinality(selected) < FreeSlots THEN selected \cup {b} ELSE selected
    /\ UNCHANGED <<disk, mpc, snap, target, started, deferred, wvars, bounds>>

(* Deviation: cycles go on for as long as a bead is blocked.               *)
EndCycleUnblocked ==
    /\ mpc' = IF BlockedBeads(disk) # {} THEN "cycle" ELSE "idle"
    /\ UNCHANGED <<cycle, selected, started, wvars>>

(* The cycle ends when nothing runs and nothing was selected; command_run  *)
(* starts another one if this one started a bead.                          *)
EndCycle ==
    /\ mpc' = IF started # {} /\ cycle < MaxCycles THEN "cycle" ELSE "idle"
    /\ cycle' = IF started # {} /\ cycle < MaxCycles THEN cycle + 1 ELSE cycle
    /\ UNCHANGED <<selected, started, wvars>>

Submit ==
    /\ wpc' = [b \in Ids |-> IF b \in selected THEN "begin" ELSE wpc[b]]
    /\ obj' = [b \in Ids |-> IF b \in selected THEN snap[b] ELSE obj[b]]
    /\ started' = started \cup selected
    /\ selected' = {}
    /\ mpc' = "wait"
    /\ UNCHANGED <<subj, res, seen, plan, cycle>>

EndFill ==
    /\ mpc = "fill" /\ todo = {}
    /\ snap' = EmptyStore
    /\ IF selected = {} /\ InFlight = {} THEN EndCycle ELSE Submit
    /\ UNCHANGED <<disk, todo, target, deferred, runs, ops, crashes, forsaken>>

Finished == {b \in Ids : wpc[b] \in {"ended", "raised"}}

(* Workers in W leave the pool; nothing of what they held is used again.   *)
Reap(W) ==
    /\ wpc' = [b \in Ids |-> IF b \in W THEN "none" ELSE wpc[b]]
    /\ obj' = [b \in Ids |-> IF b \in W THEN NoBead ELSE obj[b]]
    /\ subj' = [b \in Ids |-> IF b \in W THEN b ELSE subj[b]]
    /\ res' = [b \in Ids |-> IF b \in W THEN NoResult ELSE res[b]]
    /\ seen' = [b \in Ids |-> IF b \in W THEN Nothing ELSE seen[b]]
    /\ plan' = [b \in Ids |-> IF b \in W THEN NoPlan ELSE plan[b]]

(* cf_wait returns the finished futures.  If one of them raised, so does   *)
(* run_once, once the executor has let the other workers finish.           *)
WaitCompletion ==
    /\ mpc = "wait" /\ Finished # {}
    /\ Reap(Finished)
    /\ IF \E b \in Finished : wpc[b] = "raised"
       THEN mpc' = "abort" /\ UNCHANGED <<snap, todo>>
       ELSE /\ mpc' = "reeval"
            /\ todo' = BlockedBeads(disk)
            /\ snap' = View(disk, todo')
    /\ UNCHANGED <<disk, target, selected, started, deferred, bounds>>

Abort ==
    /\ mpc = "abort" /\ InFlight = Finished
    /\ Reap(Finished)
    /\ mpc' = "idle"
    /\ UNCHANGED <<disk, snap, todo, target, selected, started, deferred, bounds>>

-----------------------------------------------------------------------------
(* Worker threads: BeadExecutor.process, then BeadFinalizer.finalize.      *)

Goto(b, step) == wpc' = [wpc EXCEPT ![b] = step]
Hold(b, r) == obj' = [obj EXCEPT ![b] = r]

BlockedLeased(r, why) == [r EXCEPT !.status = "blocked", !.lease = TRUE, !.reason = why]    \* deviation: lease kept
Running(r) == [r EXCEPT !.status = "in_progress", !.lease = TRUE]
Blocked(r, why) == [r EXCEPT !.status = "blocked", !.lease = FALSE, !.reason = why]

(* _populate_shared_followup_touched_files: a shared followup takes over   *)
(* the files its finished dependencies touched.                            *)
DoneDeps(d, r) == {x \in r.deps : IsDone(d, x)}
Populated(b, d, r) ==
    LET files == UNION {d[x].touched : x \in DoneDeps(d, r)}
    IN IF Agent[b] \in FollowupAgents THEN [r EXCEPT !.touched = @ \cup files] ELSE r

(* The head of process: scope, lease (in memory), worktree, and the record *)
(* of the feature root, without which load_bead raises.                    *)
NeedsSave(b) == Populated(b, disk, obj[b]) # obj[b]

StartWithoutWorktree(b) ==
    /\ wpc[b] = "begin"
    /\ Tree[b] # NoId /\ b \in GitFails
    /\ Save(b, Blocked(Populated(b, disk, obj[b]), "other"))
    /\ Goto(b, "ended")
    /\ UNCHANGED <<mvars, obj, subj, res, seen, plan, bounds>>

Start(b) ==
    /\ wpc[b] = "begin"
    /\ IF NeedsSave(b) THEN Save(b, Populated(b, disk, obj[b])) ELSE UNCHANGED disk
    /\ Hold(b, Running(Populated(b, disk, obj[b])))
    /\ IF Tree[b] \in {NoId, b}
       THEN Goto(b, "launch") /\ UNCHANGED seen
       ELSE IF ~Exists(disk, Tree[b])
       THEN Goto(b, "raised") /\ UNCHANGED seen
       ELSE /\ Goto(b, "rootSave")
            /\ seen' = [seen EXCEPT ![b] = View(disk, {Tree[b]})]
    /\ UNCHANGED <<mvars, subj, res, plan, bounds>>

(* The branch and worktree of the tree are written into its root's record. *)
SaveFeatureRoot(b) ==
    /\ wpc[b] = "rootSave"
    /\ Save(Tree[b], seen[b][Tree[b]])
    /\ seen' = [seen EXCEPT ![b] = Nothing]
    /\ Goto(b, "launch")
    /\ UNCHANGED <<mvars, obj, subj, res, plan, bounds>>

Launch(b) ==
    /\ wpc[b] = "launch"
    /\ Save(b, obj[b])
    /\ Goto(b, "agent")
    /\ UNCHANGED <<mvars, obj, subj, res, seen, plan, bounds>>

(* The agent answers, fails or times out; what it changed in the worktree  *)
(* is merged into touched_files.                                           *)
AgentReturns(b) ==
    /\ wpc[b] = "agent"
    /\ \E o \in Outcomes[b], t \in Touches[b], s \in Reports[b], n \in 0..MaxSubtasks :
           res' = [res EXCEPT ![b] = [outcome |-> o, touched |-> t, scope |-> s, subtasks |-> n]]
    /\ Goto(b, "final")
    /\ UNCHANGED <<disk, mvars, obj, subj, seen, plan, bounds>>

ReasonOf(o) == IF o \in {"blocked_transient", "failed_transient"} THEN "transient"
               ELSE IF o = "completed" THEN "none" ELSE "other"

(* What finalize does to the object before it looks at the outcome.        *)
Finalized(b) ==
    LET o == res[b].outcome IN
    [Rescoped(obj[b], res[b].scope) EXCEPT
        !.lease = FALSE,
        !.touched = IF o \in {"needs_changes", "blocked", "blocked_transient"}
                       /\ res[b].touched = {} THEN @ ELSE res[b].touched,
        !.reason = ReasonOf(o)]

Finalizing(b, outcomes) == wpc[b] = "final" /\ res[b].outcome \in outcomes

UnsupportedVerdict(b) ==
    /\ Finalizing(b, {"bad_verdict"})
    /\ Goto(b, "raised")
    /\ UNCHANGED <<disk, mvars, obj, subj, res, seen, plan, bounds>>

FinalizeBlocked(b) ==
    LET r == [Finalized(b) EXCEPT !.status = "blocked"] IN
    /\ Finalizing(b, {"needs_changes", "blocked", "blocked_transient"})
    /\ Save(b, r) /\ Hold(b, r)
    /\ Goto(b, IF Verdicts(b) /\ res[b].outcome = "needs_changes" /\ CanPlanCorrective(b, r)
               THEN "corrCheck" ELSE "ended")
    /\ UNCHANGED <<mvars, subj, res, seen, plan, bounds>>

(* Deviation: it gets another one whenever the verdict is repeated.        *)
CheckNoCorrectives(b) ==
    /\ wpc[b] = "corrCheck"
    /\ Goto(b, "corrCreate")
    /\ UNCHANGED <<disk, mvars, obj, subj, res, seen, plan, bounds>>

(* The corrective a needs_changes verdict gets at once, unless it has one. *)
CheckCorrectives(b) ==
    /\ wpc[b] = "corrCheck"
    /\ Goto(b, IF CorrectiveChildren(disk, b) = {} THEN "corrCreate" ELSE "ended")
    /\ UNCHANGED <<disk, mvars, obj, subj, res, seen, plan, bounds>>

CreateCorrective(b) ==
    /\ wpc[b] = "corrCreate"
    /\ \E c \in Ids : /\ IsFreshChild(disk, b, "corrective", c)
                      /\ Save(c, CorrectiveBead(obj[b]))
    /\ Goto(b, "corrLink")
    /\ UNCHANGED <<mvars, obj, subj, res, seen, plan, bounds>>

LinkCorrective(b) ==
    /\ wpc[b] = "corrLink"
    /\ Save(b, obj[b])
    /\ Goto(b, "ended")
    /\ UNCHANGED <<mvars, obj, subj, res, seen, plan, bounds>>

(* A failure.  Without structured output the bead gets a recovery bead,    *)
(* once, which is on disk before the failed bead itself is saved.          *)
FinalizeFailed(b) ==
    LET r == [Finalized(b) EXCEPT !.status = "blocked"]
        recover == res[b].outcome = "no_output" /\ ~r.recov /\ Kind[b] # "recovery"
    IN /\ Finalizing(b, {"failed", "failed_transient", "no_output"})
       /\ Hold(b, [r EXCEPT !.recov = @ \/ recover])
       /\ Goto(b, IF recover THEN "recoveryCreate" ELSE "failSave")
       /\ UNCHANGED <<disk, mvars, subj, res, seen, plan, bounds>>

CreateRecovery(b) ==
    /\ wpc[b] = "recoveryCreate"
    /\ \E c \in Ids : /\ IsFreshChild(disk, b, "recovery", c)
                      /\ Save(c, RecoveryBead(obj[b]))
    /\ Goto(b, "failSave")
    /\ UNCHANGED <<mvars, obj, subj, res, seen, plan, bounds>>

SaveFailed(b) ==
    /\ wpc[b] = "failSave"
    /\ Save(b, obj[b])
    /\ Goto(b, "ended")
    /\ UNCHANGED <<mvars, obj, subj, res, seen, plan, bounds>>

(* What follows the completion of bead s: a corrective developer requeues  *)
(* its parent, any other developer gets its followups.                     *)
AfterDone(s) ==
    CASE IsCorrective(s) /\ Agent[s] = "developer" /\ Parent[s] # NoId -> "requeueLoad"
      [] ~IsCorrective(s) /\ Agent[s] = "developer" -> "fuList"
      [] OTHER -> "ended"

CommitFails(b) ==
    LET r == [Finalized(b) EXCEPT !.status = "blocked", !.reason = "other"] IN
    /\ Finalizing(b, {"completed"})
    /\ Kind[b] # "recovery" /\ Mutating(b) /\ b \in GitFails
    /\ Save(b, r) /\ Hold(b, r)
    /\ Goto(b, "ended")
    /\ UNCHANGED <<mvars, subj, res, seen, plan, bounds>>

FinalizeDoneAlone(b) ==    \* deviation: a recovery is a bead like any other
    LET r == [Finalized(b) EXCEPT !.status = "done"] IN
    /\ Finalizing(b, {"completed"})
    /\ Save(b, r) /\ Hold(b, r)
    /\ Goto(b, AfterDone(b))
    /\ UNCHANGED <<mvars, subj, res, seen, plan, bounds>>

FinalizeDone(b) ==
    LET r == [Finalized(b) EXCEPT !.status = "done"] IN
    /\ Finalizing(b, {"completed"})
    /\ Save(b, r) /\ Hold(b, r)
    /\ Goto(b, IF Kind[b] = "recovery" THEN "recLoad" ELSE AfterDone(b))
    /\ UNCHANGED <<mvars, subj, res, seen, plan, bounds>>

(* _handle_recovery_completion, after the recovery bead itself is done:    *)
(* the bead it recovers is completed with the recovered result.            *)
LoadOriginal(b) ==
    LET original == Parent[b] IN
    /\ wpc[b] = "recLoad"
    /\ IF Exists(disk, original)
       THEN /\ Hold(b, disk[original])
            /\ subj' = [subj EXCEPT ![b] = original]
            /\ Goto(b, "recSave")
       ELSE Goto(b, "ended") /\ UNCHANGED <<obj, subj>>
    /\ UNCHANGED <<disk, mvars, res, seen, plan, bounds>>

CompleteOriginalOnly(b) ==    \* deviation: nothing follows the recovered bead
    LET r == [obj[b] EXCEPT !.status = "done", !.lease = FALSE, !.reason = "none"]
    IN /\ wpc[b] = "recSave"
       /\ Save(subj[b], r) /\ Hold(b, r)
       /\ Goto(b, "ended")
       /\ UNCHANGED <<mvars, subj, res, seen, plan, bounds>>

CompleteOriginal(b) ==
    LET r == [Rescoped(obj[b], res[b].scope) EXCEPT
                  !.status = "done", !.lease = FALSE, !.reason = "none",
                  !.touched = IF res[b].touched = {} THEN @ ELSE res[b].touched]
    IN /\ wpc[b] = "recSave"
       /\ Save(subj[b], r) /\ Hold(b, r)
       /\ Goto(b, AfterDone(subj[b]))
       /\ UNCHANGED <<mvars, subj, res, seen, plan, bounds>>

(* Deviation: the parent is requeued without having been read.             *)
SkipParent(b) ==
    /\ wpc[b] = "requeueLoad"
    /\ Goto(b, "requeueSave")
    /\ UNCHANGED <<disk, mvars, obj, subj, res, seen, plan, bounds>>

(* _requeue_parent_after_corrective_completion.                            *)
LoadParent(b) ==
    LET s == subj[b]
        p == Parent[s]
        requeue == /\ disk[p].status = "blocked"
                   /\ Verdicts(p)
                   /\ ~AlreadyRetried(disk[p], s)
    IN /\ wpc[b] = "requeueLoad"
       /\ seen' = IF requeue THEN [seen EXCEPT ![b] = View(disk, {p})] ELSE seen
       /\ Goto(b, IF requeue THEN "requeueSave" ELSE "ended")
       /\ UNCHANGED <<disk, mvars, obj, subj, res, plan, bounds>>

RequeueParent(b) ==
    LET p == Parent[subj[b]] IN
    /\ wpc[b] = "requeueSave"
    /\ Save(p, Requeued(seen[b][p], subj[b]))
    /\ seen' = [seen EXCEPT ![b] = Nothing]
    /\ Goto(b, "ended")
    /\ UNCHANGED <<mvars, obj, subj, res, plan, bounds>>

-----------------------------------------------------------------------------
(* _create_followups for the completed developer bead subj[b].             *)

UsesPlannerOwned(s) == Agent[s] = "developer" /\ Parent[s] \in PlannerIds

(* Shared followups the planner made under the feature root, if they       *)
(* already depend on s; the bead's own legacy child; the id to use.        *)
PlannerOwned(d, s, agent) ==
    {c \in Ids \ {s} : /\ Exists(d, c)
                       /\ Agent[c] = agent /\ Tree[c] = Tree[s] /\ Tree[s] # NoId
                       /\ Parent[c] = Tree[s] /\ s \in d[c].deps}

LegacyFollowup(d, s, agent) ==
    {c \in Children(s, SuffixOf(agent)) : Exists(d, c) /\ Rank[c] = 1 /\ Agent[c] = agent}

SharedFollowups(d, s) ==
    IF UsesPlannerOwned(s) THEN UNION {PlannerOwned(d, s, a) : a \in FollowupAgents} ELSE {}

ExistingFollowup(d, s, agent) ==
    LET shared == SharedFollowups(d, s) \cap PlannerOwned(d, s, agent)
    IN IF shared # {} THEN shared ELSE LegacyFollowup(d, s, agent)

(* (An id with a followup's suffix is of that agent type, see BeadStore.)  *)
FollowupIds(b, agent) ==
    LET existing == ExistingFollowup(seen[b], subj[b], agent)
    IN IF existing # {} THEN existing
       ELSE {c \in Ids : IsFreshChild(disk, subj[b], SuffixOf(agent), c)}

ListForFollowups(b) ==
    /\ wpc[b] = "fuList"
    /\ seen' = [seen EXCEPT ![b] = disk]
    /\ Goto(b, "fuPlan")
    /\ UNCHANGED <<disk, mvars, obj, subj, res, plan, bounds>>

(* One child per entry of new_beads, before the followups, with the        *)
(* dependencies and the scope the agent names, which nobody has checked:   *)
(* save_bead refuses one that depends on a bead without a file.            *)
Refused(p) == \E x \in p.deps : ~Exists(disk, x)

CreateSubtask(b) ==
    /\ wpc[b] = "fuPlan" /\ res[b].subtasks > 0
    /\ \E c \in Ids, p \in Proposals :
           /\ IsFreshChild(disk, subj[b], "subtask", c)
           /\ ~Refused(p)
           /\ Save(c, NewBead(p.deps, {}, p.expected, p.globs))
    /\ res' = [res EXCEPT ![b].subtasks = @ - 1]
    /\ UNCHANGED <<mvars, wpc, obj, subj, seen, plan, bounds>>

(* The worker then raises, though the bead is saved as done: its followups *)
(* are never made.                                                         *)
RefuseSubtask(b) ==
    /\ wpc[b] = "fuPlan" /\ res[b].subtasks > 0
    /\ \E p \in Proposals : Refused(p)
    /\ forsaken' = forsaken \cup {subj[b]}
    /\ Goto(b, "raised")
    /\ UNCHANGED <<disk, mvars, obj, subj, res, seen, plan, runs, cycle, ops, crashes>>

PlanFollowups(b) ==
    /\ wpc[b] = "fuPlan" /\ res[b].subtasks = 0
    /\ \E t \in FollowupIds(b, "tester"), d \in FollowupIds(b, "documentation"),
          r \in FollowupIds(b, "review") :
           plan' = [plan EXCEPT ![b] = [NoPlan EXCEPT !["tester"] = t, !["documentation"] = d, !["review"] = r]]
    /\ Goto(b, "fuTest")
    /\ UNCHANGED <<disk, mvars, obj, subj, res, seen, bounds>>

(* Deviation: the merged record loses its lease.                           *)
SyncedUnleased(f, source) ==
    [f EXCEPT !.lease = FALSE,
              !.expected = @ \cup TouchedOrExpected(source),
              !.globs = @ \cup source.globs,
              !.touched = @ \cup source.touched]

(* _sync_followup_scope merges into the record as it was listed, and saves *)
(* it if something is new, which may be a changed file or a risk.          *)
Synced(f, source) ==
    [f EXCEPT !.expected = @ \cup TouchedOrExpected(source),
              !.globs = @ \cup source.globs,
              !.touched = @ \cup source.touched]

HasFollowup(b, agent) == Exists(seen[b], plan[b][agent])
LeavesOut(b) == SharedFollowups(seen[b], subj[b]) # {}

CreateOrSync(b, agent, deps) ==
    LET c == plan[b][agent]
        synced == Synced(seen[b][c], obj[b])
    IN IF HasFollowup(b, agent)
       THEN (synced = seen[b][c] /\ UNCHANGED disk) \/ Save(c, synced)
       ELSE IF LeavesOut(b) THEN UNCHANGED disk ELSE Save(c, FollowupBead(obj[b], deps))

FollowupTest(b) ==
    /\ wpc[b] = "fuTest"
    /\ CreateOrSync(b, "tester", {subj[b]})
    /\ Goto(b, "fuDocs")
    /\ UNCHANGED <<mvars, obj, subj, res, seen, plan, bounds>>

FollowupDocs(b) ==
    /\ wpc[b] = "fuDocs"
    /\ CreateOrSync(b, "documentation", {subj[b]})
    /\ Goto(b, "fuReview")
    /\ UNCHANGED <<mvars, obj, subj, res, seen, plan, bounds>>

(* The review also depends on the other two.  An existing review is given  *)
(* those dependencies; save_bead refuses one that has no file.             *)
ReviewDeps(b) == {subj[b], plan[b]["tester"], plan[b]["documentation"]}

FollowupReview(b) ==
    LET c == plan[b]["review"]
        synced == Synced(seen[b][c], obj[b])
        merged == [synced EXCEPT !.deps = @ \cup ReviewDeps(b)]
        refused == \E x \in ReviewDeps(b) : ~Exists(disk, x)
    IN /\ wpc[b] = "fuReview"
       /\ IF HasFollowup(b, "review")
          THEN IF refused
               THEN /\ CreateOrSync(b, "review", ReviewDeps(b))
                    /\ Goto(b, "raised")
               ELSE /\ (merged = seen[b][c] /\ UNCHANGED disk) \/ Save(c, merged)
                    /\ Goto(b, "ended")
          ELSE /\ CreateOrSync(b, "review", ReviewDeps(b))
               /\ Goto(b, "ended")
       /\ seen' = [seen EXCEPT ![b] = Nothing]
       /\ UNCHANGED <<mvars, obj, subj, res, plan, bounds>>

Worker(b) ==
    \/ StartWithoutWorktree(b) \/ Start(b)
    \/ SaveFeatureRoot(b) \/ Launch(b) \/ AgentReturns(b)
    \/ UnsupportedVerdict(b) \/ FinalizeBlocked(b)
    \/ CheckCorrectives(b) \/ CreateCorrective(b) \/ LinkCorrective(b)
    \/ FinalizeFailed(b) \/ CreateRecovery(b) \/ SaveFailed(b)
    \/ CommitFails(b) \/ FinalizeDone(b)
    \/ LoadOriginal(b) \/ CompleteOriginal(b)
    \/ LoadParent(b) \/ RequeueParent(b)
    \/ ListForFollowups(b) \/ CreateSubtask(b) \/ RefuseSubtask(b) \/ PlanFollowups(b)
    \/ FollowupTest(b) \/ FollowupDocs(b) \/ FollowupReview(b)

Workers == \E b \in Ids : Worker(b)

Main ==
    \/ BeginCycle
    \/ \E b \in Ids : RetryTransient(b) \/ ReevaluateCorrective(b)
    \/ ReevalCreate \/ ReevalLink
    \/ BeginFill
    \/ \E b \in Ids : DeferBead(b) \/ SelectBead(b)
    \/ EndFill \/ WaitCompletion \/ Abort

-----------------------------------------------------------------------------
(* Other processes.                                                        *)

(* takt retry: skipped while the bead's recovery bead is pending.          *)
RecoveryPending(b) ==
    /\ disk[b].recov
    /\ \E c \in Children(b, "recovery") : Exists(disk, c) /\ disk[c].status \notin {"done", "blocked"}

OperatorRetry(b) ==
    /\ ops < MaxOps
    /\ Exists(disk, b) /\ ~RecoveryPending(b)
    /\ Save(b, [disk[b] EXCEPT !.status = "ready", !.lease = FALSE, !.reason = "none"])
    /\ ops' = ops + 1
    /\ UNCHANGED <<mvars, wvars, runs, cycle, crashes, forsaken>>

(* takt bead update --status and the status keys of the TUI.               *)
AllowedFrom(goal) ==
    CASE goal = "ready" -> {"blocked"}
      [] goal = "blocked" -> {"ready", "in_progress"}
      [] goal = "done" -> {"ready", "in_progress"}

OperatorStatus(b, status) ==
    /\ ops < MaxOps
    /\ disk[b].status \in AllowedFrom(status)
    /\ ~(status = "done" /\ Agent[b] = "developer")
    /\ Save(b, [disk[b] EXCEPT !.status = status,
                               !.reason = IF status = "blocked" THEN @ ELSE "none",
                               !.lease = IF status = "blocked" THEN @ ELSE FALSE])
    /\ ops' = ops + 1
    /\ UNCHANGED <<mvars, wvars, runs, cycle, crashes, forsaken>>

Operator == \E b \in Ids : \/ OperatorRetry(b)
                           \/ \E s \in {"ready", "blocked", "done"} : OperatorStatus(b, s)

(* The process dies; what it had in memory is gone, the files stay.        *)
Crash ==
    /\ mpc # "idle" /\ crashes < MaxCrashes
    /\ crashes' = crashes + 1
    /\ mpc' = "idle" /\ snap' = EmptyStore /\ todo' = {} /\ target' = NoId
    /\ selected' = {} /\ started' = {} /\ deferred' = {}
    /\ Reap(Ids)
    /\ UNCHANGED <<disk, runs, cycle, ops, forsaken>>

(* No more takt run: the instance rests.                                   *)
Rest == mpc = "idle" /\ runs = MaxRuns /\ UNCHANGED vars

Next == \/ StartRun \/ Main
        \/ Workers
        \/ Operator \/ Crash \/ Rest

Spec == Init /\ [][Next]_vars

(* The main thread keeps running, and so do the workers as long as one of  *)
(* them can: every agent call has a timeout.                               *)
Fairness == WF_vars(Main) /\ WF_vars(Workers)
FairSpec == Spec /\ Fairness

=============================================================================
