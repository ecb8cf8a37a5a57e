------------------------ MODULE SchedulerProperties ------------------------
(***************************************************************************)
(* What the scheduler is for, as properties of the Scheduler module.  Each *)
(* one is checked by the runs that name it, on instances where the code    *)
(* meets it; the comments say where it does not.                           *)
(***************************************************************************)
EXTENDS Scheduler

-----------------------------------------------------------------------------
(* Beads that run side by side.                                            *)

Working == {b \in Ids : wpc[b] \in {"begin", "rootSave", "launch", "agent", "final"}}

Sharing ==
    {p \in Working \X Working :
        p[1] # p[2] /\ SameTree(p[1], p[2]) /\ Mutating(p[1]) /\ Mutating(p[2])}

(* Mutating workers are inside one worktree only if trees are not          *)
(* serialized and both declared a scope; with neither, commit_all of one   *)
(* would take the other's half-done work (_beads_conflict).  The check is  *)
(* by files that other threads rewrite from what they read before.         *)
WorktreeExclusive ==
    \A p \in Sharing : ~Serialize /\ HasScope(obj[p[1]]) /\ HasScope(obj[p[2]])

(* With serialize_within_feature_tree, no two mutating workers are inside  *)
(* one worktree, whatever their scopes and whatever the files say meanwhile. *)
SerializedExclusive == Serialize => Sharing = {}

(* A followup with dependencies takes over the files these touched when it *)
(* is started, after the check (_populate_shared_followup_touched_files).  *)
TakesOver(b) == Agent[b] \in FollowupAgents /\ obj[b].deps # {}

(* Mutating workers in one worktree have disjoint scopes from dispatch     *)
(* until they end, as docs/development.md promises ("checks for overlap    *)
(* between in-progress beads and defers conflicting ones"), unless one of  *)
(* them is a followup that takes over scopes: that one may grow into the   *)
(* scope of a bead beside which it was let in.                             *)
ScopesDisjoint ==
    \A p \in Sharing : ~TakesOver(p[1]) /\ ~TakesOver(p[2]) => ~ScopesOverlap(obj[p[1]], obj[p[2]])

(* A bead is being worked on only while everything it depends on is done:  *)
(* readiness is tested once, in ready_beads, on files others still write.  *)
WorksOnDoneDeps == \A b \in Working : \A x \in obj[b].deps : IsDone(disk, x)

-----------------------------------------------------------------------------
(* Correctives and retries.                                                *)

(* A blocked bead has at most one corrective under way: finalize creates   *)
(* one at once for a needs_changes verdict and the main thread creates one *)
(* when it re-evaluates the blocked bead, each after looking for children. *)
OneOpenCorrective == \A b \in Ids : Cardinality(OpenCorrectives(disk, b)) <= 1

(* However verdicts, failures and re-evaluations interleave, a bead never  *)
(* gets more correctives than max_corrective_attempts.  (The instances set *)
(* it to 2: finalize does not look at the budget, so that with a budget    *)
(* below two the duplicate that OneOpenCorrective shows exceeds it.)       *)
CorrectiveBudget == \A b \in Ids : Cardinality(CorrectiveChildren(disk, b)) <= MaxCorrective

RetryStep(b) ==
    disk[b].status = "blocked" /\ disk'[b].status = "ready" /\ disk[b].reason # "transient"
        => \E c \in CorrectiveChildren(disk, b) :
               disk[c].status = "done" /\ c \notin disk[b].retried /\ c \in disk'[b].retried

(* Unless its reason was transient, a blocked bead becomes ready again     *)
(* only on the strength of a finished corrective, and each corrective buys *)
(* one retry: the worker that finished it (RequeueParent) and the main     *)
(* thread (ReevaluateCorrective) do not both requeue the bead for it.      *)
RetryJustified == [][ops' = ops => \A b \in Ids : RetryStep(b)]_vars

(* A human is asked only once the corrective budget is spent: the event    *)
(* _escalate_blocked_bead writes says "Exceeded corrective attempt budget".*)
(* (Of a bead with a recovery bead this is not true: it may not plan       *)
(* correctives, and is escalated after the first one.)                     *)
EscalatedAfterBudget ==
    \A b \in Ids : disk[b].human => Cardinality(CorrectiveChildren(disk, b)) >= MaxCorrective

-----------------------------------------------------------------------------
(* Statuses, leases and what is left when a run ends of its own accord.    *)

RunFinishes == mpc = "fill" /\ mpc' = "idle"

(* What a kill between two saves takes away for good: nobody looks at done *)
(* beads again, so the followups of one, or the original of a recovery,    *)
(* stay as they are (README.md, LostFollowups).                            *)
NeverKilled == crashes = 0

(* A bead recorded in progress always carries a lease, so that a crash can *)
(* strand it only until expire_stale_leases returns it to the queue; this  *)
(* spans every stale copy that a thread still holds and will save.         *)
InProgressLeased == \A b \in Ids : disk[b].status = "in_progress" => disk[b].lease

(* A run that finishes leaves no bead leased: whoever holds a lease is     *)
(* waited for, and saves its bead without it.                              *)
NoOrphanLease == [][RunFinishes /\ NeverKilled => Leased(disk) = {}]_vars

HasFollowupOf(d, s, agent) ==
    \E c \in Ids : Exists(d, c) /\ Agent[c] = agent /\ Parent[c] \in {s, Tree[s]} /\ s \in d[c].deps
FollowedUp(s) == \A agent \in FollowupAgents : HasFollowupOf(disk, s, agent)
DoneDevelopers == {s \in Ids : Agent[s] = "developer" /\ ~IsCorrective(s) /\ IsDone(disk, s)}

(* When a run finishes, every completed developer bead, completed by its   *)
(* own worker or by that of its recovery bead, has a tester, a             *)
(* documentation and a review bead that depend on it (_create_followups),  *)
(* unless its worker raised over a new bead that the agent proposed with   *)
(* an unknown dependency: that one is done, and nobody tests or reviews it.*)
FollowupsExist ==
    [][RunFinishes /\ NeverKilled => \A s \in DoneDevelopers \ forsaken : FollowedUp(s)]_vars

(* When a run finishes, a completed recovery bead has completed the bead   *)
(* it recovers (_handle_recovery_completion).                              *)
RecoveryCompletes ==
    [][RunFinishes /\ NeverKilled =>
          \A c \in Ids : Kind[c] = "recovery" /\ IsDone(disk, c) => IsDone(disk, Parent[c])]_vars

Attended(b) ==
    \/ disk[b].human
    \/ disk[b].reason = "transient"
    \/ OpenCorrectives(disk, b) # {}

MayBeHelped == {b \in Ids : disk[b].status = "blocked" /\ CanPlanCorrective(b, disk[b])}

(* When a run finishes, a blocked bead that may have correctives waits for *)
(* a human, a retry or a corrective under way: "blocked beads, merge       *)
(* conflicts, and test failures automatically create corrective work items *)
(* rather than silently failing" (the repository's README.md).             *)
NothingStranded == [][RunFinishes => \A b \in MayBeHelped : Attended(b)]_vars

(* Where that fails, a corrective has itself blocked: no blocked bead is   *)
(* left without a corrective to its name.  The budget, the open corrective *)
(* and the retry for the last one are looked at in several places, by the  *)
(* main thread and by finalize, and any of them could leave a bead so.     *)
Stalled(b) == \E c \in CorrectiveChildren(disk, b) : disk[c].status = "blocked"
OnlyCorrectivesStall ==
    [][RunFinishes => \A b \in MayBeHelped : Attended(b) \/ Stalled(b)]_vars

(* Every run ends: the cycles, retries and correctives of one invocation   *)
(* do not keep command_run from returning.                                 *)
RunEnds == (mpc # "idle") ~> (mpc = "idle")

-----------------------------------------------------------------------------
(* The bead files, seen with the set of workers in flight, behave as the   *)
(* abstract life of a bead: one holder at a time moves it on, and it ends. *)

Lifecycle == INSTANCE BeadLifecycle WITH
    Beads <- Ids, Workers <- MaxWorkers,
    status <- [b \in Ids |-> disk[b].status],
    held <- InFlight

(* The scheduler implements BeadLifecycle: whichever thread writes a bead  *)
(* file, and whatever copy it writes, the file changes only as the life of *)
(* a bead allows, and a bead in flight is changed by its worker alone.     *)
ImplementsLifecycle == Lifecycle!LSpec
=============================================================================
