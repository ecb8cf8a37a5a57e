----------------------------- MODULE MergeGate -----------------------------
(***************************************************************************)
(* takt merge: command_merge brings the branch of a feature to main.  It   *)
(* is refused while a merge-conflict bead of the feature is not done; it   *)
(* merges main into the feature's worktree (preflight), runs the tests     *)
(* there, and then merges the branch into the checkout of main.  A failure *)
(* of the first two makes a merge-conflict bead, which the scheduler gives *)
(* to a developer agent; when that is done its followups are made, for     *)
(* which the command does not wait, no more than for any other bead of the *)
(* feature.  Meanwhile main advances, and the command may be killed.       *)
(*                                                                         *)
(* Git is external: a branch is the set of changes it contains, a merge    *)
(* unites two of them unless changes that only one side has clash.         *)
(***************************************************************************)
EXTENDS Naturals

CONSTANTS
    Mergers,        \* the processes that run takt merge
    FeatureWork,    \* the changes the feature's beads committed
    MainWork,       \* the changes that others may bring to main
    Fixes,          \* the changes a developer may commit for a merge-conflict bead
    LateWork,       \* the changes that beads still open may commit, as followups
    Clash,          \* pairs <<x, y>> of changes to the same lines
    StateChanges,   \* changes of bead files under .takt/beads only
    Breaks,         \* pairs <<x, y>> of changes that break the tests, unless one of Fixes is there
    MaxAttempts,    \* scheduler.max_corrective_attempts
    MaxOpen,        \* bound: beads that are open when the first command starts
    MaxMerges,      \* bound: invocations of takt merge
    MaxKills        \* bound: kills of the command

Changes == FeatureWork \cup MainWork \cup Fixes \cup LateWork

ASSUME MergeAssumption ==
    /\ Clash \subseteq Changes \X Changes
    /\ Breaks \subseteq Changes \X Changes
    /\ StateChanges \subseteq Changes
    /\ MaxAttempts \in Nat /\ MaxOpen \in Nat /\ MaxMerges \in Nat /\ MaxKills \in Nat

VARIABLES
    main,       \* what main contains
    branch,     \* what the feature branch contains
    worktree,   \* the feature's worktree: "clean", "merging", or "gone"
    theirs,     \* what it merges, or merged last: some main
    open,       \* beads of the feature, not for merge conflicts, that may still commit
    root,       \* the checkout of main: "clean" or "merging"
    incoming,   \* what it merges, or merged last: some branch
    pending,    \* merge-conflict beads that are not done
    resolved,   \* merge-conflict beads that are done
    pc,         \* where each command is
    skip,       \* --skip-rebase; --skip-tests, or no test_command
    base,       \* what of main the preflight of the command merged
    tested,     \* what its test gate ran on
    others,     \* history: the changes of other beads that its tests met uncommitted,
                \* or that came to the branch after them
    merges, kills

feature == <<branch, worktree, theirs, open>>
checkout == <<main, root, incoming>>
beads == <<pending, resolved>>
locals == <<skip, base, tested, others>>
command == <<pc, locals>>
vars == <<feature, checkout, beads, command, merges, kills>>

Steps == {"idle", "check", "preflight", "resolve", "abort", "tests", "cap", "emit", "merge", "settle"}

TypeOK ==
    /\ main \in SUBSET Changes /\ branch \in SUBSET Changes
    /\ worktree \in {"clean", "merging", "gone"} /\ root \in {"clean", "merging"}
    /\ theirs \in SUBSET Changes /\ incoming \in SUBSET Changes
    /\ open \in Nat
    /\ pending \in Nat /\ resolved \in Nat
    /\ pc \in [Mergers -> Steps]
    /\ skip \in [Mergers -> SUBSET {"rebase", "tests"}]
    /\ base \in [Mergers -> SUBSET Changes] /\ tested \in [Mergers -> SUBSET Changes]
    /\ others \in [Mergers -> SUBSET Changes]
    /\ merges \in Nat /\ kills \in Nat

Init ==
    /\ main = {} /\ branch = FeatureWork
    /\ worktree \in {"clean", "gone"} /\ root = "clean"
    /\ theirs = {} /\ incoming = {}
    /\ open \in 0..MaxOpen
    /\ pending = 0 /\ resolved = 0
    /\ pc = [p \in Mergers |-> "idle"]
    /\ skip = [p \in Mergers |-> {}]
    /\ base = [p \in Mergers |-> {}] /\ tested = [p \in Mergers |-> {}]
    /\ others = [p \in Mergers |-> {}]
    /\ merges = 0 /\ kills = 0

-----------------------------------------------------------------------------
(* A merge of the changes from into the branch that contains into.         *)
Clashes(into, from) == Clash \cap (((into \ from) \X (from \ into)) \cup ((from \ into) \X (into \ from)))

(* _resolve_bead_state_conflicts: clashes in bead files alone are resolved *)
(* for ours; if there are others, nothing is resolved.                     *)
Resolvable(into, from) == Clashes(into, from) \subseteq StateChanges \X StateChanges

Broken(content) == content \cap Fixes = {} /\ \E b \in Breaks : {b[1], b[2]} \subseteq content

Goto(p, step) == pc' = [pc EXCEPT ![p] = step]

(* The process ends, and with it what it knew.                             *)
End(p) ==
    /\ Goto(p, "idle")
    /\ skip' = [skip EXCEPT ![p] = {}] /\ base' = [base EXCEPT ![p] = {}]
    /\ tested' = [tested EXCEPT ![p] = {}] /\ others' = [others EXCEPT ![p] = {}]
On(p, step) == Goto(p, step) /\ UNCHANGED locals

StartMerge(p) ==
    /\ pc[p] = "idle" /\ merges < MaxMerges
    /\ merges' = merges + 1
    /\ \E options \in SUBSET {"rebase", "tests"} : skip' = [skip EXCEPT ![p] = options]
    /\ Goto(p, "check")
    /\ UNCHANGED <<feature, checkout, beads, base, tested, others, kills>>

(* Refused while a merge-conflict bead is not done; no other bead is       *)
(* looked at.                                                              *)
CheckNothing(p) ==    \* deviation: nothing is refused
    /\ pc[p] = "check"
    /\ Goto(p, "preflight")
    /\ UNCHANGED <<feature, checkout, beads, locals, merges, kills>>

CheckConflictBeads(p) ==
    /\ pc[p] = "check"
    /\ IF pending > 0 THEN End(p) ELSE On(p, "preflight")
    /\ UNCHANGED <<feature, checkout, beads, merges, kills>>

SkipsPreflight(p) == "rebase" \in skip[p] \/ worktree = "gone"

SkipPreflight(p) ==
    /\ pc[p] = "preflight" /\ SkipsPreflight(p)
    /\ skip' = [skip EXCEPT ![p] = @ \cup {"rebase"}]
    /\ Goto(p, "tests")
    /\ UNCHANGED <<feature, checkout, beads, base, tested, others, merges, kills>>

(* merge_main_into_branch.  Git refuses it in a worktree that a killed     *)
(* command left in the middle of a merge, and it may refuse it in one that *)
(* another bead is editing.                                                *)
Preflight(p) ==
    /\ pc[p] = "preflight" /\ ~SkipsPreflight(p)
    /\ IF worktree = "clean" /\ Clashes(branch, main) = {}
       THEN /\ branch' = branch \cup main /\ base' = [base EXCEPT ![p] = main]
            /\ Goto(p, "tests") /\ UNCHANGED <<worktree, theirs>>
       ELSE /\ worktree' = "merging" /\ Goto(p, "resolve")
            /\ theirs' = IF worktree = "clean" THEN main ELSE theirs
            /\ UNCHANGED <<branch, base>>
    /\ UNCHANGED <<open, checkout, beads, skip, tested, others, merges, kills>>

PreflightRefused(p) ==
    /\ pc[p] = "preflight" /\ ~SkipsPreflight(p) /\ open > 0
    /\ Goto(p, "resolve")
    /\ UNCHANGED <<feature, checkout, beads, locals, merges, kills>>

ResolveOther(p) ==    \* deviation: the clashes that are not resolved are forgotten
    /\ pc[p] = "resolve"
    /\ IF Resolvable(branch, theirs)
       THEN branch' = branch \cup theirs /\ worktree' = "clean"
       ELSE UNCHANGED <<branch, worktree>>
    /\ base' = [base EXCEPT ![p] = theirs] /\ Goto(p, "tests")
    /\ UNCHANGED <<theirs, open, checkout, beads, skip, tested, others, merges, kills>>

(* The fallback looks at the files in conflict, whichever merge they are   *)
(* of, and concludes that one.                                             *)
ResolveState(p) ==
    /\ pc[p] = "resolve"
    /\ IF worktree = "merging" /\ Resolvable(branch, theirs)
       THEN /\ branch' = branch \cup theirs /\ worktree' = "clean"
            /\ base' = [base EXCEPT ![p] = theirs] /\ Goto(p, "tests")
       ELSE Goto(p, "abort") /\ UNCHANGED <<branch, worktree, base>>
    /\ UNCHANGED <<theirs, open, checkout, beads, skip, tested, others, merges, kills>>

AbortNothing(p) ==    \* deviation: the worktree stays as the merge left it
    /\ pc[p] = "abort"
    /\ Goto(p, "cap")
    /\ UNCHANGED <<feature, checkout, beads, locals, merges, kills>>

AbortMerge(p) ==
    /\ pc[p] = "abort"
    /\ worktree' = IF worktree = "merging" THEN "clean" ELSE worktree
    /\ Goto(p, "cap")
    /\ UNCHANGED <<branch, theirs, open, checkout, beads, locals, merges, kills>>

SkipTests(p) ==
    /\ pc[p] = "tests" /\ "tests" \in skip[p]
    /\ Goto(p, "merge")
    /\ UNCHANGED <<feature, checkout, beads, locals, merges, kills>>

(* The tests run in the worktree, with what other beads have not committed *)
(* yet; if it is gone, in the checkout of main.  They may also time out or *)
(* not start.                                                              *)
Tested(p, content) ==
    /\ tested' = [tested EXCEPT ![p] = content]
    /\ \/ ~Broken(content) /\ Goto(p, "merge")
       \/ Goto(p, "cap")

TestGateInRoot(p) ==    \* deviation: the tests run in the checkout of main
    /\ pc[p] = "tests" /\ "tests" \notin skip[p]
    /\ others' = [others EXCEPT ![p] = {}] /\ Tested(p, main)
    /\ UNCHANGED <<feature, checkout, beads, skip, base, merges, kills>>

Uncommitted == IF open > 0 THEN LateWork ELSE {}

TestGate(p) ==
    /\ pc[p] = "tests" /\ "tests" \notin skip[p]
    /\ IF worktree = "gone" THEN others' = [others EXCEPT ![p] = {}] /\ Tested(p, main)
       ELSE \E edits \in SUBSET Uncommitted :
               others' = [others EXCEPT ![p] = edits] /\ Tested(p, branch \cup edits)
    /\ UNCHANGED <<feature, checkout, beads, skip, base, merges, kills>>

(* The cap counts every merge-conflict bead of the feature, done or not.   *)
CheckCapOfPending(p) ==    \* deviation: only those that are not done
    /\ pc[p] = "cap"
    /\ IF pending >= MaxAttempts THEN End(p) ELSE On(p, "emit")
    /\ UNCHANGED <<feature, checkout, beads, merges, kills>>

CheckCap(p) ==
    /\ pc[p] = "cap"
    /\ IF pending + resolved >= MaxAttempts THEN End(p) ELSE On(p, "emit")
    /\ UNCHANGED <<feature, checkout, beads, merges, kills>>

EmitConflictBead(p) ==
    /\ pc[p] = "emit"
    /\ pending' = pending + 1
    /\ End(p)
    /\ UNCHANGED <<feature, checkout, resolved, merges, kills>>

(* merge_branch, in the checkout of main, which an earlier command may     *)
(* have left in the middle of a merge.                                     *)
MergeBranch(p) ==
    /\ pc[p] = "merge"
    /\ IF root = "clean" /\ Clashes(main, branch) = {}
       THEN main' = main \cup branch /\ End(p) /\ UNCHANGED <<root, incoming>>
       ELSE /\ root' = "merging" /\ On(p, "settle")
            /\ incoming' = IF root = "clean" THEN branch ELSE incoming
            /\ UNCHANGED main
    /\ UNCHANGED <<feature, beads, merges, kills>>

(* Its fallback; if that does not help, the command raises, and the        *)
(* checkout stays in the middle of the merge.                              *)
SettleState(p) ==
    /\ pc[p] = "settle"
    /\ IF root = "merging" /\ Resolvable(main, incoming)
       THEN main' = main \cup incoming /\ root' = "clean"
       ELSE UNCHANGED <<main, root>>
    /\ End(p)
    /\ UNCHANGED <<feature, incoming, beads, merges, kills>>

Command(p) ==
    \/ CheckConflictBeads(p)
    \/ SkipPreflight(p) \/ Preflight(p) \/ PreflightRefused(p) \/ ResolveState(p) \/ AbortMerge(p)
    \/ SkipTests(p) \/ TestGate(p)
    \/ CheckCap(p) \/ EmitConflictBead(p)
    \/ MergeBranch(p) \/ SettleState(p)

-----------------------------------------------------------------------------
(* Others.                                                                 *)

(* commit_all at the end of a bead, in the worktree that ensure_worktree   *)
(* has made anew if it was gone.  It takes what other beads edited with    *)
(* it.                                                                     *)
CommitAll(work) ==
    /\ branch' = branch \cup work
    /\ others' = [p \in Mergers |-> IF pc[p] \in {"merge", "settle"} THEN others[p] \cup (work \ branch)
                                    ELSE others[p]]
    /\ worktree' = "clean"

(* A developer agent finishes a merge-conflict bead: it may have merged    *)
(* main, committed a fix, both, or missed the point.  In a worktree in the *)
(* middle of a merge, commit_all concludes that merge.  As of every        *)
(* developer bead, its tester and its documentation bead are created.      *)
ResolveConflict ==
    /\ pending > 0
    /\ pending' = pending - 1 /\ resolved' = resolved + 1
    /\ \E merged \in {{}, IF worktree = "merging" THEN theirs ELSE main}, work \in SUBSET (Fixes \cup Uncommitted) :
          CommitAll(merged \cup work)
    /\ open' = open + 2
    /\ UNCHANGED <<theirs, checkout, pc, skip, base, tested, merges, kills>>

(* Another bead of the feature is finished, at any time; it does not look  *)
(* at merges either.                                                       *)
FollowupCommits ==
    /\ open > 0 /\ open' = open - 1
    /\ \E work \in SUBSET LateWork :
          CommitAll(work \cup IF worktree = "merging" THEN theirs ELSE {})
    /\ UNCHANGED <<theirs, checkout, beads, pc, skip, base, tested, merges, kills>>

(* Someone brings a change to main; the operator aborts a merge in the     *)
(* checkout of main.                                                       *)
MainAdvances ==
    /\ root = "clean"
    /\ \E x \in MainWork \ main : main' = main \cup {x}
    /\ UNCHANGED <<feature, root, incoming, beads, command, merges, kills>>

RootAborted ==
    /\ root = "merging" /\ root' = "clean"
    /\ UNCHANGED <<feature, main, incoming, beads, command, merges, kills>>

Kill(p) ==
    /\ pc[p] # "idle" /\ kills < MaxKills
    /\ kills' = kills + 1
    /\ End(p)
    /\ UNCHANGED <<feature, checkout, beads, merges>>

(* Nobody merges any more.                                                 *)
Rest == merges = MaxMerges /\ UNCHANGED vars

Next ==
    \/ \E p \in Mergers : StartMerge(p) \/ Command(p) \/ Kill(p)
    \/ ResolveConflict \/ FollowupCommits \/ MainAdvances \/ RootAborted
    \/ Rest

Spec == Init /\ [][Next]_vars

-----------------------------------------------------------------------------
(* Properties.                                                             *)

Lands(p) == pc[p] \in {"merge", "settle"} /\ pc'[p] = "idle" /\ main' # main
Raises(p) == pc[p] = "settle" /\ pc'[p] = "idle" /\ root' = "merging" /\ kills' = kills
Gated(p) == skip[p] = {}

(* The command merges the branch, and not an older one that a killed       *)
(* command left in the checkout of main.                                   *)
Current(p) == pc[p] = "settle" => incoming = branch

(* A merge that skips nothing, with main as the preflight found it, leaves *)
(* on main exactly what its test gate passed, but for the changes of beads *)
(* that were still open: the preflight brings main into the branch before  *)
(* the tests, and nothing else enters the branch after them.  What those   *)
(* beads commit after the tests lands untested.                            *)
LandsWhatWasTested ==
    [][\A p \in Mergers : Lands(p) /\ Gated(p) /\ main = base[p] /\ Current(p)
           => /\ main' \ others[p] = tested[p] \ others[p]
              /\ others[p] = {} => ~Broken(main')]_vars

(* The final merge raises, and leaves the checkout of main in the middle   *)
(* of it, only if the preflight was skipped, main advanced after it, or    *)
(* the checkout was left so before: the preflight finds every other        *)
(* conflict in the worktree, where it does no harm.                        *)
PreflightFindsConflicts ==
    [][\A p \in Mergers : Raises(p) /\ Current(p)
           => "rebase" \in skip[p] \/ main # base[p]]_vars

(* Nothing lands while a merge-conflict bead is not done (README: they     *)
(* "block the merge until resolved"), although the command looks only once *)
(* at its start.                                                           *)
BlockedUntilResolved == [][(\E p \in Mergers : Lands(p)) => pending = 0]_vars

(* A command that does not skip the preflight makes its merge-conflict     *)
(* bead when the worktree is out of any merge, even if an earlier command  *)
(* was killed in the middle of one: the commit_all of whoever resolves the *)
(* bead would conclude a half-done merge.  (With --skip-rebase it may.)    *)
CleanForResolver ==
    [][pending' > pending
           => worktree # "merging" \/ \E p \in Mergers : pc[p] = "emit" /\ "rebase" \in skip[p]]_vars

(* A feature never gets more merge-conflict beads than                     *)
(* max_corrective_attempts, whatever happens between counting them and     *)
(* creating one.                                                           *)
ConflictBeadCap == pending + resolved <= MaxAttempts
=============================================================================
